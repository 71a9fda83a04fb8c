-------------------------- MODULE MCStateStream --------------------------
EXTENDS StateStream

\* The ball comes back to where it was, the paddle does not: no world recurs, and
\* a delta applied to another version than its baseline gives one that nobody
\* committed.
MCWorld == [ t \in 1 .. MaxTick |-> [ ball |-> t % 2, paddle |-> t \div 2 ] ]

\* A player that acks with its inputs, and a spectator.
MCClients == { << "player", "PiggybackOnly" >>, << "spectator", "Dedicated" >> }
==========================================================================
