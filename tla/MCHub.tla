------------------------------- MODULE MCHub -------------------------------
EXTENDS Hub

\* The ball comes back to where it was, the paddle does not: no world recurs.
MCWorld == [ t \in 1 .. MaxTick |-> [ ball |-> t % 2, paddle |-> t \div 2 ] ]
=============================================================================
