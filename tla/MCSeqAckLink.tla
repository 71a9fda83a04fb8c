--------------------------- MODULE MCSeqAckLink ---------------------------
EXTENDS SeqAckLink, TLC

\* One end streams past the wraparound, the other answers now and then.
MCMaxSent == ("server" :> 9) @@ ("client" :> 2)

\* The server answers with its states, the client with inputs or with
\* standalone acks (netplay/server.go, netplay/client.go).
MCPolicies ==
  { ("server" :> "PiggybackOnly") @@ ("client" :> "DelayedPiggyback") }

\* got without the receipts that are too old for the bitfield and, as the window
\* of sends is no longer than it, for any send still in flight: neither a step
\* nor a property of MCSeqAckLink.cfg looks at those again.
MCRecent(e) == { n \in got[e] : n >= Heard(e) - AckBits }

MCView ==
  << policy, layer, dirtySince, now, link, sent, handed,
     [ e \in End |-> MCRecent(e) ] >>
=============================================================================
