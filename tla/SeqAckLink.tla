---------------------------- MODULE SeqAckLink ----------------------------
(***************************************************************************)
(* Two ends of the sequence/ack layer over one datagram channel that loses *)
(* and reorders (transport.Conn, SendUnreliable).  A frame that is not     *)
(* received before its sender is MaxLag frames further is a lost frame.    *)
(*                                                                         *)
(* The n-th frame an end numbers (from 0) carries n as a history field:    *)
(* the wire has only n modulo SeqMod, and the properties say that the      *)
(* layer never mistakes one for another.  A datagram's tag is its n.       *)
(***************************************************************************)
EXTENDS SeqAck

CONSTANTS
  End,          \* the two ends
  Policies,     \* the pairs of ack transmission policies to consider
  AckDeadline,  \* how long DelayedPiggyback waits, in clock units
  MaxSent,      \* bound: frames each end numbers
  MaxLag,       \* bound: how far apart, in frames, the ends may drift
  MaxTime       \* bound: clock

ASSUME LinkAssumption ==
  /\ IsFiniteSet(End) /\ Cardinality(End) = 2
  /\ Policies \subseteq [ End -> { "PiggybackOnly", "Dedicated", "DelayedPiggyback" } ]
  /\ AckDeadline \in Nat
  /\ MaxSent \in [ End -> Nat ]
  /\ MaxLag \in 1 .. HalfSeq - 1
  /\ MaxTime \in Nat

VARIABLES
  policy,      \* policy[e]: the ack policy e was built with
  layer,       \* layer[e]: e's sequence/ack layer
  dirtySince,  \* dirtySince[e]: ackDirtySince
  now,         \* the clock
  link,        \* link[e]: frames sent towards e and not yet received
  sent,        \* history: frames e has numbered
  got,         \* history: numbers of the frames e received
  handed       \* history: number of the last frame e handed to its caller

vars == << policy, layer, dirtySince, now, link, sent, got, handed >>

Peer(e) == CHOOSE p \in End : p # e

\* The newest frame e received, -1 when there is none.
Heard(e) == Newest({-1} \cup got[e])

\* What e has in flight and the link has not dropped once e numbers another
\* frame.
Alive(e) == { f \in link[Peer(e)] : sent[e] - f.n < MaxLag }

Datagram(e, ack) ==
  LET f == Frame(layer[e], ack, sent[e])
  IN  [ ack |-> f.ack, seq |-> f.seq, ackSeq |-> f.ackSeq, ackBits |-> f.ackBits,
        n |-> f.payload, heard |-> Heard(e) ]

TypeOK ==
  /\ policy \in Policies
  /\ \A e \in End :
       /\ layer[e].nextSeq \in SeqNo
       /\ layer[e].recvHighest \in SeqNo
       /\ layer[e].recvBits \subseteq 1 .. AckBits
       /\ layer[e].delivered \in SeqNo
       /\ Cardinality(layer[e].inflight) <= InflightWindow
       /\ dirtySince[e] \in 0 .. now
  /\ now \in 0 .. MaxTime

Init ==
  /\ policy \in Policies
  /\ layer = [ e \in End |-> NewLayer ]
  /\ dirtySince = [ e \in End |-> 0 ]
  /\ now = 0
  /\ link = [ e \in End |-> {} ]
  /\ sent = [ e \in End |-> 0 ]
  /\ got = [ e \in End |-> {} ]
  /\ handed = [ e \in End |-> -1 ]

-----------------------------------------------------------------------------

\* SendDatagram of a new payload: old flights retire, the frame carries the
\* ack record.
Send(e) ==
  /\ sent[e] < MaxSent[e]
  /\ \E cut \in 0 .. sent[e] :
       /\ RetiresTo(layer[e], sent[e], cut)
       /\ layer' = [ layer EXCEPT ![e] = AfterSend(@, sent[e], cut) ]
  /\ link' = [ link EXCEPT ![Peer(e)] = Alive(e) \cup { Datagram(e, FALSE) } ]
  /\ sent' = [ sent EXCEPT ![e] = @ + 1 ]
  /\ UNCHANGED << policy, dirtySince, now, got, handed >>

\* The policy calls for a standalone ack.
FlushDue(e) ==
  /\ layer[e].ackDirty
  /\ \/ policy[e] = "Dedicated"
     \/ /\ policy[e] = "DelayedPiggyback"
        /\ now - dirtySince[e] >= AckDeadline

MaybeFlushAck(e) ==
  /\ FlushDue(e)
  /\ sent[e] < MaxSent[e]
  /\ layer' = [ layer EXCEPT ![e] = AfterFlush(@) ]
  /\ link' = [ link EXCEPT ![Peer(e)] = Alive(e) \cup { Datagram(e, TRUE) } ]
  /\ sent' = [ sent EXCEPT ![e] = @ + 1 ]
  /\ UNCHANGED << policy, dirtySince, now, got, handed >>

\* The link keeps its ends within MaxLag frames of each other: what arrives is
\* neither ancient nor far ahead - of the receipts, of the payloads - and
\* neither is the record it carries.
Timely(e, f) ==
  /\ sent[Peer(e)] - f.n <= MaxLag
  /\ f.n - Heard(e) <= MaxLag
  /\ handed[e] >= 0 => f.n - handed[e] <= MaxLag
  /\ sent[e] - f.heard <= MaxLag + 1

Absorb(e) ==
  \E f \in link[e] :
    /\ Timely(e, f)
    /\ layer' = [ layer EXCEPT ![e] = Absorbed(@, f) ]
    /\ dirtySince' = [ dirtySince EXCEPT ![e] = now ]
    /\ link' = [ link EXCEPT ![e] = @ \ {f} ]
    /\ got' = [ got EXCEPT ![e] = @ \cup {f.n} ]
    /\ handed' = [ handed EXCEPT ![e] = IF Delivers(layer[e], f) THEN f.n ELSE @ ]
    /\ UNCHANGED << policy, now, sent >>

\* Time passes; the ticker that drives MaybeFlushAck is faster than the clock.
Tick ==
  /\ now < MaxTime
  /\ \A e \in End : ~FlushDue(e)
  /\ now' = now + 1
  /\ UNCHANGED << policy, layer, dirtySince, link, sent, got, handed >>

Next ==
  \/ \E e \in End : Send(e) \/ MaybeFlushAck(e) \/ Absorb(e)
  \/ Tick

Spec == Init /\ [][Next]_vars

-----------------------------------------------------------------------------

\* No number comes round while a send that bears it is in flight.  An end that
\* sends keeps it so: its window closes long before.  One that sent once and
\* then flushed a whole round of standalone acks would not - nothing retires
\* between sends - and would take the next receipt of that number for its own.
NumbersFresh ==
  \A e \in End : \A x \in layer[e].inflight : sent[e] - x.tag <= SeqMod

\* What Confirmed and the loss estimate rest on: a send counts as acked only
\* when the peer received it - or when it is the first one, because a peer
\* that has received nothing yet reports sequence number 0 (frameLocked sends
\* recvHighest whether or not anyReceived).
AckedWasReceived ==
  \A e \in End : \A x \in layer[e].inflight :
    x.acked => x.tag \in got[Peer(e)] \cup {0}

\* The receipts of the last AckBits numbers that recvBits and recvHighest
\* record are exactly those that took place, but for one: a jump of exactly
\* AckBits clears the bit of the previous highest.
RecordIsExact ==
  \A e \in End : got[e] # {} =>
    LET high == Heard(e)
        real == { b \in 1 .. AckBits : high - b \in got[e] }
    IN  /\ layer[e].recvHighest = high % SeqMod
        /\ layer[e].recvBits \subseteq real
        /\ real \ layer[e].recvBits \subseteq {AckBits}

\* A frame is handed up if and only if it carries a payload and is newer than
\* all handed up before, on whatever side of the wraparound it is: nothing is
\* delivered twice or backwards, and nothing fresh is taken for stale.
DeliversFresh ==
  \A e \in End : \A f \in link[e] :
    Timely(e, f) => (Delivers(layer[e], f) <=> (~f.ack /\ f.n > handed[e]))
=============================================================================
