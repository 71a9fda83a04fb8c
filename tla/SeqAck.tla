------------------------------ MODULE SeqAck ------------------------------
(***************************************************************************)
(* One end of the sequence/ack layer (transport/seqack/seqack.go): the     *)
(* frontend that numbers outgoing datagrams, reports which ones arrived in *)
(* a highest-plus-bitfield record, and surfaces the newest application tag *)
(* the peer confirmed.                                                     *)
(*                                                                         *)
(* The layer is a record and each method an operator on it, so that the    *)
(* same definitions run on both ends of a link (SeqAckLink) and below the  *)
(* state stream (StateStream).  Sequence numbers wrap at SeqMod, which is  *)
(* 2^32 in the code.                                                       *)
(***************************************************************************)
EXTENDS Integers, FiniteSets

CONSTANTS
  HalfSeq,        \* half of the sequence space: 2^31 in the code
  AckBits,        \* receipts reported below the highest one: 32
  InflightWindow  \* sends remembered until they are confirmed: 128

ASSUME SeqAckAssumption ==
  /\ HalfSeq \in Nat \ {0}
  /\ AckBits \in Nat \ {0}
  /\ AckBits < HalfSeq
  /\ InflightWindow \in Nat \ {0}

SeqMod == 2 * HalfSeq

SeqNo == 0 .. SeqMod - 1

NextSeqNo(s) == IF s + 1 = SeqMod THEN 0 ELSE s + 1

\* a - b on unsigned integers of that width.
Distance(a, b) == IF a >= b THEN a - b ELSE a - b + SeqMod

\* int32(a-b) > 0: a follows b, whichever side of the wraparound they are on.
Newer(a, b) == Distance(a, b) \in 1 .. HalfSeq - 1

\* No tag confirmed yet (confirmedOK = false).
NoTag == -1

(***************************************************************************)
(* The layer.  inflight is the ring of sends, oldest first; tags increase  *)
(* with every send, so the ring is kept as the set of its entries.         *)
(***************************************************************************)
NewLayer ==
  [ nextSeq      |-> 0,
    inflight     |-> {},
    anyReceived  |-> FALSE,
    recvHighest  |-> 0,
    recvBits     |-> {},
    deliveredAny |-> FALSE,
    delivered    |-> 0,
    ackDirty     |-> FALSE,
    confirmed    |-> NoTag ]

Flight(seq, tag) == [ seq |-> seq, tag |-> tag, acked |-> FALSE ]

\* What goes on the wire: the number, the current ack record and the payload.
Frame(l, ack, payload) ==
  [ ack |-> ack, seq |-> l.nextSeq, ackSeq |-> l.recvHighest,
    ackBits |-> l.recvBits, payload |-> payload ]

\* The entries left once those older than cut have retired, by the window or
\* by their age.
Kept(l, tag, cut) == { f \in l.inflight \cup {Flight(l.nextSeq, tag)} : f.tag >= cut }

\* Mutant of RetiresTo: the window never closes.
RetiresAny(l, tag, cut) == cut <= tag

\* cut retires enough entries, and never the one being sent.
RetiresTo(l, tag, cut) ==
  /\ cut <= tag
  /\ Cardinality(Kept(l, tag, cut)) <= InflightWindow

\* SendDatagram: the frame is Frame(l, FALSE, payload).
AfterSend(l, tag, cut) ==
  [ l EXCEPT !.nextSeq  = NextSeqNo(@),
             !.inflight = Kept(l, tag, cut),
             !.ackDirty = FALSE ]

\* MaybeFlushAck once the policy calls for a standalone ack: it takes a
\* sequence number, and no flight waits for it.
AfterFlush(l) == [ l EXCEPT !.nextSeq = NextSeqNo(@), !.ackDirty = FALSE ]

(***************************************************************************)
(* Absorb                                                                  *)
(***************************************************************************)

\* Mutant of ShiftedBits: the previous highest is forgotten.
ShiftedOnly(l, seq) ==
  { b \in 1 .. AckBits : b - Distance(seq, l.recvHighest) \in l.recvBits }

\* noteReceiptLocked, the bits of recvHighest-1 .. recvHighest-AckBits.
ShiftedBits(l, seq) ==
  LET shift == Distance(seq, l.recvHighest)
  IN  IF shift >= AckBits THEN {}
      ELSE { b \in 1 .. AckBits : b = shift \/ b - shift \in l.recvBits }

Noted(l, seq) ==
  LET back == Distance(l.recvHighest, seq)
  IN  IF ~l.anyReceived
        THEN [ l EXCEPT !.anyReceived = TRUE, !.recvHighest = seq, !.ackDirty = TRUE ]
      ELSE IF Newer(seq, l.recvHighest)
        THEN [ l EXCEPT !.recvBits = ShiftedBits(l, seq), !.recvHighest = seq,
                        !.ackDirty = TRUE ]
      ELSE [ l EXCEPT !.recvBits = @ \cup ({back} \cap 1 .. AckBits),
                      !.ackDirty = TRUE ]

\* Mutant of Reports: the bitfield is read one bit off.
ReportsOneOff(ackSeq, ackBits, seq) ==
  \/ seq = ackSeq
  \/ /\ Newer(ackSeq, seq)
     /\ Distance(ackSeq, seq) - 1 \in ackBits

\* The ack record names seq.
Reports(ackSeq, ackBits, seq) ==
  \/ seq = ackSeq
  \/ /\ Newer(ackSeq, seq)
     /\ Distance(ackSeq, seq) \in ackBits

\* The sends a frame newly confirms.
NewlyAcked(l, f) ==
  { x \in l.inflight : ~x.acked /\ Reports(f.ackSeq, f.ackBits, x.seq) }

\* The newest of a set of tags.
Newest(S) == CHOOSE t \in S : \A u \in S : u <= t

\* processAckLocked
Acked(l, f) ==
  LET hit == NewlyAcked(l, f)
  IN  [ l EXCEPT
          !.inflight  = { IF x \in hit THEN [ x EXCEPT !.acked = TRUE ] ELSE x :
                            x \in l.inflight },
          !.confirmed = Newest({@} \cup { x.tag : x \in hit }) ]

\* Mutant of Delivers: sequence numbers are compared as they are.
DeliversLarger(l, f) == ~f.ack /\ (~l.deliveredAny \/ f.seq > l.delivered)

\* The payload is new to the caller: not a standalone ack, not overtaken.
Delivers(l, f) == ~f.ack /\ (~l.deliveredAny \/ Newer(f.seq, l.delivered))

Absorbed(l, f) ==
  LET m == Acked(Noted(l, f.seq), f)
  IN  IF Delivers(l, f)
        THEN [ m EXCEPT !.deliveredAny = TRUE, !.delivered = f.seq ]
        ELSE m
=============================================================================
