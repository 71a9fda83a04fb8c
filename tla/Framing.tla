------------------------------ MODULE Framing ------------------------------
(***************************************************************************)
(* Messages larger than a frame (transport/framing/framing.go) over the    *)
(* reliable channel of the in-process link (transport/pipe/pipe.go), one   *)
(* direction.  Send cuts a message into chunks and queues them one by one; *)
(* a full queue, a closed link or a cancelled context stops it half-way.   *)
(* A pump carries the queue to the peer's inbox; the peer's receive loop   *)
(* absorbs frame after frame and reassembles.                              *)
(*                                                                         *)
(* A message is known by the number of its Send; a chunk by that number    *)
(* and its index.  Sizes are those of the payload; the 32-bit arithmetic   *)
(* of Absorb is kept.                                                      *)
(***************************************************************************)
EXTENDS Integers, Sequences, FiniteSets

CONSTANTS
  ChunkSize,       \* the sender's Limits: payload bytes per frame
  MaxMessageSize,  \* the sender's Limits: bytes of one message
  RecvChunkSize,   \* the receiver's Limits
  RecvMaxSize,     \* the receiver's Limits: bytes of one message
  MaxPending,      \* the receiver's Limits: partial reassemblies kept at once
  MaxChunks,       \* the chunk count is 16 bits wide: 0xFFFF
  MsgIds,          \* the message id is 32 bits wide: 2^32
  HalfWord,        \* int32 runs from -HalfWord to HalfWord - 1: 2^31
  RelQCap,         \* frames the reliable queue holds (256)
  InboxCap,        \* frames the peer's inbox holds (256)
  Sizes,           \* payload sizes to consider
  MaxSends         \* bound: messages sent

\* Limits.Validate at both ends, whose limits need not agree and are of the
\* width the sizes are counted in; fewer messages than ids.
ASSUME FramingAssumption ==
  /\ ChunkSize \in Nat \ {0} /\ MaxMessageSize \in Nat /\ ChunkSize <= MaxMessageSize
  /\ RecvChunkSize \in Nat \ {0} /\ RecvMaxSize \in Nat /\ RecvChunkSize <= RecvMaxSize
  /\ MaxPending \in Nat \ {0}
  /\ MaxChunks \in Nat \ {0} /\ HalfWord \in Nat \ {0} /\ RecvMaxSize < HalfWord
  /\ RelQCap \in Nat \ {0} /\ InboxCap \in Nat \ {0}
  /\ Sizes \subseteq Nat /\ MaxSends \in Nat
  /\ MsgIds \in Nat /\ MaxSends < MsgIds

VARIABLES
  nextID,     \* sender: id of the next message
  sending,    \* sender: the message Send is cutting, or Idle
  relQ,       \* the link: the reliable queue
  hand,       \* the link: the frame the pump holds, as a sequence of at most one
  pump,       \* the link: the pump goroutine
  inbox,      \* the peer's inbox
  pending,    \* receiver: partial reassemblies by message id
  reader,     \* receiver: the receive loop
  closed,     \* the ends that were closed
  sent,       \* history: size of the n-th message Send took
  whole,      \* history: the messages Send queued to the last chunk
  halfway,    \* history: the messages Send gave up after a chunk was queued
  delivered   \* history: what Absorb returned, as sequences of chunks

vars == << nextID, sending, relQ, hand, pump, inbox, pending, reader, closed,
           sent, whole, halfway, delivered >>

Idle == [ n |-> 0 ]

Min2(a, b) == IF a < b THEN a ELSE b

Int32(x) == ((x + HalfWord) % (2 * HalfWord)) - HalfWord

ChunkCount(size) ==
  IF size = 0 THEN 1 ELSE (size + ChunkSize - 1) \div ChunkSize

\* The chunk a frame carries, and the frame.
Chunk(n, i) == << n, i >>

FrameOf(s) ==
  [ id |-> s.id, index |-> s.next, count |-> s.count,
    payload |-> Chunk(s.n, s.next),
    size |-> Min2(ChunkSize, sent[s.n] - s.next * ChunkSize) ]

Init ==
  /\ nextID = 0
  /\ sending = Idle
  /\ relQ = << >> /\ hand = << >> /\ inbox = << >>
  /\ pump = "running" /\ reader = "polling"
  /\ pending = << >>
  /\ closed = {}
  /\ sent = << >> /\ whole = {} /\ halfway = {}
  /\ delivered = << >>

-----------------------------------------------------------------------------
(* The sender.  Sends are serialized.                                      *)

\* Send takes a message; one over the limits is refused: one too large before
\* it has an id, one of too many chunks after.
SendStarts(size) ==
  /\ sending = Idle
  /\ Len(sent) < MaxSends
  /\ size <= MaxMessageSize
  /\ nextID' = (nextID + 1) % MsgIds
  /\ sent' = Append(sent, size)
  /\ sending' = IF ChunkCount(size) > MaxChunks
                  THEN Idle
                  ELSE [ n |-> Len(sent'), id |-> nextID, next |-> 0,
                         count |-> ChunkCount(size) ]
  /\ UNCHANGED << relQ, hand, pump, inbox, pending, reader, closed, whole,
                  halfway, delivered >>

\* SendReliable queues the next frame.  On a closed link that may still happen:
\* select picks among the cases that are ready.
SendQueues ==
  /\ sending # Idle
  /\ Len(relQ) < RelQCap
  /\ relQ' = Append(relQ, FrameOf(sending))
  /\ IF sending.next + 1 = sending.count
       THEN /\ sending' = Idle
            /\ whole' = whole \cup {sending.n}
       ELSE /\ sending' = [ sending EXCEPT !.next = @ + 1 ]
            /\ UNCHANGED whole
  /\ UNCHANGED << nextID, hand, pump, inbox, pending, reader, closed, sent,
                  halfway, delivered >>

\* SendReliable fails - the queue is full, the link closed or the context
\* cancelled - and Send returns, whatever it has queued.
SendFails ==
  /\ sending # Idle
  /\ halfway' = IF sending.next > 0 THEN halfway \cup {sending.n} ELSE halfway
  /\ sending' = Idle
  /\ UNCHANGED << nextID, relQ, hand, pump, inbox, pending, reader, closed,
                  sent, whole, delivered >>

-----------------------------------------------------------------------------
(* The link.                                                               *)

\* Mutant of PumpTakes: the newest frame is taken first.
PumpTakesNewest ==
  /\ pump = "running"
  /\ hand = << >> /\ relQ # << >>
  /\ hand' = << relQ[Len(relQ)] >>
  /\ relQ' = SubSeq(relQ, 1, Len(relQ) - 1)
  /\ UNCHANGED << nextID, sending, pump, inbox, pending, reader, closed, sent,
                  whole, halfway, delivered >>

PumpTakes ==
  /\ pump = "running"
  /\ hand = << >> /\ relQ # << >>
  /\ hand' = << Head(relQ) >>
  /\ relQ' = Tail(relQ)
  /\ UNCHANGED << nextID, sending, pump, inbox, pending, reader, closed, sent,
                  whole, halfway, delivered >>

PumpDelivers ==
  /\ pump = "running"
  /\ hand # << >> /\ Len(inbox) < InboxCap
  /\ inbox' = inbox \o hand
  /\ hand' = << >>
  /\ UNCHANGED << nextID, sending, relQ, pump, pending, reader, closed, sent,
                  whole, halfway, delivered >>

\* The pump sees its own end closed, or the peer's with a frame in hand.
PumpEnds ==
  /\ pump = "running"
  /\ "sender" \in closed \/ ("receiver" \in closed /\ hand # << >>)
  /\ pump' = "ended"
  /\ UNCHANGED << nextID, sending, relQ, hand, inbox, pending, reader, closed,
                  sent, whole, halfway, delivered >>

Close(e) ==
  /\ e \notin closed
  /\ closed' = closed \cup {e}
  /\ UNCHANGED << nextID, sending, relQ, hand, pump, inbox, pending, reader,
                  sent, whole, halfway, delivered >>

-----------------------------------------------------------------------------
(* The receiver.                                                           *)

\* Absorb's test on the announced count, in the width the code computes it.
Oversized(count) ==
  Int32(Int32(count) * RecvChunkSize) > Int32(RecvMaxSize + RecvChunkSize)

NewAssembly(count) ==
  [ count |-> count, got |-> 0, size |-> 0, chunks |-> [ i \in 1 .. count |-> << >> ] ]

Assembly(f) == IF f.id \in DOMAIN pending THEN pending[f.id] ELSE NewAssembly(f.count)

\* Mutant of With: a chunk is counted twice.
WithTwice(as, f) ==
  [ as EXCEPT !.got = @ + 2, !.size = Int32(@ + f.size), !.chunks[f.index + 1] = f.payload ]

With(as, f) ==
  [ as EXCEPT !.got = @ + 1, !.size = Int32(@ + f.size), !.chunks[f.index + 1] = f.payload ]

\* Mutant of Without: a finished reassembly keeps its place.
WithoutNone(id) == pending

Without(id) == [ j \in DOMAIN pending \ {id} |-> pending[j] ]

Storing(as, id) == [ j \in DOMAIN pending \cup {id} |-> IF j = id THEN as ELSE pending[j] ]

Full == Cardinality(DOMAIN pending) >= MaxPending

\* Mutant of Dropped: a message is refused at the bound even if it is open.
DroppedWhenFull(f) == Oversized(f.count) \/ (f.count > 1 /\ Full)

\* Absorb's early returns before the size counts: pending stays as it was.  A
\* message of one frame needs no place.
Dropped(f) ==
  \/ f.count = 0 \/ f.index >= f.count
  \/ Oversized(f.count)
  \/ f.id \notin DOMAIN pending /\ f.count > 1 /\ Full
  \/ Assembly(f).count # f.count
  \/ Assembly(f).chunks[f.index + 1] # << >>

\* One turn of the receive loop: Receive and Absorb.
Absorb ==
  LET f == Head(inbox)
      as == With(Assembly(f), f)
      fits == f.count = 1 \/ as.size <= RecvMaxSize
  IN  /\ reader \in { "polling", "waiting" }
      /\ inbox # << >>
      /\ inbox' = Tail(inbox)
      /\ reader' = "polling"
      /\ \/ /\ Dropped(f)
            /\ UNCHANGED << pending, delivered >>
         \/ /\ ~Dropped(f) /\ ~fits
            /\ pending' = Without(f.id)
            /\ UNCHANGED delivered
         \/ /\ ~Dropped(f) /\ fits /\ as.got < as.count
            /\ pending' = Storing(as, f.id)
            /\ UNCHANGED delivered
         \/ /\ ~Dropped(f) /\ fits /\ as.got >= as.count
            /\ pending' = Without(f.id)
            /\ delivered' = Append(delivered, as.chunks)
      /\ UNCHANGED << nextID, sending, relQ, hand, pump, closed, sent, whole,
                      halfway >>

\* Receive finds the inbox empty and waits; from then on, what arrives and the
\* end of the link race.
ReaderWaits ==
  /\ reader = "polling"
  /\ inbox = << >>
  /\ reader' = "waiting"
  /\ UNCHANGED << nextID, sending, relQ, hand, pump, inbox, pending, closed,
                  sent, whole, halfway, delivered >>

ReaderEnds ==
  /\ reader = "waiting"
  /\ closed # {}
  /\ reader' = "ended"
  /\ UNCHANGED << nextID, sending, relQ, hand, pump, inbox, pending, closed,
                  sent, whole, halfway, delivered >>

Next ==
  \/ \E size \in Sizes : SendStarts(size)
  \/ SendQueues \/ SendFails
  \/ PumpTakes \/ PumpDelivers \/ PumpEnds
  \/ Absorb \/ ReaderWaits \/ ReaderEnds
  \/ \E e \in { "sender", "receiver" } : Close(e)

\* The pump and the receive loop are goroutines that are scheduled.
Fairness ==
  /\ WF_vars(PumpTakes) /\ WF_vars(PumpDelivers)
  /\ WF_vars(Absorb)

Spec == Init /\ [][Next]_vars /\ Fairness

-----------------------------------------------------------------------------

Messages == 1 .. Len(sent)

\* The message a reassembly is for: one id per Send.
MessageOf(id) == id + 1

\* Send n as the receiver's limits see it: too many chunks, or too many bytes
\* in more than one chunk.
Refused(n) ==
  \/ Oversized(ChunkCount(sent[n]))
  \/ ChunkCount(sent[n]) > 1 /\ sent[n] > RecvMaxSize

ChunksOf(n) == [ i \in 1 .. ChunkCount(sent[n]) |-> Chunk(n, i - 1) ]

TypeOK ==
  /\ nextID \in 0 .. MsgIds - 1
  /\ sending # Idle => sending.n = Len(sent) /\ sending.next < sending.count
  /\ Len(relQ) <= RelQCap /\ Len(hand) <= 1 /\ Len(inbox) <= InboxCap
  /\ pump \in { "running", "ended" }
  /\ reader \in { "polling", "waiting", "ended" }
  /\ Cardinality(DOMAIN pending) <= MaxPending
  /\ closed \subseteq { "sender", "receiver" }
  /\ sent \in Seq(Sizes) /\ Len(sent) <= MaxSends
  /\ whole \subseteq Messages /\ halfway \subseteq Messages

\* What Absorb returns is one message somebody sent, all of it, each chunk in
\* its place: whatever was given up half-way before and however the receiver's
\* limits differ, no chunk of one message ends up in another.
DeliveredWhole ==
  \A d \in DOMAIN delivered : \E n \in whole : delivered[d] = ChunksOf(n)

\* The reliable stream stays ordered through the reassembly: messages come out
\* in the order of their Sends and none twice.
DeliveredInOrder ==
  \A d, e \in DOMAIN delivered : d < e => delivered[d][1][1] < delivered[e][1][1]

\* A place among the partial reassemblies is lost only to a message its sender
\* gave up or that is larger than this end admits: everything else that waits
\* for chunks is the one message under way.
PlacesAccounted ==
  LET waiting == { MessageOf(id) : id \in DOMAIN pending }
  IN  \A n, m \in { k \in waiting : k \notin halfway /\ ~Refused(k) } : n = m

\* The earlier messages that may cost a place for good.
Ahead(n) == { m \in Messages : m < n /\ (m \in halfway \/ Refused(m)) }

Arrivable == { n \in whole : ~Refused(n) /\ Cardinality(Ahead(n)) < MaxPending }

\* A message queued to its last chunk arrives, unless an end is closed, as long
\* as the messages that cost a place for good leave one.
WholeSendsArrive ==
  \A n \in 1 .. MaxSends :
    n \in Arrivable
      ~> closed # {} \/ \E d \in DOMAIN delivered : delivered[d][1][1] = n
=============================================================================
