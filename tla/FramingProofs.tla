--------------------------- MODULE FramingProofs ---------------------------
(***************************************************************************)
(* What reassembly guarantees for any limits at either end, any sizes and  *)
(* any number of messages below the number of ids: a message that Absorb   *)
(* returns is one that was sent, whole, and they come in the order they    *)
(* were sent, whatever is given up half-way, refused or cut off; and a     *)
(* place in the receiver's table is lost to nothing else.                  *)
(***************************************************************************)
EXTENDS Framing, SequenceTheorems, FiniteSetTheorems, TLAPS

-----------------------------------------------------------------------------
(* Definitions.                                                            *)

Chunks == (Nat \X Nat) \cup { << >> }
Frames == [ id : Nat, index : Nat, count : Nat, payload : Nat \X Nat, size : Int ]
Cuts == [ n : Nat, id : Nat, next : Nat, count : Nat ]
Texts == UNION { [ 1 .. c -> Chunks ] : c \in Nat }

\* The frames under way, oldest first.
Wire == inbox \o hand \o relQ

Typed ==
  /\ sent \in Seq(Sizes) /\ Len(sent) <= MaxSends
  /\ nextID = Len(sent)
  /\ inbox \in Seq(Frames) /\ hand \in Seq(Frames) /\ relQ \in Seq(Frames)
  /\ whole \subseteq Messages
  /\ sending = Idle \/ sending \in Cuts

\* Chunk i of the message with id a is cut before chunk k of that with id b.
Earlier(a, i, b, k) == a < b \/ (a = b /\ i < k)

\* A frame is a chunk of the message its id says, and the last one is queued
\* only by a Send that is through.
Sound(f) ==
  /\ f.id + 1 \in Messages
  /\ f.count = ChunkCount(sent[f.id + 1])
  /\ f.index < f.count
  /\ f.payload = Chunk(f.id + 1, f.index)
  /\ f.size = Min2(ChunkSize, sent[f.id + 1] - f.index * ChunkSize)
  /\ f.index + 1 = f.count => f.id + 1 \in whole

\* All that is still to come was cut after chunk i of id a.
Behind(a, i) ==
  /\ \A k \in 1 .. Len(Wire) : Earlier(a, i, Wire[k].id, Wire[k].index)
  /\ sending # Idle => Earlier(a, i, sending.id, sending.next)

WireTells ==
  \A k \in 1 .. Len(Wire) :
    /\ Sound(Wire[k])
    /\ \A i \in 1 .. Len(Wire) :
         i < k => Earlier(Wire[i].id, Wire[i].index, Wire[k].id, Wire[k].index)
    /\ sending # Idle => Earlier(Wire[k].id, Wire[k].index, sending.id, sending.next)

SenderTells ==
  sending # Idle =>
    /\ sending.n = Len(sent) /\ sending.id + 1 = Len(sent)
    /\ sending.count = ChunkCount(sent[Len(sent)])
    /\ sending.next < sending.count

Filled(chunks) == { i \in DOMAIN chunks : chunks[i] # << >> }

\* A reassembly of the message with id a: chunks of that message, each in its
\* place, as many as were counted, and none that is still to come.
Piece(part, a) ==
  LET c == ChunkCount(sent[a + 1])
  IN  /\ part \in [ count : Nat, got : Nat, size : Int, chunks : [ 1 .. c -> Chunks ] ]
      /\ part.count = c
      /\ part.got = Cardinality(Filled(part.chunks))
      /\ \A i \in 1 .. c : part.chunks[i] # << >> =>
           /\ part.chunks[i] = Chunk(a + 1, i - 1) /\ Behind(a, i - 1)
           /\ i = c => a + 1 \in whole

PendingTells == \A a \in DOMAIN pending : a \in Nat /\ a + 1 \in Messages /\ Piece(pending[a], a)

\* Nothing is to come of message n.
Over(n) ==
  /\ \A k \in 1 .. Len(Wire) : n <= Wire[k].id
  /\ sending # Idle => n <= sending.id

DeliveredTells ==
  /\ delivered \in Seq(Texts)
  /\ \A d \in 1 .. Len(delivered) :
       \E n \in whole : delivered[d] = ChunksOf(n) /\ Over(n)

IInv ==
  /\ Typed
  /\ SenderTells
  /\ WireTells
  /\ PendingTells
  /\ DeliveredTells
  /\ DeliveredInOrder

-----------------------------------------------------------------------------
(* Lemmas.                                                                 *)

\* Every message has a chunk.
LEMMA ChunkCountPositive ==
  ASSUME NEW size \in Nat
  PROVE  ChunkCount(size) \in Nat /\ ChunkCount(size) > 0
  <1>1. CASE size = 0
    BY <1>1 DEF ChunkCount
  <1>2. CASE size # 0
    <2>1. ChunkCount(size) = (size + ChunkSize - 1) \div ChunkSize
      BY <1>2 DEF ChunkCount
    <2>2. ChunkSize \in Nat /\ ChunkSize > 0 /\ size + ChunkSize - 1 >= ChunkSize
      BY <1>2, FramingAssumption
    <2>3. \A x \in Nat, c \in Nat : c > 0 /\ x >= c => x \div c \in Nat /\ x \div c > 0
      OBVIOUS
    <2>4. size + ChunkSize - 1 \in Nat
      BY <2>2
    <2>5. QED
      BY <2>1, <2>2, <2>3, <2>4
  <1>3. QED
    BY <1>1, <1>2

LEMMA CountOfMessage ==
  ASSUME Typed, NEW n \in Messages
  PROVE  /\ sent[n] \in Nat
         /\ ChunkCount(sent[n]) \in Nat /\ ChunkCount(sent[n]) > 0
  <1>1. sent[n] \in Sizes
    BY DEF Typed, Messages
  <1>2. sent[n] \in Nat
    BY <1>1, FramingAssumption
  <1>3. QED
    BY <1>2, ChunkCountPositive

LEMMA Int32Typed == \A x \in Int : Int32(x) \in Int
  <1> SUFFICES ASSUME NEW x \in Int PROVE Int32(x) \in Int
    OBVIOUS
  <1>1. 2 * HalfWord \in Nat /\ 2 * HalfWord > 0 /\ HalfWord \in Int
    BY FramingAssumption
  <1>2. \A y \in Int, m \in Nat : m > 0 => y % m \in Int
    OBVIOUS
  <1>3. (x + HalfWord) % (2 * HalfWord) \in Int
    BY <1>1, <1>2
  <1>4. QED
    BY <1>1, <1>3 DEF Int32

\* The frames under way are those of the inbox, the pump's and the queue's.
LEMMA WireTyped ==
  ASSUME Typed
  PROVE  /\ Wire \in Seq(Frames)
         /\ Len(Wire) = Len(inbox) + Len(hand) + Len(relQ)
  <1>1. /\ inbox \o hand \in Seq(Frames)
        /\ Len(inbox \o hand) = Len(inbox) + Len(hand)
    BY ConcatProperties DEF Typed
  <1>2. QED
    BY <1>1, ConcatProperties DEF Typed, Wire

LEMMA WireTypedNext ==
  ASSUME Typed'
  PROVE  Wire' \in Seq(Frames)
  <1>1. inbox' \in Seq(Frames) /\ hand' \in Seq(Frames) /\ relQ' \in Seq(Frames)
    BY DEF Typed
  <1>2. inbox' \o hand' \in Seq(Frames)
    BY <1>1, ConcatProperties
  <1>3. QED
    BY <1>1, <1>2, ConcatProperties DEF Wire

\* Queueing a frame puts it last on the wire.
LEMMA QueueGrowsWire ==
  ASSUME Typed, NEW f \in Frames, relQ' = Append(relQ, f), UNCHANGED << inbox, hand >>
  PROVE  Wire' = Append(Wire, f) /\ relQ' \in Seq(Frames)
  <1>1. /\ inbox \in Seq(Frames) /\ hand \in Seq(Frames) /\ relQ \in Seq(Frames)
        /\ inbox \o hand \in Seq(Frames)
    BY ConcatProperties DEF Typed
  <1>2. Append(relQ, f) = relQ \o << f >> /\ << f >> \in Seq(Frames)
    BY <1>1, AppendIsConcat
  <1>3. (inbox \o hand) \o (relQ \o << f >>) = ((inbox \o hand) \o relQ) \o << f >>
    BY <1>1, <1>2, ConcatAssociative
  <1>4. Append(Wire, f) = Wire \o << f >>
    BY WireTyped, AppendIsConcat
  <1>5. QED
    BY <1>1, <1>2, <1>3, <1>4 DEF Wire

LEMMA HeadMoves ==
  ASSUME NEW S, NEW s \in Seq(S), NEW t \in Seq(S), t # << >>
  PROVE  (s \o << Head(t) >>) \o Tail(t) = s \o t
  <1> DEFINE h == << Head(t) >>
  <1>1. h \in Seq(S) /\ Tail(t) \in Seq(S) /\ h \o Tail(t) = t
    OBVIOUS
  <1> HIDE DEF h
  <1>2. (s \o h) \o Tail(t) = s \o (h \o Tail(t))
    BY <1>1, ConcatAssociative
  <1>3. QED
    BY <1>1, <1>2 DEF h

\* The pump moves frames along and changes nothing about their order.
LEMMA PumpKeepsWire ==
  ASSUME Typed, PumpTakes \/ PumpDelivers
  PROVE  /\ Wire' = Wire
         /\ inbox' \in Seq(Frames) /\ hand' \in Seq(Frames) /\ relQ' \in Seq(Frames)
  <1>1. /\ inbox \in Seq(Frames) /\ hand \in Seq(Frames) /\ relQ \in Seq(Frames)
        /\ inbox \o hand \in Seq(Frames)
    BY ConcatProperties DEF Typed
  <1>2. CASE PumpTakes
    <2>1. /\ hand = << >> /\ relQ # << >> /\ inbox' = inbox
          /\ hand' = << Head(relQ) >> /\ relQ' = Tail(relQ)
      BY <1>2 DEF PumpTakes
    <2>2. /\ Head(relQ) \in Frames /\ Tail(relQ) \in Seq(Frames)
          /\ << Head(relQ) >> \in Seq(Frames)
      BY <1>1, <2>1
    <2>3. (inbox \o << Head(relQ) >>) \o Tail(relQ) = inbox \o relQ
      BY <1>1, <2>1, HeadMoves
    <2>4. inbox \o << >> = inbox
      BY <1>1, ConcatEmptySeq
    <2>5. QED
      BY <1>1, <2>1, <2>2, <2>3, <2>4 DEF Wire
  <1>3. CASE PumpDelivers
    <2>1. inbox' = inbox \o hand /\ hand' = << >> /\ relQ' = relQ
      BY <1>3 DEF PumpDelivers
    <2>2. (inbox \o hand) \o << >> = inbox \o hand
      BY <1>1, ConcatEmptySeq
    <2>3. QED
      BY <1>1, <2>1, <2>2 DEF Wire
  <1>4. QED
    BY <1>2, <1>3

\* Absorb takes the first frame of the wire.
LEMMA AbsorbTakesFirst ==
  ASSUME Typed, inbox # << >>, inbox' = Tail(inbox), UNCHANGED << hand, relQ >>
  PROVE  /\ inbox' \in Seq(Frames)
         /\ Len(Wire) > 0 /\ Wire[1] = Head(inbox)
         /\ Len(Wire') = Len(Wire) - 1
         /\ \A k \in 1 .. Len(Wire') : Wire'[k] = Wire[k + 1]
  <1>1. /\ inbox \in Seq(Frames) /\ hand \in Seq(Frames) /\ relQ \in Seq(Frames)
        /\ Tail(inbox) \in Seq(Frames) /\ Len(Tail(inbox)) = Len(inbox) - 1
        /\ Len(inbox) > 0
        /\ \A k \in 1 .. Len(inbox) - 1 : Tail(inbox)[k] = inbox[k + 1]
    BY DEF Typed
  <1>2. Wire' = Tail(inbox) \o hand \o relQ
    BY DEF Wire
  <1>3. /\ Len(inbox \o hand) = Len(inbox) + Len(hand)
        /\ Len(Tail(inbox) \o hand) = Len(inbox) - 1 + Len(hand)
        /\ inbox \o hand \in Seq(Frames) /\ Tail(inbox) \o hand \in Seq(Frames)
    BY <1>1, ConcatProperties
  <1>4. /\ Len(Wire) = Len(inbox) + Len(hand) + Len(relQ)
        /\ Len(Wire') = Len(inbox) - 1 + Len(hand) + Len(relQ)
    BY <1>1, <1>2, <1>3, ConcatProperties DEF Wire
  <1>5. (inbox \o hand)[1] = inbox[1] /\ Wire[1] = (inbox \o hand)[1]
    BY <1>1, <1>3, ConcatProperties DEF Wire
  <1>6. ASSUME NEW k \in 1 .. Len(Wire')
        PROVE  Wire'[k] = Wire[k + 1]
    <2>1. /\ Wire'[k] = IF k <= Len(inbox) - 1 + Len(hand)
                          THEN (Tail(inbox) \o hand)[k]
                          ELSE relQ[k - (Len(inbox) - 1 + Len(hand))]
          /\ Wire[k + 1] = IF k + 1 <= Len(inbox) + Len(hand)
                             THEN (inbox \o hand)[k + 1]
                             ELSE relQ[k + 1 - (Len(inbox) + Len(hand))]
      BY <1>1, <1>2, <1>3, <1>4, ConcatProperties DEF Wire
    <2>2. CASE k <= Len(inbox) - 1 + Len(hand)
      <3>1. /\ (Tail(inbox) \o hand)[k] = IF k <= Len(inbox) - 1
                 THEN Tail(inbox)[k] ELSE hand[k - (Len(inbox) - 1)]
            /\ (inbox \o hand)[k + 1] = IF k + 1 <= Len(inbox)
                 THEN inbox[k + 1] ELSE hand[k + 1 - Len(inbox)]
        BY <1>1, <1>3, <1>4, <2>2, ConcatProperties
      <3>2. k - (Len(inbox) - 1) = k + 1 - Len(inbox)
        BY <1>1
      <3>3. QED
        BY <1>1, <2>1, <2>2, <3>1, <3>2
    <2>3. CASE ~ (k <= Len(inbox) - 1 + Len(hand))
      <3>1. k - (Len(inbox) - 1 + Len(hand)) = k + 1 - (Len(inbox) + Len(hand))
        BY <1>1
      <3>2. QED
        BY <1>1, <2>1, <2>3, <3>1
    <2>4. QED
      BY <2>2, <2>3
  <1>7. QED
    BY <1>1, <1>4, <1>5, <1>6

-----------------------------------------------------------------------------
(* The wire moves forward.                                                 *)

\* A step brings nothing onto the wire but the frame the sender had next, and
\* cuts nothing over again.
Forward ==
  /\ \A k \in 1 .. Len(Wire') :
       \/ \E m \in 1 .. Len(Wire) : Wire'[k] = Wire[m]
       \/ /\ sending # Idle
          /\ Wire'[k].id = sending.id /\ Wire'[k].index = sending.next
  /\ sending' # Idle =>
       \/ sending'.id = Len(sent)
       \/ /\ sending # Idle
          /\ sending'.id = sending.id /\ sending'.next >= sending.next

\* The messages sent stay, and what is known of them.
Grows ==
  /\ \A n \in Messages : n \in Messages' /\ sent'[n] = sent[n]
  /\ whole \subseteq whole'

LEMMA BehindStays ==
  ASSUME Typed, Typed', Forward, NEW a \in Nat, a + 1 \in Messages, NEW i \in Nat,
         Behind(a, i)
  PROVE  Behind(a, i)'
  <1>1. ASSUME NEW k \in 1 .. Len(Wire')
        PROVE  Earlier(a, i, Wire'[k].id, Wire'[k].index)
    <2>1. CASE \E m \in 1 .. Len(Wire) : Wire'[k] = Wire[m]
      BY <2>1 DEF Behind
    <2>2. CASE /\ sending # Idle
               /\ Wire'[k].id = sending.id /\ Wire'[k].index = sending.next
      BY <2>2 DEF Behind
    <2>3. QED
      BY <2>1, <2>2 DEF Forward
  <1>2. ASSUME sending' # Idle
        PROVE  Earlier(a, i, sending'.id, sending'.next)
    <2>1. CASE sending'.id = Len(sent)
      <3>1. a < Len(sent)
        BY DEF Messages, Typed
      <3>2. QED
        BY <2>1, <3>1 DEF Earlier
    <2>2. CASE /\ sending # Idle
               /\ sending'.id = sending.id /\ sending'.next >= sending.next
      <3>1. sending \in Cuts /\ sending' \in Cuts
        BY <1>2, <2>2 DEF Typed
      <3>2. Earlier(a, i, sending.id, sending.next)
        BY <2>2 DEF Behind
      <3>3. QED
        BY <2>2, <3>1, <3>2 DEF Earlier, Cuts
    <2>3. QED
      BY <1>2, <2>1, <2>2 DEF Forward
  <1>3. QED
    BY <1>1, <1>2 DEF Behind

LEMMA OverStays ==
  ASSUME Typed, Typed', Forward, NEW n \in Messages, Over(n)
  PROVE  Over(n)'
  <1>1. n \in Nat /\ n <= Len(sent)
    BY DEF Messages, Typed
  <1>2. ASSUME NEW k \in 1 .. Len(Wire')
        PROVE  n <= Wire'[k].id
    BY DEF Forward, Over
  <1>3. ASSUME sending' # Idle
        PROVE  n <= sending'.id
    BY <1>1, <1>3 DEF Forward, Over
  <1>4. QED
    BY <1>2, <1>3 DEF Over

LEMMA SoundStays ==
  ASSUME Typed, Grows, NEW f \in Frames, Sound(f)
  PROVE  Sound(f)'
  <1>1. f.id + 1 \in Messages' /\ sent'[f.id + 1] = sent[f.id + 1]
    BY DEF Sound, Grows
  <1>2. ChunkCount(sent[f.id + 1])' = ChunkCount(sent[f.id + 1])
    BY <1>1 DEF ChunkCount
  <1>3. f.index + 1 = f.count => f.id + 1 \in whole'
    BY DEF Sound, Grows
  <1>4. QED
    BY <1>1, <1>2, <1>3 DEF Sound

LEMMA PieceStays ==
  ASSUME Typed, Typed', Forward, Grows, NEW a \in Nat, a + 1 \in Messages,
         NEW part, Piece(part, a)
  PROVE  Piece(part, a)' /\ a + 1 \in Messages'
  <1>1. a + 1 \in Messages' /\ sent'[a + 1] = sent[a + 1]
    BY DEF Grows
  <1>2. ChunkCount(sent[a + 1])' = ChunkCount(sent[a + 1])
    BY <1>1 DEF ChunkCount
  <1>3. ASSUME NEW i \in 1 .. ChunkCount(sent[a + 1]), Behind(a, i - 1)
        PROVE  Behind(a, i - 1)'
    <2>1. i - 1 \in Nat
      BY CountOfMessage
    <2>2. QED
      BY <1>3, <2>1, BehindStays
  <1>4. QED
    BY <1>1, <1>2, <1>3 DEF Piece, Filled, Grows

LEMMA PendingStays ==
  ASSUME Typed, Typed', Forward, Grows, PendingTells, pending' = pending
  PROVE  PendingTells'
  BY PieceStays DEF PendingTells

LEMMA DeliveredStays ==
  ASSUME Typed, Typed', Forward, Grows, NEW d \in 1 .. Len(delivered), DeliveredTells
  PROVE  \E n \in whole' : delivered[d] = ChunksOf(n)' /\ Over(n)'
  <1>1. PICK n \in whole : delivered[d] = ChunksOf(n) /\ Over(n)
    BY DEF DeliveredTells
  <1>2. n \in Messages /\ n \in whole'
    BY DEF Typed, Grows
  <1>3. sent'[n] = sent[n]
    BY <1>2 DEF Grows
  <1>4. ChunksOf(n)' = ChunksOf(n)
    BY <1>3 DEF ChunksOf, ChunkCount
  <1>5. Over(n)'
    BY <1>1, <1>2, OverStays
  <1>6. QED
    BY <1>1, <1>2, <1>4, <1>5

\* A step that leaves the receiver alone.
LEMMA ReceiverStays ==
  ASSUME Typed, Typed', Forward, Grows, PendingTells, DeliveredTells, DeliveredInOrder,
         UNCHANGED << pending, delivered >>
  PROVE  PendingTells' /\ DeliveredTells' /\ DeliveredInOrder'
  <1>1. PendingTells'
    BY PendingStays
  <1>2. DeliveredTells'
    BY DeliveredStays DEF DeliveredTells
  <1>3. DeliveredInOrder'
    BY DEF DeliveredInOrder
  <1>4. QED
    BY <1>1, <1>2, <1>3

LEMMA InitHolds == Init => IInv
  <1> SUFFICES ASSUME Init PROVE IInv
    OBVIOUS
  <1>1. Typed
    BY FramingAssumption DEF Init, Typed
  <1>2. Len(Wire) = 0 /\ sending = Idle
    <2>1. Len(inbox) = 0 /\ Len(hand) = 0 /\ Len(relQ) = 0
      BY DEF Init
    <2>2. QED
      BY <1>1, <2>1, WireTyped DEF Init
  <1>3. SenderTells /\ WireTells
    BY <1>2 DEF SenderTells, WireTells
  <1>4. PendingTells
    BY DEF Init, PendingTells
  <1>5. DeliveredTells /\ DeliveredInOrder
    BY DEF Init, DeliveredTells, DeliveredInOrder
  <1>6. QED
    BY <1>1, <1>3, <1>4, <1>5 DEF IInv

LEMMA StartHolds ==
  ASSUME IInv, NEW size \in Sizes, SendStarts(size)
  PROVE  IInv' /\ Forward /\ Grows
  <1>1. /\ Typed /\ SenderTells /\ WireTells /\ PendingTells /\ DeliveredTells
        /\ DeliveredInOrder
    BY DEF IInv
  <1>2. /\ sending = Idle /\ Len(sent) < MaxSends
        /\ nextID' = (nextID + 1) % MsgIds
        /\ sent' = Append(sent, size)
        /\ UNCHANGED << inbox, hand, relQ, pending, delivered, whole >>
    BY DEF SendStarts
  <1>3. sending' = IF ChunkCount(size) > MaxChunks
                     THEN Idle
                     ELSE [ n |-> Len(sent'), id |-> nextID, next |-> 0,
                            count |-> ChunkCount(size) ]
    BY DEF SendStarts
  <1>4. /\ sent' \in Seq(Sizes) /\ Len(sent) \in Nat /\ Len(sent') = Len(sent) + 1
        /\ sent'[Len(sent) + 1] = size
        /\ \A n \in 1 .. Len(sent) : sent'[n] = sent[n]
    BY <1>1, <1>2 DEF Typed
  <1>5. ChunkCount(size) \in Nat /\ ChunkCount(size) > 0
    BY FramingAssumption, ChunkCountPositive
  <1>6. nextID' = Len(sent')
    <2>1. nextID = Len(sent) /\ Len(sent) + 1 < MsgIds /\ MsgIds \in Nat
      BY <1>1, <1>2, <1>4, FramingAssumption DEF Typed
    <2>2. \A x \in Nat, m \in Nat : x < m => x % m = x
      OBVIOUS
    <2>3. QED
      BY <1>2, <1>4, <2>1, <2>2
  <1>7. Grows
    BY <1>2, <1>4 DEF Grows, Messages
  <1>8. sending' = Idle \/ sending' \in Cuts
    BY <1>1, <1>3, <1>4, <1>5 DEF Cuts, Typed
  <1>9. Typed'
    <2>1. whole' \subseteq Messages'
      BY <1>1, <1>7, <1>2 DEF Typed, Grows
    <2>2. Len(sent') <= MaxSends
      BY <1>2, <1>4, FramingAssumption
    <2>3. QED
      BY <1>1, <1>2, <1>4, <1>6, <1>8, <2>1, <2>2 DEF Typed
  <1>10. Wire' = Wire
    BY <1>2 DEF Wire
  <1>11. sending' # Idle =>
           /\ sending'.n = Len(sent') /\ sending'.id = Len(sent) /\ sending'.next = 0
           /\ sending'.count = ChunkCount(size)
    BY <1>1, <1>3 DEF Typed
  <1>12. SenderTells'
    <2>1. ChunkCount(sent[Len(sent)])' = ChunkCount(size)
      BY <1>4 DEF ChunkCount
    <2>2. QED
      BY <1>4, <1>5, <1>11, <2>1 DEF SenderTells
  <1>13. Forward
    BY <1>10, <1>11 DEF Forward
  <1>14. WireTells'
    <2>1. ASSUME NEW k \in 1 .. Len(Wire')
          PROVE  /\ Sound(Wire[k])'
                 /\ \A i \in 1 .. Len(Wire') : i < k =>
                      Earlier(Wire[i].id, Wire[i].index, Wire[k].id, Wire[k].index)'
                 /\ sending' # Idle =>
                      Earlier(Wire[k].id, Wire[k].index, sending.id, sending.next)'
      <3>1. Wire[k] \in Frames /\ Sound(Wire[k]) /\ Wire'[k] = Wire[k]
        BY <1>1, <1>10, WireTyped DEF WireTells
      <3>2. Sound(Wire[k])'
        <4>1. PICK f \in Frames : f = Wire[k]
          BY <3>1
        <4>2. Sound(f)'
          BY <1>1, <1>7, <3>1, <4>1, SoundStays
        <4>3. QED
          BY <3>1, <4>1, <4>2 DEF Sound
      <3>3. Wire[k].id < Len(sent)
        BY <1>4, <3>1 DEF Sound, Messages, Frames
      <3>4. sending' # Idle => Earlier(Wire[k].id, Wire[k].index, sending.id, sending.next)'
        BY <1>10, <1>11, <3>3 DEF Earlier
      <3>5. \A i \in 1 .. Len(Wire') : i < k =>
              Earlier(Wire[i].id, Wire[i].index, Wire[k].id, Wire[k].index)'
        BY <1>1, <1>10 DEF WireTells, Earlier
      <3>6. QED
        BY <3>2, <3>4, <3>5
    <2>2. QED
      BY <2>1 DEF WireTells
  <1>15. PendingTells' /\ DeliveredTells' /\ DeliveredInOrder'
    BY <1>1, <1>2, <1>7, <1>9, <1>13, ReceiverStays
  <1>16. QED
    BY <1>7, <1>9, <1>12, <1>13, <1>14, <1>15 DEF IInv

LEMMA QueueHolds ==
  ASSUME IInv, SendQueues
  PROVE  IInv' /\ Forward /\ Grows
  <1>1. /\ Typed /\ SenderTells /\ WireTells /\ PendingTells /\ DeliveredTells
        /\ DeliveredInOrder
    BY DEF IInv
  <1> PICK f : f = FrameOf(sending)
    OBVIOUS
  <1>2. /\ sending # Idle
        /\ relQ' = Append(relQ, f)
        /\ UNCHANGED << nextID, hand, inbox, pending, sent, delivered >>
    BY DEF SendQueues
  <1>3. /\ sending \in Cuts
        /\ sending.n = Len(sent) /\ sending.id + 1 = Len(sent)
        /\ sending.count = ChunkCount(sent[Len(sent)])
        /\ sending.next < sending.count
    BY <1>1, <1>2 DEF Typed, SenderTells
  <1>4. sending.id \in Nat /\ sending.next \in Nat /\ sending.count \in Nat /\ sending.n \in Nat
    BY <1>3 DEF Cuts
  <1>5. /\ f.id = sending.id /\ f.index = sending.next /\ f.count = sending.count
        /\ f.payload = Chunk(sending.n, sending.next)
        /\ f.size = Min2(ChunkSize, sent[sending.n] - sending.next * ChunkSize)
    BY DEF FrameOf
  <1>6. f \in Frames
    <2>1. sending.n \in Messages /\ sent[sending.n] \in Nat
      BY <1>1, <1>3, <1>4, CountOfMessage DEF Messages
    <2>2. Min2(ChunkSize, sent[sending.n] - sending.next * ChunkSize) \in Int
      BY <1>4, <2>1, FramingAssumption DEF Min2
    <2>3. QED
      BY <1>4, <2>2 DEF FrameOf, Frames, Chunk
  <1>7. \/ /\ sending.next + 1 = sending.count
           /\ sending' = Idle /\ whole' = whole \cup {sending.n}
        \/ /\ sending.next + 1 # sending.count
           /\ sending' = [ sending EXCEPT !.next = @ + 1 ] /\ whole' = whole
    BY DEF SendQueues
  <1>8. sending.n \in Messages /\ Messages' = Messages
    BY <1>2, <1>3, <1>4 DEF Messages
  <1>9. Wire' = Append(Wire, f) /\ relQ' \in Seq(Frames)
    BY <1>1, <1>2, <1>6, QueueGrowsWire
  <1>10. /\ Len(Wire) \in Nat /\ Len(Wire') = Len(Wire) + 1 /\ Wire'[Len(Wire) + 1] = f
         /\ \A k \in 1 .. Len(Wire) : Wire'[k] = Wire[k] /\ Wire[k] \in Frames
    BY <1>1, <1>6, <1>9, WireTyped
  <1>11. sending' = Idle \/
           /\ sending' \in Cuts /\ sending'.n = sending.n /\ sending'.id = sending.id
           /\ sending'.count = sending.count /\ sending'.next = sending.next + 1
           /\ sending.next + 1 # sending.count
    BY <1>3, <1>7 DEF Cuts
  <1>12. Typed'
    <2>1. whole' \subseteq Messages'
      BY <1>1, <1>7, <1>8 DEF Typed
    <2>2. QED
      BY <1>1, <1>2, <1>9, <1>11, <2>1 DEF Typed
  <1>13. SenderTells'
    <2>1. ChunkCount(sent[Len(sent)])' = ChunkCount(sent[Len(sent)])
      BY <1>2 DEF ChunkCount
    <2>2. QED
      BY <1>2, <1>3, <1>4, <1>11, <2>1 DEF SenderTells
  <1>14. Grows
    BY <1>2, <1>7, <1>8 DEF Grows
  <1>15. Forward
    <2>1. ASSUME NEW k \in 1 .. Len(Wire')
          PROVE  \/ \E m \in 1 .. Len(Wire) : Wire'[k] = Wire[m]
                 \/ /\ sending # Idle
                    /\ Wire'[k].id = sending.id /\ Wire'[k].index = sending.next
      <3>1. CASE k = Len(Wire) + 1
        BY <1>2, <1>5, <1>10, <3>1
      <3>2. CASE k # Len(Wire) + 1
        BY <1>10, <3>2
      <3>3. QED
        BY <3>1, <3>2
    <2>2. sending' # Idle => /\ sending'.id = sending.id /\ sending'.next >= sending.next
      BY <1>4, <1>11
    <2>3. QED
      BY <1>2, <2>1, <2>2 DEF Forward
  <1>16. ASSUME NEW g \in Frames, Sound(g)
         PROVE  Sound(g)'
    BY <1>1, <1>14, <1>16, SoundStays
  <1>17. Sound(f)'
    <2>1. f.id + 1 = sending.n /\ f.id + 1 \in Messages'
      BY <1>3, <1>5, <1>8
    <2>2. f.count = ChunkCount(sent[f.id + 1])'
      BY <1>2, <1>3, <1>5, <2>1 DEF ChunkCount
    <2>3. f.index + 1 = f.count => f.id + 1 \in whole'
      BY <1>5, <1>7, <2>1
    <2>4. f.size = Min2(ChunkSize, sent[f.id + 1] - f.index * ChunkSize)'
      BY <1>2, <1>5, <2>1 DEF Min2
    <2>5. QED
      BY <1>3, <1>5, <2>1, <2>2, <2>3, <2>4 DEF Sound
  <1>18. WireTells'
    <2>1. ASSUME NEW k \in 1 .. Len(Wire')
          PROVE  Sound(Wire[k])'
      <3>1. CASE k = Len(Wire) + 1
        BY <1>10, <1>17, <3>1 DEF Sound
      <3>2. CASE k # Len(Wire) + 1
        <4>1. PICK g \in Frames : g = Wire[k] /\ g = Wire'[k] /\ Sound(g)
          BY <1>1, <1>10, <3>2 DEF WireTells
        <4>2. Sound(g)'
          BY <1>16, <4>1
        <4>3. QED
          BY <4>1, <4>2 DEF Sound
      <3>3. QED
        BY <3>1, <3>2
    <2>2. ASSUME NEW k \in 1 .. Len(Wire'), NEW i \in 1 .. Len(Wire'), i < k
          PROVE  Earlier(Wire'[i].id, Wire'[i].index, Wire'[k].id, Wire'[k].index)
      <3>1. i \in 1 .. Len(Wire) /\ Wire'[i] = Wire[i]
        BY <1>10, <2>2
      <3>2. CASE k = Len(Wire) + 1
        BY <1>1, <1>2, <1>5, <1>10, <3>1, <3>2 DEF WireTells
      <3>3. CASE k # Len(Wire) + 1
        BY <1>1, <1>10, <2>2, <3>1, <3>3 DEF WireTells
      <3>4. QED
        BY <3>2, <3>3
    <2>3. ASSUME NEW k \in 1 .. Len(Wire'), sending' # Idle
          PROVE  Earlier(Wire'[k].id, Wire'[k].index, sending'.id, sending'.next)
      <3>1. sending'.id = sending.id /\ sending'.next = sending.next + 1
        BY <1>11, <2>3
      <3>2. CASE k = Len(Wire) + 1
        BY <1>4, <1>5, <1>10, <3>1, <3>2 DEF Earlier
      <3>3. CASE k # Len(Wire) + 1
        <4>1. k \in 1 .. Len(Wire) /\ Wire'[k] = Wire[k] /\ Wire[k] \in Frames
          BY <1>10, <3>3
        <4>2. Earlier(Wire[k].id, Wire[k].index, sending.id, sending.next)
          BY <1>1, <1>2, <4>1 DEF WireTells
        <4>3. QED
          BY <1>4, <3>1, <4>1, <4>2 DEF Earlier, Frames
      <3>4. QED
        BY <3>2, <3>3
    <2>4. QED
      BY <2>1, <2>2, <2>3 DEF WireTells, Earlier
  <1>19. PendingTells' /\ DeliveredTells' /\ DeliveredInOrder'
    BY <1>1, <1>2, <1>12, <1>14, <1>15, ReceiverStays
  <1>20. QED
    BY <1>12, <1>13, <1>14, <1>15, <1>18, <1>19 DEF IInv

\* A step that puts nothing on the wire, whoever else it ends.
LEMMA QuietHolds ==
  ASSUME IInv, Wire' = Wire,
         inbox' \in Seq(Frames), hand' \in Seq(Frames), relQ' \in Seq(Frames),
         sending' = sending \/ sending' = Idle,
         UNCHANGED << nextID, pending, sent, whole, delivered >>
  PROVE  IInv' /\ Forward /\ Grows
  <1>1. /\ Typed /\ SenderTells /\ WireTells /\ PendingTells /\ DeliveredTells
        /\ DeliveredInOrder
    BY DEF IInv
  <1>2. Messages' = Messages
    BY DEF Messages
  <1>3. Typed'
    BY <1>1, <1>2 DEF Typed
  <1>4. SenderTells'
    BY <1>1 DEF SenderTells, ChunkCount
  <1>5. Grows
    BY <1>2 DEF Grows
  <1>6. Forward
    <2>1. sending' # Idle => /\ sending # Idle /\ sending'.id = sending.id
                             /\ sending'.next = sending.next /\ sending \in Cuts
      BY <1>1 DEF Typed
    <2>2. sending' # Idle => sending'.next >= sending.next
      BY <2>1 DEF Cuts
    <2>3. QED
      BY <2>1, <2>2 DEF Forward
  <1>7. WireTells'
    <2>1. ASSUME NEW k \in 1 .. Len(Wire')
          PROVE  Sound(Wire[k])'
      <3>1. PICK g \in Frames : g = Wire[k] /\ g = Wire'[k] /\ Sound(g)
        BY <1>1, WireTyped DEF WireTells
      <3>2. Sound(g)'
        BY <1>1, <1>5, <3>1, SoundStays
      <3>3. QED
        BY <3>1, <3>2 DEF Sound
    <2>2. QED
      BY <1>1, <2>1 DEF WireTells, Earlier
  <1>8. PendingTells' /\ DeliveredTells' /\ DeliveredInOrder'
    BY <1>1, <1>3, <1>5, <1>6, ReceiverStays
  <1>9. QED
    BY <1>3, <1>4, <1>5, <1>6, <1>7, <1>8 DEF IInv

-----------------------------------------------------------------------------
(* Absorb.                                                                 *)

\* As many chunks as there are places fill every place.
LEMMA FilledIsAll ==
  ASSUME NEW c \in Nat, NEW p \in [ 1 .. c -> Chunks ], Cardinality(Filled(p)) >= c
  PROVE  \A i \in 1 .. c : p[i] # << >>
  <1>1. Filled(p) \in SUBSET (1 .. c)
    BY DEF Filled
  <1>2. IsFiniteSet(1 .. c) /\ Cardinality(1 .. c) = c
    BY FS_Interval
  <1>3. /\ IsFiniteSet(Filled(p))
        /\ Cardinality(Filled(p)) <= c
        /\ c = Cardinality(Filled(p)) => 1 .. c = Filled(p)
    BY <1>1, <1>2, FS_Subset
  <1>4. Cardinality(Filled(p)) \in Nat
    BY <1>3, FS_CardinalityType
  <1>5. 1 .. c = Filled(p)
    BY <1>3, <1>4
  <1>6. QED
    BY <1>5 DEF Filled

\* A new reassembly is empty, an open one is of the frame's message.
LEMMA AssemblyIsPiece ==
  ASSUME IInv, NEW f \in Frames, Sound(f)
  PROVE  Piece(Assembly(f), f.id)
  <1>1. Typed /\ PendingTells
    BY DEF IInv
  <1>2. f.id + 1 \in Messages /\ f.count = ChunkCount(sent[f.id + 1])
    BY DEF Sound
  <1>3. f.count \in Nat
    BY DEF Frames
  <1>4. CASE f.id \in DOMAIN pending
    BY <1>1, <1>4 DEF PendingTells, Assembly
  <1>5. CASE f.id \notin DOMAIN pending
    <2> DEFINE part == NewAssembly(f.count)
    <2>1. Assembly(f) = part
      BY <1>5 DEF Assembly
    <2>2. /\ part.count = f.count /\ part.got = 0 /\ part.size = 0
          /\ part.chunks = [ i \in 1 .. f.count |-> << >> ]
          /\ part \in [ count : Nat, got : Nat, size : Int, chunks : [ 1 .. f.count -> Chunks ] ]
      BY <1>3 DEF NewAssembly, Chunks
    <2>3. \A i \in 1 .. f.count : part.chunks[i] = << >>
      BY <2>2
    <2>4. Filled(part.chunks) = {}
      BY <2>2, <2>3 DEF Filled
    <2>5. Cardinality(Filled(part.chunks)) = 0
      BY <2>4, FS_EmptySet
    <2> HIDE DEF part
    <2>6. QED
      BY <1>2, <2>1, <2>2, <2>3, <2>5 DEF Piece
  <1>6. QED
    BY <1>4, <1>5

\* Counting one chunk more into a reassembly, field by field.
LEMMA WithAddsChunk ==
  ASSUME NEW c \in Nat,
         NEW part \in [ count : Nat, got : Nat, size : Int, chunks : [ 1 .. c -> Chunks ] ],
         part.got = Cardinality(Filled(part.chunks)),
         NEW f \in Frames, f.index + 1 \in 1 .. c, part.chunks[f.index + 1] = << >>,
         NEW b, b = With(part, f)
  PROVE  /\ b \in [ count : Nat, got : Nat, size : Int, chunks : [ 1 .. c -> Chunks ] ]
         /\ b.count = part.count
         /\ b.got = Cardinality(Filled(b.chunks))
         /\ b.chunks[f.index + 1] = f.payload
         /\ \A k \in 1 .. c : k # f.index + 1 => b.chunks[k] = part.chunks[k]
  <1>1. PICK p, i, x, q : /\ p = part.chunks /\ i = f.index + 1 /\ x = f.payload
                          /\ q = [ p EXCEPT ![i] = x ]
    OBVIOUS
  <1>2. p \in [ 1 .. c -> Chunks ] /\ i \in 1 .. c /\ p[i] = << >> /\ x \in Nat \X Nat
    BY <1>1 DEF Frames
  <1>3. q = [ p EXCEPT ![i] = x ]
    BY <1>1
  <1>4. /\ q \in [ 1 .. c -> Chunks ]
        /\ q[i] = x /\ \A k \in 1 .. c : k # i => q[k] = p[k]
        /\ Cardinality(Filled(p)) \in Nat
        /\ Cardinality(Filled(q)) = Cardinality(Filled(p)) + 1
    <2>1. /\ q \in [ 1 .. c -> Chunks ]
          /\ q[i] = x /\ \A k \in 1 .. c : k # i => q[k] = p[k]
      BY <1>2, <1>3 DEF Chunks
    <2>2. x # << >>
      <3>1. PICK u \in Nat, v \in Nat : x = << u, v >>
        BY <1>2
      <3>2. Len(<< u, v >>) = 2 /\ Len(<< >>) = 0
        OBVIOUS
      <3>3. QED
        BY <3>1, <3>2
    <2>3. Filled(q) = Filled(p) \cup {i} /\ i \notin Filled(p) /\ Filled(p) \subseteq 1 .. c
      BY <1>2, <2>1, <2>2 DEF Filled
    <2>4. IsFiniteSet(1 .. c)
      BY FS_Interval
    <2>5. IsFiniteSet(Filled(p))
      BY <2>3, <2>4, FS_Subset
    <2>6. Cardinality(Filled(p)) \in Nat
      BY <2>5, FS_CardinalityType
    <2>7. Cardinality(Filled(q)) = Cardinality(Filled(p)) + 1
      BY <2>3, <2>5, FS_AddElement
    <2>8. QED
      BY <2>1, <2>6, <2>7
  <1>5. f.size \in Int /\ part.size \in Int /\ part.got \in Nat /\ part.count \in Nat
    BY DEF Frames
  <1>6. PICK z \in Int : z = Int32(part.size + f.size)
    <2>1. part.size + f.size \in Int
      BY <1>5
    <2>2. QED
      BY <2>1, Int32Typed
  <1>7. b = [ count |-> part.count, got |-> part.got + 1, size |-> z,
              chunks |-> q ]
    BY <1>1, <1>6 DEF With
  <1>8. /\ b.count = part.count /\ b.got = part.got + 1 /\ b.chunks = q
        /\ b \in [ count : Nat, got : Nat, size : Int, chunks : [ 1 .. c -> Chunks ] ]
    <2>1. part.got + 1 \in Nat
      BY <1>5
    <2>2. QED
      BY <1>4, <1>5, <1>6, <1>7, <2>1
  <1>9. QED
    BY <1>1, <1>4, <1>8

\* What Absorb makes of it is a piece of the same message, seen from the wire
\* that is left.
LEMMA WithIsPiece ==
  ASSUME IInv, NEW f \in Frames, Sound(f), ~Dropped(f), Forward, Typed',
         Behind(f.id, f.index)', Grows, UNCHANGED sent,
         NEW b, b = With(Assembly(f), f)
  PROVE  Piece(b, f.id)'
  <1> PICK part, c : part = Assembly(f) /\ c = ChunkCount(sent[f.id + 1])
    OBVIOUS
  <1>1. Typed
    BY DEF IInv
  <1>2. f.id + 1 \in Messages /\ f.count = c /\ f.payload = Chunk(f.id + 1, f.index)
        /\ f.index < f.count
    BY DEF Sound
  <1>3. f.id \in Nat /\ f.index \in Nat /\ f.count \in Nat
    BY DEF Frames
  <1>4. Piece(part, f.id)
    BY AssemblyIsPiece
  <1>5. /\ part \in [ count : Nat, got : Nat, size : Int, chunks : [ 1 .. c -> Chunks ] ]
        /\ part.count = c /\ part.got = Cardinality(Filled(part.chunks))
        /\ \A i \in 1 .. c : part.chunks[i] # << >> =>
             /\ part.chunks[i] = Chunk(f.id + 1, i - 1) /\ Behind(f.id, i - 1)
             /\ i = c => f.id + 1 \in whole
    BY <1>4 DEF Piece
  <1>6. f.index + 1 \in 1 .. c /\ part.chunks[f.index + 1] = << >> /\ c \in Nat
    BY <1>2, <1>3 DEF Dropped
  <1>7. ChunkCount(sent[f.id + 1])' = c
    BY DEF ChunkCount
  <1>8. /\ b \in [ count : Nat, got : Nat, size : Int, chunks : [ 1 .. c -> Chunks ] ]
        /\ b.count = part.count
        /\ b.got = Cardinality(Filled(b.chunks))
        /\ b.chunks[f.index + 1] = f.payload
        /\ \A k \in 1 .. c : k # f.index + 1 => b.chunks[k] = part.chunks[k]
    <2>1. b = With(part, f)
      OBVIOUS
    <2>2. QED
      BY <1>5, <1>6, <2>1, WithAddsChunk
  <1>9. ASSUME NEW k \in 1 .. c, b.chunks[k] # << >>
        PROVE  /\ b.chunks[k] = Chunk(f.id + 1, k - 1) /\ Behind(f.id, k - 1)'
               /\ k = c => f.id + 1 \in whole'
    <2>1. CASE k = f.index + 1
      <3>1. b.chunks[k] = Chunk(f.id + 1, f.index) /\ k - 1 = f.index
        BY <1>2, <1>3, <1>8, <2>1
      <3>2. k = c => f.id + 1 \in whole'
        BY <1>2, <2>1 DEF Sound, Grows
      <3>3. QED
        BY <3>1, <3>2
    <2>2. CASE k # f.index + 1
      <3>1. /\ b.chunks[k] = Chunk(f.id + 1, k - 1) /\ Behind(f.id, k - 1)
            /\ k = c => f.id + 1 \in whole
        BY <1>5, <1>8, <1>9, <2>2
      <3>2. k - 1 \in Nat
        BY <1>6
      <3>3. QED
        BY <1>1, <1>2, <1>3, <3>1, <3>2, BehindStays DEF Grows
    <2>3. QED
      BY <2>1, <2>2
  <1>10. QED
    BY <1>5, <1>7, <1>8, <1>9 DEF Piece, Filled

\* The frame absorbed leaves the wire, and everything left was cut after it.
LEMMA AbsorbMoves ==
  ASSUME IInv, inbox # << >>, inbox' = Tail(inbox),
         UNCHANGED << nextID, sending, hand, relQ, sent, whole >>,
         NEW f, f = Head(inbox)
  PROVE  /\ f \in Frames /\ Sound(f) /\ Behind(f.id, f.index)' /\ f = Wire[1]
         /\ Len(Wire) \in Nat /\ Len(Wire) > 0
         /\ Typed' /\ SenderTells' /\ WireTells' /\ Forward /\ Grows
  <1>1. Typed /\ SenderTells /\ WireTells
    BY DEF IInv
  <1>2. /\ inbox' \in Seq(Frames)
        /\ Len(Wire) > 0 /\ Wire[1] = f
        /\ Len(Wire') = Len(Wire) - 1
        /\ \A k \in 1 .. Len(Wire') : Wire'[k] = Wire[k + 1]
    BY <1>1, AbsorbTakesFirst
  <1>3. Wire \in Seq(Frames) /\ Len(Wire) \in Nat
    BY <1>1, WireTyped
  <1>4. \A k \in 1 .. Len(Wire') : k + 1 \in 1 .. Len(Wire) /\ 1 < k + 1
    BY <1>2, <1>3
  <1>5. 1 \in 1 .. Len(Wire)
    BY <1>2, <1>3
  <1>6. f \in Frames /\ Sound(f)
    BY <1>1, <1>2, <1>3, <1>5 DEF WireTells
  <1>7. Messages' = Messages
    BY DEF Messages
  <1>8. Typed'
    BY <1>1, <1>2, <1>7 DEF Typed
  <1>9. SenderTells'
    BY <1>1 DEF SenderTells, ChunkCount
  <1>10. Grows
    BY <1>7 DEF Grows
  <1>11. Forward
    <2>1. sending' # Idle => sending'.next >= sending.next
      BY <1>1 DEF Typed, Cuts
    <2>2. QED
      BY <1>2, <1>4, <2>1 DEF Forward
  <1>12. Behind(f.id, f.index)'
    <2>1. ASSUME NEW k \in 1 .. Len(Wire')
          PROVE  Earlier(f.id, f.index, Wire'[k].id, Wire'[k].index)
      BY <1>1, <1>2, <1>4, <1>5 DEF WireTells
    <2>2. sending' # Idle => Earlier(f.id, f.index, sending'.id, sending'.next)
      BY <1>1, <1>2, <1>5 DEF WireTells
    <2>3. QED
      BY <2>1, <2>2 DEF Behind
  <1>13. WireTells'
    <2>1. ASSUME NEW k \in 1 .. Len(Wire')
          PROVE  Sound(Wire[k])'
      <3>1. PICK g \in Frames : g = Wire[k + 1] /\ g = Wire'[k] /\ Sound(g)
        BY <1>1, <1>2, <1>3, <1>4 DEF WireTells
      <3>2. Sound(g)'
        BY <1>1, <1>10, <3>1, SoundStays
      <3>3. QED
        BY <3>1, <3>2 DEF Sound
    <2>2. ASSUME NEW k \in 1 .. Len(Wire'), NEW i \in 1 .. Len(Wire'), i < k
          PROVE  Earlier(Wire'[i].id, Wire'[i].index, Wire'[k].id, Wire'[k].index)
      <3>1. i + 1 \in 1 .. Len(Wire) /\ k + 1 \in 1 .. Len(Wire) /\ i + 1 < k + 1
        BY <1>4, <2>2
      <3>2. QED
        BY <1>1, <1>2, <3>1 DEF WireTells
    <2>3. ASSUME NEW k \in 1 .. Len(Wire'), sending' # Idle
          PROVE  Earlier(Wire'[k].id, Wire'[k].index, sending'.id, sending'.next)
      BY <1>1, <1>2, <1>4, <2>3 DEF WireTells
    <2>4. QED
      BY <2>1, <2>2, <2>3 DEF WireTells, Earlier
  <1>14. QED
    BY <1>2, <1>3, <1>6, <1>8, <1>9, <1>10, <1>11, <1>12, <1>13

\* A piece with all its chunks is the message, and nothing of it is to come.
LEMMA CompleteIsWhole ==
  ASSUME Typed', SenderTells', WireTells', NEW a \in Nat, (a + 1 \in Messages)',
         NEW b, Piece(b, a)', b.got >= b.count
  PROVE  /\ b.chunks = ChunksOf(a + 1)'
         /\ a + 1 \in whole'
         /\ Over(a + 1)'
         /\ b.chunks \in Texts
  <1> PICK c : c = ChunkCount(sent[a + 1])'
    OBVIOUS
  <1>1. c \in Nat /\ c > 0
    <2>1. sent'[a + 1] \in Sizes
      BY DEF Typed, Messages
    <2>2. sent'[a + 1] \in Nat
      BY <2>1, FramingAssumption
    <2>3. c = ChunkCount(sent'[a + 1])
      BY DEF ChunkCount
    <2>4. QED
      BY <2>2, <2>3, ChunkCountPositive
  <1>2. /\ b \in [ count : Nat, got : Nat, size : Int, chunks : [ 1 .. c -> Chunks ] ]
        /\ b.count = c /\ b.got = Cardinality(Filled(b.chunks))
        /\ \A i \in 1 .. c : b.chunks[i] # << >> =>
             /\ b.chunks[i] = Chunk(a + 1, i - 1) /\ Behind(a, i - 1)'
             /\ i = c => a + 1 \in whole'
    BY DEF Piece, Filled
  <1>3. b.chunks \in [ 1 .. c -> Chunks ]
    BY <1>2
  <1>4. \A i \in 1 .. c : b.chunks[i] # << >>
    BY <1>1, <1>2, <1>3, FilledIsAll
  <1>5. \A i \in 1 .. c : b.chunks[i] = Chunk(a + 1, i - 1)
    BY <1>2, <1>4
  <1>6. b.chunks = [ i \in 1 .. c |-> Chunk(a + 1, i - 1) ]
    BY <1>3, <1>5
  <1>7. c \in 1 .. c
    BY <1>1
  <1>8. a + 1 \in whole' /\ Behind(a, c - 1)'
    BY <1>2, <1>4, <1>7
  <1>9. ASSUME NEW k \in 1 .. Len(Wire')
        PROVE  a + 1 <= Wire'[k].id
    <2>1. PICK g \in Frames : g = Wire'[k]
      BY WireTypedNext
    <2>2. Earlier(a, c - 1, g.id, g.index)
      BY <1>8, <2>1 DEF Behind
    <2>3. /\ g.index < g.count
          /\ g.count = ChunkCount(sent[g.id + 1])'
      BY <2>1 DEF WireTells, Sound
    <2>4. g.id = a => g.count = c
      BY <2>3 DEF ChunkCount
    <2>5. g.id \in Nat /\ g.index \in Nat /\ g.count \in Nat
      BY DEF Frames
    <2>6. QED
      BY <1>1, <2>1, <2>2, <2>3, <2>4, <2>5 DEF Earlier
  <1>10. ASSUME sending' # Idle
         PROVE  a + 1 <= sending'.id
    <2>1. Earlier(a, c - 1, sending'.id, sending'.next)
      BY <1>8, <1>10 DEF Behind
    <2>2. /\ sending'.id + 1 = Len(sent') /\ sending'.next < sending'.count
          /\ sending'.count = ChunkCount(sent[Len(sent)])'
      BY <1>10 DEF SenderTells
    <2>3. sending'.id = a => sending'.count = c
      BY <2>2 DEF ChunkCount
    <2>4. sending'.id \in Nat /\ sending'.next \in Nat /\ sending'.count \in Nat
      BY <1>10 DEF Typed, Cuts
    <2>5. QED
      BY <1>1, <2>1, <2>2, <2>3, <2>4 DEF Earlier
  <1>11. Over(a + 1)'
    BY <1>9, <1>10 DEF Over
  <1>12. b.chunks = ChunksOf(a + 1)'
    BY <1>6 DEF ChunksOf
  <1>13. b.chunks \in Texts
    BY <1>1, <1>3 DEF Texts
  <1>14. QED
    BY <1>8, <1>11, <1>12, <1>13

\* A reassembly that goes, stays or is put in place of another.
LEMMA PendingKeepsPieces ==
  ASSUME IInv, Typed', Forward, Grows, NEW a \in Nat, a + 1 \in Messages,
         NEW b, Piece(b, a)',
         pending' = pending \/ pending' = Without(a) \/ pending' = Storing(b, a)
  PROVE  PendingTells'
  <1>1. Typed /\ PendingTells
    BY DEF IInv
  <1>2. ASSUME NEW e \in DOMAIN pending', NEW p, p = pending'[e]
        PROVE  e \in Nat /\ (e + 1 \in Messages)' /\ Piece(p, e)'
    <2>1. CASE e \in DOMAIN pending /\ p = pending[e]
      <3>1. e \in Nat /\ e + 1 \in Messages /\ Piece(p, e)
        BY <1>1, <2>1 DEF PendingTells
      <3>2. QED
        BY <1>1, <3>1, PieceStays
    <2>2. CASE e = a /\ p = b
      <3>1. (a + 1 \in Messages)'
        BY DEF Grows
      <3>2. QED
        BY <2>2, <3>1 DEF Piece, Behind
    <2>3. QED
      BY <1>2, <2>1, <2>2 DEF Without, Storing
  <1>3. ASSUME NEW e \in DOMAIN pending'
        PROVE  e \in Nat /\ (e + 1 \in Messages)' /\ Piece(pending[e], e)'
    <2>1. PICK p : p = pending'[e]
      OBVIOUS
    <2>2. e \in Nat /\ (e + 1 \in Messages)' /\ Piece(p, e)'
      BY <1>2, <2>1
    <2>3. Piece(pending[e], e)'
      BY <2>1, <2>2 DEF Piece
    <2>4. QED
      BY <2>2, <2>3
  <1>4. QED
    BY <1>3 DEF PendingTells

LEMMA AbsorbHolds ==
  ASSUME IInv, Absorb
  PROVE  IInv'
  <1>1. PICK f, b : f = Head(inbox) /\ b = With(Assembly(f), f)
    OBVIOUS
  <1>2. /\ inbox # << >> /\ inbox' = Tail(inbox)
        /\ UNCHANGED << nextID, sending, hand, relQ, sent, whole >>
    BY DEF Absorb
  <1>3. \/ Dropped(f) /\ UNCHANGED << pending, delivered >>
        \/ /\ ~Dropped(f)
           /\ \/ pending' = Without(f.id) /\ delivered' = delivered
              \/ pending' = Storing(b, f.id) /\ delivered' = delivered
              \/ /\ b.got >= b.count
                 /\ pending' = Without(f.id)
                 /\ delivered' = Append(delivered, b.chunks)
    BY <1>1 DEF Absorb
  <1>4. /\ Typed /\ PendingTells /\ DeliveredTells /\ DeliveredInOrder
    BY DEF IInv
  <1>5. f \in Frames /\ Sound(f) /\ Behind(f.id, f.index)'
    BY <1>1, <1>2, AbsorbMoves
  <1>6. Typed' /\ SenderTells' /\ WireTells' /\ Forward /\ Grows
    BY <1>1, <1>2, AbsorbMoves
  <1>7. f.id \in Nat /\ f.id + 1 \in Messages
    BY <1>5 DEF Frames, Sound
  <1>8. ~Dropped(f) => Piece(b, f.id)'
    BY <1>1, <1>2, <1>5, <1>6, WithIsPiece
  <1>9. CASE Dropped(f) /\ UNCHANGED << pending, delivered >>
    <2>1. PendingTells' /\ DeliveredTells' /\ DeliveredInOrder'
      BY <1>4, <1>6, <1>9, ReceiverStays
    <2>2. QED
      BY <1>6, <2>1 DEF IInv
  <1>10. ASSUME NEW d \in 1 .. Len(delivered)
         PROVE  \E n \in whole' : delivered[d] = ChunksOf(n)' /\ Over(n)'
    BY <1>4, <1>6, DeliveredStays
  <1>11. CASE /\ ~Dropped(f) /\ delivered' = delivered
              /\ pending' = Without(f.id) \/ pending' = Storing(b, f.id)
    <2>1. PendingTells'
      BY <1>6, <1>7, <1>8, <1>11, PendingKeepsPieces
    <2>2. DeliveredTells'
      BY <1>4, <1>10, <1>11 DEF DeliveredTells
    <2>3. DeliveredInOrder'
      BY <1>4, <1>11 DEF DeliveredInOrder
    <2>4. QED
      BY <1>6, <2>1, <2>2, <2>3 DEF IInv
  <1>12. CASE /\ ~Dropped(f) /\ b.got >= b.count
              /\ pending' = Without(f.id) /\ delivered' = Append(delivered, b.chunks)
    <2>1. PendingTells'
      BY <1>6, <1>7, <1>8, <1>12, PendingKeepsPieces
    <2>2. PICK n \in Nat : n = f.id + 1
      BY <1>7
    <2>3. (f.id + 1 \in Messages)'
      BY <1>6, <1>7 DEF Grows
    <2>4. /\ b.chunks = ChunksOf(n)' /\ n \in whole' /\ Over(n)'
          /\ b.chunks \in Texts
      BY <1>6, <1>7, <1>8, <1>12, <2>2, <2>3, CompleteIsWhole DEF ChunksOf, Over
    <2>5. /\ delivered \in Seq(Texts) /\ delivered' \in Seq(Texts)
          /\ Len(delivered) \in Nat /\ Len(delivered') = Len(delivered) + 1
          /\ delivered'[Len(delivered) + 1] = b.chunks
          /\ \A d \in 1 .. Len(delivered) : delivered'[d] = delivered[d]
      BY <1>4, <1>12, <2>4 DEF DeliveredTells
    <2>6. ASSUME NEW d \in 1 .. Len(delivered')
          PROVE  \E m \in whole' : delivered'[d] = ChunksOf(m)' /\ Over(m)'
      <3>1. CASE d = Len(delivered) + 1
        BY <2>4, <2>5, <3>1
      <3>2. CASE d # Len(delivered) + 1
        BY <1>10, <2>5, <3>2
      <3>3. QED
        BY <3>1, <3>2
    <2>7. DeliveredTells'
      BY <2>5, <2>6 DEF DeliveredTells
    <2>8. \A m \in Messages : ChunksOf(m)[1][1] = m
      <3> SUFFICES ASSUME NEW m \in Messages PROVE ChunksOf(m)[1][1] = m
        OBVIOUS
      <3>1. 1 \in 1 .. ChunkCount(sent[m])
        BY <1>4, CountOfMessage
      <3>2. QED
        BY <3>1 DEF ChunksOf, Chunk
    <2>9. b.chunks[1][1] = n
      <3>1. ChunksOf(n)' = ChunksOf(n)
        BY <1>2 DEF ChunksOf, ChunkCount
      <3>2. QED
        BY <1>7, <2>2, <2>4, <2>8, <3>1
    <2>10. ASSUME NEW d \in 1 .. Len(delivered)
           PROVE  delivered[d][1][1] < n
      <3>1. PICK m \in whole : delivered[d] = ChunksOf(m) /\ Over(m)
        BY <1>4 DEF DeliveredTells
      <3>2. m \in Messages /\ m \in Nat
        BY <1>4 DEF Typed, Messages
      <3>3. f = Wire[1] /\ 1 \in 1 .. Len(Wire)
        BY <1>1, <1>2, AbsorbMoves
      <3>4. m <= f.id
        BY <3>1, <3>3 DEF Over
      <3>5. QED
        BY <1>7, <2>2, <2>8, <3>1, <3>2, <3>4
    <2>11. DeliveredInOrder'
      <3> SUFFICES ASSUME NEW d \in DOMAIN delivered', NEW e \in DOMAIN delivered', d < e
                   PROVE  delivered'[d][1][1] < delivered'[e][1][1]
        BY DEF DeliveredInOrder
      <3>1. d \in 1 .. Len(delivered) /\ e \in 1 .. Len(delivered) + 1
        BY <2>5
      <3>2. CASE e = Len(delivered) + 1
        BY <2>5, <2>9, <2>10, <3>1, <3>2
      <3>3. CASE e # Len(delivered) + 1
        <4>1. /\ e \in DOMAIN delivered /\ d \in DOMAIN delivered
              /\ delivered'[d] = delivered[d] /\ delivered'[e] = delivered[e]
          BY <2>5, <3>1, <3>3
        <4>2. QED
          BY <1>4, <4>1 DEF DeliveredInOrder
      <3>4. QED
        BY <3>2, <3>3
    <2>12. QED
      BY <1>6, <2>1, <2>7, <2>11 DEF IInv
  <1>13. QED
    BY <1>3, <1>9, <1>11, <1>12

-----------------------------------------------------------------------------
(* Theorems.                                                               *)

LEMMA StepHolds == IInv /\ [Next]_vars => IInv'
  <1> SUFFICES ASSUME IInv, [Next]_vars PROVE IInv'
    OBVIOUS
  <1>1. /\ Typed
        /\ inbox \in Seq(Frames) /\ hand \in Seq(Frames) /\ relQ \in Seq(Frames)
    BY DEF IInv, Typed
  <1>2. CASE \E size \in Sizes : SendStarts(size)
    BY <1>2, StartHolds
  <1>3. CASE SendQueues
    BY <1>3, QueueHolds
  <1>4. CASE PumpTakes \/ PumpDelivers
    <2>1. /\ Wire' = Wire
          /\ inbox' \in Seq(Frames) /\ hand' \in Seq(Frames) /\ relQ' \in Seq(Frames)
      BY <1>1, <1>4, PumpKeepsWire
    <2>2. UNCHANGED << sending, nextID, pending, sent, whole, delivered >>
      BY <1>4 DEF PumpTakes, PumpDelivers
    <2>3. QED
      BY <2>1, <2>2, QuietHolds
  <1>5. CASE Absorb
    BY <1>5, AbsorbHolds
  <1>6. CASE \/ SendFails \/ PumpEnds \/ ReaderWaits \/ ReaderEnds \/ UNCHANGED vars
             \/ \E e \in { "sender", "receiver" } : Close(e)
    <2>1. /\ UNCHANGED << inbox, hand, relQ, nextID, pending, sent, whole, delivered >>
          /\ sending' = sending \/ sending' = Idle
      BY <1>6 DEF SendFails, PumpEnds, ReaderWaits, ReaderEnds, Close, vars
    <2>2. Wire' = Wire
      BY <2>1 DEF Wire
    <2>3. QED
      BY <1>1, <2>1, <2>2, QuietHolds
  <1>7. QED
    BY <1>2, <1>3, <1>4, <1>5, <1>6 DEF Next

\* The inductive invariant: what is under way is in the order it was cut, and
\* every reassembly holds chunks of its message that are no longer under way.
THEOREM Invariance == Spec => []IInv
  <1>1. Init => IInv
    BY InitHolds
  <1>2. IInv /\ [Next]_vars => IInv'
    BY StepHolds
  <1>3. QED
    BY <1>1, <1>2, PTL DEF Spec

-----------------------------------------------------------------------------
(* Limits and types.                                                       *)

\* The queues and the table of reassemblies stay within their limits.
Bounded ==
  /\ Len(relQ) <= RelQCap /\ Len(hand) <= 1 /\ Len(inbox) <= InboxCap
  /\ IsFiniteSet(DOMAIN pending) /\ Cardinality(DOMAIN pending) <= MaxPending
  /\ pump \in { "running", "ended" } /\ reader \in { "polling", "waiting", "ended" }
  /\ closed \subseteq { "sender", "receiver" }
  /\ halfway \subseteq Messages

\* A turn of the receive loop opens a reassembly only where there is a place.
LEMMA AbsorbKeepsBound ==
  ASSUME Bounded, Absorb
  PROVE  IsFiniteSet(DOMAIN pending') /\ Cardinality(DOMAIN pending') <= MaxPending
  <1>1. PICK f, b : f = Head(inbox) /\ b = With(Assembly(f), f)
    OBVIOUS
  <1>2. PICK P, Q : P = DOMAIN pending /\ Q = DOMAIN pending'
    OBVIOUS
  <1>3. PICK n \in Nat : n = Cardinality(P) /\ IsFiniteSet(P) /\ n <= MaxPending
    <2>1. IsFiniteSet(P) /\ Cardinality(P) <= MaxPending
      BY <1>2 DEF Bounded
    <2>2. Cardinality(P) \in Nat
      BY <2>1, FS_CardinalityType
    <2>3. QED
      BY <2>1, <2>2
  <1>4. \/ Q = P \/ Q = P \ {f.id}
        \/ ~Dropped(f) /\ b.got < b.count /\ Q = P \cup {f.id}
    <2>1. \/ pending' = pending \/ pending' = Without(f.id)
          \/ ~Dropped(f) /\ b.got < b.count /\ pending' = Storing(b, f.id)
      BY <1>1 DEF Absorb
    <2>2. /\ DOMAIN Without(f.id) = DOMAIN pending \ {f.id}
          /\ DOMAIN Storing(b, f.id) = DOMAIN pending \cup {f.id}
      BY DEF Without, Storing
    <2>3. QED
      BY <1>2, <2>1, <2>2
  <1>5. CASE Q \subseteq P
    <2>1. IsFiniteSet(Q) /\ Cardinality(Q) <= n
      BY <1>2, <1>3, <1>5, FS_Subset
    <2>2. Cardinality(Q) \in Nat
      BY <2>1, FS_CardinalityType
    <2>3. QED
      BY <1>2, <1>3, <2>1, <2>2, FramingAssumption
  <1>6. CASE ~Dropped(f) /\ b.got < b.count /\ Q = P \cup {f.id} /\ f.id \notin P
    <2>1. Assembly(f) = NewAssembly(f.count)
      BY <1>2, <1>3, <1>6 DEF Assembly
    <2>2. b.got = 1 /\ b.count = f.count
      BY <1>1, <2>1 DEF NewAssembly, With
    <2>3. f.count > 1
      BY <1>6, <2>2
    <2>4. ~Full
      BY <1>2, <1>3, <1>6, <2>3 DEF Dropped
    <2>5. n < MaxPending
      BY <1>2, <1>3, <2>4, FramingAssumption DEF Full
    <2>6. PICK x : x = f.id
      OBVIOUS
    <2>7. Q = P \cup {x} /\ x \notin P
      BY <1>6, <2>6
    <2>8. IsFiniteSet(Q) /\ Cardinality(Q) = n + 1
      BY <1>2, <1>3, <2>7, FS_AddElement
    <2>9. QED
      BY <1>2, <1>3, <2>5, <2>8, FramingAssumption
  <1>7. QED
    BY <1>4, <1>5, <1>6

LEMMA BoundStep == IInv /\ IInv' /\ Bounded /\ [Next]_vars => Bounded'
  <1> SUFFICES ASSUME IInv, IInv', Bounded, [Next]_vars PROVE Bounded'
    OBVIOUS
  <1>1. Typed /\ Typed' /\ SenderTells
    BY DEF IInv
  <1>2. /\ inbox \in Seq(Frames) /\ hand \in Seq(Frames) /\ relQ \in Seq(Frames)
        /\ RelQCap \in Nat /\ InboxCap \in Nat /\ Len(sent) \in Nat
    BY <1>1, FramingAssumption DEF Typed
  <1>3. CASE \E size \in Sizes : SendStarts(size)
    <2>1. PICK size \in Sizes : SendStarts(size)
      BY <1>3
    <2>2. Len(sent') = Len(sent) + 1
      <3>1. sent' = Append(sent, size) /\ sent \in Seq(Sizes)
        BY <1>1, <2>1 DEF SendStarts, Typed
      <3>2. QED
        BY <3>1
    <2>3. Messages \subseteq Messages'
      BY <1>2, <2>2 DEF Messages
    <2>4. QED
      BY <2>1, <2>3 DEF SendStarts, Bounded
  <1>4. CASE SendQueues
    <2>1. Len(relQ') = Len(relQ) + 1 /\ Len(relQ) < RelQCap
      BY <1>2, <1>4 DEF SendQueues
    <2>2. Len(relQ') <= RelQCap
      BY <1>2, <2>1
    <2>3. QED
      BY <1>4, <2>2 DEF SendQueues, Bounded, Messages
  <1>5. CASE SendFails
    <2>1. sending.n \in Messages
      BY <1>1, <1>5 DEF SendFails, SenderTells, Typed, Cuts, Messages
    <2>2. halfway' \subseteq Messages'
      BY <1>5, <2>1 DEF SendFails, Bounded, Messages
    <2>3. QED
      BY <1>5, <2>2 DEF SendFails, Bounded
  <1>6. CASE PumpTakes
    <2>1. Len(relQ') = Len(relQ) - 1 /\ Len(hand') = 1
      BY <1>2, <1>6 DEF PumpTakes
    <2>2. Len(relQ') <= RelQCap
      BY <1>2, <2>1 DEF Bounded
    <2>3. QED
      BY <1>6, <2>1, <2>2 DEF PumpTakes, Bounded, Messages
  <1>7. CASE PumpDelivers
    <2>1. Len(inbox') = Len(inbox) + Len(hand) /\ Len(hand') = 0 /\ Len(inbox) < InboxCap
      BY <1>2, <1>7, ConcatProperties DEF PumpDelivers
    <2>2. Len(inbox') <= InboxCap /\ Len(hand') <= 1
      BY <1>2, <2>1 DEF Bounded
    <2>3. QED
      BY <1>7, <2>2 DEF PumpDelivers, Bounded, Messages
  <1>8. CASE Absorb
    <2>1. Len(inbox') = Len(inbox) - 1
      BY <1>2, <1>8 DEF Absorb
    <2>2. Len(inbox') <= InboxCap
      BY <1>2, <2>1 DEF Bounded
    <2>3. IsFiniteSet(DOMAIN pending') /\ Cardinality(DOMAIN pending') <= MaxPending
      BY <1>8, AbsorbKeepsBound
    <2>4. UNCHANGED << relQ, hand, pump, closed, sent, halfway >> /\ reader' = "polling"
      BY <1>8 DEF Absorb
    <2>5. QED
      BY <2>2, <2>3, <2>4 DEF Bounded, Messages
  <1>9. CASE \/ PumpEnds \/ ReaderWaits \/ ReaderEnds \/ UNCHANGED vars
             \/ \E e \in { "sender", "receiver" } : Close(e)
    BY <1>9 DEF PumpEnds, ReaderWaits, ReaderEnds, Close, vars, Bounded, Messages
  <1>10. QED
    BY <1>3, <1>4, <1>5, <1>6, <1>7, <1>8, <1>9 DEF Next

\* Types, and with them the limits: the queues, and the receiver's table of
\* partial reassemblies, never hold more than they are given (framing.go Absorb).
THEOREM TypeCorrect == Spec => []TypeOK
  <1>1. Init => Bounded
    <2>1. DOMAIN << >> = {}
      OBVIOUS
    <2>2. QED
      BY <2>1, FS_EmptySet, FramingAssumption DEF Init, Bounded
  <1>2. IInv /\ IInv' /\ Bounded /\ [Next]_vars => Bounded'
    BY BoundStep
  <1>3. IInv /\ Bounded => TypeOK
    <2> SUFFICES ASSUME IInv, Bounded PROVE TypeOK
      OBVIOUS
    <2>1. Typed /\ SenderTells
      BY DEF IInv
    <2>2. nextID \in 0 .. MsgIds - 1
      BY <2>1, FramingAssumption DEF Typed
    <2>3. QED
      BY <2>1, <2>2 DEF Typed, SenderTells, Bounded, TypeOK
  <1>4. QED
    BY <1>1, <1>2, <1>3, Invariance, PTL DEF Spec

-----------------------------------------------------------------------------
(* What becomes of a message that is neither given up nor refused.         *)

\* Chunk i of the message with id a is under way or will be cut.
Coming(a, i) ==
  \/ \E k \in 1 .. Len(Wire) : Wire[k].id = a /\ Wire[k].index = i
  \/ sending # Idle /\ sending.id = a /\ sending.next <= i

\* Of the c chunks of the message with id a, the first j are in and counted and
\* all the others are coming.
Begun(a, c, j) ==
  /\ j \in 0 .. c - 1
  /\ \A i \in j .. c - 1 : Coming(a, i)
  /\ j = 0 => a \notin DOMAIN pending
  /\ j # 0 => /\ a \in DOMAIN pending
              /\ pending[a].got = j /\ pending[a].size = j * ChunkSize
              /\ Behind(a, j - 1)

\* The message with id a is through: nothing of it waits or is to come.
Gone(a) ==
  /\ a \notin DOMAIN pending
  /\ \A k \in 1 .. Len(Wire) : Wire[k].id # a
  /\ sending # Idle => sending.id # a

\* Earlier messages have taken all places, and a finds none.
Crowded(a) ==
  /\ Full /\ \A b \in DOMAIN pending : b < a
  /\ \A k \in 1 .. Len(Wire) : a <= Wire[k].id
  /\ sending # Idle => a <= sending.id

Progress(a, c) == (\E j \in 0 .. c - 1 : Begun(a, c, j)) \/ Gone(a) \/ Crowded(a)

\* A reassembly has had a chunk.
PendingBegan == \A a \in DOMAIN pending : \E i \in Nat : Behind(a, i)

ProgressTells ==
  \A a \in Nat :
    a + 1 \in Messages /\ a + 1 \notin halfway /\ ~Refused(a + 1)
      => Progress(a, ChunkCount(sent[a + 1]))

PlacesTell == PendingBegan /\ ProgressTells

\* A chunk that is not the last ends inside the message, and one that is begins
\* there.
LEMMA ChunkEnds ==
  ASSUME NEW size \in Nat, NEW j \in Nat, j < ChunkCount(size)
  PROVE  /\ j * ChunkSize <= size
         /\ j + 1 < ChunkCount(size) => (j + 1) * ChunkSize < size
  <1> PICK s \in Nat, c \in Int : s = ChunkSize /\ c = ChunkCount(size)
    BY FramingAssumption, ChunkCountPositive
  <1>1. s > 0 /\ c = IF size = 0 THEN 1 ELSE (size + s - 1) \div s
    BY FramingAssumption DEF ChunkCount
  <1>2. CASE size = 0
    <2>1. j = 0
      BY <1>1, <1>2
    <2>2. QED
      BY <1>1, <1>2, <2>1
  <1>3. CASE size # 0
    <2>1. PICK x \in Nat : x = size + s - 1
      BY <1>1
    <2>2. c = x \div s
      BY <1>1, <1>3, <2>1
    <2>3. \A y \in Nat, m \in Nat : m > 0 => y = (y \div m) * m + (y % m) /\ y % m \in Nat
      OBVIOUS
    <2>4. c * s <= x
      BY <1>1, <2>2, <2>3
    <2>5. ASSUME NEW k \in Nat, k < c PROVE k * s < size
      <3>1. \A u \in Int, v \in Int, w \in Nat : u <= v => u * w <= v * w
        OBVIOUS
      <3>2. (k + 1) * s <= c * s
        BY <2>5, <3>1
      <3>3. (k + 1) * s = k * s + s
        OBVIOUS
      <3>4. k * s \in Int /\ c * s \in Int
        OBVIOUS
      <3>5. QED
        BY <2>1, <2>4, <3>2, <3>3, <3>4
    <2>6. j * s < size /\ (j + 1 < c => (j + 1) * s < size)
      BY <2>5
    <2>7. QED
      BY <2>6
  <1>4. QED
    BY <1>2, <1>3

LEMMA Int32Keeps ==
  ASSUME NEW x \in Nat, x < HalfWord
  PROVE  Int32(x) = x
  <1>1. PICK h \in Nat : h = HalfWord /\ h > 0
    BY FramingAssumption
  <1>2. \A y \in Nat, m \in Nat : y < m => y % m = y
    OBVIOUS
  <1>3. (x + h) % (2 * h) = x + h
    <2>1. x + h \in Nat /\ 2 * h \in Nat /\ x + h < 2 * h
      BY <1>1
    <2>2. QED
      BY <1>2, <2>1
  <1>4. QED
    BY <1>1, <1>3 DEF Int32

LEMMA RefusedStays ==
  ASSUME Grows, NEW n \in Messages, Refused(n)
  PROVE  Refused(n)'
  BY DEF Grows, Refused, ChunkCount, Oversized, Int32

\* A message keeps its state in a step that leaves its reassembly and its chunks
\* where they are.
LEMMA BegunStays ==
  ASSUME Typed, Typed', Forward, NEW a \in Nat, a + 1 \in Messages,
         NEW c \in Nat, NEW j \in Nat, Begun(a, c, j),
         \A i \in j .. c - 1 : Coming(a, i)',
         a \in DOMAIN pending' <=> a \in DOMAIN pending,
         a \in DOMAIN pending => pending'[a] = pending[a]
  PROVE  Begun(a, c, j)'
  <1>1. j # 0 => Behind(a, j - 1)'
    <2> SUFFICES ASSUME j # 0 PROVE Behind(a, j - 1)'
      OBVIOUS
    <2>1. j - 1 \in Nat /\ Behind(a, j - 1)
      BY DEF Begun
    <2>2. QED
      BY <2>1, BehindStays
  <1>2. QED
    BY <1>1 DEF Begun

LEMMA GoneStays ==
  ASSUME Typed, Forward, NEW a \in Nat, a + 1 \in Messages, Gone(a), a \notin DOMAIN pending'
  PROVE  Gone(a)'
  <1>1. a # Len(sent)
    BY DEF Typed, Messages
  <1>2. QED
    BY <1>1 DEF Gone, Forward

LEMMA CrowdedStays ==
  ASSUME Typed, Forward, NEW a \in Nat, a + 1 \in Messages, Crowded(a),
         DOMAIN pending' = DOMAIN pending
  PROVE  Crowded(a)'
  <1>1. a <= Len(sent)
    BY DEF Typed, Messages
  <1>2. Full'
    BY DEF Crowded, Full
  <1>3. QED
    BY <1>1, <1>2 DEF Crowded, Forward

\* A step that leaves the receiver alone and takes no chunk off its way.
LEMMA ProgressStays ==
  ASSUME Typed, Typed', Forward, pending' = pending, NEW a \in Nat, a + 1 \in Messages,
         NEW c \in Nat, Progress(a, c), \A i \in 0 .. c - 1 : Coming(a, i) => Coming(a, i)'
  PROVE  Progress(a, c)'
  <1>1. CASE \E j \in 0 .. c - 1 : Begun(a, c, j)
    <2>1. PICK j \in 0 .. c - 1 : Begun(a, c, j)
      BY <1>1
    <2>2. \A i \in j .. c - 1 : Coming(a, i)'
      BY <2>1 DEF Begun
    <2>3. Begun(a, c, j)'
      BY <2>1, <2>2, BegunStays
    <2>4. QED
      BY <2>1, <2>3 DEF Progress
  <1>2. CASE Gone(a)
    BY <1>2, GoneStays DEF Progress, Gone
  <1>3. CASE Crowded(a)
    BY <1>3, CrowdedStays DEF Progress
  <1>4. QED
    BY <1>1, <1>2, <1>3 DEF Progress

LEMMA PendingBeganStays ==
  ASSUME Typed, Typed', Forward, PendingTells, PendingBegan,
         \A e \in DOMAIN pending' : e \in DOMAIN pending \/ \E i \in Nat : Behind(e, i)'
  PROVE  PendingBegan'
  <1> SUFFICES ASSUME NEW e \in DOMAIN pending' PROVE \E i \in Nat : Behind(e, i)'
    BY DEF PendingBegan
  <1>1. CASE e \in DOMAIN pending
    <2>1. PICK i \in Nat : Behind(e, i)
      BY <1>1 DEF PendingBegan
    <2>2. e \in Nat /\ e + 1 \in Messages
      BY <1>1 DEF PendingTells
    <2>3. QED
      BY <2>1, <2>2, BehindStays
  <1>2. QED
    BY <1>1

\* What is left to show of a step: that a message known before keeps its state,
\* and that a new one has one.
LEMMA PlacesFollow ==
  ASSUME IInv, IInv', Forward, Grows, PlacesTell, halfway \subseteq halfway',
         \A e \in DOMAIN pending' : e \in DOMAIN pending \/ \E i \in Nat : Behind(e, i)',
         \A a \in Nat, c \in Nat :
           a + 1 \in Messages /\ a + 1 \notin halfway' /\ ~Refused(a + 1)
             /\ c = ChunkCount(sent[a + 1]) /\ Progress(a, c) => Progress(a, c)',
         \A a \in Nat, c \in Nat :
           a + 1 \in Messages' /\ a + 1 \notin Messages /\ c = ChunkCount(sent[a + 1])'
             => Progress(a, c)'
  PROVE  PlacesTell'
  <1>1. Typed /\ Typed' /\ PendingTells
    BY DEF IInv
  <1>2. PendingBegan'
    BY <1>1, PendingBeganStays DEF PlacesTell
  <1>3. ASSUME NEW a \in Nat, a + 1 \in Messages', a + 1 \notin halfway', ~Refused(a + 1)'
        PROVE  Progress(a, ChunkCount(sent[a + 1]))'
    <2>1. PICK c : c = ChunkCount(sent[a + 1])'
      OBVIOUS
    <2>2. c \in Nat
      <3>1. sent'[a + 1] \in Nat
        <4>1. sent'[a + 1] \in Sizes
          BY <1>1, <1>3 DEF Typed, Messages
        <4>2. QED
          BY <4>1, FramingAssumption
      <3>2. c = ChunkCount(sent'[a + 1])
        BY <2>1 DEF ChunkCount
      <3>3. QED
        BY <3>1, <3>2, ChunkCountPositive
    <2>3. CASE a + 1 \in Messages
      <3>1. ~Refused(a + 1) /\ a + 1 \notin halfway
        BY <1>3, <2>3, RefusedStays
      <3>2. c = ChunkCount(sent[a + 1])
        BY <2>1, <2>3 DEF Grows, ChunkCount
      <3>3. Progress(a, c)
        BY <2>3, <3>1, <3>2 DEF PlacesTell, ProgressTells
      <3>4. Progress(a, c)'
        BY <1>3, <2>2, <2>3, <3>1, <3>2, <3>3
      <3>5. QED
        BY <2>1, <3>4 DEF Progress, Begun
    <2>4. CASE a + 1 \notin Messages
      <3>1. Progress(a, c)'
        BY <1>3, <2>1, <2>2, <2>4
      <3>2. QED
        BY <2>1, <3>1 DEF Progress, Begun
    <2>5. QED
      BY <2>3, <2>4
  <1>4. QED
    BY <1>2, <1>3 DEF PlacesTell, ProgressTells

LEMMA StartKeepsPlaces ==
  ASSUME IInv, PlacesTell, NEW size \in Sizes, SendStarts(size)
  PROVE  PlacesTell'
  <1>1. IInv' /\ Forward /\ Grows
    BY StartHolds
  <1>2. Typed /\ Typed' /\ WireTells /\ PendingTells
    BY <1>1 DEF IInv
  <1>3. /\ sending = Idle /\ sent' = Append(sent, size) /\ nextID = Len(sent)
        /\ UNCHANGED << inbox, hand, relQ, pending, halfway >>
    BY <1>2 DEF SendStarts, Typed
  <1>4. sending' = IF ChunkCount(size) > MaxChunks
                     THEN Idle
                     ELSE [ n |-> Len(sent'), id |-> nextID, next |-> 0,
                            count |-> ChunkCount(size) ]
    BY DEF SendStarts
  <1>5. Wire' = Wire
    BY <1>3 DEF Wire
  <1>6. Len(sent) \in Nat /\ Len(sent') = Len(sent) + 1
    BY <1>2, <1>3 DEF Typed
  <1>7. ASSUME NEW a \in Nat, NEW c \in Nat, a + 1 \in Messages, Progress(a, c)
        PROVE  Progress(a, c)'
    <2>1. \A i \in 0 .. c - 1 : Coming(a, i) => Coming(a, i)'
      BY <1>3, <1>5 DEF Coming
    <2>2. QED
      BY <1>1, <1>2, <1>3, <1>7, <2>1, ProgressStays
  <1>8. ASSUME NEW a \in Nat, NEW c \in Nat, a + 1 \in Messages', a + 1 \notin Messages,
               c = ChunkCount(sent[a + 1])'
        PROVE  Progress(a, c)'
    <2>1. a = Len(sent)
      BY <1>6, <1>8 DEF Messages
    <2>2. a \notin DOMAIN pending'
      BY <1>2, <1>3, <1>8 DEF PendingTells
    <2>3. ASSUME NEW k \in 1 .. Len(Wire') PROVE Wire'[k].id # a
      BY <1>2, <1>5, <1>8 DEF WireTells, Sound
    <2>4. CASE sending' = Idle
      BY <2>2, <2>3, <2>4 DEF Progress, Gone
    <2>5. CASE sending' # Idle
      <3>1. sending'.id = a /\ sending'.next = 0
        BY <1>3, <1>4, <2>1, <2>5
      <3>2. \A i \in 0 .. c - 1 : Coming(a, i)'
        BY <2>5, <3>1 DEF Coming
      <3>3. c > 0
        <4>1. sent'[a + 1] \in Sizes
          BY <1>2, <1>8 DEF Typed, Messages
        <4>2. c = ChunkCount(sent'[a + 1])
          BY <1>8 DEF ChunkCount
        <4>3. QED
          BY <4>1, <4>2, FramingAssumption, ChunkCountPositive
      <3>4. Begun(a, c, 0)' /\ 0 \in 0 .. c - 1
        BY <2>2, <3>2, <3>3 DEF Begun
      <3>5. QED
        BY <3>4 DEF Progress
    <2>6. QED
      BY <2>4, <2>5
  <1>9. \A e \in DOMAIN pending' : e \in DOMAIN pending
    BY <1>3
  <1>10. QED
    BY <1>1, <1>3, <1>7, <1>8, <1>9, PlacesFollow

LEMMA QueueKeepsPlaces ==
  ASSUME IInv, PlacesTell, SendQueues
  PROVE  PlacesTell'
  <1>1. IInv' /\ Forward /\ Grows
    BY QueueHolds
  <1>2. Typed /\ Typed' /\ SenderTells
    BY <1>1 DEF IInv
  <1> PICK f : f = FrameOf(sending)
    OBVIOUS
  <1>3. /\ sending # Idle /\ relQ' = Append(relQ, f)
        /\ UNCHANGED << inbox, hand, pending, halfway, sent >>
    BY DEF SendQueues
  <1>4. /\ sending \in Cuts /\ sending.n = Len(sent) /\ sending.id + 1 = Len(sent)
        /\ sending.count = ChunkCount(sent[Len(sent)])
        /\ f.id = sending.id /\ f.index = sending.next
    BY <1>2, <1>3 DEF Typed, SenderTells, FrameOf
  <1>5. f \in Frames
    <2>1. sending.n \in Messages
      BY <1>2, <1>4 DEF Cuts, Messages, Typed
    <2>2. sent[sending.n] \in Nat
      BY <1>2, <2>1, CountOfMessage
    <2>3. Min2(ChunkSize, sent[sending.n] - sending.next * ChunkSize) \in Int
      BY <1>4, <2>2, FramingAssumption DEF Min2, Cuts
    <2>4. sending.id \in Nat /\ sending.next \in Nat /\ sending.count \in Nat
          /\ sending.n \in Nat
      BY <1>4 DEF Cuts
    <2>5. QED
      BY <2>3, <2>4 DEF FrameOf, Frames, Chunk
  <1>6. /\ Len(Wire) \in Nat /\ Len(Wire') = Len(Wire) + 1 /\ Wire'[Len(Wire) + 1] = f
        /\ \A k \in 1 .. Len(Wire) : Wire'[k] = Wire[k]
    <2>1. Wire' = Append(Wire, f) /\ Wire \in Seq(Frames)
      BY <1>2, <1>3, <1>5, QueueGrowsWire, WireTyped
    <2>2. QED
      BY <1>5, <2>1
  <1>7. \/ sending.next + 1 = sending.count /\ sending' = Idle
        \/ sending' # Idle /\ sending'.id = sending.id /\ sending'.next = sending.next + 1
    <2>1. \/ sending.next + 1 = sending.count /\ sending' = Idle
          \/ sending' = [ sending EXCEPT !.next = @ + 1 ]
      BY DEF SendQueues
    <2>2. CASE sending' = [ sending EXCEPT !.next = @ + 1 ]
      <3>1. PICK s : s = sending'
        OBVIOUS
      <3>2. /\ s = [ n |-> sending.n, id |-> sending.id, next |-> sending.next + 1,
                     count |-> sending.count ]
        BY <1>4, <2>2, <3>1 DEF Cuts
      <3>3. s.n = sending.n /\ s.id = sending.id /\ s.next = sending.next + 1 /\ sending.n # 0
        <4>1. Len(sent) # 0
          BY <1>4 DEF Cuts
        <4>2. QED
          BY <1>4, <3>2, <4>1
      <3>4. s # Idle
        BY <3>3 DEF Idle
      <3>5. QED
        BY <3>1, <3>3, <3>4
    <2>3. QED
      BY <2>1, <2>2
  <1>8. ASSUME NEW a \in Nat, NEW c \in Nat, a + 1 \in Messages,
               c = ChunkCount(sent[a + 1]), Progress(a, c)
        PROVE  Progress(a, c)'
    <2>1. ASSUME NEW i \in 0 .. c - 1, Coming(a, i)
          PROVE  Coming(a, i)'
      <3>1. CASE \E k \in 1 .. Len(Wire) : Wire[k].id = a /\ Wire[k].index = i
        BY <1>6, <3>1 DEF Coming
      <3>2. CASE sending.id = a /\ sending.next <= i
        <4>1. sending.next \in Nat /\ c = sending.count /\ sending.count \in Nat
          BY <1>4, <1>8, <3>2 DEF Cuts
        <4>2. CASE sending.next = i
          BY <1>4, <1>6, <3>2, <4>2 DEF Coming
        <4>3. CASE sending.next # i
          <5>1. sending.next + 1 <= i /\ sending.next + 1 # sending.count
            BY <3>2, <4>1, <4>3
          <5>2. QED
            BY <1>7, <3>2, <5>1 DEF Coming
        <4>4. QED
          BY <4>2, <4>3
      <3>3. QED
        BY <2>1, <3>1, <3>2 DEF Coming
    <2>2. QED
      BY <1>1, <1>2, <1>3, <1>8, <2>1, ProgressStays
  <1>9. Messages' = Messages /\ \A e \in DOMAIN pending' : e \in DOMAIN pending
    BY <1>3 DEF Messages
  <1>10. QED
    BY <1>1, <1>3, <1>8, <1>9, PlacesFollow

\* A Send given up before its first chunk leaves nothing of its message behind.
LEMMA FailKeepsPlaces ==
  ASSUME IInv, PlacesTell, SendFails
  PROVE  PlacesTell'
  <1>1. Typed /\ SenderTells /\ WireTells
    BY DEF IInv
  <1>2. /\ sending # Idle /\ sending' = Idle
        /\ UNCHANGED << nextID, relQ, hand, inbox, pending, sent, whole, delivered >>
        /\ halfway' = IF sending.next > 0 THEN halfway \cup {sending.n} ELSE halfway
    BY DEF SendFails
  <1>3. Wire' = Wire
    BY <1>2 DEF Wire
  <1>4. IInv' /\ Forward /\ Grows
    <2>1. inbox' \in Seq(Frames) /\ hand' \in Seq(Frames) /\ relQ' \in Seq(Frames)
      BY <1>1, <1>2 DEF Typed
    <2>2. QED
      BY <1>2, <1>3, <2>1, QuietHolds
  <1>5. Typed'
    BY <1>4 DEF IInv
  <1>6. sending \in Cuts /\ sending.id + 1 = sending.n
    BY <1>1, <1>2 DEF Typed, SenderTells
  <1>7. ASSUME NEW a \in Nat, NEW c \in Nat, a + 1 \in Messages, a + 1 \notin halfway',
               Progress(a, c)
        PROVE  Progress(a, c)'
    <2>1. CASE sending.id # a
      <3>1. \A i \in 0 .. c - 1 : Coming(a, i) => Coming(a, i)'
        BY <1>3, <2>1 DEF Coming
      <3>2. QED
        BY <1>2, <1>4, <1>5, <1>1, <1>7, <3>1, ProgressStays
    <2>2. CASE sending.id = a
      <3>1. sending.next = 0
        BY <1>2, <1>6, <1>7, <2>2 DEF Cuts
      <3>2. ASSUME NEW k \in 1 .. Len(Wire') PROVE Wire'[k].id # a
        <4>1. Earlier(Wire[k].id, Wire[k].index, sending.id, sending.next) /\ Wire[k] \in Frames
          BY <1>1, <1>2, <1>3, WireTyped DEF WireTells
        <4>2. QED
          BY <1>3, <2>2, <3>1, <4>1 DEF Earlier, Frames
      <3>3. CASE \E j \in 0 .. c - 1 : Begun(a, c, j)
        <4>1. PICK j \in 0 .. c - 1 : Begun(a, c, j)
          BY <3>3
        <4>2. j = 0
          <5> SUFFICES ASSUME j # 0 PROVE FALSE
            OBVIOUS
          <5>1. Earlier(a, j - 1, sending.id, sending.next)
            BY <1>2, <4>1 DEF Begun, Behind
          <5>2. QED
            BY <2>2, <3>1, <5>1 DEF Earlier
        <4>3. a \notin DOMAIN pending
          BY <4>1, <4>2 DEF Begun
        <4>4. QED
          BY <1>2, <3>2, <4>3 DEF Progress, Gone
      <3>4. CASE Gone(a)
        BY <1>2, <2>2, <3>4 DEF Gone
      <3>5. CASE Crowded(a)
        BY <1>1, <1>2, <1>4, <1>7, <3>5, CrowdedStays DEF Progress
      <3>6. QED
        BY <1>7, <3>3, <3>4, <3>5 DEF Progress
    <2>3. QED
      BY <2>1, <2>2
  <1>8. /\ Messages' = Messages /\ halfway \subseteq halfway'
        /\ \A e \in DOMAIN pending' : e \in DOMAIN pending
    BY <1>2 DEF Messages
  <1>9. QED
    BY <1>4, <1>7, <1>8, PlacesFollow

\* A step of the link or of the ends' lives.
LEMMA QuietKeepsPlaces ==
  ASSUME IInv, PlacesTell, Wire' = Wire,
         inbox' \in Seq(Frames), hand' \in Seq(Frames), relQ' \in Seq(Frames),
         UNCHANGED << nextID, sending, pending, sent, whole, delivered, halfway >>
  PROVE  PlacesTell'
  <1>1. IInv' /\ Forward /\ Grows
    BY QuietHolds
  <1>2. Typed /\ Typed'
    BY <1>1 DEF IInv
  <1>3. ASSUME NEW a \in Nat, NEW c \in Nat, a + 1 \in Messages, Progress(a, c)
        PROVE  Progress(a, c)'
    <2>1. \A i \in 0 .. c - 1 : Coming(a, i) => Coming(a, i)'
      BY DEF Coming
    <2>2. QED
      BY <1>1, <1>2, <1>3, <2>1, ProgressStays
  <1>4. Messages' = Messages /\ \A e \in DOMAIN pending' : e \in DOMAIN pending
    BY DEF Messages
  <1>5. QED
    BY <1>1, <1>3, <1>4, PlacesFollow

\* The four ways a turn of the receive loop ends, and what is left of pending.
Turn(f, b) ==
  \/ Dropped(f) /\ pending' = pending
  \/ /\ ~Dropped(f) /\ b.got < b.count
     /\ DOMAIN pending' = DOMAIN pending \cup {f.id} /\ pending'[f.id] = b
  \/ /\ ~Dropped(f)
     /\ b.got >= b.count \/ (f.count # 1 /\ ~(b.size <= RecvMaxSize))
     /\ DOMAIN pending' = DOMAIN pending \ {f.id}

LEMMA AbsorbTurns ==
  ASSUME Absorb, NEW f, f = Head(inbox), NEW b, b = With(Assembly(f), f)
  PROVE  /\ Turn(f, b)
         /\ \A e \in DOMAIN pending : e # f.id => e \in DOMAIN pending' /\ pending'[e] = pending[e]
         /\ \A e \in DOMAIN pending' : e # f.id => e \in DOMAIN pending
  <1>1. \/ Dropped(f) /\ pending' = pending
        \/ /\ ~Dropped(f) /\ b.got < b.count /\ pending' = Storing(b, f.id)
        \/ /\ ~Dropped(f)
           /\ b.got >= b.count \/ (f.count # 1 /\ ~(b.size <= RecvMaxSize))
           /\ pending' = Without(f.id)
    BY DEF Absorb
  <1>2. CASE pending' = Storing(b, f.id)
    <2>1. /\ DOMAIN pending' = DOMAIN pending \cup {f.id} /\ pending'[f.id] = b
          /\ \A e \in DOMAIN pending : e # f.id => pending'[e] = pending[e]
      BY <1>2 DEF Storing
    <2>2. Turn(f, b)
      BY <1>1, <2>1 DEF Turn, Without
    <2>3. QED
      BY <2>1, <2>2
  <1>3. CASE pending' = Without(f.id)
    <2>1. /\ DOMAIN pending' = DOMAIN pending \ {f.id}
          /\ \A e \in DOMAIN pending : e # f.id => pending'[e] = pending[e]
      BY <1>3 DEF Without
    <2>2. Turn(f, b)
      BY <1>1, <2>1 DEF Turn, Storing
    <2>3. QED
      BY <2>1, <2>2
  <1>4. CASE Dropped(f) /\ pending' = pending
    BY <1>4 DEF Turn
  <1>5. QED
    BY <1>1, <1>2, <1>3, <1>4

\* While all places are taken by earlier messages, whatever comes leaves them.
LEMMA CrowdedTurn ==
  ASSUME IInv, Absorb, NEW a \in Nat, a + 1 \in Messages, Crowded(a), NEW f, f = Head(inbox)
  PROVE  DOMAIN pending' = DOMAIN pending
  <1>1. /\ inbox # << >> /\ inbox' = Tail(inbox)
        /\ UNCHANGED << nextID, sending, hand, relQ, sent, whole >>
    BY DEF Absorb
  <1>2. /\ f \in Frames /\ Sound(f) /\ f = Wire[1]
        /\ Len(Wire) \in Nat /\ Len(Wire) > 0
    BY <1>1, AbsorbMoves
  <1>3. a <= f.id /\ f.id \in Nat
    BY <1>2 DEF Crowded, Frames
  <1>4. f.id \notin DOMAIN pending
    <2> SUFFICES ASSUME f.id \in DOMAIN pending PROVE FALSE
      OBVIOUS
    <2>1. f.id < a
      BY DEF Crowded
    <2>2. QED
      BY <1>3, <2>1
  <1>5. PICK b : b = With(Assembly(f), f)
    OBVIOUS
  <1>6. Turn(f, b)
    BY <1>5, AbsorbTurns
  <1>7. ~Dropped(f) => b.got >= b.count
    <2> SUFFICES ASSUME ~Dropped(f) PROVE b.got >= b.count
      OBVIOUS
    <2>1. f.count \in Nat /\ f.count <= 1
      BY <1>2, <1>4 DEF Dropped, Crowded, Frames
    <2>2. Assembly(f) = NewAssembly(f.count)
      BY <1>4 DEF Assembly
    <2>3. b.got = 1 /\ b.count = f.count
      BY <1>5, <2>2 DEF NewAssembly, With
    <2>4. QED
      BY <2>1, <2>3
  <1>8. CASE Dropped(f)
    BY <1>6, <1>8 DEF Turn
  <1>9. CASE ~Dropped(f)
    <2>1. ~(b.got < b.count)
      <3>1. b.got \in Int /\ b.count \in Int
        <4>1. Assembly(f) = NewAssembly(f.count)
          BY <1>4 DEF Assembly
        <4>2. b.got = 1 /\ b.count = f.count
          BY <1>5, <4>1 DEF NewAssembly, With
        <4>3. QED
          BY <1>2, <4>2 DEF Frames
      <3>2. QED
        BY <1>7, <1>9, <3>1
    <2>2. QED
      BY <1>4, <1>6, <1>9, <2>1 DEF Turn
  <1>10. QED
    BY <1>8, <1>9

\* The next chunk of a message that began, at the head of the wire: it is the one
\* that is due, and it is counted, completes the message, or finds no place.
LEMMA DueChunk ==
  ASSUME IInv, PendingBegan, Absorb, NEW f, f = Head(inbox),
         NEW a \in Nat, a + 1 \in Messages, ~Refused(a + 1), f.id = a,
         NEW c \in Nat, c = ChunkCount(sent[a + 1]), NEW j \in Nat, Begun(a, c, j)
  PROVE  Progress(a, c)'
  <1>1. /\ inbox # << >> /\ inbox' = Tail(inbox)
        /\ UNCHANGED << nextID, sending, hand, relQ, sent, whole >>
    BY DEF Absorb
  <1>2. /\ f \in Frames /\ Sound(f) /\ Behind(f.id, f.index)' /\ f = Wire[1]
        /\ Len(Wire) \in Nat /\ Len(Wire) > 0
        /\ Typed' /\ SenderTells' /\ WireTells' /\ Forward /\ Grows
    BY <1>1, AbsorbMoves
  <1>3. Typed /\ WireTells /\ PendingTells
    BY DEF IInv
  <1>4. /\ Len(Wire') = Len(Wire) - 1
        /\ \A k \in 1 .. Len(Wire') : Wire'[k] = Wire[k + 1]
    BY <1>1, <1>3, AbsorbTakesFirst
  <1>5. /\ f.index \in Nat /\ f.count = c /\ f.index < c
        /\ f.size = Min2(ChunkSize, sent[a + 1] - f.index * ChunkSize)
    BY <1>2 DEF Sound, Frames
  <1>6. 1 \in 1 .. Len(Wire) /\ j \in 0 .. c - 1
    BY <1>2 DEF Begun
  <1>7. f.index = j
    <2>1. f.index >= j
      <3> SUFFICES ASSUME j # 0 PROVE f.index >= j
        BY <1>5
      <3>1. Earlier(a, j - 1, f.id, f.index)
        BY <1>2, <1>6 DEF Begun, Behind
      <3>2. QED
        BY <1>5, <3>1 DEF Earlier
    <2>2. Coming(a, j)
      BY <1>6 DEF Begun
    <2>3. CASE \E k \in 1 .. Len(Wire) : Wire[k].id = a /\ Wire[k].index = j
      <3>1. PICK k \in 1 .. Len(Wire) : Wire[k].id = a /\ Wire[k].index = j
        BY <2>3
      <3>2. 1 < k => Earlier(f.id, f.index, a, j)
        BY <1>2, <1>3, <1>6, <3>1 DEF WireTells
      <3>3. QED
        BY <1>2, <1>5, <2>1, <3>1, <3>2 DEF Earlier
    <2>4. CASE sending # Idle /\ sending.id = a /\ sending.next <= j
      <3>1. Earlier(f.id, f.index, sending.id, sending.next)
        BY <1>2, <1>3, <1>6, <2>4 DEF WireTells
      <3>2. sending.next \in Nat
        BY <1>3, <2>4 DEF Typed, Cuts
      <3>3. QED
        BY <1>5, <2>1, <2>4, <3>1, <3>2 DEF Earlier
    <2>5. QED
      BY <2>2, <2>3, <2>4 DEF Coming
  <1>8. PICK part : part = Assembly(f)
    OBVIOUS
  <1>9. /\ part \in [ count : Nat, got : Nat, size : Int, chunks : [ 1 .. c -> Chunks ] ]
        /\ part.count = c
        /\ \A i \in 1 .. c : part.chunks[i] # << >> => Behind(a, i - 1)
    <2>1. Piece(part, a)
      BY <1>2, <1>8, AssemblyIsPiece
    <2>2. QED
      BY <2>1 DEF Piece
  <1>10. part.chunks[f.index + 1] = << >>
    <2> SUFFICES ASSUME part.chunks[f.index + 1] # << >> PROVE FALSE
      OBVIOUS
    <2>1. PICK i \in 1 .. c : i = f.index + 1 /\ i - 1 = f.index
      BY <1>5
    <2>2. Behind(a, i - 1)
      BY <1>9, <2>1
    <2>3. Earlier(a, f.index, f.id, f.index)
      BY <1>2, <1>6, <2>1, <2>2 DEF Behind
    <2>4. QED
      BY <1>5, <2>3 DEF Earlier
  <1>11. part.got = j /\ part.size = j * ChunkSize
    <2>1. CASE j = 0
      <3>1. part = NewAssembly(f.count)
        BY <1>8, <2>1 DEF Begun, Assembly
      <3>2. 0 * ChunkSize = 0
        BY FramingAssumption
      <3>3. QED
        BY <2>1, <3>1, <3>2 DEF NewAssembly
    <2>2. CASE j # 0
      BY <1>8, <2>2 DEF Begun, Assembly
    <2>3. QED
      BY <2>1, <2>2
  <1>12. PICK b : b = With(part, f)
    OBVIOUS
  <1>13. b.got = j + 1 /\ b.count = c /\ b.size = Int32(j * ChunkSize + f.size)
    BY <1>9, <1>11, <1>12 DEF With
  <1>14. PICK s \in Nat, m \in Nat, t \in Nat :
           s = sent[a + 1] /\ m = ChunkSize /\ t = j * m
    <2>1. j * ChunkSize \in Nat
      BY FramingAssumption
    <2>2. QED
      BY <1>3, <2>1, CountOfMessage, FramingAssumption
  <1>15. t <= s /\ (j + 1 < c => (j + 1) * m < s)
    BY <1>6, <1>14, ChunkEnds
  <1>16. (j + 1) * m = t + m
    BY <1>14
  <1>17. /\ t + f.size \in Nat /\ t + f.size <= s
         /\ j + 1 < c => t + f.size = (j + 1) * m
    <2>1. f.size = Min2(m, s - t)
      BY <1>5, <1>7, <1>14
    <2>2. QED
      BY <1>14, <1>15, <1>16, <2>1 DEF Min2
  <1>18. c # 1 => s <= RecvMaxSize
    BY <1>5, <1>14, FramingAssumption DEF Refused
  <1>19. c # 1 => b.size = t + f.size /\ b.size <= RecvMaxSize
    <2> SUFFICES ASSUME c # 1 PROVE b.size = t + f.size /\ b.size <= RecvMaxSize
      OBVIOUS
    <2>1. t + f.size \in Nat /\ t + f.size <= RecvMaxSize /\ t + f.size < HalfWord
      <3>1. RecvMaxSize \in Nat /\ HalfWord \in Nat /\ RecvMaxSize < HalfWord
        BY FramingAssumption
      <3>2. QED
        BY <1>17, <1>18, <3>1
    <2>2. Int32(t + f.size) = t + f.size
      BY <2>1, Int32Keeps
    <2>3. QED
      BY <1>13, <1>14, <2>1, <2>2
  <1>20. Turn(f, b)
    BY <1>8, <1>12, AbsorbTurns
  <1>21. Dropped(f) => a \notin DOMAIN pending /\ Full
    <2>1. ~Oversized(f.count)
      BY <1>5 DEF Refused
    <2>2. QED
      BY <1>2, <1>5, <1>8, <1>9, <1>10, <2>1 DEF Dropped
  <1>22. CASE Dropped(f)
    <2>1. pending' = pending
      BY <1>20, <1>22 DEF Turn
    <2>2. ASSUME NEW e \in DOMAIN pending PROVE e < a
      <3>1. PICK i \in Nat : Behind(e, i)
        BY DEF PendingBegan
      <3>2. Earlier(e, i, f.id, f.index) /\ e \in Nat
        BY <1>2, <1>3, <1>6, <3>1 DEF Behind, PendingTells
      <3>3. e # a
        BY <1>21, <1>22
      <3>4. QED
        BY <3>2, <3>3 DEF Earlier
    <2>3. ASSUME NEW k \in 1 .. Len(Wire') PROVE a <= Wire'[k].id
      <3>1. Wire'[k] \in Frames /\ Earlier(a, f.index, Wire'[k].id, Wire'[k].index)
        BY <1>2, WireTypedNext DEF Behind
      <3>2. QED
        BY <3>1 DEF Earlier, Frames
    <2>4. sending' # Idle => a <= sending'.id
      <3> SUFFICES ASSUME sending' # Idle PROVE a <= sending'.id
        OBVIOUS
      <3>1. sending' \in Cuts /\ Earlier(a, f.index, sending'.id, sending'.next)
        BY <1>2 DEF Behind, Typed
      <3>2. QED
        BY <3>1 DEF Earlier, Cuts
    <2>5. Crowded(a)'
      BY <1>21, <1>22, <2>1, <2>2, <2>3, <2>4 DEF Crowded, Full
    <2>6. QED
      BY <2>5 DEF Progress
  <1>23. CASE ~Dropped(f) /\ j + 1 < c
    <2>1. a \in DOMAIN pending' /\ pending'[a] = b
      <3>1. b.got < b.count /\ ~(b.got >= b.count)
        BY <1>13, <1>23
      <3>2. c # 1
        BY <1>23
      <3>3. QED
        BY <1>5, <1>19, <1>20, <1>23, <3>1, <3>2 DEF Turn
    <2>2. b.size = (j + 1) * ChunkSize
      BY <1>14, <1>17, <1>19, <1>23
    <2>3. ASSUME NEW i \in j + 1 .. c - 1 PROVE Coming(a, i)'
      <3>1. Coming(a, i) /\ i # j
        BY <1>6 DEF Begun
      <3>2. CASE \E k \in 1 .. Len(Wire) : Wire[k].id = a /\ Wire[k].index = i
        <4>1. PICK k \in 1 .. Len(Wire) : Wire[k].id = a /\ Wire[k].index = i
          BY <3>2
        <4>2. k # 1
          BY <1>2, <1>7, <3>1, <4>1
        <4>3. k - 1 \in 1 .. Len(Wire') /\ Wire'[k - 1] = Wire[k]
          <5>1. k - 1 \in 1 .. Len(Wire') /\ k - 1 + 1 = k
            BY <1>2, <1>4, <4>2
          <5>2. QED
            BY <1>4, <5>1
        <4>4. QED
          BY <4>1, <4>3 DEF Coming
      <3>3. CASE sending # Idle /\ sending.id = a /\ sending.next <= i
        BY <1>1, <3>3 DEF Coming
      <3>4. QED
        BY <3>1, <3>2, <3>3 DEF Coming
    <2>4. j + 1 \in 0 .. c - 1 /\ j + 1 # 0 /\ j + 1 - 1 = j
      BY <1>23
    <2>5. Behind(a, j + 1 - 1)'
      BY <1>2, <1>7, <2>4 DEF Behind
    <2>6. Begun(a, c, j + 1)'
      BY <1>13, <2>1, <2>2, <2>3, <2>4, <2>5 DEF Begun
    <2>7. QED
      BY <2>4, <2>6 DEF Progress
  <1>24. CASE ~Dropped(f) /\ ~(j + 1 < c)
    <2>1. b.got >= b.count /\ ~(b.got < b.count)
      BY <1>6, <1>13, <1>24
    <2>2. a \notin DOMAIN pending'
      BY <1>20, <1>24, <2>1 DEF Turn
    <2>3. Over(a + 1)'
      <3>1. Piece(b, a)'
        BY <1>2, <1>8, <1>12, <1>24, WithIsPiece, <1>1
      <3>2. (a + 1 \in Messages)'
        BY <1>2 DEF Grows
      <3>3. QED
        BY <1>2, <2>1, <3>1, <3>2, CompleteIsWhole
    <2>4. ASSUME NEW k \in 1 .. Len(Wire') PROVE Wire'[k].id # a
      BY <2>3 DEF Over
    <2>5. sending' # Idle => sending'.id # a
      BY <2>3 DEF Over
    <2>6. QED
      BY <2>2, <2>4, <2>5 DEF Progress, Gone
  <1>25. QED
    BY <1>22, <1>23, <1>24

LEMMA AbsorbKeepsPlaces ==
  ASSUME IInv, PlacesTell, Absorb
  PROVE  PlacesTell'
  <1>1. IInv'
    BY AbsorbHolds
  <1>2. PICK f, b : f = Head(inbox) /\ b = With(Assembly(f), f)
    OBVIOUS
  <1>3. /\ inbox # << >> /\ inbox' = Tail(inbox)
        /\ UNCHANGED << nextID, sending, hand, relQ, sent, whole, halfway >>
    BY DEF Absorb
  <1>4. /\ f \in Frames /\ Behind(f.id, f.index)' /\ f = Wire[1]
        /\ Len(Wire) \in Nat /\ Len(Wire) > 0
        /\ Typed' /\ Forward /\ Grows
    BY <1>2, <1>3, AbsorbMoves
  <1>5. Typed /\ PendingBegan
    BY DEF IInv, PlacesTell
  <1>6. /\ Turn(f, b)
        /\ \A e \in DOMAIN pending : e # f.id => e \in DOMAIN pending' /\ pending'[e] = pending[e]
        /\ \A e \in DOMAIN pending' : e # f.id => e \in DOMAIN pending
    BY <1>2, AbsorbTurns
  <1>7. /\ Len(Wire') = Len(Wire) - 1
        /\ \A k \in 1 .. Len(Wire') : Wire'[k] = Wire[k + 1]
    BY <1>3, <1>5, AbsorbTakesFirst
  <1>8. ASSUME NEW a \in Nat, NEW c \in Nat, a + 1 \in Messages, ~Refused(a + 1),
               c = ChunkCount(sent[a + 1]), Progress(a, c)
        PROVE  Progress(a, c)'
    <2>1. CASE \E j \in 0 .. c - 1 : Begun(a, c, j)
      <3>1. PICK j \in 0 .. c - 1 : Begun(a, c, j)
        BY <2>1
      <3>2. CASE f.id = a
        BY <1>2, <1>5, <1>8, <3>1, <3>2, DueChunk
      <3>3. CASE f.id # a
        <4>1. ASSUME NEW i \in j .. c - 1 PROVE Coming(a, i)'
          <5>1. Coming(a, i)
            BY <3>1 DEF Begun
          <5>2. CASE \E k \in 1 .. Len(Wire) : Wire[k].id = a /\ Wire[k].index = i
            <6>1. PICK k \in 1 .. Len(Wire) : Wire[k].id = a /\ Wire[k].index = i
              BY <5>2
            <6>2. k # 1
              BY <1>4, <3>3, <6>1
            <6>3. k - 1 \in 1 .. Len(Wire') /\ k - 1 + 1 = k
              BY <1>4, <1>7, <6>2
            <6>4. Wire'[k - 1] = Wire[k]
              BY <1>7, <6>3
            <6>5. QED
              BY <6>1, <6>3, <6>4 DEF Coming
          <5>3. CASE sending # Idle /\ sending.id = a /\ sending.next <= i
            BY <1>3, <5>3 DEF Coming
          <5>4. QED
            BY <5>1, <5>2, <5>3 DEF Coming
        <4>2. /\ a \in DOMAIN pending' <=> a \in DOMAIN pending
              /\ a \in DOMAIN pending => pending'[a] = pending[a]
          BY <1>6, <3>3
        <4>3. Begun(a, c, j)'
          BY <1>4, <1>5, <1>8, <3>1, <4>1, <4>2, BegunStays
        <4>4. QED
          BY <4>3 DEF Progress
      <3>4. QED
        BY <3>2, <3>3
    <2>2. CASE Gone(a)
      <3>1. f.id # a
        BY <1>4, <2>2 DEF Gone
      <3>2. a \notin DOMAIN pending'
        BY <1>6, <2>2, <3>1 DEF Gone
      <3>3. QED
        BY <1>4, <1>5, <1>8, <2>2, <3>2, GoneStays DEF Progress
    <2>3. CASE Crowded(a)
      <3>1. DOMAIN pending' = DOMAIN pending
        BY <1>2, <1>8, <2>3, CrowdedTurn
      <3>2. QED
        BY <1>4, <1>5, <1>8, <2>3, <3>1, CrowdedStays DEF Progress
    <2>4. QED
      BY <1>8, <2>1, <2>2, <2>3 DEF Progress
  <1>9. ASSUME NEW e \in DOMAIN pending'
        PROVE  e \in DOMAIN pending \/ \E i \in Nat : Behind(e, i)'
    BY <1>4, <1>6 DEF Frames, Behind
  <1>10. Messages' = Messages
    BY <1>3 DEF Messages
  <1>11. QED
    BY <1>1, <1>3, <1>4, <1>8, <1>9, <1>10, PlacesFollow

LEMMA PlacesStep ==
  IInv /\ PlacesTell /\ [Next]_vars => PlacesTell'
  <1> SUFFICES ASSUME IInv, PlacesTell, [Next]_vars PROVE PlacesTell'
    OBVIOUS
  <1>1. /\ Typed
        /\ inbox \in Seq(Frames) /\ hand \in Seq(Frames) /\ relQ \in Seq(Frames)
    BY DEF IInv, Typed
  <1>2. CASE \E size \in Sizes : SendStarts(size)
    BY <1>2, StartKeepsPlaces
  <1>3. CASE SendQueues
    BY <1>3, QueueKeepsPlaces
  <1>4. CASE SendFails
    BY <1>4, FailKeepsPlaces
  <1>5. CASE PumpTakes \/ PumpDelivers
    <2>1. /\ Wire' = Wire
          /\ inbox' \in Seq(Frames) /\ hand' \in Seq(Frames) /\ relQ' \in Seq(Frames)
      BY <1>1, <1>5, PumpKeepsWire
    <2>2. UNCHANGED << sending, nextID, pending, sent, whole, delivered, halfway >>
      BY <1>5 DEF PumpTakes, PumpDelivers
    <2>3. QED
      BY <2>1, <2>2, QuietKeepsPlaces
  <1>6. CASE Absorb
    BY <1>6, AbsorbKeepsPlaces
  <1>7. CASE \/ PumpEnds \/ ReaderWaits \/ ReaderEnds \/ UNCHANGED vars
             \/ \E e \in { "sender", "receiver" } : Close(e)
    <2>1. UNCHANGED << inbox, hand, relQ, nextID, sending, pending, sent, whole,
                       delivered, halfway >>
      BY <1>7 DEF PumpEnds, ReaderWaits, ReaderEnds, Close, vars
    <2>2. Wire' = Wire
      BY <2>1 DEF Wire
    <2>3. QED
      BY <1>1, <2>1, <2>2, QuietKeepsPlaces
  <1>8. QED
    BY <1>2, <1>3, <1>4, <1>5, <1>6, <1>7 DEF Next

\* At every moment each message that is neither given up nor too large for the
\* receiver is coming chunk after chunk, through, or shut out by earlier ones.
THEOREM PlacesInvariance == Spec => []PlacesTell
  <1>1. Init => PlacesTell
    BY DEF Init, PlacesTell, PendingBegan, ProgressTells, Messages
  <1>2. IInv /\ PlacesTell /\ [Next]_vars => PlacesTell'
    BY PlacesStep
  <1>3. QED
    BY <1>1, <1>2, Invariance, PTL DEF Spec

\* Of the messages whose chunks wait, all but one are lost to a sender that gave
\* up half-way or to the receiver's own limits: whatever the limits, the table
\* fills up by nothing else (framing.go Absorb, its pending map).
THEOREM PlacesAccountedHolds == Spec => []PlacesAccounted
  <1>1. IInv /\ PlacesTell => PlacesAccounted
    <2> SUFFICES ASSUME IInv, PlacesTell PROVE PlacesAccounted
      OBVIOUS
    <2> SUFFICES ASSUME NEW a \in DOMAIN pending, NEW b \in DOMAIN pending,
                        a + 1 \notin halfway, ~Refused(a + 1),
                        b + 1 \notin halfway, ~Refused(b + 1)
                 PROVE  ~(a < b)
      <3>1. ASSUME NEW x \in DOMAIN pending PROVE x \in Nat
        BY DEF IInv, PendingTells
      <3>2. QED
        BY <3>1 DEF PlacesAccounted, MessageOf
    <2>1. Typed /\ PendingTells /\ ProgressTells
      BY DEF IInv, PlacesTell
    <2>2. ASSUME NEW e \in DOMAIN pending, e + 1 \notin halfway, ~Refused(e + 1)
          PROVE  \E j \in Nat : j # 0 /\ Coming(e, j) /\ Behind(e, j - 1)
      <3>1. e \in Nat /\ e + 1 \in Messages
        BY <2>1 DEF PendingTells
      <3>2. PICK c \in Nat : c = ChunkCount(sent[e + 1])
        BY <2>1, <3>1, CountOfMessage
      <3>3. Progress(e, c)
        BY <2>1, <2>2, <3>1, <3>2 DEF ProgressTells
      <3>4. ~Gone(e)
        BY <2>2 DEF Gone
      <3>5. ~Crowded(e)
        BY <2>2, <3>1 DEF Crowded
      <3>6. PICK j \in 0 .. c - 1 : Begun(e, c, j)
        BY <3>3, <3>4, <3>5 DEF Progress
      <3>7. j # 0 /\ j \in Nat /\ j \in j .. c - 1
        BY <2>2, <3>6 DEF Begun
      <3>8. QED
        BY <3>6, <3>7 DEF Begun
    <2>3. PICK i \in Nat : i # 0 /\ Coming(a, i)
      BY <2>2
    <2>4. PICK j \in Nat : Behind(b, j - 1)
      BY <2>2
    <2>5. a \in Nat /\ b \in Nat
      BY <2>1 DEF PendingTells
    <2>6. b <= a
      BY <2>3, <2>4, <2>5 DEF Coming, Behind, Earlier
    <2>7. QED
      BY <2>5, <2>6
  <1>2. QED
    BY <1>1, Invariance, PlacesInvariance, PTL

\* Whatever Absorb returns is a message that was queued to its last chunk, all
\* of it in its order: for any sizes, any limits at either end and any sends
\* that were given up half-way (framing.go Send, Absorb).
THEOREM DeliveredWholeHolds == Spec => []DeliveredWhole
  <1>1. IInv => DeliveredWhole
    <2> SUFFICES ASSUME IInv PROVE DeliveredWhole
      OBVIOUS
    <2>1. DeliveredTells
      BY DEF IInv
    <2>2. DOMAIN delivered = 1 .. Len(delivered)
      BY <2>1 DEF DeliveredTells
    <2>3. QED
      BY <2>1, <2>2 DEF DeliveredTells, DeliveredWhole
  <1>2. QED
    BY <1>1, Invariance, PTL

\* Messages come out in the order of their Sends, none twice, although a larger
\* one stays open while smaller ones pass (framing.go Absorb).
THEOREM DeliveredInOrderHolds == Spec => []DeliveredInOrder
  <1>1. IInv => DeliveredInOrder
    BY DEF IInv
  <1>2. QED
    BY <1>1, Invariance, PTL
=============================================================================
