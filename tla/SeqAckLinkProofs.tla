-------------------------- MODULE SeqAckLinkProofs --------------------------
(***************************************************************************)
(* What the sequence/ack layer guarantees for any size of sequence space,  *)
(* of bitfield, of window and of drift, with any policies at the ends: the *)
(* ack record is exact across the wraparound, Absorb hands up what is      *)
(* fresh and nothing else, and - while no number comes round with its send *)
(* still in flight - what counts as acked was received.                    *)
(*                                                                         *)
(* The argument: a frame in time is less than half a round from everything *)
(* it is compared with, so comparing two numbers on the wire compares the  *)
(* frames themselves (NewerIsLater).                                       *)
(***************************************************************************)
EXTENDS SeqAckLink, FiniteSetTheorems, WellFoundedInduction, TLAPS

-----------------------------------------------------------------------------
(* Numbers that wrap.                                                      *)

\* A number is so many times round the sequence space.
LEMMA Rounds ==
  ASSUME NEW a \in Nat
  PROVE  /\ a % SeqMod \in SeqNo
         /\ \E k \in Nat : a = k * SeqMod + (a % SeqMod)
  <1>1. SeqMod \in Nat /\ SeqMod > 0
    BY SeqAckAssumption DEF SeqMod
  <1>2. a % SeqMod \in 0 .. SeqMod - 1
    BY <1>1
  <1>3. a \div SeqMod \in Nat
    BY <1>1
  <1>4. a = (a \div SeqMod) * SeqMod + (a % SeqMod)
    BY <1>1
  <1>5. QED
    BY <1>2, <1>3, <1>4 DEF SeqNo

\* Numbers of so many rounds each, and the way between them.
LEMMA RoundsApart ==
  ASSUME NEW m \in Nat, NEW j \in Nat, NEW k \in Nat, NEW x \in 0 .. m - 1,
         NEW y \in 0 .. m - 1, NEW a \in Nat, NEW b \in Nat,
         a = j * m + x, b = k * m + y, NEW d \in Int, d = j - k
  PROVE  a - b = d * m + x - y
  <1>1. j * m - k * m = (j - k) * m
    OBVIOUS
  <1>2. j * m \in Nat /\ k * m \in Nat
    OBVIOUS
  <1>3. QED
    BY <1>1, <1>2

\* Two numbers less than a round apart have the distance of their numbers on
\* the wire.
LEMMA DistanceIs ==
  ASSUME NEW a \in Nat, NEW b \in Nat, a - b < SeqMod, b - a < SeqMod
  PROVE  /\ a >= b => Distance(a % SeqMod, b % SeqMod) = a - b
         /\ a < b => Distance(a % SeqMod, b % SeqMod) = SeqMod - (b - a)
  <1>1. SeqMod \in Nat /\ SeqMod > 0
    BY SeqAckAssumption DEF SeqMod
  <1>2. PICK j \in Nat : a = j * SeqMod + (a % SeqMod)
    BY Rounds
  <1>3. PICK k \in Nat : b = k * SeqMod + (b % SeqMod)
    BY Rounds
  <1>4. a % SeqMod \in 0 .. SeqMod - 1 /\ b % SeqMod \in 0 .. SeqMod - 1
    BY Rounds DEF SeqNo
  <1>5. \A m \in Nat, d \in Int, x, y \in Nat :
          x < m /\ y < m /\ d * m + x - y < m /\ y - x - d * m < m => d \in { -1, 0, 1 }
    <2> SUFFICES ASSUME NEW m \in Nat, NEW d \in Int, NEW x \in Nat, NEW y \in Nat,
                        x < m, y < m, d * m + x - y < m, y - x - d * m < m
                 PROVE  d \in { -1, 0, 1 }
      OBVIOUS
    <2>1. CASE d >= 2
      <3>1. d * m >= 2 * m
        BY <2>1, SMT
      <3>2. QED
        BY <3>1
    <2>2. CASE d <= -2
      <3>1. d * m <= -2 * m
        BY <2>2
      <3>2. QED
        BY <3>1
    <2>3. QED
      BY <2>1, <2>2
  <1>6. PICK d \in Int : d = j - k
    OBVIOUS
  <1>7. a - b = d * SeqMod + (a % SeqMod) - (b % SeqMod)
    BY <1>1, <1>2, <1>3, <1>4, <1>6, RoundsApart
  <1>8. d \in { -1, 0, 1 }
    BY <1>1, <1>4, <1>5, <1>7
  <1>9. d * SeqMod \in { -SeqMod, 0, SeqMod } /\ (d = 0 => d * SeqMod = 0)
        /\ (d = 1 => d * SeqMod = SeqMod) /\ (d = -1 => d * SeqMod = -SeqMod)
    BY <1>1, <1>8
  <1>10. QED
    BY <1>1, <1>4, <1>7, <1>8, <1>9 DEF Distance

\* The next number on the wire is that of the next frame.
LEMMA NextSeqNoIs ==
  ASSUME NEW a \in Nat
  PROVE  NextSeqNo(a % SeqMod) = (a + 1) % SeqMod
  <1>1. SeqMod \in Nat /\ SeqMod > 1
    BY SeqAckAssumption DEF SeqMod
  <1>2. a % SeqMod \in 0 .. SeqMod - 1 /\ (a + 1) % SeqMod \in 0 .. SeqMod - 1
    BY Rounds DEF SeqNo
  <1>3. Distance((a + 1) % SeqMod, a % SeqMod) = 1
    <2>1. a + 1 \in Nat /\ (a + 1) - a < SeqMod /\ a - (a + 1) < SeqMod /\ a + 1 >= a
      BY <1>1
    <2>2. Distance((a + 1) % SeqMod, a % SeqMod) = (a + 1) - a
      BY <2>1, DistanceIs
    <2>3. QED
      BY <2>2
  <1>4. QED
    BY <1>1, <1>2, <1>3 DEF Distance, NextSeqNo

-----------------------------------------------------------------------------
(* The inductive invariant.                                                *)

Flights == [ seq : SeqNo, tag : Nat, acked : BOOLEAN ]

Layers ==
  [ nextSeq : SeqNo, inflight : SUBSET Flights, anyReceived : BOOLEAN,
    recvHighest : SeqNo, recvBits : SUBSET (1 .. AckBits), deliveredAny : BOOLEAN,
    delivered : SeqNo, ackDirty : BOOLEAN, confirmed : Int ]

Frames ==
  [ ack : BOOLEAN, seq : SeqNo, ackSeq : SeqNo, ackBits : SUBSET (1 .. AckBits),
    n : Nat, heard : Int ]

Typed ==
  /\ policy \in Policies
  /\ layer \in [ End -> Layers ]
  /\ now \in 0 .. MaxTime
  /\ dirtySince \in [ End -> 0 .. now ]
  /\ link \in [ End -> SUBSET Frames ]
  /\ sent \in [ End -> Nat ]
  /\ got \in [ End -> SUBSET Nat ]
  /\ handed \in [ End -> Int ]

\* The numbers of an end that numbered s frames: the next one is that of s, and
\* every send in flight bears the number of its tag.
SendTells(l, s) ==
  /\ l.nextSeq = s % SeqMod
  /\ IsFiniteSet(l.inflight)
  /\ Cardinality(l.inflight) <= InflightWindow
  /\ \A x \in l.inflight : x.tag < s /\ x.seq = x.tag % SeqMod

\* The receipts an end still knows of among its AckBits last numbers.
Receipts(g, h) == { b \in 1 .. AckBits : h - b \in g }

\* The ack record of an end that received the frames g, h the newest of them.
RecvTells(l, g, h) ==
  /\ h \in { -1 } \cup g
  /\ \A m \in g : m <= h
  /\ h = -1 => l.anyReceived = FALSE /\ l.recvHighest = 0 /\ l.recvBits = {}
  /\ h >= 0 => /\ l.anyReceived = TRUE
               /\ l.recvHighest = h % SeqMod
               /\ l.recvBits \subseteq Receipts(g, h)
               /\ Receipts(g, h) \ l.recvBits \subseteq { AckBits }

\* What an end that received the frames g has handed up, d the last of them.
HandTells(l, g, d) ==
  \/ d = -1 /\ l.deliveredAny = FALSE
  \/ d \in g /\ l.deliveredAny = TRUE /\ l.delivered = d % SeqMod

\* A frame with an ack record of the frames g that its sender received.
Honest(f, g) ==
  \/ f.heard = -1 /\ f.ackSeq = 0 /\ f.ackBits = {}
  \/ /\ f.heard \in g
     /\ f.ackSeq = f.heard % SeqMod
     /\ f.ackBits \subseteq Receipts(g, f.heard)

\* A frame of an end that has numbered s frames and received the frames g.
FrameTells(f, s, g) ==
  /\ f.n < s
  /\ f.seq = f.n % SeqMod
  /\ Honest(f, g)

EndInv(e) ==
  /\ SendTells(layer[e], sent[e])
  /\ RecvTells(layer[e], got[e], Heard(e))
  /\ Heard(e) < sent[Peer(e)]
  /\ HandTells(layer[e], got[e], handed[e])
  /\ \A f \in link[e] : FrameTells(f, sent[Peer(e)], got[Peer(e)])

IInv == Typed /\ \A e \in End : EndInv(e)

\* What an end believes the peer, which received the frames g, to have.
AckTells(l, g) ==
  /\ l.confirmed \in { NoTag, 0 } \cup g
  /\ \A x \in l.inflight : x.acked = TRUE => x.tag \in { 0 } \cup g

AcksTrue == \A e \in End : AckTells(layer[e], got[Peer(e)])

\* The sends in flight of an end that flushes no acks are the last it numbered.
Unbroken(l, s) ==
  \E low \in 0 .. s : { x.tag : x \in l.inflight } = low .. s - 1

-----------------------------------------------------------------------------
(* Lemmas about the operators of the model.                                *)

\* The sizes of the sequence space.
LEMMA Sizes ==
  /\ SeqMod \in Nat /\ HalfSeq \in Nat /\ AckBits \in Nat /\ InflightWindow \in Nat
  /\ MaxLag \in Nat /\ MaxLag >= 1 /\ MaxLag <= HalfSeq - 1
  /\ AckBits >= 1 /\ AckBits < HalfSeq /\ SeqMod = HalfSeq + HalfSeq
  BY SeqAckAssumption, LinkAssumption DEF SeqMod

\* There are two ends, each the peer of the other.
LEMMA PeerIs ==
  ASSUME NEW e \in End
  PROVE  /\ Peer(e) \in End /\ Peer(e) # e /\ Peer(Peer(e)) = e
         /\ \A q \in End : q = e \/ q = Peer(e)
  <1>1. IsFiniteSet(End \ {e}) /\ Cardinality(End \ {e}) = 1
    BY LinkAssumption, FS_RemoveElement
  <1>2. PICK p : End \ {e} = {p}
    BY <1>1, FS_Singleton
  <1>3. p \in End /\ p # e /\ \A q \in End : q = e \/ q = p
    BY <1>2
  <1>4. \A q \in End : q # e <=> q = p
    BY <1>3
  <1>5. Peer(e) = p
    BY <1>3, <1>4 DEF Peer
  <1>6. \A q \in End : q # p <=> q = e
    BY <1>3
  <1>7. Peer(p) = e
    BY <1>6 DEF Peer
  <1>8. QED
    BY <1>3, <1>5, <1>7

\* What is newest in a set, when something is.
LEMMA NewestIs ==
  ASSUME NEW S \in SUBSET Int, NEW h \in S, \A u \in S : u <= h
  PROVE  Newest(S) = h
  <1>1. \A t \in S : (\A u \in S : u <= t) => t = h
    BY SMT
  <1>2. Newest(S) \in S /\ \A u \in S : u <= Newest(S)
    BY DEF Newest
  <1>3. QED
    BY <1>1, <1>2

\* Something is newest among tags that have a bound.
LEMMA NewestMember ==
  ASSUME NEW S \in SUBSET Int, S # {}, NEW N \in Int, \A u \in S : u <= N
  PROVE  Newest(S) \in S
  <1>1. PICK T : T = { N - u : u \in S }
    OBVIOUS
  <1>2. T \in SUBSET Nat /\ T # {}
    <2>1. \A u \in S : N - u \in Nat
      OBVIOUS
    <2>2. QED
      BY <1>1, <2>1
  <1>3. PICK t \in T : \A v \in T : << v, t >> \notin OpToRel(<, Nat)
    BY <1>2, NatLessThanWellFounded, WFMin
  <1>4. ASSUME NEW u \in Nat, NEW v \in Nat, u < v
        PROVE  << u, v >> \in OpToRel(<, Nat)
    BY <1>4, Zenon DEF OpToRel
  <1>5. \A v \in T : ~ (v < t)
    BY <1>2, <1>3, <1>4, Zenon
  <1>6. PICK h \in S : t = N - h
    BY <1>1
  <1>7. ASSUME NEW u \in S PROVE u <= h
    <2>1. N - u \in T /\ N - u \in Nat /\ N - h \in Nat /\ u \in Int /\ h \in Int
      BY <1>1, <1>2, <1>6
    <2>2. ~ (N - u < N - h)
      BY <1>5, <1>6, <2>1
    <2>3. QED
      BY <2>1, <2>2
  <1>8. QED
    BY <1>7, NewestIs

\* Which frame an end heard last.
LEMMA HeardIs ==
  ASSUME NEW g \in SUBSET Nat, NEW h \in { -1 } \cup g, \A m \in g : m <= h
  PROVE  Newest({ -1 } \cup g) = h
  <1>1. PICK S : S = { -1 } \cup g
    OBVIOUS
  <1>2. S \in SUBSET Int /\ h \in S /\ \A u \in S : u <= h
    BY <1>1
  <1>3. QED
    BY <1>1, <1>2, NewestIs

\* On the wire as off it, of two numbers less than half a round apart.
LEMMA NewerIsLater ==
  ASSUME NEW a \in Nat, NEW b \in Nat, a - b < HalfSeq, b - a < HalfSeq
  PROVE  /\ Newer(a % SeqMod, b % SeqMod) <=> a > b
         /\ a >= b => Distance(a % SeqMod, b % SeqMod) = a - b
  <1>1. a - b < SeqMod /\ b - a < SeqMod
    BY Sizes
  <1>2. CASE a >= b
    <2>1. Distance(a % SeqMod, b % SeqMod) = a - b
      BY <1>1, <1>2, DistanceIs
    <2>2. QED
      BY <1>2, <2>1, Sizes DEF Newer
  <1>3. CASE a < b
    <2>1. Distance(a % SeqMod, b % SeqMod) = SeqMod - (b - a)
      BY <1>1, <1>3, DistanceIs
    <2>2. QED
      BY <1>3, <2>1, Sizes DEF Newer
  <1>4. QED
    BY <1>2, <1>3

-----------------------------------------------------------------------------
(* What the methods of the layer do to it.                                 *)

\* Layers that differ in the ack record alone.
SameButRecord(l, m) ==
  /\ m.nextSeq = l.nextSeq /\ m.inflight = l.inflight /\ m.confirmed = l.confirmed
  /\ m.deliveredAny = l.deliveredAny /\ m.delivered = l.delivered

\* Layers that differ in what they know of the peer alone.
SameButAcks(l, m) ==
  /\ m.nextSeq = l.nextSeq /\ m.anyReceived = l.anyReceived
  /\ m.recvHighest = l.recvHighest /\ m.recvBits = l.recvBits
  /\ m.deliveredAny = l.deliveredAny /\ m.delivered = l.delivered

\* Layers that differ in what they sent alone.
SameButSends(l, m) ==
  /\ m.anyReceived = l.anyReceived /\ m.recvHighest = l.recvHighest
  /\ m.recvBits = l.recvBits /\ m.deliveredAny = l.deliveredAny
  /\ m.delivered = l.delivered /\ m.confirmed = l.confirmed

\* The record after frame n arrived, h the newest before it.
RecordAfter(l, m, h, n) ==
  /\ m.anyReceived = TRUE
  /\ h = -1 => m.recvHighest = n % SeqMod /\ m.recvBits = {}
  /\ h >= 0 /\ n > h =>
       /\ m.recvHighest = n % SeqMod
       /\ m.recvBits = IF n - h >= AckBits THEN {}
                       ELSE { b \in 1 .. AckBits : b = n - h \/ b - (n - h) \in l.recvBits }
  /\ h >= 0 /\ ~ (n > h) =>
       /\ m.recvHighest = h % SeqMod
       /\ m.recvBits = l.recvBits \cup ({ h - n } \cap (1 .. AckBits))

\* Noting a receipt, by the place of the frame among those received.
LEMMA NotedIs ==
  ASSUME NEW l \in Layers, NEW g \in SUBSET Nat, NEW h \in Int, RecvTells(l, g, h),
         NEW n \in Nat, n - h < HalfSeq, h - n < HalfSeq,
         NEW m, m = Noted(l, n % SeqMod)
  PROVE  m \in Layers /\ SameButRecord(l, m) /\ RecordAfter(l, m, h, n)
  <1>1. n % SeqMod \in SeqNo
    BY Rounds
  <1>2. h = -1 \/ (h >= 0 /\ h \in Nat)
    BY DEF RecvTells
  <1>3. CASE h = -1
    <2>1. l.anyReceived = FALSE /\ l.recvBits = {}
      BY <1>3 DEF RecvTells
    <2>2. m = [ l EXCEPT !.anyReceived = TRUE, !.recvHighest = n % SeqMod, !.ackDirty = TRUE ]
      BY <2>1 DEF Noted
    <2>3. m \in Layers
      BY <1>1, <2>2 DEF Layers
    <2>4. m.recvHighest = n % SeqMod /\ m.recvBits = l.recvBits /\ m.anyReceived = TRUE
      BY <2>2 DEF Layers
    <2>5. SameButRecord(l, m)
      BY <2>2 DEF Layers, SameButRecord
    <2>6. QED
      BY <1>3, <2>1, <2>3, <2>4, <2>5 DEF RecordAfter
  <1>4. CASE h >= 0 /\ n > h
    <2>1. l.anyReceived = TRUE /\ l.recvHighest = h % SeqMod
      BY <1>4 DEF RecvTells
    <2>2. /\ Newer(n % SeqMod, h % SeqMod)
          /\ Distance(n % SeqMod, h % SeqMod) = n - h
      BY <1>2, <1>4, NewerIsLater
    <2>3. PICK bits : bits = ShiftedBits(l, n % SeqMod)
      OBVIOUS
    <2>4. bits = IF n - h >= AckBits THEN {}
                 ELSE { b \in 1 .. AckBits : b = n - h \/ b - (n - h) \in l.recvBits }
      BY <2>1, <2>2, <2>3 DEF ShiftedBits
    <2>5. m = [ l EXCEPT !.recvBits = bits, !.recvHighest = n % SeqMod, !.ackDirty = TRUE ]
      BY <2>1, <2>2, <2>3 DEF Noted
    <2>6. bits \in SUBSET (1 .. AckBits)
      BY <2>4
    <2>7. m \in Layers /\ m.recvBits = bits /\ m.recvHighest = n % SeqMod
          /\ SameButRecord(l, m) /\ m.anyReceived = TRUE
      BY <1>1, <2>1, <2>5, <2>6 DEF Layers, SameButRecord
    <2>8. QED
      BY <1>4, <2>4, <2>7 DEF RecordAfter
  <1>5. CASE h >= 0 /\ ~ (n > h)
    <2>1. l.anyReceived = TRUE /\ l.recvHighest = h % SeqMod
      BY <1>5 DEF RecvTells
    <2>2. /\ ~ Newer(n % SeqMod, h % SeqMod)
          /\ Distance(h % SeqMod, n % SeqMod) = h - n
      BY <1>2, <1>5, NewerIsLater
    <2>3. PICK bits : bits = l.recvBits \cup ({ h - n } \cap (1 .. AckBits))
      OBVIOUS
    <2>4. m = [ l EXCEPT !.recvBits = bits, !.ackDirty = TRUE ]
      BY <2>1, <2>2, <2>3 DEF Noted, Layers
    <2>5. bits \in SUBSET (1 .. AckBits)
      BY <2>3 DEF Layers
    <2>6. m \in Layers /\ m.recvBits = bits /\ m.recvHighest = h % SeqMod
          /\ SameButRecord(l, m) /\ m.anyReceived = TRUE
      BY <2>1, <2>4, <2>5 DEF Layers, SameButRecord
    <2>7. QED
      BY <1>5, <2>3, <2>6 DEF RecordAfter
  <1>6. QED
    BY <1>2, <1>3, <1>4, <1>5

\* ... and the record is that of the frames received with it.
LEMMA NotedTells ==
  ASSUME NEW l \in Layers, NEW g \in SUBSET Nat, NEW h \in Int, RecvTells(l, g, h),
         NEW n \in Nat, n - h < HalfSeq, h - n < HalfSeq,
         NEW m, m = Noted(l, n % SeqMod), NEW k, k = IF n > h THEN n ELSE h
  PROVE  RecvTells(m, g \cup { n }, k)
  <1>1. PICK z : z = g \cup { n }
    OBVIOUS
  <1>2. k \in z /\ k >= 0 /\ k \in Nat /\ \A u \in z : u <= k
    BY <1>1 DEF RecvTells
  <1>3. RecordAfter(l, m, h, n)
    BY NotedIs
  <1>4. PICK R : R = Receipts(g, h)
    OBVIOUS
  <1>5. m.recvHighest = k % SeqMod /\ m.recvBits \subseteq Receipts(z, k)
        /\ Receipts(z, k) \ m.recvBits \subseteq { AckBits }
    <2>1. CASE h = -1
      <3>1. k = n /\ z = { n }
        <4>1. g = {}
          BY <2>1 DEF RecvTells
        <4>2. QED
          BY <1>1, <2>1, <4>1
      <3>2. Receipts(z, k) = {}
        BY <3>1, Sizes DEF Receipts
      <3>3. m.recvHighest = n % SeqMod /\ m.recvBits = {}
        BY <1>3, <2>1 DEF RecordAfter
      <3>4. QED
        BY <3>1, <3>2, <3>3
    <2>2. CASE h >= 0 /\ n > h
      <3>1. k = n
        BY <2>2
      <3>2. /\ m.recvHighest = n % SeqMod
            /\ m.recvBits = IF n - h >= AckBits THEN {}
                            ELSE { b \in 1 .. AckBits : b = n - h \/ b - (n - h) \in l.recvBits }
        BY <1>3, <2>2 DEF RecordAfter
      <3>3. h \in g /\ \A u \in g : u <= h
        BY <2>2 DEF RecvTells
      <3>4. ASSUME NEW b \in 1 .. AckBits
            PROVE  b \in Receipts(z, k) <=> b = n - h \/ (b > n - h /\ b - (n - h) \in R)
        <4>1. b \in Receipts(z, k) <=> n - b \in g
          BY <1>1, <3>1, <3>4, Sizes DEF Receipts
        <4>2. n - b \in g => b >= n - h
          BY <3>3, <3>4, Sizes
        <4>3. b = n - h => n - b \in g
          <5>1. b = n - h => n - b = h
            BY Sizes
          <5>2. QED
            BY <3>3, <5>1
        <4>4. b > n - h => (b - (n - h) \in R <=> n - b \in g)
          <5>1. b > n - h => b - (n - h) \in 1 .. AckBits /\ h - (b - (n - h)) = n - b
            BY <2>2, Sizes
          <5>2. QED
            BY <1>4, <5>1 DEF Receipts
        <4>5. b > n - h \/ b = n - h \/ b < n - h
          BY Sizes
        <4>6. b < n - h => b - (n - h) \notin R /\ ~ (b >= n - h) /\ ~ (b > n - h)
          BY <1>4, Sizes DEF Receipts
        <4>7. QED
          BY <4>1, <4>2, <4>3, <4>4, <4>5, <4>6
      <3>5. l.recvBits \subseteq R /\ R \ l.recvBits \subseteq { AckBits }
            /\ R \subseteq 1 .. AckBits
        BY <1>4, <2>2 DEF RecvTells, Receipts
      <3>6. Receipts(z, k) \subseteq 1 .. AckBits
        BY DEF Receipts
      <3>7. CASE n - h >= AckBits
        <4>1. m.recvBits = {}
          BY <3>2, <3>7
        <4>2. ASSUME NEW b \in Receipts(z, k) PROVE b = AckBits
          BY <3>4, <3>6, <3>7, Sizes
        <4>3. QED
          BY <3>1, <3>2, <4>1, <4>2
      <3>8. CASE ~ (n - h >= AckBits)
        <4>1. m.recvBits = { b \in 1 .. AckBits : b = n - h \/ b - (n - h) \in l.recvBits }
          BY <3>2, <3>8
        <4>2. ASSUME NEW b \in m.recvBits PROVE b \in Receipts(z, k)
          <5>1. b \in 1 .. AckBits /\ (b = n - h \/ b - (n - h) \in l.recvBits)
            BY <4>1
          <5>2. b - (n - h) \in l.recvBits => b > n - h /\ b - (n - h) \in R
            BY <3>5, <5>1, Sizes
          <5>3. QED
            BY <3>4, <5>1, <5>2
        <4>3. ASSUME NEW b \in Receipts(z, k) PROVE b \in m.recvBits
          <5>1. b \in 1 .. AckBits /\ (b = n - h \/ (b > n - h /\ b - (n - h) \in R))
            BY <3>4, <3>6
          <5>2. b - (n - h) # AckBits
            BY <2>2, <5>1, Sizes
          <5>3. b - (n - h) \in R => b - (n - h) \in l.recvBits
            BY <3>5, <5>2
          <5>4. QED
            BY <4>1, <5>1, <5>3
        <4>4. QED
          BY <3>1, <3>2, <4>2, <4>3
      <3>9. QED
        BY <3>7, <3>8
    <2>3. CASE h >= 0 /\ ~ (n > h)
      <3>1. k = h
        BY <2>3
      <3>2. /\ m.recvHighest = h % SeqMod
            /\ m.recvBits = l.recvBits \cup ({ h - n } \cap (1 .. AckBits))
        BY <1>3, <2>3 DEF RecordAfter
      <3>3. l.recvBits \subseteq R /\ R \ l.recvBits \subseteq { AckBits }
        BY <1>4, <2>3 DEF RecvTells
      <3>4. Receipts(z, k) = R \cup ({ h - n } \cap (1 .. AckBits))
        <4>1. ASSUME NEW b \in 1 .. AckBits PROVE h - b \in z <=> h - b \in g \/ b = h - n
          BY <1>1, Sizes
        <4>2. QED
          BY <1>4, <3>1, <4>1 DEF Receipts
      <3>5. QED
        BY <3>1, <3>2, <3>3, <3>4
    <2>4. QED
      BY <2>1, <2>2, <2>3 DEF RecvTells
  <1>6. RecvTells(m, z, k)
    <2>1. k # -1
      BY <1>2
    <2>2. QED
      BY <1>2, <1>3, <1>5, <2>1 DEF RecvTells, RecordAfter
  <1>7. QED
    BY <1>1, <1>6

\* A layer learns of its sends nothing but what the frame reports, and forgets
\* none.
Learns(l, m, f) ==
  /\ \A x \in m.inflight : \E y \in l.inflight :
       /\ x.tag = y.tag /\ x.seq = y.seq
       /\ x.acked = TRUE => y.acked = TRUE \/ Reports(f.ackSeq, f.ackBits, y.seq)
  /\ \A y \in l.inflight : \E x \in m.inflight : x.tag = y.tag
  /\ \/ m.confirmed = l.confirmed
     \/ \E y \in l.inflight :
          m.confirmed = y.tag /\ Reports(f.ackSeq, f.ackBits, y.seq)

\* Processing an ack record marks sends and forgets none.
LEMMA AckedIs ==
  ASSUME NEW l \in Layers, NEW s \in Nat, SendTells(l, s), NEW f,
         NEW m, m = Acked(l, f)
  PROVE  m \in Layers /\ SameButAcks(l, m) /\ SendTells(m, s) /\ Learns(l, m, f)
  <1>1. PICK H : H = NewlyAcked(l, f)
    OBVIOUS
  <1>2. /\ H \subseteq l.inflight
        /\ \A x \in H : Reports(f.ackSeq, f.ackBits, x.seq)
    BY <1>1 DEF NewlyAcked
  <1>3. PICK F : F = [ x \in l.inflight |-> IF x \in H THEN [ x EXCEPT !.acked = TRUE ] ELSE x ]
    OBVIOUS
  <1>4. PICK I : I = { IF x \in H THEN [ x EXCEPT !.acked = TRUE ] ELSE x : x \in l.inflight }
    OBVIOUS
  <1>5. PICK T : T = {l.confirmed} \cup { x.tag : x \in H }
    OBVIOUS
  <1>6. PICK c : c = Newest(T)
    OBVIOUS
  <1>7. m = [ l EXCEPT !.inflight = I, !.confirmed = c ]
    BY <1>1, <1>4, <1>5, <1>6 DEF Acked
  <1>8. l.inflight \in SUBSET Flights /\ l.confirmed \in Int
    BY DEF Layers
  <1>9. ASSUME NEW x \in l.inflight
        PROVE  /\ F[x] \in Flights /\ F[x].tag = x.tag /\ F[x].seq = x.seq
               /\ x.tag \in Nat
               /\ F[x].acked = TRUE => x.acked = TRUE \/ x \in H
    <2>1. x \in Flights
      BY <1>8
    <2>2. F[x] = IF x \in H THEN [ x EXCEPT !.acked = TRUE ] ELSE x
      BY <1>3
    <2>3. CASE x \in H
      BY <2>1, <2>2, <2>3 DEF Flights
    <2>4. CASE x \notin H
      BY <2>1, <2>2, <2>4 DEF Flights
    <2>5. QED
      BY <2>3, <2>4
  <1>10. I = { F[x] : x \in l.inflight }
    BY <1>3, <1>4
  <1>11. IsFiniteSet(I) /\ Cardinality(I) <= InflightWindow
    <2>1. F \in Surjection(l.inflight, I)
      <3>1. F \in [ l.inflight -> I ]
        BY <1>3, <1>4
      <3>2. \A t \in I : \E x \in l.inflight : F[x] = t
        BY <1>10
      <3>3. QED
        BY <3>1, <3>2 DEF Surjection
    <2>2. IsFiniteSet(l.inflight) /\ Cardinality(l.inflight) <= InflightWindow
      BY DEF SendTells
    <2>3. IsFiniteSet(I) /\ Cardinality(I) <= Cardinality(l.inflight)
      BY <2>1, <2>2, FS_Surjection
    <2>4. Cardinality(I) \in Nat /\ Cardinality(l.inflight) \in Nat
      BY <2>2, <2>3, FS_CardinalityType
    <2>5. QED
      BY <2>2, <2>3, <2>4, Sizes
  <1>12. I \in SUBSET Flights
    BY <1>9, <1>10
  <1>13. \A x \in I : x.tag < s /\ x.seq = x.tag % SeqMod
    <2>1. \A y \in l.inflight : y.tag < s /\ y.seq = y.tag % SeqMod
      BY DEF SendTells
    <2>2. \A y \in l.inflight : F[y].tag < s /\ F[y].seq = F[y].tag % SeqMod
      <3>1. \A y \in l.inflight : F[y].tag = y.tag /\ F[y].seq = y.seq
        BY <1>9
      <3>2. QED
        BY <2>1, <3>1
    <2>3. QED
      BY <1>10, <2>2
  <1>14. c \in T /\ T \subseteq Int
    <2>1. \A u \in T : u = l.confirmed \/ (u \in Nat /\ u < s)
      <3>1. \A y \in l.inflight : y.tag < s
        BY DEF SendTells
      <3>2. QED
        BY <1>2, <1>5, <1>9, <3>1
    <2>2. PICK N \in Int : N >= s /\ N >= l.confirmed
      <3>1. l.confirmed >= s \/ s >= l.confirmed
        BY <1>8
      <3>2. QED
        BY <1>8, <3>1
    <2>3. T \in SUBSET Int /\ T # {} /\ \A u \in T : u <= N
      BY <1>5, <1>8, <2>1, <2>2
    <2>4. QED
      BY <1>6, <2>3, NewestMember
  <1>15. m \in Layers /\ SameButAcks(l, m) /\ m.inflight = I /\ m.confirmed = c
    <2>1. m \in Layers
      BY <1>7, <1>12, <1>14 DEF Layers
    <2>2. SameButAcks(l, m)
      BY <1>7 DEF Layers, SameButAcks
    <2>3. m.inflight = I /\ m.confirmed = c
      BY <1>7 DEF Layers
    <2>4. QED
      BY <2>1, <2>2, <2>3
  <1>16. SendTells(m, s)
    <2>1. l.nextSeq = s % SeqMod /\ m.nextSeq = l.nextSeq
      BY <1>15 DEF SendTells, SameButAcks
    <2>2. QED
      BY <1>11, <1>13, <1>15, <2>1 DEF SendTells
  <1>17. Learns(l, m, f)
    <2>1. ASSUME NEW x \in m.inflight
          PROVE  \E y \in l.inflight :
                   /\ x.tag = y.tag /\ x.seq = y.seq
                   /\ x.acked = TRUE => y.acked = TRUE \/ Reports(f.ackSeq, f.ackBits, y.seq)
      <3>1. PICK y \in l.inflight : x = F[y]
        BY <1>10, <1>15
      <3>2. QED
        BY <1>2, <1>9, <3>1
    <2>2. \/ c = l.confirmed
          \/ \E y \in l.inflight : c = y.tag /\ Reports(f.ackSeq, f.ackBits, y.seq)
      BY <1>2, <1>5, <1>14
    <2>3. \A y \in l.inflight : \E x \in m.inflight : x.tag = y.tag
      <3>1. \A y \in l.inflight : F[y] \in m.inflight /\ F[y].tag = y.tag
        BY <1>9, <1>10, <1>15
      <3>2. QED
        BY <3>1
    <2>4. QED
      BY <1>15, <2>1, <2>2, <2>3 DEF Learns
  <1>18. QED
    BY <1>15, <1>16, <1>17

\* Sending numbers one frame more and remembers no more than its window.
LEMMA AfterSendIs ==
  ASSUME NEW l \in Layers, NEW s \in Nat, SendTells(l, s), NEW cut \in 0 .. s,
         RetiresTo(l, s, cut), NEW m, m = AfterSend(l, s, cut)
  PROVE  /\ m \in Layers /\ SendTells(m, s + 1)
         /\ m.inflight = Kept(l, s, cut)
         /\ SameButSends(l, m)
  <1>1. PICK I : I = Kept(l, s, cut)
    OBVIOUS
  <1>2. I = { x \in l.inflight \cup {Flight(l.nextSeq, s)} : x.tag >= cut }
    BY <1>1 DEF Kept
  <1>3. l.nextSeq = s % SeqMod /\ NextSeqNo(l.nextSeq) = (s + 1) % SeqMod
        /\ l.nextSeq \in SeqNo /\ (s + 1) % SeqMod \in SeqNo
    BY NextSeqNoIs, Rounds DEF SendTells
  <1>4. m = [ l EXCEPT !.nextSeq = (s + 1) % SeqMod, !.inflight = I, !.ackDirty = FALSE ]
    BY <1>1, <1>3 DEF AfterSend
  <1>5. l.inflight \in SUBSET Flights
    BY DEF Layers
  <1>6. Flight(l.nextSeq, s) \in Flights /\ Flight(l.nextSeq, s).tag = s
        /\ Flight(l.nextSeq, s).seq = l.nextSeq
    BY <1>3 DEF Flight, Flights
  <1>7. I \in SUBSET Flights
    BY <1>2, <1>5, <1>6
  <1>8. \A x \in I : x.tag < s + 1 /\ x.seq = x.tag % SeqMod
    <2>1. \A x \in l.inflight : x.tag \in Nat /\ x.tag < s /\ x.seq = x.tag % SeqMod
      BY <1>5 DEF SendTells, Flights
    <2>2. QED
      BY <1>2, <1>3, <1>6, <2>1
  <1>9. IsFiniteSet(I) /\ Cardinality(I) <= InflightWindow
    <2>1. IsFiniteSet(l.inflight \cup {Flight(l.nextSeq, s)})
      BY FS_AddElement DEF SendTells
    <2>2. QED
      BY <1>1, <1>2, <2>1, FS_Subset DEF RetiresTo
  <1>10. m \in Layers
    BY <1>3, <1>4, <1>7 DEF Layers
  <1>11. m.nextSeq = (s + 1) % SeqMod /\ m.inflight = I
    BY <1>4 DEF Layers
  <1>12. SendTells(m, s + 1)
    BY <1>8, <1>9, <1>11 DEF SendTells
  <1>13. SameButSends(l, m)
    BY <1>4 DEF Layers, SameButSends
  <1>14. QED
    BY <1>1, <1>10, <1>11, <1>12, <1>13

\* A standalone ack takes a number and nothing else.
LEMMA AfterFlushIs ==
  ASSUME NEW l \in Layers, NEW s \in Nat, SendTells(l, s), NEW m, m = AfterFlush(l)
  PROVE  /\ m \in Layers /\ SendTells(m, s + 1) /\ m.inflight = l.inflight
         /\ SameButSends(l, m)
  <1>1. l.nextSeq = s % SeqMod /\ NextSeqNo(l.nextSeq) = (s + 1) % SeqMod
        /\ (s + 1) % SeqMod \in SeqNo
    BY NextSeqNoIs, Rounds DEF SendTells
  <1>2. m = [ l EXCEPT !.nextSeq = (s + 1) % SeqMod, !.ackDirty = FALSE ]
    BY <1>1 DEF AfterFlush
  <1>3. m \in Layers
    BY <1>1, <1>2 DEF Layers
  <1>4. m.nextSeq = (s + 1) % SeqMod /\ m.inflight = l.inflight /\ SameButSends(l, m)
    BY <1>2 DEF Layers, SameButSends
  <1>5. \A x \in l.inflight : x.tag \in Nat /\ x.tag < s /\ x.seq = x.tag % SeqMod
    BY DEF SendTells, Layers, Flights
  <1>6. SendTells(m, s + 1)
    BY <1>4, <1>5 DEF SendTells
  <1>7. QED
    BY <1>3, <1>4, <1>6

\* A payload is handed up when it is later than the last one.
LEMMA DeliversIs ==
  ASSUME NEW l \in Layers, NEW g \in SUBSET Nat, NEW d, HandTells(l, g, d),
         NEW f \in Frames, f.seq = f.n % SeqMod,
         d >= 0 => f.n - d < HalfSeq, d - f.n < HalfSeq
  PROVE  Delivers(l, f) <=> (~ f.ack /\ f.n > d)
  <1>1. f.n \in Nat
    BY DEF Frames
  <1>2. CASE d = -1 /\ l.deliveredAny = FALSE
    <2>1. f.n > d
      BY <1>1, <1>2
    <2>2. QED
      BY <1>2, <2>1 DEF Delivers
  <1>3. CASE d \in g /\ l.deliveredAny = TRUE /\ l.delivered = d % SeqMod
    <2>1. d \in Nat /\ f.n - d < HalfSeq
      BY <1>3
    <2>2. Newer(f.seq, l.delivered) <=> f.n > d
      BY <1>1, <1>3, <2>1, NewerIsLater
    <2>3. QED
      BY <1>3, <2>2 DEF Delivers
  <1>4. QED
    BY <1>2, <1>3 DEF HandTells

\* A frame that comes in is noted, its record processed, its payload handed up.
LEMMA AbsorbedIs ==
  ASSUME NEW l \in Layers, NEW s \in Nat, SendTells(l, s),
         NEW g \in SUBSET Nat, NEW h \in Int, RecvTells(l, g, h),
         NEW d, HandTells(l, g, d),
         NEW f \in Frames, f.seq = f.n % SeqMod, f.n - h < HalfSeq, h - f.n < HalfSeq,
         NEW m, m = Absorbed(l, f), NEW k, k = IF f.n > h THEN f.n ELSE h,
         NEW c, c = IF Delivers(l, f) THEN f.n ELSE d
  PROVE  /\ m \in Layers /\ SendTells(m, s) /\ RecvTells(m, g \cup { f.n }, k)
         /\ HandTells(m, g \cup { f.n }, c) /\ Learns(l, m, f)
  <1>1. f.n \in Nat /\ f.seq \in SeqNo
    BY DEF Frames
  <1>2. PICK n : n = Noted(l, f.n % SeqMod)
    OBVIOUS
  <1>3. n \in Layers /\ SameButRecord(l, n) /\ RecvTells(n, g \cup { f.n }, k)
    <2>1. n \in Layers /\ SameButRecord(l, n)
      BY <1>1, <1>2, NotedIs
    <2>2. RecvTells(n, g \cup { f.n }, k)
      BY <1>1, <1>2, NotedTells
    <2>3. QED
      BY <2>1, <2>2
  <1>4. SendTells(n, s)
    BY <1>3 DEF SendTells, SameButRecord
  <1>5. PICK a : a = Acked(n, f)
    OBVIOUS
  <1>6. a \in Layers /\ SameButAcks(n, a) /\ SendTells(a, s) /\ Learns(n, a, f)
    BY <1>3, <1>4, <1>5, AckedIs
  <1>7. RecvTells(a, g \cup { f.n }, k)
    BY <1>3, <1>6 DEF RecvTells, SameButAcks
  <1>8. Learns(l, a, f)
    BY <1>3, <1>6 DEF Learns, SameButRecord
  <1>9. a.deliveredAny = l.deliveredAny /\ a.delivered = l.delivered
    BY <1>3, <1>6 DEF SameButRecord, SameButAcks
  <1>10. CASE Delivers(l, f)
    <2>1. m = [ a EXCEPT !.deliveredAny = TRUE, !.delivered = f.seq ]
      BY <1>2, <1>5, <1>10 DEF Absorbed
    <2>2. m \in Layers
      BY <1>1, <1>6, <2>1 DEF Layers
    <2>3. m.nextSeq = a.nextSeq /\ m.inflight = a.inflight
          /\ m.anyReceived = a.anyReceived /\ m.recvHighest = a.recvHighest
          /\ m.recvBits = a.recvBits /\ m.confirmed = a.confirmed
      BY <1>6, <2>1 DEF Layers
    <2>4. m.deliveredAny = TRUE /\ m.delivered = f.seq
      BY <1>6, <2>1 DEF Layers
    <2>5. SendTells(m, s)
      BY <1>6, <2>3 DEF SendTells
    <2>6. RecvTells(m, g \cup { f.n }, k)
      BY <1>7, <2>3 DEF RecvTells
    <2>7. Learns(l, m, f)
      BY <1>8, <2>3 DEF Learns
    <2>8. HandTells(m, g \cup { f.n }, c)
      BY <1>10, <2>4 DEF HandTells
    <2>9. QED
      BY <2>2, <2>5, <2>6, <2>7, <2>8
  <1>11. CASE ~ Delivers(l, f)
    <2>1. m = a
      BY <1>2, <1>5, <1>11 DEF Absorbed
    <2>2. HandTells(m, g \cup { f.n }, c)
      BY <1>9, <1>11, <2>1 DEF HandTells
    <2>3. QED
      BY <1>6, <1>7, <1>8, <2>1, <2>2
  <1>12. QED
    BY <1>10, <1>11

\* A fresh number that such a frame reports was received - or is the first.
LEMMA ReportsTrue ==
  ASSUME NEW g \in SUBSET Nat, NEW s \in Nat, \A u \in g : u < s,
         NEW f \in Frames, Honest(f, g), s - f.heard <= MaxLag + 1,
         NEW t \in Nat, t < s, s - t <= SeqMod,
         Reports(f.ackSeq, f.ackBits, t % SeqMod)
  PROVE  t \in { 0 } \cup g
  <1>1. CASE f.heard = -1 /\ f.ackSeq = 0 /\ f.ackBits = {}
    <2>1. t < SeqMod
      BY <1>1, Sizes
    <2>2. t % SeqMod = 0
      BY <1>1 DEF Reports
    <2>3. \A x \in Nat, m \in Nat : x < m => x % m = x
      OBVIOUS
    <2>4. QED
      BY <2>1, <2>2, <2>3, Sizes
  <1>2. CASE f.heard \in g /\ f.ackSeq = f.heard % SeqMod
             /\ f.ackBits \subseteq Receipts(g, f.heard)
    <2>1. PICK h \in Nat : h = f.heard /\ h \in g
      BY <1>2
    <2>2. h < s
      BY <2>1
    <2>3. t - h <= MaxLag /\ h - t < SeqMod /\ t - h < SeqMod
      BY <2>1, <2>2, Sizes
    <2>4. /\ h >= t => Distance(h % SeqMod, t % SeqMod) = h - t
          /\ h < t => Distance(h % SeqMod, t % SeqMod) = SeqMod - (t - h)
      BY <2>3, DistanceIs
    <2>5. CASE t % SeqMod = f.ackSeq
      <3>1. Distance(h % SeqMod, t % SeqMod) = 0
        <4>1. h % SeqMod \in 0 .. SeqMod - 1 /\ h % SeqMod = t % SeqMod
          BY <1>2, <2>1, <2>5, Rounds DEF SeqNo
        <4>2. QED
          BY <4>1, Sizes DEF Distance
      <3>2. h = t
        BY <2>3, <2>4, <3>1, Sizes
      <3>3. QED
        BY <2>1, <3>2
    <2>6. CASE /\ Newer(f.ackSeq, t % SeqMod)
               /\ Distance(f.ackSeq, t % SeqMod) \in f.ackBits
      <3>1. PICK b : b = Distance(h % SeqMod, t % SeqMod)
        OBVIOUS
      <3>2. b \in 1 .. HalfSeq - 1 /\ b \in Receipts(g, h)
        BY <1>2, <2>1, <2>6, <3>1 DEF Newer
      <3>3. h >= t /\ b = h - t
        BY <2>3, <2>4, <3>1, <3>2, Sizes
      <3>4. h - b \in g /\ h - b = t
        BY <3>2, <3>3 DEF Receipts
      <3>5. QED
        BY <3>4
    <2>7. QED
      BY <2>5, <2>6 DEF Reports
  <1>3. QED
    BY <1>1, <1>2 DEF Honest

\* What an end believes of its peer stays true.
LEMMA LearnsTruth ==
  ASSUME NEW l \in Layers, NEW s \in Nat, SendTells(l, s),
         \A x \in l.inflight : s - x.tag <= SeqMod,
         NEW g \in SUBSET Nat, \A u \in g : u < s, AckTells(l, g),
         NEW f \in Frames, Honest(f, g), s - f.heard <= MaxLag + 1,
         NEW m \in Layers, Learns(l, m, f)
  PROVE  AckTells(m, g)
  <1>1. ASSUME NEW y \in l.inflight, Reports(f.ackSeq, f.ackBits, y.seq)
        PROVE  y.tag \in { 0 } \cup g
    <2>1. y \in Flights
      BY DEF Layers
    <2>2. y.tag \in Nat /\ y.tag < s /\ y.seq = y.tag % SeqMod /\ s - y.tag <= SeqMod
      BY <2>1 DEF SendTells, Flights
    <2>3. Reports(f.ackSeq, f.ackBits, y.tag % SeqMod)
      BY <1>1, <2>2
    <2>4. QED
      BY <2>2, <2>3, ReportsTrue
  <1>2. ASSUME NEW x \in m.inflight, x.acked = TRUE PROVE x.tag \in { 0 } \cup g
    <2>1. PICK y \in l.inflight : /\ x.tag = y.tag
                                  /\ y.acked = TRUE \/ Reports(f.ackSeq, f.ackBits, y.seq)
      BY <1>2 DEF Learns
    <2>2. x.tag \in Nat /\ y.tag \in Nat
      <3>1. x \in Flights /\ y \in Flights
        BY DEF Layers
      <3>2. QED
        BY <3>1 DEF Flights
    <2>3. y.tag \in { 0 } \cup g
      <3>1. CASE y.acked = TRUE
        BY <3>1 DEF AckTells
      <3>2. CASE Reports(f.ackSeq, f.ackBits, y.seq)
        BY <1>1, <3>2
      <3>3. QED
        BY <2>1, <3>1, <3>2
    <2>4. QED
      BY <2>1, <2>2, <2>3
  <1>3. m.confirmed \in { NoTag, 0 } \cup g
    <2>1. CASE m.confirmed = l.confirmed
      BY <2>1 DEF AckTells
    <2>2. CASE \E y \in l.inflight :
                 m.confirmed = y.tag /\ Reports(f.ackSeq, f.ackBits, y.seq)
      BY <1>1, <2>2
    <2>3. QED
      BY <2>1, <2>2 DEF Learns
  <1>4. QED
    BY <1>2, <1>3 DEF AckTells

-----------------------------------------------------------------------------
(* The invariant holds at the start and is kept by every step.             *)

\* Nobody has numbered or received anything.
LEMMA InitInvariant == Init => IInv
  <1> SUFFICES ASSUME Init PROVE IInv
    OBVIOUS
  <1>1. 0 % SeqMod = 0 /\ 0 \in SeqNo /\ NoTag \in Int
    <2>1. \A x \in Nat, m \in Nat : x < m => x % m = x
      OBVIOUS
    <2>2. QED
      BY <2>1, Sizes DEF SeqNo, NoTag
  <1>2. NewLayer \in Layers
    BY <1>1 DEF NewLayer, Layers
  <1>3. /\ NewLayer.nextSeq = 0 /\ NewLayer.inflight = {} /\ NewLayer.anyReceived = FALSE
        /\ NewLayer.recvHighest = 0 /\ NewLayer.recvBits = {}
        /\ NewLayer.deliveredAny = FALSE
    BY DEF NewLayer
  <1>4. Typed
    <2>1. layer \in [ End -> Layers ]
      BY <1>2 DEF Init
    <2>2. now = 0 /\ now \in 0 .. MaxTime
      BY LinkAssumption DEF Init
    <2>3. dirtySince \in [ End -> 0 .. now ]
      BY <2>2 DEF Init
    <2>4. link \in [ End -> SUBSET Frames ] /\ got \in [ End -> SUBSET Nat ]
      BY DEF Init
    <2>5. sent \in [ End -> Nat ] /\ handed \in [ End -> Int ]
      BY DEF Init
    <2>6. QED
      BY <2>1, <2>2, <2>3, <2>4, <2>5 DEF Typed, Init
  <1>5. ASSUME NEW e \in End PROVE EndInv(e)
    <2>1. /\ layer[e] = NewLayer /\ sent[e] = 0 /\ got[e] = {} /\ handed[e] = -1
          /\ link[e] = {} /\ sent[Peer(e)] = 0
      BY PeerIs DEF Init
    <2>2. Heard(e) = -1
      <3>1. PICK g \in SUBSET Nat : g = {}
        OBVIOUS
      <3>2. Newest({ -1 } \cup g) = -1
        BY <3>1, HeardIs
      <3>3. QED
        BY <2>1, <3>1, <3>2 DEF Heard
    <2>3. SendTells(layer[e], 0)
      <3>1. IsFiniteSet({}) /\ Cardinality({}) = 0
        BY FS_EmptySet
      <3>2. Cardinality({}) <= InflightWindow
        BY <3>1, Sizes
      <3>3. QED
        BY <1>1, <1>3, <2>1, <3>1, <3>2 DEF SendTells
    <2>4. RecvTells(layer[e], {}, -1)
      BY <1>3, <2>1 DEF RecvTells
    <2>5. HandTells(layer[e], {}, -1)
      BY <1>3, <2>1 DEF HandTells
    <2>6. QED
      BY <2>1, <2>2, <2>3, <2>4, <2>5 DEF EndInv
  <1>6. QED
    BY <1>4, <1>5 DEF IInv

\* What a frame tells stays told.
LEMMA FrameStays ==
  ASSUME NEW f \in Frames, NEW s \in Nat, NEW t \in Nat, s <= t,
         NEW g \in SUBSET Nat, NEW z \in SUBSET Nat, g \subseteq z, FrameTells(f, s, g)
  PROVE  FrameTells(f, t, z)
  <1>1. f.n < t
    BY DEF FrameTells, Frames
  <1>2. Honest(f, z)
    <2>1. \A h : Receipts(g, h) \subseteq Receipts(z, h)
      BY DEF Receipts
    <2>2. QED
      BY <2>1 DEF FrameTells, Honest
  <1>3. QED
    BY <1>1, <1>2 DEF FrameTells

\* What the invariant says of an end, in the terms the lemmas want.
LEMMA EndFacts ==
  ASSUME IInv, NEW e \in End
  PROVE  /\ layer[e] \in Layers /\ sent[e] \in Nat /\ got[e] \in SUBSET Nat
         /\ handed[e] \in Int /\ link[e] \in SUBSET Frames
         /\ Heard(e) \in Int /\ Heard(e) >= -1 /\ Heard(e) < sent[Peer(e)]
         /\ handed[e] <= Heard(e)
         /\ \A u \in got[e] : u < sent[Peer(e)]
  <1>1. EndInv(e) /\ Typed
    BY DEF IInv
  <1>2. /\ layer[e] \in Layers /\ sent[e] \in Nat /\ got[e] \in SUBSET Nat
        /\ handed[e] \in Int /\ link[e] \in SUBSET Frames
    BY <1>1 DEF Typed
  <1>3. PICK h : h = Heard(e)
    OBVIOUS
  <1>4. /\ h \in { -1 } \cup got[e] /\ h < sent[Peer(e)]
        /\ \A m \in got[e] : m <= h
    BY <1>1, <1>3 DEF EndInv, RecvTells
  <1>5. sent[Peer(e)] \in Nat
    BY <1>1, PeerIs DEF Typed
  <1>6. h \in Int /\ h >= -1
    BY <1>2, <1>4
  <1>7. \A u \in got[e] : u < sent[Peer(e)]
    BY <1>2, <1>4, <1>5, <1>6
  <1>8. handed[e] = -1 \/ handed[e] \in got[e]
    BY <1>1 DEF EndInv, HandTells
  <1>9. handed[e] <= h
    BY <1>4, <1>6, <1>8
  <1>10. QED
    BY <1>2, <1>3, <1>4, <1>6, <1>7, <1>9

\* The ack record a layer puts on a frame is that of the frames it received.
LEMMA DatagramIs ==
  ASSUME IInv, NEW e \in End, NEW ack \in BOOLEAN
  PROVE  /\ Datagram(e, ack) \in Frames
         /\ FrameTells(Datagram(e, ack), sent[e] + 1, got[e])
  <1>1. PICK l \in Layers : l = layer[e]
    BY EndFacts
  <1>2. PICK h \in Int : h = Heard(e) /\ h >= -1
    BY EndFacts
  <1>3. PICK s \in Nat : s = sent[e]
    BY EndFacts
  <1>4. PICK g \in SUBSET Nat : g = got[e]
    BY EndFacts
  <1>5. SendTells(l, s) /\ RecvTells(l, g, h)
    BY <1>1, <1>2, <1>3, <1>4 DEF IInv, EndInv
  <1>6. PICK d : d = [ ack |-> ack, seq |-> l.nextSeq, ackSeq |-> l.recvHighest,
                       ackBits |-> l.recvBits, n |-> s, heard |-> h ]
    OBVIOUS
  <1>7. Datagram(e, ack) = d
    BY <1>1, <1>2, <1>3, <1>6 DEF Datagram, Frame
  <1>8. d \in Frames
    BY <1>6 DEF Frames, Layers
  <1>9. d.n = s /\ d.seq = l.nextSeq /\ d.heard = h /\ d.ackSeq = l.recvHighest
        /\ d.ackBits = l.recvBits
    BY <1>6
  <1>10. Honest(d, g)
    <2>1. CASE h = -1
      BY <1>5, <1>9, <2>1 DEF RecvTells, Honest
    <2>2. CASE h >= 0
      <3>1. h \in g
        BY <1>5, <2>2 DEF RecvTells
      <3>2. QED
        BY <1>5, <1>9, <2>2, <3>1 DEF RecvTells, Honest
    <2>3. QED
      BY <1>2, <2>1, <2>2
  <1>11. d.seq = d.n % SeqMod /\ d.n < s + 1
    BY <1>5, <1>9 DEF SendTells
  <1>12. FrameTells(d, s + 1, g)
    BY <1>10, <1>11 DEF FrameTells
  <1>13. QED
    BY <1>3, <1>4, <1>7, <1>8, <1>12

\* An end that numbers a frame, with a payload or without.
LEMMA NumberingKeeps ==
  ASSUME IInv, NEW e \in End, NEW ack \in BOOLEAN,
         NEW m \in Layers, SendTells(m, sent[e] + 1), SameButSends(layer[e], m),
         layer' = [ layer EXCEPT ![e] = m ],
         link' = [ link EXCEPT ![Peer(e)] = Alive(e) \cup { Datagram(e, ack) } ],
         sent' = [ sent EXCEPT ![e] = @ + 1 ],
         UNCHANGED << policy, dirtySince, now, got, handed >>
  PROVE  IInv'
  <1>1. Typed /\ \A q \in End : EndInv(q)
    BY DEF IInv
  <1>2. PICK p \in End : p = Peer(e) /\ p # e /\ Peer(p) = e
    BY PeerIs
  <1>3. PICK D \in Frames : D = Datagram(e, ack) /\ FrameTells(D, sent[e] + 1, got[e])
    BY DatagramIs
  <1>4. PICK A : A = Alive(e) /\ A \subseteq link[p]
    BY <1>2 DEF Alive
  <1>5. /\ layer'[e] = m /\ layer'[p] = layer[p] /\ sent'[e] = sent[e] + 1
        /\ sent'[p] = sent[p] /\ link'[e] = link[e] /\ link'[p] = A \cup { D }
    BY <1>1, <1>2, <1>3, <1>4 DEF Typed
  <1>6. Typed'
    <2>1. layer' \in [ End -> Layers ]
      BY <1>1 DEF Typed
    <2>2. sent' \in [ End -> Nat ]
      BY <1>1 DEF Typed
    <2>3. link' \in [ End -> SUBSET Frames ]
      <3>1. A \cup { D } \in SUBSET Frames
        BY <1>1, <1>2, <1>4 DEF Typed
      <3>2. link' = [ link EXCEPT ![p] = A \cup { D } ]
        BY <1>2, <1>3, <1>4
      <3>3. QED
        BY <1>1, <3>1, <3>2 DEF Typed
    <2>4. QED
      BY <1>1, <2>1, <2>2, <2>3 DEF Typed
  <1>7. EndInv(e)'
    <2>1. RecvTells(m, got[e], Heard(e)) /\ HandTells(m, got[e], handed[e])
      BY <1>1 DEF EndInv, RecvTells, HandTells, SameButSends
    <2>2. Heard(e)' = Heard(e) /\ got' = got /\ handed' = handed
      BY DEF Heard
    <2>3. /\ Heard(e) < sent[p]
          /\ \A f \in link[e] : FrameTells(f, sent[p], got[p])
      BY <1>1, <1>2 DEF EndInv
    <2>4. QED
      BY <1>2, <1>5, <2>1, <2>2, <2>3 DEF EndInv
  <1>8. EndInv(p)'
    <2>1. /\ SendTells(layer[p], sent[p]) /\ RecvTells(layer[p], got[p], Heard(p))
          /\ HandTells(layer[p], got[p], handed[p])
          /\ Heard(p) < sent[e]
          /\ \A f \in link[p] : FrameTells(f, sent[e], got[e])
      BY <1>1, <1>2 DEF EndInv
    <2>2. Heard(p)' = Heard(p) /\ got' = got /\ handed' = handed
      BY DEF Heard
    <2>3. sent[e] \in Nat /\ sent[e] + 1 \in Nat /\ sent[e] <= sent[e] + 1
          /\ Heard(p) \in Int /\ got[e] \in SUBSET Nat
      BY EndFacts
    <2>4. Heard(p) < sent[e] + 1
      BY <2>1, <2>3
    <2>5. ASSUME NEW f \in A \cup { D } PROVE FrameTells(f, sent[e] + 1, got[e])
      <3>1. CASE f = D
        BY <1>3, <3>1
      <3>2. CASE f \in A
        <4>1. f \in Frames /\ FrameTells(f, sent[e], got[e])
          BY <1>1, <1>4, <2>1, <3>2 DEF Typed
        <4>2. QED
          BY <2>3, <4>1, FrameStays
      <3>3. QED
        BY <3>1, <3>2
    <2>6. QED
      BY <1>2, <1>5, <2>1, <2>2, <2>4, <2>5 DEF EndInv
  <1>9. ASSUME NEW q \in End PROVE EndInv(q)'
    BY <1>2, <1>7, <1>8, PeerIs
  <1>10. QED
    BY <1>6, <1>9 DEF IInv

\* A send, what it leaves in flight, and no more.
LEMMA SendIs ==
  ASSUME IInv, NEW e \in End, Send(e)
  PROVE  \E cut \in 0 .. sent[e], m \in Layers :
           /\ layer' = [ layer EXCEPT ![e] = m ]
           /\ SendTells(m, sent[e] + 1) /\ SameButSends(layer[e], m)
           /\ m.inflight = Kept(layer[e], sent[e], cut)
  <1>1. PICK cut \in 0 .. sent[e] :
          /\ RetiresTo(layer[e], sent[e], cut)
          /\ layer' = [ layer EXCEPT ![e] = AfterSend(@, sent[e], cut) ]
    BY DEF Send
  <1>2. PICK l \in Layers : l = layer[e] /\ SendTells(l, sent[e])
    BY EndFacts DEF IInv, EndInv
  <1>3. PICK s \in Nat : s = sent[e]
    BY EndFacts
  <1>4. PICK m : m = AfterSend(l, s, cut)
    OBVIOUS
  <1>5. /\ m \in Layers /\ SendTells(m, s + 1) /\ SameButSends(l, m)
        /\ m.inflight = Kept(l, s, cut)
    BY <1>1, <1>2, <1>3, <1>4, AfterSendIs
  <1>6. layer' = [ layer EXCEPT ![e] = m ]
    BY <1>1, <1>2, <1>3, <1>4
  <1>7. QED
    BY <1>1, <1>2, <1>3, <1>5, <1>6

\* SendDatagram.
LEMMA SendKeeps ==
  ASSUME IInv, NEW e \in End, Send(e)
  PROVE  IInv'
  <1>1. PICK m \in Layers :
           /\ layer' = [ layer EXCEPT ![e] = m ]
           /\ SendTells(m, sent[e] + 1) /\ SameButSends(layer[e], m)
    BY SendIs
  <1>2. /\ link' = [ link EXCEPT ![Peer(e)] = Alive(e) \cup { Datagram(e, FALSE) } ]
        /\ sent' = [ sent EXCEPT ![e] = @ + 1 ]
        /\ UNCHANGED << policy, dirtySince, now, got, handed >>
    BY DEF Send
  <1>3. QED
    BY <1>1, <1>2, NumberingKeeps

\* A standalone ack.
LEMMA FlushIs ==
  ASSUME IInv, NEW e \in End, MaybeFlushAck(e)
  PROVE  \E m \in Layers :
           /\ layer' = [ layer EXCEPT ![e] = m ]
           /\ SendTells(m, sent[e] + 1) /\ SameButSends(layer[e], m)
           /\ m.inflight = layer[e].inflight
  <1>1. PICK l \in Layers : l = layer[e] /\ SendTells(l, sent[e])
    BY EndFacts DEF IInv, EndInv
  <1>2. PICK s \in Nat : s = sent[e]
    BY EndFacts
  <1>3. PICK m : m = AfterFlush(l)
    OBVIOUS
  <1>4. m \in Layers /\ SendTells(m, s + 1) /\ SameButSends(l, m) /\ m.inflight = l.inflight
    BY <1>1, <1>2, <1>3, AfterFlushIs
  <1>5. layer' = [ layer EXCEPT ![e] = m ]
    BY <1>1, <1>3 DEF MaybeFlushAck
  <1>6. QED
    BY <1>1, <1>2, <1>4, <1>5

\* MaybeFlushAck.
LEMMA FlushKeeps ==
  ASSUME IInv, NEW e \in End, MaybeFlushAck(e)
  PROVE  IInv'
  <1>1. PICK m \in Layers :
           /\ layer' = [ layer EXCEPT ![e] = m ]
           /\ SendTells(m, sent[e] + 1) /\ SameButSends(layer[e], m)
    BY FlushIs
  <1>2. /\ link' = [ link EXCEPT ![Peer(e)] = Alive(e) \cup { Datagram(e, TRUE) } ]
        /\ sent' = [ sent EXCEPT ![e] = @ + 1 ]
        /\ UNCHANGED << policy, dirtySince, now, got, handed >>
    BY DEF MaybeFlushAck
  <1>3. QED
    BY <1>1, <1>2, NumberingKeeps

\* A frame that arrives in time, and what its reader makes of it.
LEMMA AbsorbIs ==
  ASSUME IInv, NEW e \in End, NEW f \in link[e], Timely(e, f),
         NEW p, p = Peer(e), NEW m, m = Absorbed(layer[e], f),
         NEW k, k = IF f.n > Heard(e) THEN f.n ELSE Heard(e),
         NEW c, c = IF Delivers(layer[e], f) THEN f.n ELSE handed[e]
  PROVE  /\ m \in Layers /\ SendTells(m, sent[e])
         /\ RecvTells(m, got[e] \cup { f.n }, k) /\ HandTells(m, got[e] \cup { f.n }, c)
         /\ Learns(layer[e], m, f) /\ FrameTells(f, sent[p], got[p])
         /\ f \in Frames /\ f.n \in Nat /\ c \in Int /\ k \in Int /\ k < sent[p]
         /\ Newest({ -1 } \cup (got[e] \cup { f.n })) = k
  <1>1. PICK l \in Layers : l = layer[e]
    BY EndFacts
  <1>2. PICK s \in Nat : s = sent[e]
    BY EndFacts
  <1>3. PICK g \in SUBSET Nat : g = got[e]
    BY EndFacts
  <1>4. PICK h \in Int : h = Heard(e) /\ h >= -1 /\ h < sent[p]
    BY EndFacts
  <1>5. PICK d \in Int : d = handed[e]
    BY EndFacts
  <1>6. PICK sp \in Nat : sp = sent[p]
    BY EndFacts, PeerIs
  <1>7. f \in Frames /\ f.n \in Nat
    BY EndFacts DEF Frames
  <1>8. /\ SendTells(l, s) /\ RecvTells(l, g, h) /\ HandTells(l, g, d)
        /\ FrameTells(f, sent[p], got[p])
    BY <1>1, <1>2, <1>3, <1>4, <1>5 DEF IInv, EndInv
  <1>9. f.n < sp /\ f.seq = f.n % SeqMod
    BY <1>6, <1>8 DEF FrameTells
  <1>10. sp - f.n <= MaxLag /\ f.n - h <= MaxLag
    BY <1>4, <1>6 DEF Timely
  <1>11. f.n - h < HalfSeq /\ h - f.n < HalfSeq
    BY <1>4, <1>6, <1>7, <1>10, Sizes
  <1>12. /\ m = Absorbed(l, f) /\ k = (IF f.n > h THEN f.n ELSE h)
         /\ c = IF Delivers(l, f) THEN f.n ELSE d
    BY <1>1, <1>4, <1>5
  <1>13. /\ m \in Layers /\ SendTells(m, s) /\ RecvTells(m, g \cup { f.n }, k)
         /\ HandTells(m, g \cup { f.n }, c) /\ Learns(l, m, f)
    BY <1>7, <1>8, <1>9, <1>11, <1>12, AbsorbedIs
  <1>14. k \in Int /\ k < sp
    BY <1>4, <1>6, <1>7, <1>9, <1>12
  <1>15. c \in Int
    BY <1>7, <1>12
  <1>16. Newest({ -1 } \cup (g \cup { f.n })) = k
    <2>1. PICK z \in SUBSET Nat : z = g \cup { f.n }
      BY <1>7
    <2>2. k \in { -1 } \cup z /\ \A u \in z : u <= k
      BY <1>13, <2>1 DEF RecvTells
    <2>3. QED
      BY <2>1, <2>2, HeardIs
  <1>17. QED
    BY <1>1, <1>2, <1>3, <1>6, <1>7, <1>8, <1>13, <1>14, <1>15, <1>16

\* Absorb: the reader's record grows by the frame, its peer's by nothing.
LEMMA AbsorbKeeps ==
  ASSUME IInv, NEW e \in End, Absorb(e)
  PROVE  IInv'
  <1>1. Typed /\ \A q \in End : EndInv(q)
    BY DEF IInv
  <1>2. PICK f \in link[e] :
          /\ Timely(e, f)
          /\ layer' = [ layer EXCEPT ![e] = Absorbed(@, f) ]
          /\ dirtySince' = [ dirtySince EXCEPT ![e] = now ]
          /\ link' = [ link EXCEPT ![e] = @ \ {f} ]
          /\ got' = [ got EXCEPT ![e] = @ \cup {f.n} ]
          /\ handed' = [ handed EXCEPT ![e] = IF Delivers(layer[e], f) THEN f.n ELSE @ ]
          /\ UNCHANGED << policy, now, sent >>
    BY DEF Absorb
  <1>3. PICK p \in End : p = Peer(e) /\ p # e /\ Peer(p) = e
    BY PeerIs
  <1>4. PICK m : m = Absorbed(layer[e], f)
    OBVIOUS
  <1>5. PICK k : k = IF f.n > Heard(e) THEN f.n ELSE Heard(e)
    OBVIOUS
  <1>6. PICK c : c = IF Delivers(layer[e], f) THEN f.n ELSE handed[e]
    OBVIOUS
  <1>7. PICK z : z = got[e] \cup { f.n }
    OBVIOUS
  <1>8. /\ m \in Layers /\ SendTells(m, sent[e])
        /\ RecvTells(m, z, k) /\ HandTells(m, z, c)
        /\ f.n \in Nat /\ c \in Int /\ k < sent[p]
        /\ Newest({ -1 } \cup z) = k
    <2>1. /\ m \in Layers /\ SendTells(m, sent[e])
          /\ RecvTells(m, got[e] \cup { f.n }, k) /\ HandTells(m, got[e] \cup { f.n }, c)
          /\ f.n \in Nat /\ c \in Int /\ k < sent[p]
          /\ Newest({ -1 } \cup (got[e] \cup { f.n })) = k
      BY <1>2, <1>3, <1>4, <1>5, <1>6, AbsorbIs
    <2>2. QED
      BY <1>7, <2>1
  <1>9. /\ layer' = [ layer EXCEPT ![e] = m ] /\ got' = [ got EXCEPT ![e] = z ]
        /\ handed' = [ handed EXCEPT ![e] = c ] /\ link' = [ link EXCEPT ![e] = @ \ {f} ]
        /\ sent' = sent
    BY <1>2, <1>4, <1>6, <1>7
  <1>10. /\ layer'[e] = m /\ layer'[p] = layer[p] /\ got'[e] = z /\ got'[p] = got[p]
         /\ handed'[e] = c /\ handed'[p] = handed[p]
         /\ link'[e] = link[e] \ {f} /\ link'[p] = link[p]
    BY <1>1, <1>3, <1>9 DEF Typed
  <1>11. Typed'
    <2>1. layer' \in [ End -> Layers ] /\ sent' \in [ End -> Nat ]
      BY <1>1, <1>8, <1>9 DEF Typed
    <2>2. z \in SUBSET Nat
      BY <1>1, <1>7, <1>8 DEF Typed
    <2>3. got' \in [ End -> SUBSET Nat ] /\ handed' \in [ End -> Int ]
      BY <1>1, <1>8, <1>9, <2>2 DEF Typed
    <2>4. link' \in [ End -> SUBSET Frames ]
      BY <1>1, <1>9 DEF Typed
    <2>5. dirtySince' \in [ End -> 0 .. now' ] /\ now' \in 0 .. MaxTime
      <3>1. now' = now /\ now \in 0 .. MaxTime /\ now \in 0 .. now
        BY <1>1, <1>2, LinkAssumption DEF Typed
      <3>2. QED
        BY <1>1, <1>2, <3>1 DEF Typed
    <2>6. QED
      BY <1>1, <1>2, <2>1, <2>3, <2>4, <2>5 DEF Typed
  <1>12. EndInv(e)'
    <2>1. Heard(e)' = k
      BY <1>8, <1>10 DEF Heard
    <2>2. \A x \in link[e] : FrameTells(x, sent[p], got[p])
      BY <1>1, <1>3 DEF EndInv
    <2>3. QED
      BY <1>3, <1>8, <1>9, <1>10, <2>1, <2>2 DEF EndInv
  <1>13. EndInv(p)'
    <2>1. /\ SendTells(layer[p], sent[p]) /\ RecvTells(layer[p], got[p], Heard(p))
          /\ HandTells(layer[p], got[p], handed[p])
          /\ Heard(p) < sent[e]
          /\ \A x \in link[p] : FrameTells(x, sent[e], got[e])
      BY <1>1, <1>3 DEF EndInv
    <2>2. Heard(p)' = Heard(p)
      BY <1>10 DEF Heard
    <2>3. /\ sent[e] \in Nat /\ sent[e] <= sent[e] /\ got[e] \in SUBSET Nat
          /\ z \in SUBSET Nat /\ got[e] \subseteq z /\ link[p] \subseteq Frames
      BY <1>7, <1>8, EndFacts
    <2>4. \A x \in link[p] : FrameTells(x, sent[e], z)
      BY <2>1, <2>3, FrameStays
    <2>5. QED
      BY <1>3, <1>9, <1>10, <2>1, <2>2, <2>4 DEF EndInv
  <1>14. ASSUME NEW q \in End PROVE EndInv(q)'
    BY <1>3, <1>12, <1>13, PeerIs
  <1>15. QED
    BY <1>11, <1>14 DEF IInv

\* Only the policy's clock moves.
LEMMA StillKeeps ==
  ASSUME IInv, Tick \/ UNCHANGED vars
  PROVE  IInv'
  <1>1. /\ policy' = policy /\ layer' = layer /\ dirtySince' = dirtySince
        /\ link' = link /\ sent' = sent /\ got' = got /\ handed' = handed
    BY DEF Tick, vars
  <1>2. ASSUME NEW e \in End PROVE EndInv(e)'
    <2>1. EndInv(e)
      BY DEF IInv
    <2>2. Heard(e)' = Heard(e)
      BY <1>1 DEF Heard
    <2>3. QED
      BY <1>1, <2>1, <2>2 DEF EndInv
  <1>3. Typed'
    <2>1. Typed
      BY DEF IInv
    <2>2. now' \in 0 .. MaxTime /\ now \in 0 .. MaxTime /\ (now' = now \/ now' = now + 1)
      BY <2>1, LinkAssumption DEF Typed, Tick, vars
    <2>3. 0 .. now \subseteq 0 .. now'
      BY <2>2, LinkAssumption
    <2>4. dirtySince' \in [ End -> 0 .. now' ]
      BY <1>1, <2>1, <2>3 DEF Typed
    <2>5. QED
      BY <1>1, <2>1, <2>2, <2>4 DEF Typed
  <1>4. QED
    BY <1>2, <1>3 DEF IInv

\* Every step.
LEMMA NextKeeps == IInv /\ [Next]_vars => IInv'
  BY SendKeeps, FlushKeeps, AbsorbKeeps, StillKeeps DEF Next

-----------------------------------------------------------------------------
(* The theorems.                                                           *)

\* The inductive invariant of the link holds of every behaviour.
THEOREM Invariance == Spec => []IInv
  BY InitInvariant, NextKeeps, PTL DEF Spec

\* Every layer keeps to its types and remembers no more sends than its window.
THEOREM TypeCorrect == Spec => []TypeOK
  <1>1. IInv => TypeOK
    <2> SUFFICES ASSUME IInv PROVE TypeOK
      OBVIOUS
    <2>1. Typed /\ \A e \in End : EndInv(e)
      BY DEF IInv
    <2>2. ASSUME NEW e \in End
          PROVE  /\ layer[e].nextSeq \in SeqNo /\ layer[e].recvHighest \in SeqNo
                 /\ layer[e].recvBits \subseteq 1 .. AckBits
                 /\ layer[e].delivered \in SeqNo
                 /\ Cardinality(layer[e].inflight) <= InflightWindow
                 /\ dirtySince[e] \in 0 .. now
      <3>1. layer[e] \in Layers /\ dirtySince[e] \in 0 .. now
        BY <2>1 DEF Typed
      <3>2. Cardinality(layer[e].inflight) <= InflightWindow
        BY <2>1 DEF EndInv, SendTells
      <3>3. QED
        BY <3>1, <3>2 DEF Layers
    <2>3. QED
      BY <2>1, <2>2 DEF TypeOK, Typed
  <1>2. QED
    BY <1>1, Invariance, PTL

\* noteReceiptLocked keeps the exact record of what arrived, whichever side of
\* the wraparound a frame is on, save for the bit a jump of AckBits clears.
THEOREM RecordIsExactHolds == Spec => []RecordIsExact
  <1>1. IInv => RecordIsExact
    <2> SUFFICES ASSUME IInv, NEW e \in End, got[e] # {}
                 PROVE  /\ layer[e].recvHighest = Heard(e) % SeqMod
                        /\ layer[e].recvBits \subseteq Receipts(got[e], Heard(e))
                        /\ Receipts(got[e], Heard(e)) \ layer[e].recvBits \subseteq {AckBits}
      BY DEF RecordIsExact, Receipts
    <2>1. RecvTells(layer[e], got[e], Heard(e))
      BY DEF IInv, EndInv
    <2>2. Heard(e) \in Int /\ got[e] \in SUBSET Nat
      BY EndFacts
    <2>3. Heard(e) >= 0
      BY <2>1, <2>2 DEF RecvTells
    <2>4. QED
      BY <2>1, <2>3 DEF RecvTells
  <1>2. QED
    BY <1>1, Invariance, PTL

\* Absorb hands a payload up when, and only when, it was numbered after every
\* one handed up before.
THEOREM DeliversFreshHolds == Spec => []DeliversFresh
  <1>1. IInv => DeliversFresh
    <2> SUFFICES ASSUME IInv, NEW e \in End, NEW f \in link[e], Timely(e, f)
                 PROVE  Delivers(layer[e], f) <=> (~f.ack /\ f.n > handed[e])
      BY DEF DeliversFresh
    <2>1. PICK l \in Layers : l = layer[e]
      BY EndFacts
    <2>2. PICK g \in SUBSET Nat : g = got[e]
      BY EndFacts
    <2>3. PICK d \in Int : d = handed[e] /\ d <= Heard(e)
      BY EndFacts
    <2>4. PICK sp \in Nat : sp = sent[Peer(e)] /\ Heard(e) < sp /\ Heard(e) \in Int
      BY EndFacts, PeerIs
    <2>5. f \in Frames /\ f.n \in Nat
      BY EndFacts DEF Frames
    <2>6. HandTells(l, g, d) /\ f.seq = f.n % SeqMod
      BY <2>1, <2>2, <2>3 DEF IInv, EndInv, FrameTells
    <2>7. sp - f.n <= MaxLag /\ (d >= 0 => f.n - d <= MaxLag)
      BY <2>3, <2>4 DEF Timely
    <2>8. d - f.n < HalfSeq /\ (d >= 0 => f.n - d < HalfSeq)
      BY <2>3, <2>4, <2>5, <2>7, Sizes
    <2>9. Delivers(l, f) <=> (~f.ack /\ f.n > d)
      BY <2>5, <2>6, <2>8, DeliversIs
    <2>10. QED
      BY <2>1, <2>3, <2>9
  <1>2. QED
    BY <1>1, Invariance, PTL

\* While no number comes round with its send in flight, an end believes of its
\* peer only what is true.
LEMMA AcksStayTrue == Spec /\ []NumbersFresh => []AcksTrue
  <1>1. Init => AcksTrue
    <2> SUFFICES ASSUME Init, NEW e \in End PROVE AckTells(layer[e], got[Peer(e)])
      BY DEF AcksTrue
    <2>1. layer[e].inflight = {} /\ layer[e].confirmed = NoTag
      BY DEF Init, NewLayer
    <2>2. QED
      BY <2>1 DEF AckTells
  <1>2. IInv /\ NumbersFresh /\ AcksTrue /\ [Next]_vars => AcksTrue'
    <2> SUFFICES ASSUME IInv, NumbersFresh, AcksTrue, [Next]_vars, NEW q \in End
                 PROVE  AckTells(layer[q], got[Peer(q)])'
      BY DEF AcksTrue
    <2>1. AckTells(layer[q], got[Peer(q)]) /\ Peer(q) \in End /\ layer[q] \in Layers
      BY EndFacts, PeerIs DEF AcksTrue
    <2>2. ASSUME NEW e \in End, Send(e) PROVE AckTells(layer[q], got[Peer(q)])'
      <3>1. PICK cut \in 0 .. sent[e], m \in Layers :
              /\ layer' = [ layer EXCEPT ![e] = m ]
              /\ SameButSends(layer[e], m)
              /\ m.inflight = Kept(layer[e], sent[e], cut)
        BY <2>2, SendIs
      <3>2. got' = got
        BY <2>2 DEF Send
      <3>3. CASE q = e
        <4>1. layer'[q] = m
          BY <3>1, <3>3 DEF IInv, Typed
        <4>2. \A x \in m.inflight : x \in layer[e].inflight \/ x.acked = FALSE
          BY <3>1 DEF Flight, Kept
        <4>3. m.confirmed = layer[e].confirmed
          BY <3>1 DEF SameButSends
        <4>4. AckTells(m, got[Peer(q)])
          BY <2>1, <3>3, <4>2, <4>3 DEF AckTells
        <4>5. QED
          BY <3>2, <4>1, <4>4
      <3>4. CASE q # e
        <4>1. layer'[q] = layer[q]
          BY <3>1, <3>4 DEF IInv, Typed
        <4>2. QED
          BY <2>1, <3>2, <4>1
      <3>5. QED
        BY <3>3, <3>4
    <2>3. ASSUME NEW e \in End, MaybeFlushAck(e) PROVE AckTells(layer[q], got[Peer(q)])'
      <3>1. PICK m \in Layers :
              /\ layer' = [ layer EXCEPT ![e] = m ]
              /\ SameButSends(layer[e], m) /\ m.inflight = layer[e].inflight
        BY <2>3, FlushIs
      <3>2. got' = got
        BY <2>3 DEF MaybeFlushAck
      <3>3. CASE q = e
        <4>1. layer'[q] = m
          BY <3>1, <3>3 DEF IInv, Typed
        <4>2. AckTells(m, got[Peer(q)])
          BY <2>1, <3>1, <3>3 DEF AckTells, SameButSends
        <4>3. QED
          BY <3>2, <4>1, <4>2
      <3>4. CASE q # e
        <4>1. layer'[q] = layer[q]
          BY <3>1, <3>4 DEF IInv, Typed
        <4>2. QED
          BY <2>1, <3>2, <4>1
      <3>5. QED
        BY <3>3, <3>4
    <2>4. ASSUME NEW e \in End, Absorb(e) PROVE AckTells(layer[q], got[Peer(q)])'
      <3>1. PICK f \in link[e] :
              /\ Timely(e, f)
              /\ layer' = [ layer EXCEPT ![e] = Absorbed(@, f) ]
              /\ got' = [ got EXCEPT ![e] = @ \cup {f.n} ]
        BY <2>4 DEF Absorb
      <3>2. PICK p \in End : p = Peer(e) /\ p # e /\ Peer(p) = e
        BY PeerIs
      <3>3. PICK m : m = Absorbed(layer[e], f)
        OBVIOUS
      <3>4. CASE q = e
        <4>1. m \in Layers /\ Learns(layer[e], m, f) /\ FrameTells(f, sent[p], got[p])
              /\ f \in Frames
          BY <3>1, <3>2, <3>3, AbsorbIs
        <4>2. PICK l \in Layers : l = layer[e]
          BY EndFacts
        <4>3. PICK s \in Nat : s = sent[e]
          BY EndFacts
        <4>4. PICK g \in SUBSET Nat : g = got[p]
          BY EndFacts
        <4>5. SendTells(l, s) /\ (\A x \in l.inflight : s - x.tag <= SeqMod)
          BY <4>2, <4>3 DEF IInv, EndInv, NumbersFresh
        <4>6. \A u \in g : u < s
          BY <3>2, <4>3, <4>4, EndFacts
        <4>7. AckTells(l, g)
          BY <2>1, <3>2, <3>4, <4>2, <4>4
        <4>8. Honest(f, g) /\ s - f.heard <= MaxLag + 1
          BY <3>1, <4>1, <4>3, <4>4 DEF FrameTells, Timely
        <4>9. Learns(l, m, f)
          BY <4>1, <4>2
        <4>10. AckTells(m, g)
          BY <4>1, <4>5, <4>6, <4>7, <4>8, <4>9, LearnsTruth
        <4>11. layer'[q] = m /\ got'[Peer(q)] = g
          BY <3>1, <3>2, <3>3, <3>4, <4>4 DEF IInv, Typed
        <4>12. QED
          BY <4>10, <4>11
      <3>5. CASE q = p
        <4>1. layer'[q] = layer[q] /\ Peer(q) = e /\ got[e] \subseteq got'[e]
          BY <3>1, <3>2, <3>5 DEF IInv, Typed
        <4>2. AckTells(layer[q], got'[e])
          BY <2>1, <4>1 DEF AckTells
        <4>3. QED
          BY <4>1, <4>2
      <3>6. QED
        BY <3>2, <3>4, <3>5, PeerIs
    <2>5. CASE Tick
      BY <2>1, <2>5 DEF Tick
    <2>6. CASE UNCHANGED vars
      BY <2>1, <2>6 DEF vars
    <2>7. QED
      BY <2>2, <2>3, <2>4, <2>5, <2>6 DEF Next
  <1>3. QED
    BY <1>1, <1>2, Invariance, PTL DEF Spec

\* While no number comes round with its send in flight, a send that counts as
\* acked was received by the peer, or is the first.
THEOREM AckedWasReceivedHolds == Spec /\ []NumbersFresh => []AckedWasReceived
  <1>1. IInv /\ AcksTrue => AckedWasReceived
    <2> SUFFICES ASSUME IInv, AcksTrue, NEW e \in End, NEW x \in layer[e].inflight, x.acked
                 PROVE  x.tag \in got[Peer(e)] \cup {0}
      BY DEF AckedWasReceived
    <2>1. x \in Flights
      BY EndFacts DEF Layers
    <2>2. x.acked = TRUE
      BY <2>1 DEF Flights
    <2>3. x.tag \in {0} \cup got[Peer(e)]
      BY <2>2 DEF AcksTrue, AckTells
    <2>4. QED
      BY <2>3
  <1>2. QED
    BY <1>1, AcksStayTrue, Invariance, PTL

\* The tags of a set of flights.
TagsOf(F) == { x.tag : x \in F }

\* What bounds how far an end is ahead of the oldest send it remembers.
Bounded(e) ==
  /\ sent[e] <= MaxSent[e]
  /\ policy[e] = "PiggybackOnly" => Unbroken(layer[e], sent[e])

\* An end that flushes no acks remembers the sends of its window, and those are
\* the last it numbered.
LEMMA UnbrokenIsShort ==
  ASSUME NEW l \in Layers, NEW s \in Nat, SendTells(l, s), Unbroken(l, s),
         NEW x \in l.inflight
  PROVE  s - x.tag <= InflightWindow
  <1>1. PICK low \in 0 .. s : TagsOf(l.inflight) = low .. s - 1
    BY DEF Unbroken, TagsOf
  <1>2. PICK T : T = low .. s - 1
    OBVIOUS
  <1>3. PICK F : F = [ y \in l.inflight |-> y.tag ]
    OBVIOUS
  <1>4. F \in Surjection(l.inflight, T)
    <2>1. F \in [ l.inflight -> T ]
      BY <1>1, <1>2, <1>3 DEF TagsOf
    <2>2. \A t \in T : \E y \in l.inflight : F[y] = t
      BY <1>1, <1>2, <1>3 DEF TagsOf
    <2>3. QED
      BY <2>1, <2>2 DEF Surjection
  <1>5. IsFiniteSet(l.inflight) /\ Cardinality(l.inflight) <= InflightWindow
    BY DEF SendTells
  <1>6. IsFiniteSet(T) /\ Cardinality(T) <= Cardinality(l.inflight)
    BY <1>4, <1>5, FS_Surjection
  <1>7. Cardinality(T) = IF low > s - 1 THEN 0 ELSE (s - 1) - low + 1
    <2>1. low \in Int /\ s - 1 \in Int
      OBVIOUS
    <2>2. QED
      BY <1>2, <2>1, FS_Interval
  <1>8. Cardinality(T) \in Nat /\ Cardinality(l.inflight) \in Nat
    BY <1>5, <1>6, FS_CardinalityType
  <1>9. x.tag \in low .. s - 1
    BY <1>1 DEF TagsOf
  <1>10. QED
    BY <1>5, <1>6, <1>7, <1>8, <1>9, Sizes

\* Retiring the oldest leaves the last ones.
LEMMA SendUnbroken ==
  ASSUME NEW l \in Layers, NEW s \in Nat, Unbroken(l, s), NEW cut \in 0 .. s,
         NEW F, F = Kept(l, s, cut)
  PROVE  \E low \in 0 .. s + 1 : TagsOf(F) = low .. s
  <1>1. PICK low \in 0 .. s : TagsOf(l.inflight) = low .. s - 1
    BY DEF Unbroken, TagsOf
  <1>2. PICK last : last = Flight(l.nextSeq, s)
    OBVIOUS
  <1>3. F = { x \in l.inflight \cup { last } : x.tag >= cut }
    BY <1>2 DEF Kept
  <1>4. PICK first \in 0 .. s : first = IF cut > low THEN cut ELSE low
    OBVIOUS
  <1>5. ASSUME NEW t \in TagsOf(F) PROVE t \in first .. s
    <2>1. PICK x \in F : t = x.tag
      BY DEF TagsOf
    <2>2. (x \in l.inflight \/ x = last) /\ x.tag >= cut
      BY <1>3, <2>1
    <2>3. x \in l.inflight => x.tag \in low .. s - 1
      BY <1>1 DEF TagsOf
    <2>4. last.tag = s
      BY <1>2 DEF Flight
    <2>5. CASE x \in l.inflight
      BY <1>3, <1>4, <2>1, <2>2, <2>3, <2>5
    <2>6. CASE x = last
      BY <1>3, <1>4, <2>1, <2>2, <2>4, <2>6
    <2>7. QED
      BY <2>2, <2>5, <2>6
  <1>6. ASSUME NEW t \in first .. s PROVE t \in TagsOf(F)
    <2>1. t >= cut /\ t >= low /\ t \in Nat
      BY <1>4
    <2>2. CASE t = s
      <3>1. last.tag = s
        BY <1>2 DEF Flight
      <3>2. last \in F
        BY <1>3, <2>1, <2>2, <3>1
      <3>3. QED
        BY <2>2, <3>1, <3>2 DEF TagsOf
    <2>3. CASE t # s
      <3>1. t \in low .. s - 1
        BY <2>1, <2>3
      <3>2. PICK x \in l.inflight : x.tag = t
        BY <1>1, <3>1 DEF TagsOf
      <3>3. x \in F
        BY <1>3, <2>1, <3>2
      <3>4. QED
        BY <3>2, <3>3 DEF TagsOf
    <2>4. QED
      BY <2>2, <2>3
  <1>7. TagsOf(F) = first .. s
    <2>1. TagsOf(F) \subseteq first .. s
      BY <1>5
    <2>2. first .. s \subseteq TagsOf(F)
      BY <1>6
    <2>3. QED
      BY <2>1, <2>2
  <1>8. first \in 0 .. s + 1
    BY <1>4
  <1>9. QED
    BY <1>7, <1>8

\* Nothing is in flight at first.
LEMMA BoundedInit == Init => \A e \in End : Bounded(e)
  <1> SUFFICES ASSUME Init, NEW e \in End PROVE Bounded(e)
    OBVIOUS
  <1>1. layer[e].inflight = {} /\ sent[e] = 0 /\ MaxSent[e] \in Nat
    BY LinkAssumption DEF Init, NewLayer
  <1>2. { x.tag : x \in layer[e].inflight } = 0 .. sent[e] - 1 /\ 0 \in 0 .. sent[e]
    BY <1>1
  <1>3. QED
    BY <1>1, <1>2 DEF Bounded, Unbroken

\* A send moves the window on, a receipt forgets nothing.
LEMMA BoundedNext ==
  IInv /\ (\A e \in End : Bounded(e)) /\ [Next]_vars => (\A e \in End : Bounded(e))'
  <1> SUFFICES ASSUME IInv, \A e \in End : Bounded(e), [Next]_vars, NEW q \in End
               PROVE  Bounded(q)'
    OBVIOUS
  <1>1. /\ Bounded(q) /\ layer[q] \in Layers /\ sent[q] \in Nat /\ MaxSent[q] \in Nat
    BY EndFacts, LinkAssumption
  <1>2. ASSUME policy' = policy, sent'[q] = sent[q],
               TagsOf(layer'[q].inflight) = TagsOf(layer[q].inflight)
        PROVE  Bounded(q)'
    BY <1>1, <1>2 DEF Bounded, Unbroken, TagsOf
  <1>3. ASSUME NEW e \in End, Send(e) PROVE Bounded(q)'
    <2>1. PICK cut \in 0 .. sent[e], m \in Layers :
            /\ layer' = [ layer EXCEPT ![e] = m ]
            /\ m.inflight = Kept(layer[e], sent[e], cut)
      BY <1>3, SendIs
    <2>2. sent' = [ sent EXCEPT ![e] = @ + 1 ] /\ policy' = policy /\ sent[e] < MaxSent[e]
      BY <1>3 DEF Send
    <2>3. CASE q = e
      <3>1. layer'[q] = m /\ sent'[q] = sent[q] + 1
        BY <2>1, <2>2, <2>3 DEF IInv, Typed
      <3>2. sent'[q] <= MaxSent[q]
        BY <1>1, <2>2, <2>3, <3>1
      <3>3. ASSUME policy[q] = "PiggybackOnly" PROVE Unbroken(m, sent[q] + 1)
        <4>1. Unbroken(layer[q], sent[q])
          BY <1>1, <3>3 DEF Bounded
        <4>2. \E low \in 0 .. sent[q] + 1 : TagsOf(m.inflight) = low .. sent[q]
          <5>1. PICK l \in Layers : l = layer[q]
            BY <1>1
          <5>2. PICK s \in Nat : s = sent[q]
            BY <1>1
          <5>3. PICK F : F = m.inflight
            OBVIOUS
          <5>4. cut \in 0 .. s /\ F = Kept(l, s, cut) /\ Unbroken(l, s)
            BY <2>1, <2>3, <4>1, <5>1, <5>2, <5>3
          <5>5. \E low \in 0 .. s + 1 : TagsOf(F) = low .. s
            BY <5>4, SendUnbroken
          <5>6. QED
            BY <5>2, <5>3, <5>5
        <4>3. (sent[q] + 1) - 1 = sent[q]
          BY <1>1
        <4>4. QED
          BY <4>2, <4>3 DEF Unbroken, TagsOf
      <3>4. QED
        BY <2>2, <3>1, <3>2, <3>3 DEF Bounded
    <2>4. CASE q # e
      <3>1. layer'[q] = layer[q] /\ sent'[q] = sent[q]
        BY <2>1, <2>2, <2>4 DEF IInv, Typed
      <3>2. QED
        BY <1>2, <2>2, <3>1
    <2>5. QED
      BY <2>3, <2>4
  <1>4. ASSUME NEW e \in End, MaybeFlushAck(e) PROVE Bounded(q)'
    <2>1. PICK m \in Layers : layer' = [ layer EXCEPT ![e] = m ]
      BY <1>4, FlushIs
    <2>2. /\ sent' = [ sent EXCEPT ![e] = @ + 1 ] /\ policy' = policy /\ sent[e] < MaxSent[e]
          /\ policy[e] # "PiggybackOnly"
      BY <1>4 DEF MaybeFlushAck, FlushDue
    <2>3. CASE q = e
      <3>1. sent'[q] = sent[q] + 1
        BY <2>2, <2>3 DEF IInv, Typed
      <3>2. sent'[q] <= MaxSent[q]
        BY <1>1, <2>2, <2>3, <3>1
      <3>3. QED
        BY <2>2, <2>3, <3>2 DEF Bounded
    <2>4. CASE q # e
      <3>1. layer'[q] = layer[q] /\ sent'[q] = sent[q]
        BY <2>1, <2>2, <2>4 DEF IInv, Typed
      <3>2. QED
        BY <1>2, <2>2, <3>1
    <2>5. QED
      BY <2>3, <2>4
  <1>5. ASSUME NEW e \in End, Absorb(e) PROVE Bounded(q)'
    <2>1. PICK f \in link[e] :
            Timely(e, f) /\ layer' = [ layer EXCEPT ![e] = Absorbed(@, f) ]
      BY <1>5 DEF Absorb
    <2>2. sent' = sent /\ policy' = policy
      BY <1>5 DEF Absorb
    <2>3. PICK m : m = Absorbed(layer[e], f)
      OBVIOUS
    <2>4. Learns(layer[e], m, f)
      BY <2>1, <2>3, AbsorbIs
    <2>5. CASE q = e
      <3>1. layer'[q] = m
        BY <2>1, <2>3, <2>5 DEF IInv, Typed
      <3>2. /\ \A x \in m.inflight : \E y \in layer[q].inflight : x.tag = y.tag
            /\ \A y \in layer[q].inflight : \E x \in m.inflight : x.tag = y.tag
        BY <2>4, <2>5 DEF Learns
      <3>3. TagsOf(m.inflight) = TagsOf(layer[q].inflight)
        BY <3>2 DEF TagsOf
      <3>4. QED
        BY <1>2, <2>2, <3>1, <3>3
    <2>6. CASE q # e
      <3>1. layer'[q] = layer[q]
        BY <2>1, <2>6 DEF IInv, Typed
      <3>2. QED
        BY <1>2, <2>2, <3>1
    <2>7. QED
      BY <2>5, <2>6
  <1>6. CASE Tick
    BY <1>2, <1>6 DEF Tick
  <1>7. CASE UNCHANGED vars
    BY <1>2, <1>7 DEF vars
  <1>8. QED
    BY <1>3, <1>4, <1>5, <1>6, <1>7 DEF Next

\* What keeps numbers fresh: an end that numbers less than a round of frames, or
\* one that numbers nothing but sends, whose window is less than a round (128
\* against 2^32 in the code).
Careful(e) ==
  \/ MaxSent[e] <= SeqMod
  \/ InflightWindow <= SeqMod /\ \A q \in Policies : q[e] = "PiggybackOnly"

\* Numbers stay fresh where both ends are careful.
THEOREM NumbersStayFresh ==
  ASSUME \A e \in End : Careful(e)
  PROVE  Spec => []NumbersFresh
  <1>1. IInv /\ (\A e \in End : Bounded(e)) => NumbersFresh
    <2> SUFFICES ASSUME IInv, \A e \in End : Bounded(e), NEW e \in End,
                        NEW x \in layer[e].inflight
                 PROVE  sent[e] - x.tag <= SeqMod
      BY DEF NumbersFresh
    <2>1. PICK l \in Layers : l = layer[e] /\ SendTells(l, sent[e])
      BY EndFacts DEF IInv, EndInv
    <2>2. PICK s \in Nat : s = sent[e]
      BY EndFacts
    <2>3. x \in Flights /\ x.tag \in Nat
      BY <2>1 DEF Layers, Flights
    <2>4. CASE MaxSent[e] <= SeqMod
      <3>1. s <= MaxSent[e] /\ MaxSent[e] \in Nat
        BY <2>2, LinkAssumption DEF Bounded
      <3>2. QED
        BY <2>2, <2>3, <2>4, <3>1, Sizes
    <2>5. CASE InflightWindow <= SeqMod /\ \A q \in Policies : q[e] = "PiggybackOnly"
      <3>1. policy[e] = "PiggybackOnly"
        BY <2>5 DEF IInv, Typed
      <3>2. Unbroken(l, s)
        BY <2>1, <2>2, <3>1 DEF Bounded
      <3>3. s - x.tag <= InflightWindow
        BY <2>1, <2>2, <3>2, UnbrokenIsShort
      <3>4. QED
        BY <2>2, <2>3, <2>5, <3>3, Sizes
    <2>6. QED
      BY <2>4, <2>5 DEF Careful
  <1>2. QED
    BY <1>1, BoundedInit, BoundedNext, Invariance, PTL DEF Spec

\* So the claim holds of the ends that are.
THEOREM AckedWasReceivedOfCareful ==
  ASSUME \A e \in End : Careful(e)
  PROVE  Spec => []AckedWasReceived
  BY NumbersStayFresh, AckedWasReceivedHolds, PTL

\* What Confirmed reports is the tag of a datagram the peer received, or the
\* first one's.
THEOREM ConfirmedWasReceived ==
  Spec /\ []NumbersFresh =>
    [](\A e \in End : layer[e].confirmed \in { NoTag, 0 } \cup got[Peer(e)])
  <1>1. AcksTrue => \A e \in End : layer[e].confirmed \in { NoTag, 0 } \cup got[Peer(e)]
    BY DEF AcksTrue, AckTells
  <1>2. QED
    BY <1>1, AcksStayTrue, PTL

=============================================================================
