------------------------- MODULE StateStreamProofs -------------------------
(***************************************************************************)
(* What the state stream guarantees for every world sequence, history      *)
(* depth, snapshot cadence, speculation depth, ack window and number of    *)
(* ticks below the wraparound.                                             *)
(***************************************************************************)
EXTENDS StateStream, SequenceTheorems, TLAPS

-----------------------------------------------------------------------------
(* Lemmas on the operators.                                                *)

\* Below half the sequence space, "newer" is "greater".
LEMMA NewerIsGreater ==
  ASSUME NEW a \in 0 .. HalfSeq - 1, NEW b \in 0 .. HalfSeq - 1
  PROVE  Newer(a, b) <=> a > b
  BY SeqAckAssumption DEF Newer, Distance, SeqMod

\* Applying a delta to the baseline it was computed from gives the world it
\* was computed for.
LEMMA ApplyDiff ==
  ASSUME NEW b \in Worlds, NEW c \in Worlds
  PROVE  ApplyDelta(b, Diff(b, c)) = c
  BY DEF ApplyDelta, Diff, Worlds

\* Retaining a version drops at most the oldest one.
LEMMA RetainProperties ==
  ASSUME NEW S, NEW h \in Seq(S), NEW v \in S, Len(h) <= HistoryDepth
  PROVE  /\ Retain(h, v) \in Seq(S)
         /\ \/ /\ Len(h) < HistoryDepth
               /\ Len(Retain(h, v)) = Len(h) + 1
               /\ \A i \in 1 .. Len(h) : Retain(h, v)[i] = h[i]
            \/ /\ Len(h) = HistoryDepth
               /\ Len(Retain(h, v)) = HistoryDepth
               /\ \A i \in 1 .. Len(h) - 1 : Retain(h, v)[i] = h[i + 1]
         /\ Retain(h, v)[Len(Retain(h, v))] = v
  <1> DEFINE g == Append(h, v)
  <1>1. /\ g \in Seq(S)
        /\ Len(g) = Len(h) + 1
        /\ \A i \in 1 .. Len(h) : g[i] = h[i]
        /\ g[Len(g)] = v
    BY AppendProperties
  <1>2. CASE Len(g) <= HistoryDepth
    <2>1. Retain(h, v) = g
      BY <1>1, <1>2, TuningAssumption DEF Retain
    <2>2. QED
      BY <1>1, <1>2, <2>1, TuningAssumption
  <1>3. CASE Len(g) > HistoryDepth
    <2>1. Retain(h, v) = Tail(g)
      BY <1>3 DEF Retain
    <2>2. Len(h) = HistoryDepth
      BY <1>1, <1>3, TuningAssumption
    <2>3. /\ Tail(g) \in Seq(S)
          /\ Len(Tail(g)) = Len(h)
          /\ \A i \in 1 .. Len(h) : Tail(g)[i] = g[i + 1]
      BY <1>1, <2>2, TuningAssumption, HeadTailProperties, EmptySeq
    <2>4. QED
      BY <1>1, <2>1, <2>2, <2>3, TuningAssumption
  <1>4. QED
    BY <1>1, <1>2, <1>3, TuningAssumption

-----------------------------------------------------------------------------
(* What each operation of the ack layer changes, field by field.  IsLayer   *)
(* only says which fields there are: nothing below depends on the rest.     *)

LayerFields == { "nextSeq", "inflight", "anyReceived", "recvHighest", "recvBits",
                 "deliveredAny", "delivered", "ackDirty", "confirmed" }

IsLayer(l) == \E S : l \in [ LayerFields -> S ]

LEMMA NewLayerIsLayer == IsLayer(NewLayer)
  <1>1. NewLayer \in [ LayerFields -> { NewLayer[x] : x \in LayerFields } ]
    BY DEF NewLayer, LayerFields
  <1>2. QED
    BY <1>1 DEF IsLayer

\* What a send changes in a layer.
LEMMA AfterSendFields ==
  ASSUME NEW l, IsLayer(l), NEW tag, NEW cut
  PROVE  LET m == AfterSend(l, tag, cut)
         IN  /\ IsLayer(m)
             /\ m.nextSeq = NextSeqNo(l.nextSeq)
             /\ m.inflight = Kept(l, tag, cut)
             /\ m.anyReceived = l.anyReceived
             /\ m.recvHighest = l.recvHighest
             /\ m.deliveredAny = l.deliveredAny
             /\ m.delivered = l.delivered
             /\ m.confirmed = l.confirmed
  <1> DEFINE m == AfterSend(l, tag, cut)
  <1>1. PICK S : l \in [ LayerFields -> S ]
    BY DEF IsLayer
  <1>2. m \in [ LayerFields -> S \cup { NextSeqNo(l.nextSeq), Kept(l, tag, cut), FALSE } ]
    BY <1>1 DEF AfterSend, LayerFields
  <1>3. IsLayer(m)
    BY <1>2 DEF IsLayer
  <1>4. QED
    BY <1>1, <1>3 DEF AfterSend, LayerFields

\* What a standalone ack changes in a layer.
LEMMA AfterFlushFields ==
  ASSUME NEW l, IsLayer(l)
  PROVE  LET m == AfterFlush(l)
         IN  /\ IsLayer(m)
             /\ m.nextSeq = NextSeqNo(l.nextSeq)
             /\ m.inflight = l.inflight
             /\ m.anyReceived = l.anyReceived
             /\ m.recvHighest = l.recvHighest
             /\ m.deliveredAny = l.deliveredAny
             /\ m.delivered = l.delivered
             /\ m.confirmed = l.confirmed
  <1> DEFINE m == AfterFlush(l)
  <1>1. PICK S : l \in [ LayerFields -> S ]
    BY DEF IsLayer
  <1>2. m \in [ LayerFields -> S \cup { NextSeqNo(l.nextSeq), FALSE } ]
    BY <1>1 DEF AfterFlush, LayerFields
  <1>3. IsLayer(m)
    BY <1>2 DEF IsLayer
  <1>4. QED
    BY <1>1, <1>3 DEF AfterFlush, LayerFields

\* Noting a receipt moves the record and nothing else.
LEMMA NotedFields ==
  ASSUME NEW l, IsLayer(l), NEW seq
  PROVE  LET m == Noted(l, seq)
         IN  /\ IsLayer(m)
             /\ m.nextSeq = l.nextSeq
             /\ m.inflight = l.inflight
             /\ l.anyReceived => m.anyReceived = l.anyReceived
             /\ ~l.anyReceived => m.anyReceived = TRUE
             /\ m.recvHighest = IF ~l.anyReceived \/ Newer(seq, l.recvHighest)
                                  THEN seq ELSE l.recvHighest
             /\ m.deliveredAny = l.deliveredAny
             /\ m.delivered = l.delivered
             /\ m.confirmed = l.confirmed
  <1> DEFINE m == Noted(l, seq)
             shifted == ShiftedBits(l, seq)
             added == l.recvBits \cup ({Distance(l.recvHighest, seq)} \cap 1 .. AckBits)
  <1>1. PICK S : l \in [ LayerFields -> S ]
    BY DEF IsLayer
  <1>2. m \in [ LayerFields -> S \cup { seq, shifted, added, TRUE } ]
    BY <1>1 DEF Noted, LayerFields
  <1>3. IsLayer(m)
    BY <1>2 DEF IsLayer
  <1>4. QED
    BY <1>1, <1>3 DEF Noted, LayerFields

\* Processing an ack record marks flights and moves the confirmed tag.
LEMMA AckedFields ==
  ASSUME NEW l, IsLayer(l), NEW f
  PROVE  LET m == Acked(l, f)
         IN  /\ IsLayer(m)
             /\ m.nextSeq = l.nextSeq
             /\ m.inflight = { IF x \in NewlyAcked(l, f) THEN [ x EXCEPT !.acked = TRUE ]
                                                         ELSE x : x \in l.inflight }
             /\ m.anyReceived = l.anyReceived
             /\ m.recvHighest = l.recvHighest
             /\ m.deliveredAny = l.deliveredAny
             /\ m.delivered = l.delivered
             /\ m.confirmed = Newest({l.confirmed} \cup { x.tag : x \in NewlyAcked(l, f) })
  <1> DEFINE m == Acked(l, f)
             marked == { IF x \in NewlyAcked(l, f) THEN [ x EXCEPT !.acked = TRUE ]
                                                   ELSE x : x \in l.inflight }
             top == Newest({l.confirmed} \cup { x.tag : x \in NewlyAcked(l, f) })
  <1>0. m = [ l EXCEPT !.inflight = marked, !.confirmed = top ]
    BY DEF Acked
  <1> HIDE DEF m, marked, top
  <1>1. PICK S : l \in [ LayerFields -> S ]
    BY DEF IsLayer
  <1>2. m \in [ LayerFields -> S \cup { marked, top } ]
    BY <1>0, <1>1 DEF LayerFields
  <1>3. IsLayer(m)
    BY <1>2 DEF IsLayer
  <1>4. /\ m.nextSeq = l.nextSeq
        /\ m.inflight = marked
        /\ m.anyReceived = l.anyReceived
        /\ m.recvHighest = l.recvHighest
        /\ m.deliveredAny = l.deliveredAny
        /\ m.delivered = l.delivered
        /\ m.confirmed = top
    BY <1>0, <1>1 DEF LayerFields
  <1>5. QED
    BY <1>3, <1>4 DEF m, marked, top

\* A whole Absorb.
LEMMA AbsorbedFields ==
  ASSUME NEW l, IsLayer(l), NEW f
  PROVE  LET m == Absorbed(l, f)
         IN  /\ IsLayer(m)
             /\ m.nextSeq = l.nextSeq
             /\ m.inflight = { IF x \in NewlyAcked(l, f) THEN [ x EXCEPT !.acked = TRUE ]
                                                         ELSE x : x \in l.inflight }
             /\ l.anyReceived => m.anyReceived = l.anyReceived
             /\ ~l.anyReceived => m.anyReceived = TRUE
             /\ m.recvHighest = IF ~l.anyReceived \/ Newer(f.seq, l.recvHighest)
                                  THEN f.seq ELSE l.recvHighest
             /\ Delivers(l, f) => m.deliveredAny = TRUE /\ m.delivered = f.seq
             /\ ~Delivers(l, f) => /\ m.deliveredAny = l.deliveredAny
                                   /\ m.delivered = l.delivered
             /\ m.confirmed = Newest({l.confirmed} \cup { x.tag : x \in NewlyAcked(l, f) })
  <1> DEFINE n == Noted(l, f.seq)
             a == Acked(n, f)
  <1>1. /\ IsLayer(n)
        /\ n.nextSeq = l.nextSeq
        /\ n.inflight = l.inflight
        /\ l.anyReceived => n.anyReceived = l.anyReceived
        /\ ~l.anyReceived => n.anyReceived = TRUE
        /\ n.recvHighest = IF ~l.anyReceived \/ Newer(f.seq, l.recvHighest)
                             THEN f.seq ELSE l.recvHighest
        /\ n.deliveredAny = l.deliveredAny
        /\ n.delivered = l.delivered
        /\ n.confirmed = l.confirmed
    BY NotedFields
  <1> HIDE DEF n
  <1>2. NewlyAcked(n, f) = NewlyAcked(l, f)
    BY <1>1 DEF NewlyAcked
  <1>3. /\ IsLayer(a)
        /\ a.nextSeq = n.nextSeq
        /\ a.inflight = { IF x \in NewlyAcked(n, f) THEN [ x EXCEPT !.acked = TRUE ]
                                                    ELSE x : x \in n.inflight }
        /\ a.anyReceived = n.anyReceived
        /\ a.recvHighest = n.recvHighest
        /\ a.deliveredAny = n.deliveredAny
        /\ a.delivered = n.delivered
        /\ a.confirmed = Newest({n.confirmed} \cup { x.tag : x \in NewlyAcked(n, f) })
    BY <1>1, AckedFields
  <1> HIDE DEF a
  <1>4. Absorbed(l, f) = IF Delivers(l, f)
                           THEN [ a EXCEPT !.deliveredAny = TRUE, !.delivered = f.seq ]
                           ELSE a
    BY DEF Absorbed, a, n
  <1>5. CASE Delivers(l, f)
    <2>1. PICK S : a \in [ LayerFields -> S ]
      BY <1>3 DEF IsLayer
    <2> DEFINE d == [ a EXCEPT !.deliveredAny = TRUE, !.delivered = f.seq ]
    <2>2. d \in [ LayerFields -> S \cup { TRUE, f.seq } ]
      BY <2>1 DEF LayerFields
    <2>3. IsLayer(d)
      BY <2>2 DEF IsLayer
    <2>4. /\ d.nextSeq = a.nextSeq
          /\ d.inflight = a.inflight
          /\ d.anyReceived = a.anyReceived
          /\ d.recvHighest = a.recvHighest
          /\ d.deliveredAny = TRUE
          /\ d.delivered = f.seq
          /\ d.confirmed = a.confirmed
      BY <2>1 DEF LayerFields
    <2> HIDE DEF d
    <2>5. QED
      BY <1>1, <1>2, <1>3, <1>4, <1>5, <2>3, <2>4 DEF d
  <1>6. CASE ~Delivers(l, f)
    BY <1>1, <1>2, <1>3, <1>4, <1>6
  <1>7. QED
    BY <1>5, <1>6

-----------------------------------------------------------------------------
(* The inductive invariant.                                                 *)

Versions == [ tick : Nat, state : Worlds ]

Senders == [ history : Seq(Versions), sends : Nat, lastSent : Nat,
             started : BOOLEAN, needSnap : BOOLEAN, confirmed : {NoTick} \cup Nat ]

Flights == [ seq : Nat, tag : Nat, acked : BOOLEAN ]

\* Retained versions, on either end, are committed worlds in increasing order.
HistoryInv(h, t) ==
  /\ h \in Seq(Versions)
  /\ Len(h) <= HistoryDepth
  /\ \A i \in 1 .. Len(h) : h[i].tick \in 1 .. t /\ h[i].state = World[h[i].tick]
  /\ \A i, j \in 1 .. Len(h) : i <= j => h[j].tick - h[i].tick >= j - i

\* The sender retains exactly the last ticks.
SenderInv ==
  /\ sender \in Senders
  /\ HistoryInv(sender.history, tick)
  /\ \A i \in 1 .. Len(sender.history) :
       sender.history[i].tick = tick - Len(sender.history) + i
  /\ sender.lastSent = tick
  /\ sender.sends <= tick
  /\ sender.confirmed <= tick
  /\ sender.confirmed # 0

\* The packets in flight are what the codec says of committed worlds, and a
\* delta's baseline was retained when it was sent.
PacketInv(p, t) ==
  /\ p.tick \in 1 .. t
  /\ \/ /\ p.kind = "snapshot"
        /\ p.payload = World[p.tick]
     \/ /\ p.kind = "delta"
        /\ p.baseline \in 1 .. p.tick - 1
        /\ p.tick - p.baseline < HistoryDepth
        /\ p.payload = Diff(World[p.baseline], World[p.tick])

DownInv ==
  \A f \in down :
    /\ f.ack = FALSE
    /\ f.seq = f.payload.tick - 1
    /\ PacketInv(f.payload, tick)

\* What the client reconstructed it still holds, unless its history is full of
\* newer versions.
ReceiverInv ==
  /\ HistoryInv(receiver, tick)
  /\ applied \subseteq arrived
  /\ arrived \subseteq 1 .. tick
  /\ Synced(receiver) => NewestTick(receiver) \in applied
  /\ \A b \in applied :
       /\ Synced(receiver)
       /\ b <= NewestTick(receiver)
       /\ \/ Holds(receiver, b)
          \/ Len(receiver) = HistoryDepth /\ receiver[1].tick > b

\* The server numbers a datagram per tick; what it remembers of them is an
\* interval that ends with the last one.
SLayerInv ==
  /\ IsLayer(slayer)
  /\ slayer.nextSeq = tick
  /\ slayer.inflight \subseteq Flights
  /\ \A x \in slayer.inflight :
       /\ x.tag \in 1 .. tick
       /\ x.seq = x.tag - 1
       /\ x.acked => x.tag <= slayer.confirmed
       /\ \A t \in x.tag .. tick : \E y \in slayer.inflight : y.tag = t
  /\ slayer.confirmed \in {NoTag} \cup 1 .. tick

\* The highest number the client received is that of the last datagram its
\* layer handed up, for the server sends nothing but payloads.
CLayerInv ==
  /\ IsLayer(clayer)
  /\ clayer.nextSeq \in SeqNo
  /\ clayer.anyReceived \in BOOLEAN
  /\ clayer.deliveredAny = clayer.anyReceived
  /\ clayer.anyReceived => /\ clayer.delivered = clayer.recvHighest
                           /\ clayer.recvHighest \in 0 .. tick - 1
  /\ Synced(receiver) => /\ clayer.anyReceived
                         /\ NewestTick(receiver) <= clayer.recvHighest + 1

\* Every datagram of the client carries a record of some receipt.
UpInv == \A f \in up : f.ackSeq \in 0 .. tick - 1

\* In the confirmed-only mode the ack record never runs ahead of what the
\* client reconstructed, on any stage of its way to a baseline.
ConfirmInv ==
  mode = "confirmedOnly" =>
    /\ clayer.anyReceived => clayer.recvHighest + 1 \in applied
    /\ \A f \in up : f.ackSeq + 1 \in applied
    /\ slayer.confirmed \in applied \cup {NoTag}
    /\ sender.confirmed \in applied \cup {NoTick}
    /\ \A f \in down : f.payload.kind = "delta" => f.payload.baseline \in applied

BasicInv ==
  /\ mode \in Modes /\ client \in Clients
  /\ tick \in 0 .. MaxTick
  /\ resyncs \in Nat

IInv ==
  /\ BasicInv
  /\ SenderInv
  /\ DownInv
  /\ ReceiverInv
  /\ SLayerInv
  /\ CLayerInv
  /\ UpInv
  /\ ConfirmInv

-----------------------------------------------------------------------------
(* Facts about histories and about the sender.                              *)

\* Retaining a newer committed version keeps a history in order.
LEMMA RetainHistory ==
  ASSUME NEW t \in 0 .. MaxTick, NEW h, HistoryInv(h, t),
         NEW u \in 1 .. t, \A i \in 1 .. Len(h) : h[i].tick < u
  PROVE  LET r == Retain(h, Version(u, World[u]))
         IN  /\ HistoryInv(r, t)
             /\ r # << >>
             /\ r[Len(r)] = Version(u, World[u])
             /\ \A i \in 1 .. Len(r) : r[i].tick <= u
             /\ \A i \in 1 .. Len(h) :
                  \/ \E j \in 1 .. Len(r) : r[j] = h[i]
                  \/ /\ Len(r) = HistoryDepth
                     /\ r[1].tick > h[i].tick
             /\ Len(h) = HistoryDepth => /\ Len(r) = HistoryDepth
                                         /\ r[1].tick > h[1].tick
  <1> DEFINE v == Version(u, World[u])
             r == Retain(h, v)
  <1>1. v \in Versions /\ v.tick = u /\ v.state = World[u]
    BY StreamAssumption DEF Version, Versions
  <1>2. h \in Seq(Versions) /\ Len(h) \in Nat /\ Len(h) <= HistoryDepth
    BY DEF HistoryInv
  <1>3. /\ r \in Seq(Versions)
        /\ r[Len(r)] = v
        /\ \/ /\ Len(h) < HistoryDepth
              /\ Len(r) = Len(h) + 1
              /\ \A i \in 1 .. Len(h) : r[i] = h[i]
           \/ /\ Len(h) = HistoryDepth
              /\ Len(r) = HistoryDepth
              /\ \A i \in 1 .. Len(h) - 1 : r[i] = h[i + 1]
    BY <1>1, <1>2, RetainProperties
  <1> HIDE DEF v, r
  <1>4. /\ \A i \in 1 .. Len(h) : /\ h[i].tick \in 1 .. t
                                  /\ h[i].tick < u
                                  /\ h[i].state = World[h[i].tick]
        /\ \A i, j \in 1 .. Len(h) : i <= j => h[j].tick - h[i].tick >= j - i
    BY DEF HistoryInv
  <1>5. CASE Len(h) < HistoryDepth
    <2>1. Len(r) = Len(h) + 1 /\ \A i \in 1 .. Len(h) : r[i] = h[i]
      BY <1>2, <1>3, <1>5, TuningAssumption
    <2>2. \A i \in 1 .. Len(r) : /\ r[i].tick \in 1 .. t
                                 /\ r[i].tick <= u
                                 /\ r[i].state = World[r[i].tick]
      <3>1. SUFFICES ASSUME NEW i \in 1 .. Len(r)
                     PROVE  /\ r[i].tick \in 1 .. t
                            /\ r[i].tick <= u
                            /\ r[i].state = World[r[i].tick]
        OBVIOUS
      <3>2. CASE i = Len(r)
        BY <1>1, <1>3, <3>2
      <3>3. CASE i # Len(r)
        <4>1. i \in 1 .. Len(h)
          BY <1>2, <2>1, <3>1, <3>3
        <4>2. QED
          BY <1>4, <2>1, <4>1
      <3>4. QED
        BY <3>2, <3>3
    <2>3. \A i, j \in 1 .. Len(r) : i <= j => r[j].tick - r[i].tick >= j - i
      <3>1. SUFFICES ASSUME NEW i \in 1 .. Len(r), NEW j \in 1 .. Len(r), i <= j
                     PROVE  r[j].tick - r[i].tick >= j - i
        OBVIOUS
      <3>2. CASE j <= Len(h)
        <4>1. i \in 1 .. Len(h) /\ j \in 1 .. Len(h)
          BY <1>2, <2>1, <3>1, <3>2
        <4>2. QED
          BY <1>4, <2>1, <3>1, <4>1
      <3>3. CASE j = Len(h) + 1 /\ i = j
        BY <1>2, <2>2, <3>1, <3>3
      <3>4. CASE j = Len(h) + 1 /\ i < j
        <4>1. Len(h) \in 1 .. Len(h) /\ i \in 1 .. Len(h) /\ i <= Len(h)
          BY <1>2, <3>1, <3>4
        <4>2. /\ h[Len(h)].tick - h[i].tick >= Len(h) - i
              /\ h[Len(h)].tick < u
              /\ h[Len(h)].tick \in 1 .. t
              /\ h[i].tick \in 1 .. t
          BY <1>4, <4>1
        <4>3. r[j].tick = u /\ r[i] = h[i]
          BY <1>1, <1>3, <2>1, <3>4, <4>1
        <4>4. QED
          BY <1>2, <3>1, <3>4, <4>1, <4>2, <4>3
      <3>5. QED
        BY <1>2, <2>1, <3>1, <3>2, <3>3, <3>4
    <2>4. HistoryInv(r, t)
      BY <1>2, <1>3, <1>5, <2>1, <2>2, <2>3, TuningAssumption DEF HistoryInv
    <2>5. QED
      BY <1>2, <1>3, <2>1, <2>2, <2>4 DEF v, r
  <1>6. CASE Len(h) = HistoryDepth
    <2>1. /\ Len(r) = Len(h)
          /\ Len(h) >= 1
          /\ \A i \in 1 .. Len(h) - 1 : r[i] = h[i + 1]
      BY <1>2, <1>3, <1>6, TuningAssumption
    <2>2. \A i \in 1 .. Len(r) : /\ r[i].tick \in 1 .. t
                                 /\ r[i].tick <= u
                                 /\ r[i].state = World[r[i].tick]
      <3>1. SUFFICES ASSUME NEW i \in 1 .. Len(r)
                     PROVE  /\ r[i].tick \in 1 .. t
                            /\ r[i].tick <= u
                            /\ r[i].state = World[r[i].tick]
        OBVIOUS
      <3>2. CASE i = Len(r)
        BY <1>1, <1>3, <3>2
      <3>3. CASE i # Len(r)
        <4>1. i \in 1 .. Len(h) - 1 /\ i + 1 \in 1 .. Len(h) /\ i + 1 <= i + 1
          BY <1>2, <2>1, <3>1, <3>3
        <4>2. QED
          BY <1>4, <2>1, <4>1
      <3>4. QED
        BY <3>2, <3>3
    <2>3. \A i, j \in 1 .. Len(r) : i <= j => r[j].tick - r[i].tick >= j - i
      <3>1. SUFFICES ASSUME NEW i \in 1 .. Len(r), NEW j \in 1 .. Len(r), i <= j
                     PROVE  r[j].tick - r[i].tick >= j - i
        OBVIOUS
      <3>2. CASE j < Len(r)
        <4>1. /\ i \in 1 .. Len(h) - 1 /\ j \in 1 .. Len(h) - 1
              /\ i + 1 \in 1 .. Len(h) /\ j + 1 \in 1 .. Len(h) /\ i + 1 <= j + 1
          BY <1>2, <2>1, <3>1, <3>2
        <4>2. h[j + 1].tick - h[i + 1].tick >= (j + 1) - (i + 1)
          BY <1>4, <4>1
        <4>3. QED
          BY <1>2, <2>1, <3>1, <4>1, <4>2
      <3>3. CASE j = Len(r) /\ i = j
        BY <1>2, <2>1, <2>2, <3>1, <3>3
      <3>4. CASE j = Len(r) /\ i < j
        <4>1. /\ i \in 1 .. Len(h) - 1
              /\ i + 1 \in 1 .. Len(h) /\ Len(h) \in 1 .. Len(h) /\ i + 1 <= Len(h)
          BY <1>2, <2>1, <3>1, <3>4
        <4>2. /\ h[Len(h)].tick - h[i + 1].tick >= Len(h) - (i + 1)
              /\ h[Len(h)].tick < u
              /\ h[Len(h)].tick \in 1 .. t
              /\ h[i + 1].tick \in 1 .. t
          BY <1>4, <4>1
        <4>3. r[j].tick = u /\ r[i] = h[i + 1]
          BY <1>1, <1>3, <2>1, <3>4, <4>1
        <4>4. QED
          BY <1>2, <2>1, <3>1, <3>4, <4>1, <4>2, <4>3
      <3>5. QED
        BY <1>2, <2>1, <3>1, <3>2, <3>3, <3>4
    <2>4. HistoryInv(r, t)
      BY <1>2, <1>3, <2>1, <2>2, <2>3 DEF HistoryInv
    <2>5. r[1].tick > h[1].tick
      <3>1. CASE Len(h) > 1
        <4>1. 1 \in 1 .. Len(h) - 1 /\ 1 \in 1 .. Len(h) /\ 2 \in 1 .. Len(h) /\ 1 <= 2
          BY <1>2, <3>1
        <4>2. r[1] = h[2]
          BY <2>1, <4>1
        <4>3. h[2].tick - h[1].tick >= 2 - 1 /\ h[1].tick \in 1 .. t /\ h[2].tick \in 1 .. t
          BY <1>4, <4>1
        <4>4. QED
          BY <4>2, <4>3
      <3>2. CASE Len(h) = 1
        <4>1. r[1].tick = u
          BY <1>1, <1>3, <2>1, <3>2
        <4>2. h[1].tick < u /\ h[1].tick \in 1 .. t
          BY <1>4, <3>2
        <4>3. QED
          BY <4>1, <4>2
      <3>3. Len(h) > 1 \/ Len(h) = 1
        BY <1>2, <2>1
      <3>4. QED
        BY <3>1, <3>2, <3>3
    <2>8. \A i \in 1 .. Len(h) :
            \/ \E j \in 1 .. Len(r) : r[j] = h[i]
            \/ Len(r) = HistoryDepth /\ r[1].tick > h[i].tick
      <3>1. SUFFICES ASSUME NEW i \in 1 .. Len(h)
                     PROVE  \/ \E j \in 1 .. Len(r) : r[j] = h[i]
                            \/ Len(r) = HistoryDepth /\ r[1].tick > h[i].tick
        OBVIOUS
      <3>2. CASE i > 1
        <4>1. i - 1 \in 1 .. Len(h) - 1 /\ i - 1 \in 1 .. Len(r) /\ (i - 1) + 1 = i
          BY <1>2, <2>1, <3>1, <3>2
        <4>2. QED
          BY <2>1, <4>1
      <3>3. CASE i = 1
        BY <1>6, <2>1, <2>5, <3>3
      <3>4. i > 1 \/ i = 1
        BY <1>2, <3>1
      <3>5. QED
        BY <3>2, <3>3, <3>4
    <2>6. r # << >> /\ r[Len(r)] = v /\ \A i \in 1 .. Len(r) : r[i].tick <= u
      <3>1. r # << >>
        BY <1>2, <2>1, EmptySeq
      <3>2. QED
        BY <1>3, <2>2, <3>1
    <2>7. QED
      BY <1>6, <2>1, <2>4, <2>5, <2>6, <2>8 DEF v, r
  <1>7. QED
    BY <1>2, <1>5, <1>6, TuningAssumption

\* The newest version of a history, and what Find returns.
LEMMA HistoryNewest ==
  ASSUME NEW t \in 0 .. MaxTick, NEW h, HistoryInv(h, t), Synced(h)
  PROVE  /\ Len(h) \in 1 .. HistoryDepth
         /\ NewestTick(h) = h[Len(h)].tick
         /\ NewestTick(h) \in 1 .. t
         /\ \A i \in 1 .. Len(h) : h[i].tick <= NewestTick(h)
         /\ NewestTick(h) - h[1].tick >= Len(h) - 1
  <1>1. Len(h) \in 1 .. HistoryDepth
    BY EmptySeq, TuningAssumption DEF HistoryInv, Synced
  <1>2. NewestTick(h) = h[Len(h)].tick
    BY DEF NewestTick
  <1>3. 1 \in 1 .. Len(h) /\ Len(h) \in 1 .. Len(h)
    BY <1>1
  <1>4. /\ \A i \in 1 .. Len(h) : h[i].tick \in 1 .. t
        /\ \A i, j \in 1 .. Len(h) : i <= j => h[j].tick - h[i].tick >= j - i
    BY DEF HistoryInv
  <1>5. ASSUME NEW i \in 1 .. Len(h)
        PROVE  h[i].tick <= h[Len(h)].tick
    <2>1. i <= Len(h) /\ Len(h) - i >= 0
      BY <1>1
    <2>2. h[Len(h)].tick - h[i].tick >= Len(h) - i
      BY <1>3, <1>4, <2>1
    <2>3. h[i].tick \in 1 .. t /\ h[Len(h)].tick \in 1 .. t
      BY <1>3, <1>4
    <2>4. QED
      BY <1>1, <2>1, <2>2, <2>3
  <1>6. h[Len(h)].tick - h[1].tick >= Len(h) - 1
    BY <1>1, <1>3, <1>4
  <1>7. QED
    BY <1>1, <1>2, <1>3, <1>4, <1>5, <1>6

LEMMA FindHeld ==
  ASSUME NEW t \in 0 .. MaxTick, NEW h, HistoryInv(h, t), NEW b, Holds(h, b)
  PROVE  /\ b \in 1 .. t
         /\ Find(h, b) = World[b]
  <1>1. DOMAIN h = 1 .. Len(h)
    BY DEF HistoryInv
  <1> DEFINE i == CHOOSE i \in DOMAIN h : h[i].tick = b
  <1>2. i \in DOMAIN h /\ h[i].tick = b
    BY DEF Holds
  <1>3. h[i].tick \in 1 .. t /\ h[i].state = World[h[i].tick]
    BY <1>1, <1>2 DEF HistoryInv
  <1>4. QED
    BY <1>2, <1>3 DEF Find

\* The newest of a set of tags is its maximum, when it has one.
LEMMA NewestIs ==
  ASSUME NEW S \in SUBSET Int, NEW m \in S, \A u \in S : u <= m
  PROVE  Newest(S) = m
  <1>1. Newest(S) \in S /\ \A u \in S : u <= Newest(S)
    BY DEF Newest
  <1>2. m \in Int /\ Newest(S) \in Int /\ m <= Newest(S) /\ Newest(S) <= m
    BY <1>1
  <1>3. QED
    BY <1>2

\* What decides whether a datagram is decodable: a delta against a version the
\* client once reconstructed never needs a resync.
LEMMA AppliedBaselineDecodes ==
  ASSUME IInv, NEW f \in down,
         f.payload.kind = "delta" => f.payload.baseline \in applied
  PROVE  ~ResyncNeeded(receiver, f.payload)
  <1> DEFINE p == f.payload
  <1>1. SUFFICES ASSUME ResyncNeeded(receiver, p)
                 PROVE  FALSE
    OBVIOUS
  <1>2. p.kind = "delta" /\ p.baseline \in applied /\ ~Stale(receiver, p)
        /\ ~Holds(receiver, p.baseline)
    BY <1>1 DEF ResyncNeeded
  <1>3. /\ p.tick \in 1 .. tick
        /\ p.baseline \in 1 .. p.tick - 1
        /\ p.tick - p.baseline < HistoryDepth
    BY <1>2 DEF IInv, DownInv, PacketInv
  <1>4. tick \in 0 .. MaxTick /\ HistoryInv(receiver, tick)
    BY DEF IInv, BasicInv, ReceiverInv
  <1>5. /\ Synced(receiver)
        /\ Len(receiver) = HistoryDepth
        /\ receiver[1].tick > p.baseline
    BY <1>2 DEF IInv, ReceiverInv
  <1>6. /\ NewestTick(receiver) \in 1 .. tick
        /\ NewestTick(receiver) - receiver[1].tick >= Len(receiver) - 1
        /\ receiver[1].tick \in 1 .. tick
    <2>1. 1 \in 1 .. Len(receiver)
      BY <1>5, TuningAssumption
    <2>2. QED
      BY <1>4, <1>5, <2>1, HistoryNewest DEF HistoryInv
  <1>7. p.tick > NewestTick(receiver)
    BY <1>2, <1>3, <1>5, <1>6 DEF Stale
  <1>8. QED
    BY <1>3, <1>5, <1>6, <1>7, TuningAssumption, StreamAssumption

-----------------------------------------------------------------------------
(* The invariant holds initially and every step keeps it.                   *)

LEMMA InitIInv == Init => IInv
  <1> SUFFICES ASSUME Init PROVE IInv
    OBVIOUS
  <1>2. tick = 0 /\ down = {} /\ up = {} /\ applied = {} /\ arrived = {}
    BY DEF Init
  <1>3. BasicInv
    BY StreamAssumption DEF Init, BasicInv
  <1>4. HistoryInv(<< >>, tick)
    BY EmptySeq, TuningAssumption DEF HistoryInv
  <1>5. sender = NewSender /\ receiver = << >> /\ slayer = NewLayer /\ clayer = NewLayer
    BY DEF Init, NewReceiver
  <1>6. SenderInv
    <2>1. Len(sender.history) = 0 /\ sender.history = << >>
      BY <1>5, EmptySeq DEF NewSender
    <2>2. sender \in Senders
      BY <1>5, EmptySeq DEF NewSender, Senders
    <2>3. sender.lastSent = 0 /\ sender.sends = 0 /\ sender.confirmed = -1
      BY <1>5 DEF NewSender, NoTick
    <2>4. QED
      BY <1>2, <1>4, <2>1, <2>2, <2>3 DEF SenderInv
  <1>7. DownInv /\ UpInv
    BY <1>2 DEF DownInv, UpInv
  <1>8. ReceiverInv
    BY <1>2, <1>4, <1>5 DEF ReceiverInv, Synced
  <1>9. IsLayer(slayer) /\ IsLayer(clayer)
    BY <1>5, NewLayerIsLayer
  <1>10. SLayerInv
    BY <1>2, <1>5, <1>9 DEF SLayerInv, NewLayer
  <1>11. CLayerInv
    BY <1>2, <1>5, <1>9, SeqAckAssumption
    DEF CLayerInv, NewLayer, SeqNo, SeqMod, Synced
  <1>12. ConfirmInv
    BY <1>2, <1>5 DEF ConfirmInv, NewLayer, NewSender, NoTag, NoTick
  <1>13. QED
    BY <1>3, <1>6, <1>7, <1>8, <1>10, <1>11, <1>12 DEF IInv

\* The Sender at the moment it decides: it has taken over what the layer has
\* confirmed and retained the new world.
Deciding == Retaining(Confirming, tick + 1, World[tick + 1])

LEMMA DecidingProperties ==
  ASSUME IInv, tick < MaxTick
  PROVE  /\ Deciding \in Senders
         /\ HistoryInv(Deciding.history, tick + 1)
         /\ \A i \in 1 .. Len(Deciding.history) :
              Deciding.history[i].tick = (tick + 1) - Len(Deciding.history) + i
         /\ Deciding.lastSent = tick
         /\ Deciding.sends = sender.sends
         /\ Deciding.needSnap = sender.needSnap
         /\ Deciding.confirmed <= tick
         /\ Deciding.confirmed # 0
         /\ Deciding.confirmed \in { sender.confirmed, slayer.confirmed }
  <1> DEFINE h == sender.history
             u == tick + 1
             r == Retain(h, Version(u, World[u]))
             c == IF slayer.confirmed > sender.confirmed THEN slayer.confirmed
                                                         ELSE sender.confirmed
  <1>1. /\ sender \in Senders
        /\ HistoryInv(h, tick)
        /\ \A i \in 1 .. Len(h) : h[i].tick = tick - Len(h) + i
        /\ sender.lastSent = tick
        /\ sender.confirmed <= tick
        /\ sender.confirmed # 0
        /\ slayer.confirmed \in {-1} \cup 1 .. tick
        /\ tick \in 0 .. MaxTick
    BY DEF IInv, BasicInv, SenderInv, SLayerInv, NoTag
  <1>2. u \in 1 .. MaxTick /\ u \in 0 .. MaxTick /\ u \in 1 .. u
    BY <1>1, StreamAssumption
  <1>3. Deciding = [ sender EXCEPT !.confirmed = c, !.history = r ]
    BY <1>1 DEF Deciding, Retaining, Confirming, Confirm, Senders
  <1> HIDE DEF c
  <1>4. c \in {-1} \cup Nat /\ c <= tick /\ c # 0
        /\ c \in { sender.confirmed, slayer.confirmed }
    BY <1>1, <1>2 DEF c, Senders, NoTick
  <1>5. h \in Seq(Versions) /\ Len(h) \in Nat /\ Len(h) <= HistoryDepth
    BY <1>1 DEF HistoryInv
  <1>6. Version(u, World[u]) \in Versions
    BY <1>2, StreamAssumption DEF Version, Versions
  <1>7. /\ r \in Seq(Versions)
        /\ r[Len(r)] = Version(u, World[u])
        /\ \/ /\ Len(h) < HistoryDepth
              /\ Len(r) = Len(h) + 1
              /\ \A i \in 1 .. Len(h) : r[i] = h[i]
           \/ /\ Len(h) = HistoryDepth
              /\ Len(r) = HistoryDepth
              /\ \A i \in 1 .. Len(h) - 1 : r[i] = h[i + 1]
    BY <1>5, <1>6, RetainProperties
  <1>8. HistoryInv(r, u)
    <2>1. HistoryInv(h, u)
      BY <1>1 DEF HistoryInv
    <2>2. ASSUME NEW i \in 1 .. Len(h)
          PROVE  h[i].tick < u
      <3>1. h[i].tick \in 1 .. tick
        BY <1>1 DEF HistoryInv
      <3>2. QED
        BY <1>1, <3>1
    <2>3. QED
      BY <1>2, <2>1, <2>2, RetainHistory
  <1> HIDE DEF r
  <1>9. ASSUME NEW i \in 1 .. Len(r)
        PROVE  r[i].tick = u - Len(r) + i
    <2>1. CASE i = Len(r)
      BY <1>2, <1>5, <1>7, <2>1 DEF Version
    <2>2. CASE i # Len(r) /\ Len(h) < HistoryDepth
      <3>1. Len(r) = Len(h) + 1 /\ i \in 1 .. Len(h)
        BY <1>5, <1>7, <2>2, TuningAssumption
      <3>2. \A k \in 1 .. Len(h) : r[k] = h[k]
        BY <1>5, <1>7, <2>2, TuningAssumption
      <3>3. r[i] = h[i] /\ h[i].tick = tick - Len(h) + i
        BY <1>1, <3>1, <3>2
      <3>4. QED
        BY <1>1, <1>5, <3>1, <3>3
    <2>3. CASE i # Len(r) /\ Len(h) = HistoryDepth
      <3>1. Len(r) = Len(h) /\ i \in 1 .. Len(h) - 1 /\ i + 1 \in 1 .. Len(h)
        BY <1>5, <1>7, <2>3, TuningAssumption
      <3>2. r[i] = h[i + 1] /\ h[i + 1].tick = tick - Len(h) + (i + 1)
        BY <1>1, <1>5, <1>7, <2>3, <3>1, TuningAssumption
      <3>3. r[i].tick = tick - Len(h) + (i + 1)
        BY <3>2
      <3>4. tick \in Int /\ Len(h) \in Int /\ i \in Int /\ u = tick + 1
        BY <1>1, <1>5, <3>1
      <3>5. QED
        BY <3>1, <3>3, <3>4
    <2>4. QED
      BY <1>5, <2>1, <2>2, <2>3, TuningAssumption
  <1>10. /\ Deciding \in Senders
         /\ Deciding.history = r
         /\ Deciding.lastSent = sender.lastSent
         /\ Deciding.sends = sender.sends
         /\ Deciding.needSnap = sender.needSnap
         /\ Deciding.confirmed = c
    BY <1>1, <1>3, <1>4, <1>7 DEF Senders, NoTick
  <1>11. QED
    BY <1>1, <1>4, <1>8, <1>9, <1>10

\* The packet SendState sends.
LEMMA SentPacket ==
  ASSUME IInv, tick < MaxTick
  PROVE  LET u == tick + 1
             p == PacketFrom(Deciding, mode, u, World[u])
             s == SentFrom(Deciding, mode, u)
         IN  /\ p.tick = u
             /\ \/ /\ p.kind = "snapshot"
                   /\ p.payload = World[u]
                   /\ s.sends = 0
                \/ /\ p.kind = "delta"
                   /\ p.baseline \in 1 .. tick
                   /\ u - p.baseline < HistoryDepth
                   /\ p.payload = Diff(World[p.baseline], World[u])
                   /\ mode = "confirmedOnly" => p.baseline = Deciding.confirmed
                   /\ s.sends = Deciding.sends + 1
                   /\ ~Deciding.needSnap
             /\ s \in Senders
             /\ s.history = Deciding.history
             /\ s.lastSent = u
             /\ s.confirmed = Deciding.confirmed
             /\ s.sends <= u
  <1> DEFINE u == tick + 1
             s == Deciding
             n == SentFrom(s, mode, u)
             base == Baseline(s, mode, u)
  <1>1. /\ s \in Senders
        /\ HistoryInv(s.history, u)
        /\ \A i \in 1 .. Len(s.history) : s.history[i].tick = u - Len(s.history) + i
        /\ s.lastSent = tick
        /\ s.sends = sender.sends
        /\ s.confirmed <= tick
    BY DecidingProperties
  <1>2. tick \in 0 .. MaxTick /\ u \in 0 .. MaxTick /\ sender.sends <= tick
    <2>1. BasicInv /\ SenderInv
      BY DEF IInv
    <2>2. tick \in 0 .. MaxTick /\ sender.sends <= tick
      BY <2>1 DEF BasicInv, SenderInv
    <2>3. QED
      BY <2>2, StreamAssumption
  <1> HIDE DEF s
  <1>3. n = [ s EXCEPT !.sends    = IF MustSnapshot(s, mode, u) THEN 0 ELSE s.sends + 1,
                       !.needSnap = IF MustSnapshot(s, mode, u) THEN FALSE ELSE s.needSnap,
                       !.started  = TRUE,
                       !.lastSent = u ]
    BY <1>1 DEF SentFrom, Senders
  <1> HIDE DEF n, base
  <1>4. /\ n \in Senders
        /\ n.history = s.history
        /\ n.lastSent = u
        /\ n.confirmed = s.confirmed
        /\ n.sends = IF MustSnapshot(s, mode, u) THEN 0 ELSE s.sends + 1
    <2>1. s.sends \in Nat /\ s.sends + 1 \in Nat /\ 0 \in Nat /\ u \in Nat
      BY <1>1, <1>2 DEF Senders
    <2>2. CASE MustSnapshot(s, mode, u)
      BY <1>1, <1>3, <2>1, <2>2 DEF Senders
    <2>3. CASE ~MustSnapshot(s, mode, u)
      BY <1>1, <1>3, <2>1, <2>3 DEF Senders
    <2>4. QED
      BY <2>2, <2>3
  <1>5. n.sends <= u
    BY <1>1, <1>2, <1>4 DEF Senders
  <1>6. CASE MustSnapshot(s, mode, u)
    <2>1. PacketFrom(s, mode, u, World[u]) = Snapshot(u, World[u])
      BY <1>6 DEF PacketFrom
    <2>2. QED
      BY <1>4, <1>5, <1>6, <2>1 DEF Snapshot, n, s
  <1>7. CASE ~MustSnapshot(s, mode, u)
    <2>1. Holds(s.history, base) /\ ~s.needSnap
      BY <1>7 DEF MustSnapshot, base
    <2>2. PacketFrom(s, mode, u, World[u])
            = Delta(u, base, Diff(Find(s.history, base), World[u]))
      BY <1>7 DEF PacketFrom, base
    <2>3. base \in 1 .. u /\ Find(s.history, base) = World[base]
      BY <1>1, <1>2, <2>1, FindHeld
    <2>4. base <= tick /\ (mode = "confirmedOnly" => base = s.confirmed)
      BY <1>1, <1>2, <2>3 DEF Baseline, base
    <2>5. u - base < HistoryDepth
      <3>1. PICK i \in DOMAIN s.history : s.history[i].tick = base
        BY <2>1 DEF Holds
      <3>2. /\ i \in 1 .. Len(s.history)
            /\ Len(s.history) \in Nat
            /\ Len(s.history) <= HistoryDepth
        BY <1>1, <3>1 DEF HistoryInv
      <3>3. base = u - Len(s.history) + i
        BY <1>1, <3>1, <3>2
      <3>4. u \in Int /\ HistoryDepth \in Int /\ i >= 1
        BY <1>2, <3>2, TuningAssumption
      <3>5. QED
        <4> DEFINE n1 == Len(s.history)
        <4>1. n1 \in Int /\ n1 <= HistoryDepth /\ base = u - n1 + i /\ i \in Int
          BY <3>2, <3>3
        <4> HIDE DEF n1, u
        <4>2. QED
          BY <3>4, <4>1
    <2>6. base \in 1 .. tick
      BY <1>2, <2>3, <2>4
    <2>7. QED
      BY <1>4, <1>5, <1>7, <2>1, <2>2, <2>3, <2>4, <2>5, <2>6 DEF Delta, n, s
  <1>8. QED
    BY <1>6, <1>7

LEMMA SendStatePreserves ==
  ASSUME IInv, SendState
  PROVE  IInv'
  <1> DEFINE u == tick + 1
             p == PacketFrom(Deciding, mode, u, World[u])
  <1>1. /\ tick < MaxTick
        /\ tick' = u
        /\ sender' = SentFrom(Deciding, mode, u)
        /\ down' = down \cup { Frame(slayer, FALSE, p) }
        /\ mode' = mode /\ client' = client /\ clayer' = clayer /\ receiver' = receiver
        /\ up' = up /\ resyncs' = resyncs /\ applied' = applied /\ arrived' = arrived
    BY DEF SendState, Packet, AfterSending, Deciding
  <1>2. PICK cut \in 1 .. u : slayer' = AfterSend(slayer, u, cut) /\ cut <= u
    BY <1>1 DEF SendState, RetiresTo
  <1>3. /\ BasicInv /\ SenderInv /\ DownInv /\ ReceiverInv
        /\ SLayerInv /\ CLayerInv /\ UpInv /\ ConfirmInv
    BY DEF IInv
  <1>4. tick \in 0 .. MaxTick /\ u \in 1 .. MaxTick /\ tick < HalfSeq
    BY <1>1, <1>3, StreamAssumption, SeqAckAssumption DEF BasicInv
  <1>5. /\ Deciding \in Senders
        /\ HistoryInv(Deciding.history, u)
        /\ \A i \in 1 .. Len(Deciding.history) :
             Deciding.history[i].tick = u - Len(Deciding.history) + i
        /\ Deciding.confirmed <= tick
        /\ Deciding.confirmed # 0
        /\ Deciding.confirmed \in { sender.confirmed, slayer.confirmed }
    <2>1. tick < MaxTick
      BY <1>1
    <2>2. QED
      BY <2>1, DecidingProperties
  <1>6. /\ p.tick = u
        /\ \/ p.kind = "snapshot" /\ p.payload = World[u]
           \/ /\ p.kind = "delta"
              /\ p.baseline \in 1 .. tick
              /\ u - p.baseline < HistoryDepth
              /\ p.payload = Diff(World[p.baseline], World[u])
              /\ mode = "confirmedOnly" => p.baseline = Deciding.confirmed
        /\ sender' \in Senders
        /\ sender'.history = Deciding.history
        /\ sender'.lastSent = u
        /\ sender'.confirmed = Deciding.confirmed
        /\ sender'.sends <= u
    BY <1>1, SentPacket
  <1> HIDE DEF p
  <1>7. BasicInv'
    BY <1>1, <1>3, <1>4, StreamAssumption DEF BasicInv
  <1>8. SenderInv'
    <2>1. sender'.confirmed <= u
      BY <1>4, <1>5, <1>6 DEF Senders, NoTick
    <2>2. QED
      BY <1>1, <1>5, <1>6, <2>1 DEF SenderInv
  <1>9. DownInv'
    <2>1. SUFFICES ASSUME NEW f \in down'
                   PROVE  /\ f.ack = FALSE
                          /\ f.seq = f.payload.tick - 1
                          /\ PacketInv(f.payload, u)
      BY <1>1 DEF DownInv
    <2>2. CASE f \in down
      BY <1>3, <1>4, <2>2 DEF DownInv, PacketInv
    <2>3. CASE f = Frame(slayer, FALSE, p)
      <3>1. f.ack = FALSE /\ f.seq = tick /\ f.payload = p
        BY <1>3, <2>3 DEF Frame, SLayerInv
      <3>2. PacketInv(p, u)
        <4>1. tick = u - 1 /\ u \in 1 .. u
          BY <1>4
        <4>2. QED
          BY <1>6, <4>1 DEF PacketInv
      <3>3. f.payload.tick - 1 = tick
        BY <1>4, <1>6, <3>1
      <3>4. QED
        BY <3>1, <3>2, <3>3
    <2>4. QED
      BY <1>1, <2>1, <2>2, <2>3
  <1>10. ReceiverInv'
    <2>1. HistoryInv(receiver, u)
      BY <1>3, <1>4 DEF ReceiverInv, HistoryInv
    <2>2. arrived \subseteq 1 .. u
      BY <1>3, <1>4 DEF ReceiverInv
    <2>3. QED
      BY <1>1, <1>3, <2>1, <2>2 DEF ReceiverInv, Synced, NewestTick
  <1>11. SLayerInv'
    <2>1. /\ IsLayer(slayer')
          /\ slayer'.nextSeq = NextSeqNo(slayer.nextSeq)
          /\ slayer'.inflight = Kept(slayer, u, cut)
          /\ slayer'.confirmed = slayer.confirmed
      BY <1>2, <1>3, AfterSendFields DEF SLayerInv
    <2>2. slayer.nextSeq = tick /\ slayer.inflight \subseteq Flights
      BY <1>3 DEF SLayerInv
    <2>3. slayer'.nextSeq = u
      BY <1>4, <2>1, <2>2, SeqAckAssumption DEF NextSeqNo, SeqMod
    <2> DEFINE new == Flight(tick, u)
    <2>4. slayer'.inflight = { f \in slayer.inflight \cup { new } : f.tag >= cut }
      BY <2>1, <2>2 DEF Kept
    <2>5. new.tag = u /\ new.seq = tick /\ new.acked = FALSE /\ new \in Flights
      BY <1>4 DEF Flight, Flights
    <2> HIDE DEF new
    <2>6. new \in slayer'.inflight
      BY <1>2, <2>4, <2>5
    <2>7. ASSUME NEW x \in slayer'.inflight
          PROVE  /\ x.tag \in 1 .. u
                 /\ x.seq = x.tag - 1
                 /\ x.acked => x.tag <= slayer'.confirmed
                 /\ \A t \in x.tag .. u : \E y \in slayer'.inflight : y.tag = t
      <3>1. CASE x = new
        BY <1>4, <2>5, <2>6, <3>1
      <3>2. CASE x \in slayer.inflight
        <4>1. /\ x.tag \in 1 .. tick
              /\ x.seq = x.tag - 1
              /\ x.acked => x.tag <= slayer.confirmed
              /\ \A t \in x.tag .. tick : \E y \in slayer.inflight : y.tag = t
          BY <1>3, <3>2 DEF SLayerInv
        <4>2. x.tag >= cut
          BY <2>4
        <4>3. ASSUME NEW t \in x.tag .. u
              PROVE  \E y \in slayer'.inflight : y.tag = t
          <5>1. CASE t = u
            BY <2>5, <2>6, <5>1
          <5>2. CASE t # u
            <6>1. t \in x.tag .. tick /\ t >= cut
              BY <1>2, <1>4, <4>1, <4>2, <5>2
            <6>2. PICK y \in slayer.inflight : y.tag = t
              BY <4>1, <6>1
            <6>3. QED
              BY <2>4, <6>1, <6>2
          <5>3. QED
            BY <5>1, <5>2
        <4>4. QED
          BY <1>4, <2>1, <4>1, <4>3
      <3>3. QED
        BY <2>4, <3>1, <3>2
    <2>8. slayer'.inflight \subseteq Flights
      BY <2>2, <2>4, <2>5
    <2>9. slayer'.confirmed \in {NoTag} \cup 1 .. u
      BY <1>3, <1>4, <2>1 DEF SLayerInv
    <2>10. QED
      BY <1>1, <2>1, <2>3, <2>7, <2>8, <2>9 DEF SLayerInv
  <1>12. CLayerInv'
    BY <1>1, <1>3, <1>4 DEF CLayerInv, Synced, NewestTick
  <1>13. UpInv'
    BY <1>1, <1>3, <1>4 DEF UpInv
  <1>14. ConfirmInv'
    <2>1. SUFFICES ASSUME mode = "confirmedOnly"
                   PROVE  /\ clayer'.anyReceived => clayer'.recvHighest + 1 \in applied'
                          /\ \A f \in up' : f.ackSeq + 1 \in applied'
                          /\ slayer'.confirmed \in applied' \cup {NoTag}
                          /\ sender'.confirmed \in applied' \cup {NoTick}
                          /\ \A f \in down' :
                               f.payload.kind = "delta" => f.payload.baseline \in applied'
      BY <1>1 DEF ConfirmInv
    <2>2. slayer'.confirmed = slayer.confirmed
      BY <1>2, <1>3, AfterSendFields DEF SLayerInv
    <2>3. sender'.confirmed \in applied \cup {-1}
      BY <1>3, <1>5, <1>6, <2>1 DEF ConfirmInv, NoTag, NoTick
    <2>4. ASSUME NEW f \in down', f.payload.kind = "delta"
          PROVE  f.payload.baseline \in applied
      <3>1. CASE f \in down
        BY <1>3, <2>1, <2>4, <3>1 DEF ConfirmInv
      <3>2. CASE f = Frame(slayer, FALSE, p)
        <4>1. f.payload = p
          BY <3>2 DEF Frame
        <4>2. p.baseline = sender'.confirmed /\ p.baseline \in 1 .. tick
          BY <1>6, <2>1, <2>4, <4>1
        <4>3. QED
          BY <1>4, <2>3, <4>1, <4>2
      <3>3. QED
        BY <1>1, <3>1, <3>2
    <2>5. QED
      BY <1>1, <1>3, <2>1, <2>2, <2>3, <2>4 DEF ConfirmInv, NoTick
  <1>15. QED
    BY <1>7, <1>8, <1>9, <1>10, <1>11, <1>12, <1>13, <1>14 DEF IInv

\* An absorbed ack record moves the confirmed tag to the one it names, if that
\* is news: the bits below it never carry anything newer.
LEMMA AbsorbedConfirmed ==
  ASSUME IInv, NEW f \in up
  PROVE  LET m == Absorbed(slayer, f)
         IN  /\ m.confirmed \in { slayer.confirmed, f.ackSeq + 1 }
             /\ slayer.confirmed <= m.confirmed
             /\ \A x \in NewlyAcked(slayer, f) : x.tag <= m.confirmed
  <1> DEFINE m == Absorbed(slayer, f)
             a == f.ackSeq
             hit == NewlyAcked(slayer, f)
             T == { slayer.confirmed } \cup { x.tag : x \in hit }
  <1>1. SLayerInv /\ a \in 0 .. tick - 1 /\ tick \in 0 .. MaxTick
    BY DEF IInv, UpInv, BasicInv
  <1>2. /\ IsLayer(slayer)
        /\ slayer.inflight \subseteq Flights
        /\ \A x \in slayer.inflight :
             /\ x.tag \in 1 .. tick
             /\ x.seq = x.tag - 1
             /\ x.acked => x.tag <= slayer.confirmed
             /\ \A t \in x.tag .. tick : \E y \in slayer.inflight : y.tag = t
        /\ slayer.confirmed \in {-1} \cup 1 .. tick
        /\ slayer.nextSeq = tick
    BY <1>1 DEF SLayerInv, NoTag
  <1>3. /\ IsLayer(m)
        /\ m.nextSeq = slayer.nextSeq
        /\ m.inflight = { IF x \in hit THEN [ x EXCEPT !.acked = TRUE ] ELSE x :
                             x \in slayer.inflight }
        /\ m.confirmed = Newest(T)
    BY <1>2, AbsorbedFields
  <1> HIDE DEF m, a
  <1>4. ASSUME NEW x \in hit
        PROVE  x \in slayer.inflight /\ ~x.acked /\ x.tag <= a + 1
    <2>1. x \in slayer.inflight /\ ~x.acked /\ Reports(f.ackSeq, f.ackBits, x.seq)
      BY DEF NewlyAcked
    <2>2. x.seq = a \/ Newer(a, x.seq)
      BY <2>1 DEF Reports, a
    <2>3. x.tag \in 1 .. tick /\ x.seq = x.tag - 1 /\ tick < HalfSeq
      BY <1>1, <1>2, <2>1, StreamAssumption, SeqAckAssumption
    <2>4. x.seq \in 0 .. HalfSeq - 1 /\ a \in 0 .. HalfSeq - 1
      BY <1>1, <2>3, SeqAckAssumption
    <2>5. x.seq <= a
      BY <2>2, <2>4, NewerIsGreater
    <2>6. QED
      BY <1>1, <2>1, <2>3, <2>5
  <1>5. ASSUME NEW x \in hit
        PROVE  \/ a + 1 \in T
               \/ x.tag <= slayer.confirmed /\ a + 1 <= slayer.confirmed
    <2>1. /\ x.tag \in 1 .. tick
          /\ x.tag <= a + 1
          /\ \A t \in x.tag .. tick : \E y \in slayer.inflight : y.tag = t
      BY <1>2, <1>4
    <2>2. a + 1 \in x.tag .. tick
      BY <1>1, <2>1
    <2>3. PICK y \in slayer.inflight : y.tag = a + 1
      BY <2>1, <2>2
    <2>4. y.seq = a
      BY <1>1, <1>2, <2>3
    <2>5. CASE ~y.acked
      <3>1. y \in hit
        BY <2>3, <2>4, <2>5 DEF NewlyAcked, Reports, a
      <3>2. QED
        BY <2>3, <3>1
    <2>6. CASE y.acked
      <3>1. a + 1 <= slayer.confirmed
        BY <1>2, <2>3, <2>6
      <3>2. QED
        BY <1>1, <1>2, <2>1, <3>1
    <2>7. QED
      BY <2>5, <2>6
  <1>6. T \subseteq Int /\ slayer.confirmed \in T /\ slayer.confirmed \in Int /\ a \in Int
    BY <1>1, <1>2, <1>4
  <1>7. \A u \in T : u \in Int /\ (u = slayer.confirmed \/ \E x \in hit : u = x.tag)
    BY <1>6
  <1>8. PICK top \in T : /\ \A u \in T : u <= top
                          /\ top \in { slayer.confirmed, a + 1 }
    <2>1. CASE a + 1 \in T /\ a + 1 > slayer.confirmed
      <3>1. \A u \in T : u <= a + 1
        BY <1>4, <1>6, <1>7, <2>1
      <3>2. QED
        BY <2>1, <3>1
    <2>2. CASE ~(a + 1 \in T /\ a + 1 > slayer.confirmed)
      <3>1. ASSUME NEW u \in T
            PROVE  u <= slayer.confirmed
        <4>1. CASE u = slayer.confirmed
          BY <1>6, <4>1
        <4>2. CASE \E x \in hit : u = x.tag
          <5>1. PICK x \in hit : u = x.tag
            BY <4>2
          <5>2. u <= a + 1 /\ u \in Int
            BY <1>4, <1>7, <5>1
          <5>3. CASE a + 1 \in T
            BY <1>6, <2>2, <5>2, <5>3
          <5>4. CASE a + 1 \notin T
            BY <1>5, <5>1, <5>4
          <5>5. QED
            BY <5>3, <5>4
        <4>3. QED
          BY <1>7, <4>1, <4>2
      <3>2. QED
        BY <1>6, <3>1
    <2>3. QED
      BY <2>1, <2>2
  <1>9. m.confirmed = top
    BY <1>3, <1>6, <1>8, NewestIs
  <1>10. \A x \in hit : x.tag \in T
    OBVIOUS
  <1>11. QED
    BY <1>6, <1>8, <1>9, <1>10 DEF m, a

LEMMA ServerAbsorbPreserves ==
  ASSUME IInv, ServerAbsorb
  PROVE  IInv'
  <1>1. PICK f \in up :
          /\ up' = up \ {f}
          /\ slayer' = Absorbed(slayer, f)
          /\ UNCHANGED << mode, client, tick, sender, clayer, receiver, down, resyncs,
                          applied, arrived >>
    BY DEF ServerAbsorb
  <1>2. /\ mode' = mode /\ client' = client /\ tick' = tick /\ sender' = sender
        /\ clayer' = clayer /\ receiver' = receiver /\ down' = down
        /\ resyncs' = resyncs /\ applied' = applied /\ arrived' = arrived
        /\ up' \subseteq up
    BY <1>1
  <1>3. /\ BasicInv /\ SenderInv /\ DownInv /\ ReceiverInv
        /\ SLayerInv /\ CLayerInv /\ UpInv /\ ConfirmInv
    BY DEF IInv
  <1> DEFINE hit == NewlyAcked(slayer, f)
  <1>4. /\ slayer'.confirmed \in { slayer.confirmed, f.ackSeq + 1 }
        /\ slayer.confirmed <= slayer'.confirmed
        /\ \A x \in hit : x.tag <= slayer'.confirmed
    BY <1>1, AbsorbedConfirmed
  <1>5. BasicInv' /\ SenderInv' /\ DownInv'
    BY <1>2, <1>3 DEF BasicInv, SenderInv, DownInv
  <1>6. ReceiverInv' /\ CLayerInv' /\ UpInv'
    BY <1>2, <1>3 DEF ReceiverInv, CLayerInv, UpInv, Synced, NewestTick
  <1>7. SLayerInv'
    <2>1. /\ IsLayer(slayer)
          /\ slayer.inflight \subseteq Flights
          /\ slayer.confirmed \in {-1} \cup 1 .. tick
          /\ slayer.nextSeq = tick
          /\ tick \in 0 .. MaxTick
      BY <1>3 DEF SLayerInv, BasicInv, NoTag
    <2>2. /\ IsLayer(slayer')
          /\ slayer'.nextSeq = tick
          /\ slayer'.inflight = { IF x \in hit THEN [ x EXCEPT !.acked = TRUE ] ELSE x :
                                    x \in slayer.inflight }
      BY <1>1, <2>1, AbsorbedFields
    <2>3. f.ackSeq + 1 \in 1 .. tick
      BY <1>3, <2>1 DEF UpInv
    <2>4. slayer'.confirmed \in {-1} \cup 1 .. tick
      BY <1>4, <2>1, <2>3
    <2> HIDE DEF hit
    <2>5. ASSUME NEW x \in slayer.inflight
          PROVE  LET z == IF x \in hit THEN [ x EXCEPT !.acked = TRUE ] ELSE x
                 IN  z \in Flights /\ z.tag = x.tag /\ z.seq = x.seq
                     /\ (z.acked => x \in hit \/ x.acked)
      BY <2>1 DEF Flights
    <2>6. ASSUME NEW y \in slayer'.inflight
          PROVE  /\ y \in Flights
                 /\ y.tag \in 1 .. tick
                 /\ y.seq = y.tag - 1
                 /\ y.acked => y.tag <= slayer'.confirmed
                 /\ \A t \in y.tag .. tick : \E w \in slayer'.inflight : w.tag = t
      <3>1. PICK x \in slayer.inflight :
              y = IF x \in hit THEN [ x EXCEPT !.acked = TRUE ] ELSE x
        BY <2>2
      <3>2. /\ y \in Flights /\ y.tag = x.tag /\ y.seq = x.seq
            /\ y.acked => x \in hit \/ x.acked
        BY <2>5, <3>1
      <3>3. /\ x.tag \in 1 .. tick
            /\ x.seq = x.tag - 1
            /\ x.acked => x.tag <= slayer.confirmed
            /\ \A t \in x.tag .. tick : \E w \in slayer.inflight : w.tag = t
        BY <1>3 DEF SLayerInv
      <3>4. y.acked => y.tag <= slayer'.confirmed
        <4>1. CASE x \in hit
          BY <1>4, <3>2, <4>1
        <4>2. CASE x \notin hit
          <5>1. y.acked => x.tag <= slayer.confirmed
            BY <3>2, <3>3, <4>2
          <5>2. /\ x.tag \in Int /\ slayer.confirmed \in Int /\ slayer'.confirmed \in Int
                /\ slayer.confirmed <= slayer'.confirmed /\ y.tag = x.tag
            BY <1>4, <2>1, <2>4, <3>2, <3>3
          <5>3. QED
            BY <5>1, <5>2
        <4>3. QED
          BY <4>1, <4>2
      <3>5. ASSUME NEW t \in y.tag .. tick
            PROVE  \E w \in slayer'.inflight : w.tag = t
        <4>1. PICK w \in slayer.inflight : w.tag = t
          BY <3>2, <3>3
        <4>2. (IF w \in hit THEN [ w EXCEPT !.acked = TRUE ] ELSE w) \in slayer'.inflight
          BY <2>2
        <4>3. QED
          BY <2>5, <4>1, <4>2
      <3>6. QED
        BY <3>2, <3>3, <3>4, <3>5
    <2>7. QED
      BY <1>2, <2>2, <2>4, <2>6 DEF SLayerInv, NoTag
  <1>8. ConfirmInv'
    BY <1>2, <1>3, <1>4 DEF ConfirmInv
  <1>9. QED
    BY <1>5, <1>6, <1>7, <1>8 DEF IInv

LEMMA ServerResyncPreserves ==
  ASSUME IInv, ServerResync
  PROVE  IInv'
  <1>1. /\ mode' = mode /\ client' = client /\ tick' = tick
        /\ sender' = [ sender EXCEPT !.needSnap = TRUE ]
        /\ slayer' = slayer /\ clayer' = clayer /\ receiver' = receiver /\ down' = down
        /\ up' = up /\ resyncs > 0 /\ resyncs' = resyncs - 1
        /\ applied' = applied /\ arrived' = arrived
    BY DEF ServerResync, ResyncRequested
  <1>2. /\ BasicInv /\ SenderInv /\ DownInv /\ ReceiverInv
        /\ SLayerInv /\ CLayerInv /\ UpInv /\ ConfirmInv
    BY DEF IInv
  <1>3. /\ sender' \in Senders
        /\ sender'.history = sender.history
        /\ sender'.lastSent = sender.lastSent
        /\ sender'.sends = sender.sends
        /\ sender'.confirmed = sender.confirmed
    BY <1>1, <1>2 DEF SenderInv, Senders
  <1>4. BasicInv' /\ DownInv' /\ UpInv'
    BY <1>1, <1>2 DEF BasicInv, DownInv, UpInv
  <1>5. SenderInv'
    BY <1>1, <1>2, <1>3 DEF SenderInv
  <1>6. ReceiverInv' /\ SLayerInv' /\ CLayerInv'
    BY <1>1, <1>2 DEF ReceiverInv, SLayerInv, CLayerInv, Synced, NewestTick
  <1>7. ConfirmInv'
    BY <1>1, <1>2, <1>3 DEF ConfirmInv
  <1>8. QED
    BY <1>4, <1>5, <1>6, <1>7 DEF IInv

LEMMA StutterPreserves ==
  ASSUME IInv, UNCHANGED vars
  PROVE  IInv'
  <1>1. /\ mode' = mode /\ client' = client /\ tick' = tick /\ sender' = sender
        /\ slayer' = slayer /\ clayer' = clayer /\ receiver' = receiver /\ down' = down
        /\ up' = up /\ resyncs' = resyncs /\ applied' = applied /\ arrived' = arrived
    BY DEF vars
  <1>2. /\ BasicInv /\ SenderInv /\ DownInv /\ ReceiverInv
        /\ SLayerInv /\ CLayerInv /\ UpInv /\ ConfirmInv
    BY DEF IInv
  <1>3. BasicInv' /\ DownInv' /\ UpInv' /\ SenderInv'
    BY <1>1, <1>2 DEF BasicInv, DownInv, UpInv, SenderInv
  <1>4. ReceiverInv' /\ SLayerInv' /\ CLayerInv' /\ ConfirmInv'
    BY <1>1, <1>2 DEF ReceiverInv, SLayerInv, CLayerInv, ConfirmInv, Synced, NewestTick
  <1>5. QED
    BY <1>3, <1>4 DEF IInv

\* What absorbing a state datagram does to the client's layer: the highest
\* number received is the number delivered last.
LEMMA ClientAbsorbs ==
  ASSUME IInv, NEW f \in down
  PROVE  LET l == Absorbed(clayer, f)
         IN  /\ IsLayer(l)
             /\ l.nextSeq = clayer.nextSeq
             /\ l.anyReceived = TRUE
             /\ l.deliveredAny = TRUE
             /\ l.delivered = l.recvHighest
             /\ f.seq \in 0 .. tick - 1
             /\ Delivers(clayer, f) => /\ l.recvHighest = f.seq
                                       /\ clayer.anyReceived => clayer.recvHighest < f.seq
             /\ ~Delivers(clayer, f) => /\ clayer.anyReceived
                                        /\ l.recvHighest = clayer.recvHighest
  <1> DEFINE l == Absorbed(clayer, f)
  <1>1. /\ IsLayer(clayer)
        /\ clayer.anyReceived \in BOOLEAN
        /\ clayer.deliveredAny = clayer.anyReceived
        /\ clayer.anyReceived => /\ clayer.delivered = clayer.recvHighest
                                 /\ clayer.recvHighest \in 0 .. tick - 1
    BY DEF IInv, CLayerInv
  <1>2. f.ack = FALSE /\ f.seq = f.payload.tick - 1 /\ f.payload.tick \in 1 .. tick
    BY DEF IInv, DownInv, PacketInv
  <1>3. tick \in 0 .. MaxTick /\ tick < HalfSeq /\ HalfSeq \in Nat
    <2>1. tick \in 0 .. MaxTick
      BY DEF IInv, BasicInv
    <2>2. QED
      BY <2>1, StreamAssumption, SeqAckAssumption
  <1>4. f.seq \in 0 .. tick - 1 /\ f.seq \in 0 .. HalfSeq - 1
    BY <1>2, <1>3
  <1>5. clayer.anyReceived => (Newer(f.seq, clayer.recvHighest) <=> f.seq > clayer.recvHighest)
    <2>1. clayer.anyReceived => clayer.recvHighest \in 0 .. HalfSeq - 1
      BY <1>1, <1>3
    <2>2. QED
      BY <1>4, <2>1, NewerIsGreater
  <1>6. /\ IsLayer(l)
        /\ l.nextSeq = clayer.nextSeq
        /\ clayer.anyReceived => l.anyReceived = clayer.anyReceived
        /\ ~clayer.anyReceived => l.anyReceived = TRUE
        /\ l.recvHighest = IF ~clayer.anyReceived \/ Newer(f.seq, clayer.recvHighest)
                              THEN f.seq ELSE clayer.recvHighest
        /\ Delivers(clayer, f) => l.deliveredAny = TRUE /\ l.delivered = f.seq
        /\ ~Delivers(clayer, f) => /\ l.deliveredAny = clayer.deliveredAny
                                   /\ l.delivered = clayer.delivered
    BY <1>1, AbsorbedFields
  <1> HIDE DEF l
  <1>7. Delivers(clayer, f) <=> ~clayer.anyReceived \/ Newer(f.seq, clayer.recvHighest)
    BY <1>1, <1>2 DEF Delivers
  <1>8. CASE Delivers(clayer, f)
    BY <1>1, <1>4, <1>5, <1>6, <1>7, <1>8 DEF l
  <1>9. CASE ~Delivers(clayer, f)
    BY <1>1, <1>4, <1>6, <1>7, <1>9 DEF l
  <1>10. QED
    BY <1>8, <1>9

LEMMA NextSeqNoInRange ==
  ASSUME NEW s \in SeqNo
  PROVE  NextSeqNo(s) \in SeqNo
  BY SeqAckAssumption DEF NextSeqNo, SeqNo, SeqMod

\* What one turn of the client does, whether it answers or not.
ClientTakes(f) ==
  LET l == Absorbed(clayer, f)
  IN  /\ down' = down \ {f}
      /\ arrived' = arrived \cup {f.payload.tick}
      /\ mode' = mode /\ client' = client /\ tick' = tick
      /\ sender' = sender /\ slayer' = slayer
      /\ IsLayer(clayer')
      /\ clayer'.nextSeq \in SeqNo
      /\ clayer'.anyReceived = TRUE
      /\ clayer'.deliveredAny = TRUE
      /\ clayer'.delivered = l.recvHighest
      /\ clayer'.recvHighest = l.recvHighest
      /\ \A g \in up' : g \in up \/ g.ackSeq = l.recvHighest
      /\ \/ /\ ~Delivers(clayer, f)
            /\ receiver' = receiver /\ applied' = applied /\ resyncs' = resyncs
         \/ /\ Delivers(clayer, f)
            /\ ResyncNeeded(receiver, f.payload)
            /\ receiver' = receiver /\ applied' = applied /\ resyncs' = resyncs + 1
         \/ /\ Delivers(clayer, f)
            /\ ~ResyncNeeded(receiver, f.payload)
            /\ receiver' = Applied(receiver, f.payload)
            /\ applied' = applied \cup { NewestTick(receiver') }
            /\ resyncs' = resyncs

LEMMA ClientTurnTakes ==
  ASSUME IInv, ClientTurn
  PROVE  \E f \in down : ClientTakes(f)
  <1>1. PICK f \in down :
          /\ down' = down \ {f}
          /\ arrived' = arrived \cup {f.payload.tick}
          /\ ClientOvertaken(f) \/ ClientResync(f) \/ ClientApply(f)
          /\ UNCHANGED << mode, client, tick, sender, slayer >>
    BY DEF ClientTurn
  <1> DEFINE l == Absorbed(clayer, f)
  <1>2. /\ IsLayer(l)
        /\ l.nextSeq \in SeqNo
        /\ l.anyReceived = TRUE
        /\ l.deliveredAny = TRUE
        /\ l.delivered = l.recvHighest
    BY ClientAbsorbs DEF IInv, CLayerInv
  <1> HIDE DEF l
  <1> DEFINE Numbered == /\ IsLayer(clayer')
                         /\ clayer'.nextSeq \in SeqNo
                         /\ clayer'.anyReceived = TRUE
                         /\ clayer'.deliveredAny = TRUE
                         /\ clayer'.delivered = l.recvHighest
                         /\ clayer'.recvHighest = l.recvHighest
                         /\ \A g \in up' : g \in up \/ g.ackSeq = l.recvHighest
  <1>3. ASSUME FlushTurn(l)
        PROVE  Numbered
    <2>1. CASE FlushDue(l)
      <3>1. clayer' = AfterFlush(l) /\ up' = up \cup { Frame(l, TRUE, NoTick) }
        BY <1>3, <2>1 DEF FlushTurn
      <3>2. Frame(l, TRUE, NoTick).ackSeq = l.recvHighest
        BY DEF Frame
      <3>3. QED
        BY <1>2, <3>1, <3>2, AfterFlushFields, NextSeqNoInRange
    <2>2. CASE ~FlushDue(l)
      BY <1>2, <1>3, <2>2 DEF FlushTurn
    <2>3. QED
      BY <2>1, <2>2
  <1>4. ASSUME NEW t, NEW cut,
               clayer' = AfterSend(l, t, cut),
               up' = up \cup { Frame(l, FALSE, t) }
        PROVE  Numbered
    <2>1. Frame(l, FALSE, t).ackSeq = l.recvHighest
      BY DEF Frame
    <2> DEFINE n == AfterSend(l, t, cut)
    <2>2. /\ IsLayer(n)
          /\ n.nextSeq = NextSeqNo(l.nextSeq)
          /\ n.anyReceived = l.anyReceived
          /\ n.recvHighest = l.recvHighest
          /\ n.deliveredAny = l.deliveredAny
          /\ n.delivered = l.delivered
      BY <1>2, AfterSendFields
    <2> HIDE DEF n
    <2>3. clayer' = n
      BY <1>4 DEF n
    <2>4. n.nextSeq \in SeqNo
      BY <1>2, <2>2, NextSeqNoInRange
    <2>5. \A g \in up' : g \in up \/ g.ackSeq = l.recvHighest
      BY <1>4, <2>1
    <2>6. QED
      BY <1>2, <2>2, <2>3, <2>4, <2>5
  <1>5. CASE ClientOvertaken(f)
    <2>1. /\ ~Delivers(clayer, f) /\ FlushTurn(l)
          /\ receiver' = receiver /\ applied' = applied /\ resyncs' = resyncs
      BY <1>5 DEF ClientOvertaken, l
    <2>2. Numbered
      BY <1>3, <2>1
    <2>3. QED
      BY <1>1, <2>1, <2>2 DEF ClientTakes, l
  <1>6. CASE ClientResync(f)
    <2>1. /\ Delivers(clayer, f) /\ ResyncNeeded(receiver, f.payload)
          /\ clayer' = l /\ up' = up
          /\ receiver' = receiver /\ applied' = applied /\ resyncs' = resyncs + 1
      BY <1>6 DEF ClientResync, l
    <2>2. Numbered
      BY <1>2, <2>1
    <2>3. QED
      BY <1>1, <2>1, <2>2 DEF ClientTakes, l
  <1>7. CASE ClientApply(f)
    <2>1. /\ Delivers(clayer, f) /\ ~ResyncNeeded(receiver, f.payload)
          /\ receiver' = Applied(receiver, f.payload)
          /\ applied' = applied \cup { NewestTick(receiver') }
          /\ resyncs' = resyncs
          /\ \/ FlushTurn(l)
             \/ /\ \E cut \in 1 .. NewestTick(receiver') :
                     clayer' = AfterSend(l, NewestTick(receiver'), cut)
                /\ up' = up \cup { Frame(l, FALSE, NewestTick(receiver')) }
      BY <1>7 DEF ClientApply, l
    <2>2. Numbered
      <3>1. CASE FlushTurn(l)
        BY <1>3, <3>1
      <3>2. CASE ~FlushTurn(l)
        <4> DEFINE t == NewestTick(receiver')
        <4>1. PICK cut \in 1 .. t : clayer' = AfterSend(l, t, cut)
          BY <2>1, <3>2
        <4>2. up' = up \cup { Frame(l, FALSE, t) }
          BY <2>1, <3>2
        <4> HIDE DEF t, Numbered
        <4>3. QED
          BY <1>4, <4>1, <4>2
      <3>3. QED
        BY <3>1, <3>2
    <2>3. QED
      BY <1>1, <2>1, <2>2 DEF ClientTakes, l
  <1>8. QED
    BY <1>1, <1>5, <1>6, <1>7

\* What a history keeps when the version of u is retained in it.
RetainsNewer(h, r, t, u) ==
  /\ HistoryInv(r, t)
  /\ r # << >>
  /\ r[Len(r)] = Version(u, World[u])
  /\ \A i \in 1 .. Len(h) :
       \/ \E j \in 1 .. Len(r) : r[j] = h[i]
       \/ Len(r) = HistoryDepth /\ r[1].tick > h[i].tick
  /\ Len(h) = HistoryDepth => Len(r) = HistoryDepth /\ r[1].tick > h[1].tick

\* Retaining a newer version (Receiver.push) drops at most the oldest one held.
LEMMA RetainHistoryNewer ==
  ASSUME NEW t \in 0 .. MaxTick, NEW h, HistoryInv(h, t),
         NEW u \in 1 .. t, \A i \in 1 .. Len(h) : h[i].tick < u
  PROVE  RetainsNewer(h, Retain(h, Version(u, World[u])), t, u)
  BY RetainHistory DEF RetainsNewer

\* A packet handed up that needs no resync becomes the newest version, and it
\* is the world committed at its tick.
LEMMA AppliedPacket ==
  ASSUME IInv, NEW f \in down, Delivers(clayer, f), ~ResyncNeeded(receiver, f.payload)
  PROVE  LET p == f.payload
             r == Applied(receiver, p)
         IN  /\ p.tick \in 1 .. tick
             /\ Synced(receiver) => NewestTick(receiver) < p.tick
             /\ r = Retain(receiver, Version(p.tick, World[p.tick]))
             /\ HistoryInv(r, tick)
             /\ Synced(r)
             /\ r[Len(r)] = Version(p.tick, World[p.tick])
             /\ NewestTick(r) = p.tick
             /\ \A i \in 1 .. Len(receiver) :
                  \/ \E j \in 1 .. Len(r) : r[j] = receiver[i]
                  \/ Len(r) = HistoryDepth /\ r[1].tick > receiver[i].tick
             /\ Len(receiver) = HistoryDepth =>
                  Len(r) = HistoryDepth /\ r[1].tick > receiver[1].tick
  <1> DEFINE p == f.payload
             r == Applied(receiver, p)
             v == Version(p.tick, World[p.tick])
  <1>1. tick \in 0 .. MaxTick /\ HistoryInv(receiver, tick)
    BY DEF IInv, BasicInv, ReceiverInv
  <1>2. f.seq = p.tick - 1 /\ PacketInv(p, tick)
    BY DEF IInv, DownInv
  <1>3. p.tick \in 1 .. tick
    BY <1>2 DEF PacketInv
  <1> HIDE DEF p
  <1>4. ASSUME Synced(receiver)
        PROVE  NewestTick(receiver) < p.tick /\ NewestTick(receiver) \in 1 .. tick
    <2>1. clayer.anyReceived /\ clayer.recvHighest \in 0 .. tick - 1
          /\ NewestTick(receiver) <= clayer.recvHighest + 1
      BY <1>4 DEF IInv, CLayerInv
    <2>2. clayer.recvHighest < f.seq
      BY <2>1, ClientAbsorbs
    <2>3. NewestTick(receiver) \in 1 .. tick
      BY <1>1, <1>4, HistoryNewest
    <2>4. QED
      BY <1>1, <1>2, <1>3, <2>1, <2>2, <2>3
  <1>5. ~Stale(receiver, p)
    BY <1>1, <1>3, <1>4 DEF Stale
  <1>6. World[p.tick] \in Worlds /\ \A b \in 1 .. tick : World[b] \in Worlds
    BY <1>1, <1>3, StreamAssumption
  <1>7. Reconstructed(receiver, p) = World[p.tick]
    <2>1. CASE p.kind = "snapshot"
      BY <1>2, <2>1 DEF Reconstructed, PacketInv
    <2>2. CASE p.kind = "delta"
      <3>1. Holds(receiver, p.baseline)
        BY <1>5, <2>2 DEF ResyncNeeded, p
      <3>2. p.baseline \in 1 .. tick /\ Find(receiver, p.baseline) = World[p.baseline]
        BY <1>1, <3>1, FindHeld
      <3>3. p.payload = Diff(World[p.baseline], World[p.tick])
        BY <1>2, <2>2 DEF PacketInv
      <3>4. ApplyDelta(World[p.baseline], Diff(World[p.baseline], World[p.tick]))
              = World[p.tick]
        BY <1>6, <3>2, ApplyDiff
      <3>5. QED
        BY <2>2, <3>2, <3>3, <3>4 DEF Reconstructed
    <2>3. QED
      BY <1>2, <2>1, <2>2 DEF PacketInv
  <1>8. r = Retain(receiver, v)
    BY <1>5, <1>7 DEF Applied, p
  <1>9. \A i \in 1 .. Len(receiver) : receiver[i].tick < p.tick
    <2>1. SUFFICES ASSUME NEW i \in 1 .. Len(receiver)
                   PROVE  receiver[i].tick < p.tick
      OBVIOUS
    <2>2. Synced(receiver)
      <3>1. receiver \in Seq(Versions)
        BY <1>1 DEF HistoryInv
      <3>2. ASSUME receiver = << >> PROVE FALSE
        <4>1. Len(receiver) = 0
          BY <3>1, <3>2, EmptySeq
        <4>2. QED
          BY <2>1, <4>1
      <3>3. QED
        BY <3>2 DEF Synced
    <2>3. receiver[i].tick <= NewestTick(receiver) /\ receiver[i].tick \in 1 .. tick
      BY <1>1, <2>2, HistoryNewest DEF HistoryInv
    <2>4. QED
      BY <1>1, <1>3, <1>4, <2>2, <2>3
  <1> HIDE DEF r
  <1> DEFINE q == Retain(receiver, v)
  <1>a. RetainsNewer(receiver, q, tick, p.tick)
    BY <1>1, <1>3, <1>9, RetainHistoryNewer DEF v
  <1>10. /\ HistoryInv(q, tick)
         /\ q # << >>
         /\ q[Len(q)] = v
         /\ \A i \in 1 .. Len(receiver) :
              \/ \E j \in 1 .. Len(q) : q[j] = receiver[i]
              \/ Len(q) = HistoryDepth /\ q[1].tick > receiver[i].tick
         /\ Len(receiver) = HistoryDepth =>
              Len(q) = HistoryDepth /\ q[1].tick > receiver[1].tick
    BY <1>a DEF RetainsNewer
  <1> HIDE DEF q
  <1>11. r = q
    BY <1>8 DEF q
  <1>12. Synced(q) /\ NewestTick(q) = p.tick
    BY <1>10 DEF Synced, NewestTick, Version
  <1>13. QED
    BY <1>3, <1>4, <1>8, <1>10, <1>11, <1>12 DEF p, r

LEMMA ClientTurnPreserves ==
  ASSUME IInv, ClientTurn
  PROVE  IInv'
  <1>1. PICK f \in down : ClientTakes(f)
    BY ClientTurnTakes
  <1> DEFINE p == f.payload
             l == Absorbed(clayer, f)
  <1>2. /\ down' \subseteq down
        /\ arrived' = arrived \cup { p.tick }
        /\ mode' = mode /\ client' = client /\ tick' = tick
        /\ sender' = sender /\ slayer' = slayer
        /\ IsLayer(clayer')
        /\ clayer'.nextSeq \in SeqNo
        /\ clayer'.anyReceived = TRUE
        /\ clayer'.deliveredAny = TRUE
        /\ clayer'.delivered = l.recvHighest
        /\ clayer'.recvHighest = l.recvHighest
        /\ \A g \in up' : g \in up \/ g.ackSeq = l.recvHighest
    BY <1>1 DEF ClientTakes
  <1>3. \/ /\ ~Delivers(clayer, f)
           /\ receiver' = receiver /\ applied' = applied /\ resyncs' = resyncs
        \/ /\ Delivers(clayer, f)
           /\ ResyncNeeded(receiver, p)
           /\ receiver' = receiver /\ applied' = applied /\ resyncs' = resyncs + 1
        \/ /\ Delivers(clayer, f)
           /\ ~ResyncNeeded(receiver, p)
           /\ receiver' = Applied(receiver, p)
           /\ applied' = applied \cup { NewestTick(receiver') }
           /\ resyncs' = resyncs
    BY <1>1 DEF ClientTakes
  <1>4. /\ BasicInv /\ SenderInv /\ DownInv /\ ReceiverInv
        /\ SLayerInv /\ CLayerInv /\ UpInv /\ ConfirmInv
    BY DEF IInv
  <1>5. /\ f.seq \in 0 .. tick - 1
        /\ Delivers(clayer, f) => /\ l.recvHighest = f.seq
                                  /\ clayer.anyReceived => clayer.recvHighest < f.seq
        /\ ~Delivers(clayer, f) => /\ clayer.anyReceived
                                   /\ l.recvHighest = clayer.recvHighest
    BY ClientAbsorbs
  <1>6. f.seq = p.tick - 1 /\ p.tick \in 1 .. tick /\ tick \in 0 .. MaxTick
    BY <1>4 DEF DownInv, PacketInv, BasicInv
  <1> HIDE DEF l, p
  <1>7. l.recvHighest \in 0 .. tick - 1
    BY <1>4, <1>5 DEF CLayerInv
  <1>8. BasicInv'
    BY <1>2, <1>3, <1>4 DEF BasicInv
  <1>9. SenderInv' /\ SLayerInv' /\ DownInv'
    BY <1>2, <1>4 DEF SenderInv, SLayerInv, DownInv
  <1>10. UpInv'
    BY <1>2, <1>4, <1>7 DEF UpInv
  <1>11. ASSUME receiver' = receiver, applied' = applied
         PROVE  ReceiverInv' /\ (Synced(receiver') => NewestTick(receiver') <= l.recvHighest + 1)
    <2>1. ReceiverInv'
      BY <1>2, <1>4, <1>6, <1>11 DEF ReceiverInv, Synced, NewestTick
    <2>2. ASSUME Synced(receiver)
          PROVE  NewestTick(receiver) <= l.recvHighest + 1
      <3>1. /\ clayer.anyReceived /\ clayer.recvHighest \in 0 .. tick - 1
            /\ NewestTick(receiver) <= clayer.recvHighest + 1
        BY <1>4, <2>2 DEF CLayerInv
      <3>2. NewestTick(receiver) \in 1 .. tick
        BY <1>4, <1>6, <2>2, HistoryNewest DEF ReceiverInv
      <3>3. l.recvHighest >= clayer.recvHighest
        BY <1>5, <1>6, <3>1
      <3>4. QED
        BY <1>6, <1>7, <3>1, <3>2, <3>3
    <2>3. QED
      BY <1>11, <2>1, <2>2 DEF Synced, NewestTick
  <1>12. ASSUME Delivers(clayer, f), ~ResyncNeeded(receiver, p),
                receiver' = Applied(receiver, p),
                applied' = applied \cup { NewestTick(receiver') }
         PROVE  /\ ReceiverInv'
                /\ NewestTick(receiver') = l.recvHighest + 1
                /\ p.tick \in applied' /\ l.recvHighest + 1 = p.tick
    <2>1. /\ Synced(receiver) => NewestTick(receiver) < p.tick
          /\ HistoryInv(receiver', tick)
          /\ Synced(receiver')
          /\ NewestTick(receiver') = p.tick
          /\ receiver'[Len(receiver')] = Version(p.tick, World[p.tick])
          /\ \A i \in 1 .. Len(receiver) :
               \/ \E j \in 1 .. Len(receiver') : receiver'[j] = receiver[i]
               \/ Len(receiver') = HistoryDepth /\ receiver'[1].tick > receiver[i].tick
          /\ Len(receiver) = HistoryDepth =>
               Len(receiver') = HistoryDepth /\ receiver'[1].tick > receiver[1].tick
      BY <1>12, AppliedPacket DEF p
    <2>2. applied' = applied \cup { p.tick }
      BY <1>12, <2>1
    <2>3. /\ DOMAIN receiver = 1 .. Len(receiver)
          /\ DOMAIN receiver' = 1 .. Len(receiver')
          /\ Len(receiver') \in Nat
      BY <1>4, <2>1 DEF ReceiverInv, HistoryInv
    <2>4. Holds(receiver', p.tick)
      <3>1. Len(receiver') \in 1 .. Len(receiver')
        BY <1>6, <2>1, HistoryNewest
      <3>2. QED
        BY <2>1, <2>3, <3>1 DEF Holds, Version
    <2>5. ASSUME NEW b \in applied
          PROVE  /\ b <= p.tick
                 /\ \/ Holds(receiver', b)
                    \/ Len(receiver') = HistoryDepth /\ receiver'[1].tick > b
      <3>1. /\ Synced(receiver)
            /\ b \in 1 .. tick
            /\ b <= NewestTick(receiver)
            /\ \/ Holds(receiver, b)
               \/ Len(receiver) = HistoryDepth /\ receiver[1].tick > b
        BY <1>4 DEF ReceiverInv
      <3>2. NewestTick(receiver) \in 1 .. tick /\ HistoryInv(receiver, tick)
        BY <1>4, <1>6, <3>1, HistoryNewest DEF ReceiverInv
      <3>3. b <= p.tick
        BY <1>6, <2>1, <3>1, <3>2
      <3>4. CASE Holds(receiver, b)
        <4>1. PICK i \in 1 .. Len(receiver) : receiver[i].tick = b
          BY <2>3, <3>4 DEF Holds
        <4>2. CASE \E j \in 1 .. Len(receiver') : receiver'[j] = receiver[i]
          BY <2>3, <3>3, <4>1, <4>2 DEF Holds
        <4>3. QED
          BY <2>1, <3>3, <4>1, <4>2
      <3>5. CASE Len(receiver) = HistoryDepth /\ receiver[1].tick > b
        <4>1. 1 \in 1 .. Len(receiver) /\ 1 \in 1 .. Len(receiver')
          BY <2>1, <3>5, TuningAssumption
        <4>2. receiver[1].tick \in 1 .. tick /\ receiver'[1].tick \in 1 .. tick
          BY <2>1, <3>2, <4>1 DEF HistoryInv
        <4>3. QED
          BY <1>6, <2>1, <3>1, <3>3, <3>5, <4>2
      <3>6. QED
        BY <3>1, <3>4, <3>5
    <2>6. ReceiverInv'
      <3>1. /\ applied' \subseteq arrived'
            /\ arrived' \subseteq 1 .. tick
        BY <1>2, <1>4, <1>6, <2>2 DEF ReceiverInv
      <3>2. \A b \in applied' : /\ b <= p.tick
                               /\ \/ Holds(receiver', b)
                                  \/ Len(receiver') = HistoryDepth /\ receiver'[1].tick > b
        BY <1>6, <2>2, <2>4, <2>5
      <3>3. NewestTick(receiver)' = p.tick /\ Synced(receiver)'
        BY <2>1 DEF NewestTick, Synced
      <3>4. QED
        BY <1>2, <2>1, <2>2, <3>1, <3>2, <3>3 DEF ReceiverInv, Holds
    <2>7. l.recvHighest + 1 = p.tick
      BY <1>5, <1>6, <1>12
    <2>8. QED
      BY <2>1, <2>2, <2>6, <2>7
  <1>13. ReceiverInv' /\ (Synced(receiver') => NewestTick(receiver') <= l.recvHighest + 1)
    <2>1. CASE receiver' = receiver /\ applied' = applied
      BY <1>11, <2>1
    <2>2. CASE ~(receiver' = receiver /\ applied' = applied)
      <3>1. ReceiverInv' /\ NewestTick(receiver') = l.recvHighest + 1
        BY <1>3, <1>12, <2>2
      <3>2. QED
        BY <1>7, <3>1
    <2>3. QED
      BY <2>1, <2>2
  <1>14. CLayerInv'
    BY <1>2, <1>7, <1>13 DEF CLayerInv, Synced, NewestTick
  <1>15. ConfirmInv'
    <2>1. SUFFICES ASSUME mode = "confirmedOnly"
                   PROVE  /\ applied \subseteq applied'
                          /\ l.recvHighest + 1 \in applied'
      BY <1>2, <1>4 DEF ConfirmInv
    <2>2. CASE ~Delivers(clayer, f)
      BY <1>3, <1>4, <1>5, <2>1, <2>2 DEF ConfirmInv
    <2>3. CASE Delivers(clayer, f)
      <3>1. p.kind = "delta" => p.baseline \in applied
        BY <1>4, <2>1 DEF ConfirmInv, p
      <3>2. ~ResyncNeeded(receiver, p)
        BY <3>1, AppliedBaselineDecodes DEF p
      <3>3. QED
        BY <1>3, <1>12, <2>3, <3>2
    <2>4. QED
      BY <2>2, <2>3
  <1>16. QED
    BY <1>8, <1>9, <1>10, <1>13, <1>14, <1>15 DEF IInv

-----------------------------------------------------------------------------
(* The theorems.                                                            *)

LEMMA NextPreserves == IInv /\ [Next]_vars => IInv'
  BY SendStatePreserves, ClientTurnPreserves, ServerAbsorbPreserves,
     ServerResyncPreserves, StutterPreserves DEF Next

\* The inductive invariant: how the ack record, the sender's history and the
\* client's history keep in step.
THEOREM Invariance == Spec => []IInv
  BY InitIInv, NextPreserves, PTL DEF Spec

\* The type invariant: in particular the two histories never outgrow
\* HistoryDepth, and the server numbers exactly one datagram a tick.
THEOREM TypeCorrect == Spec => []TypeOK
  <1>1. IInv => TypeOK
    <2> SUFFICES ASSUME IInv PROVE TypeOK
      OBVIOUS
    <2>1. BasicInv /\ SenderInv /\ DownInv /\ ReceiverInv /\ SLayerInv /\ CLayerInv
      BY DEF IInv
    <2>2. mode \in Modes /\ client \in Clients /\ tick \in 0 .. MaxTick /\ resyncs \in Nat
      BY <2>1 DEF BasicInv
    <2>3. sender.confirmed \in { NoTick } \cup 1 .. tick
      <3>1. sender \in Senders /\ sender.confirmed <= tick /\ sender.confirmed # 0
        BY <2>1 DEF SenderInv
      <3>2. QED
        BY <2>2, <3>1 DEF Senders
    <2>4. sender.lastSent = tick /\ sender.sends \in 0 .. tick
      <3>1. sender \in Senders /\ sender.lastSent = tick /\ sender.sends <= tick
        BY <2>1 DEF SenderInv
      <3>2. QED
        BY <2>2, <3>1 DEF Senders
    <2>5. Len(sender.history) <= HistoryDepth /\ Len(receiver) <= HistoryDepth
      BY <2>1 DEF SenderInv, ReceiverInv, HistoryInv
    <2>6. slayer.nextSeq = tick /\ clayer.nextSeq \in SeqNo
      BY <2>1 DEF SLayerInv, CLayerInv
    <2>7. \A p \in Packets : p.tick \in 1 .. tick
      BY <2>1 DEF Packets, DownInv, PacketInv
    <2>8. applied \subseteq arrived /\ arrived \subseteq 1 .. tick
      BY <2>1 DEF ReceiverInv
    <2>9. QED
      BY <2>2, <2>3, <2>4, <2>5, <2>6, <2>7, <2>8 DEF TypeOK
  <1>2. QED
    BY <1>1, Invariance, PTL

\* Every version the client retains is the world committed at its tick,
\* whatever was lost, reordered, refused or evicted on the way.
THEOREM ReconstructionHolds == Spec => []Reconstruction
  <1>1. IInv => Reconstruction
    BY DEF IInv, ReceiverInv, HistoryInv, Reconstruction
  <1>2. QED
    BY <1>1, Invariance, PTL

\* Retention on the two ends never disagrees: a delta against a version the
\* client once reconstructed decodes whenever it is not stale.
THEOREM RetentionSufficesHolds == Spec => []RetentionSuffices
  <1>1. IInv => RetentionSuffices
    BY AppliedBaselineDecodes DEF RetentionSuffices, Packets
  <1>2. QED
    BY <1>1, Invariance, PTL

\* In the confirmed-only mode no datagram ever needs a resync.
THEOREM ConfirmedOnlyDecodesHolds == Spec => []ConfirmedOnlyDecodes
  <1>1. IInv => ConfirmedOnlyDecodes
    <2> SUFFICES ASSUME IInv, mode = "confirmedOnly", NEW f \in down
                 PROVE  ~ResyncNeeded(receiver, f.payload)
      BY DEF ConfirmedOnlyDecodes, Packets
    <2>1. f.payload.kind = "delta" => f.payload.baseline \in applied
      BY DEF IInv, ConfirmInv
    <2>2. QED
      BY <2>1, AppliedBaselineDecodes
  <1>2. QED
    BY <1>1, Invariance, PTL

\* In the confirmed-only mode the confirmed baseline is a version the client
\* reconstructed.
THEOREM ConfirmedOnlyIsHeldHolds == Spec => []ConfirmedOnlyIsHeld
  <1>1. IInv => ConfirmedOnlyIsHeld
    BY DEF IInv, ConfirmInv, ConfirmedOnlyIsHeld, ConfirmedIsHeld
  <1>2. QED
    BY <1>1, Invariance, PTL

\* A loss-free, in-order stream never needs a resync, in any mode.
THEOREM InOrderDecodesHolds == Spec => []InOrderDecodes
  <1>1. IInv => InOrderDecodes
    <2> SUFFICES ASSUME IInv, NEW f \in down, applied = 1 .. f.payload.tick - 1
                 PROVE  ~ResyncNeeded(receiver, f.payload)
      BY DEF InOrderDecodes, Packets
    <2>1. f.payload.kind = "delta" => f.payload.baseline \in applied
      BY DEF IInv, DownInv, PacketInv
    <2>2. QED
      BY <2>1, AppliedBaselineDecodes
  <1>2. QED
    BY <1>1, Invariance, PTL

\* Nothing but an applied packet clears the debt to a client that asked for a
\* snapshot.
LEMMA NoWedgePreserved == IInv /\ NoWedge /\ [Next]_vars => NoWedge'
  <1> SUFFICES ASSUME IInv, NoWedge, [Next]_vars
               PROVE  NoWedge'
    OBVIOUS
  <1>1. /\ tick \in 0 .. MaxTick /\ sender \in Senders /\ sender.sends <= tick
        /\ resyncs \in Nat
    BY DEF IInv, BasicInv, SenderInv
  <1>2. LastDelivered \in 0 .. tick
    BY <1>1 DEF IInv, CLayerInv, LastDelivered
  <1>3. CASE SendState
    <2>1. /\ tick < MaxTick /\ tick' = tick + 1
          /\ sender' = SentFrom(Deciding, mode, tick + 1)
          /\ clayer' = clayer /\ receiver' = receiver /\ resyncs' = resyncs
      BY <1>3 DEF SendState, Packet, AfterSending, Deciding
    <2>2. LastDelivered' = LastDelivered /\ NewestTick(receiver)' = NewestTick(receiver)
      BY <2>1 DEF LastDelivered, NewestTick, Synced
    <2>3. \/ sender'.sends = 0
          \/ sender'.sends = sender.sends + 1 /\ ~sender.needSnap
      BY <2>1, SentPacket, DecidingProperties
    <2>4. sender.sends \in Nat
      BY <1>1 DEF Senders
    <2>5. CASE sender'.sends = 0
      <3>1. tick' - sender'.sends > LastDelivered
        BY <1>1, <1>2, <2>1, <2>5
      <3>2. QED
        BY <2>2, <3>1 DEF NoWedge
    <2>6. CASE sender'.sends = sender.sends + 1 /\ ~sender.needSnap
      <3>1. tick' - sender'.sends = tick - sender.sends
        BY <1>1, <2>1, <2>4, <2>6
      <3>2. QED
        BY <2>1, <2>2, <2>6, <3>1 DEF NoWedge
    <2>7. QED
      BY <2>3, <2>5, <2>6
  <1>4. CASE ClientTurn
    <2>1. PICK f \in down : ClientTakes(f)
      BY <1>4, ClientTurnTakes
    <2>2. /\ f.seq = f.payload.tick - 1
          /\ f.payload.tick \in 1 .. tick
      BY DEF IInv, DownInv, PacketInv
    <2>3. /\ tick' = tick /\ sender' = sender
          /\ clayer'.deliveredAny = TRUE
          /\ clayer'.delivered = Absorbed(clayer, f).recvHighest
      BY <2>1 DEF ClientTakes
    <2>4. CASE ~Delivers(clayer, f) /\ receiver' = receiver /\ resyncs' = resyncs
      <3>1. clayer.anyReceived /\ Absorbed(clayer, f).recvHighest = clayer.recvHighest
        BY <2>4, ClientAbsorbs
      <3>2. clayer.deliveredAny = TRUE /\ clayer.delivered = clayer.recvHighest
        BY <3>1 DEF IInv, CLayerInv
      <3>3. LastDelivered' = LastDelivered /\ NewestTick(receiver)' = NewestTick(receiver)
        BY <2>3, <2>4, <3>1, <3>2 DEF LastDelivered, NewestTick, Synced
      <3>4. QED
        BY <2>3, <2>4, <3>3 DEF NoWedge
    <2>5. CASE resyncs' = resyncs + 1
      <3>1. resyncs' > 0
        BY <1>1, <2>5
      <3>2. QED
        BY <3>1 DEF NoWedge
    <2>6. CASE /\ Delivers(clayer, f)
               /\ ~ResyncNeeded(receiver, f.payload)
               /\ receiver' = Applied(receiver, f.payload)
      <3>1. NewestTick(receiver') = f.payload.tick
        BY <2>6, AppliedPacket
      <3>2. Absorbed(clayer, f).recvHighest = f.seq
        BY <2>6, ClientAbsorbs
      <3>3. LastDelivered' = f.payload.tick
        BY <1>1, <2>2, <2>3, <3>2 DEF LastDelivered
      <3>4. ~(LastDelivered' > NewestTick(receiver'))
        BY <1>1, <2>2, <3>1, <3>3
      <3>5. QED
        BY <3>4 DEF NoWedge
    <2>7. QED
      BY <2>1, <2>4, <2>5, <2>6 DEF ClientTakes
  <1>5. CASE ServerAbsorb
    <2>1. /\ tick' = tick /\ sender' = sender /\ clayer' = clayer
          /\ receiver' = receiver /\ resyncs' = resyncs
      BY <1>5 DEF ServerAbsorb
    <2>2. QED
      BY <2>1 DEF NoWedge, LastDelivered, NewestTick, Synced
  <1>6. CASE ServerResync
    <2>1. sender' = [ sender EXCEPT !.needSnap = TRUE ]
      BY <1>6 DEF ServerResync, ResyncRequested
    <2>2. sender'.needSnap = TRUE
      BY <1>1, <2>1 DEF Senders
    <2>3. QED
      BY <2>2 DEF NoWedge
  <1>7. CASE UNCHANGED vars
    <2>1. /\ tick' = tick /\ sender' = sender /\ clayer' = clayer
          /\ receiver' = receiver /\ resyncs' = resyncs
      BY <1>7 DEF vars
    <2>2. QED
      BY <2>1 DEF NoWedge, LastDelivered, NewestTick, Synced
  <1>8. QED
    BY <1>3, <1>4, <1>5, <1>6, <1>7 DEF Next

\* A client whose last packet did not decode is never forgotten: a request, a
\* pending snapshot or a snapshot newer than that packet answers it.
THEOREM NoWedgeHolds == Spec => []NoWedge
  <1>1. Init => NoWedge
    BY DEF Init, NoWedge, LastDelivered, NewLayer
  <1>2. QED
    BY <1>1, InitIInv, NextPreserves, NoWedgePreserved, PTL DEF Spec

\* The stream implements its abstract specification: a commit is a commit, an
\* applied packet moves the replica to a newer committed world, and nothing
\* else the two ends do can be seen in it.
THEOREM StreamImplementsReplica == Spec => StreamIsReplica
  <1>1. Init => Abstract!Init
    BY DEF Init, Abstract!Init, Abstract!Nothing, View, Synced, NewReceiver
  <1>2. IInv /\ [Next]_vars => [Abstract!Next]_(Abstract!vars)
    <2> SUFFICES ASSUME IInv, [Next]_vars
                 PROVE  [Abstract!Next]_(Abstract!vars)
      OBVIOUS
    <2>1. ASSUME receiver' = receiver, tick' = tick
          PROVE  UNCHANGED Abstract!vars
      BY <2>1 DEF Abstract!vars, View, Synced
    <2>2. CASE SendState
      <3>1. tick < MaxTick /\ tick' = tick + 1 /\ receiver' = receiver
        BY <2>2 DEF SendState
      <3>2. View' = View
        BY <3>1 DEF View, Synced
      <3>3. QED
        BY <3>1, <3>2 DEF Abstract!Next, Abstract!Commit
    <2>3. CASE ClientTurn
      <3>1. PICK f \in down : ClientTakes(f)
        BY <2>3, ClientTurnTakes
      <3>2. tick' = tick
        BY <3>1 DEF ClientTakes
      <3>3. CASE receiver' = receiver
        BY <2>1, <3>2, <3>3
      <3>4. CASE /\ Delivers(clayer, f)
                 /\ ~ResyncNeeded(receiver, f.payload)
                 /\ receiver' = Applied(receiver, f.payload)
        <4> DEFINE t == f.payload.tick
        <4>1. /\ t \in 1 .. tick
              /\ Synced(receiver) => NewestTick(receiver) < t
              /\ Synced(receiver')
              /\ receiver'[Len(receiver')] = Version(t, World[t])
          BY <3>4, AppliedPacket
        <4>2. tick \in 0 .. MaxTick /\ HistoryInv(receiver, tick)
          BY DEF IInv, BasicInv, ReceiverInv
        <4>3. View' = [ tick |-> t, state |-> World[t] ]
          BY <4>1 DEF View, Synced, Version
        <4>4. t \in View.tick + 1 .. tick
          <5>1. CASE Synced(receiver)
            <6>1. View.tick = NewestTick(receiver) /\ NewestTick(receiver) \in 1 .. tick
              BY <4>2, <5>1, HistoryNewest DEF View, NewestTick
            <6>2. QED
              BY <4>1, <4>2, <5>1, <6>1
          <5>2. CASE ~Synced(receiver)
            BY <4>1, <4>2, <5>2 DEF View
          <5>3. QED
            BY <5>1, <5>2
        <4>5. Abstract!Follow
          BY <3>2, <4>3, <4>4 DEF Abstract!Follow
        <4>6. QED
          BY <4>5 DEF Abstract!Next
      <3>5. QED
        BY <3>1, <3>3, <3>4 DEF ClientTakes
    <2>4. CASE ServerAbsorb
      BY <2>1, <2>4 DEF ServerAbsorb
    <2>5. CASE ServerResync
      BY <2>1, <2>5 DEF ServerResync
    <2>6. CASE UNCHANGED vars
      BY <2>1, <2>6 DEF vars
    <2>7. QED
      BY <2>2, <2>3, <2>4, <2>5, <2>6 DEF Next
  <1>3. QED
    BY <1>1, <1>2, Invariance, PTL DEF Spec, StreamIsReplica, Abstract!Spec
=============================================================================
