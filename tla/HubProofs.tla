----------------------------- MODULE HubProofs -----------------------------
(***************************************************************************)
(* What the hub guarantees for any viewers, any depth of their channels,   *)
(* any history depth, snapshot cadence and baseline mode: however many     *)
(* packets full channels swallow, what a viewer takes next decodes, an     *)
(* emptied channel has shown its viewer the last world or the hub owes it  *)
(* a snapshot, and every viewer's replica shows committed worlds only and  *)
(* moves forward only.                                                     *)
(***************************************************************************)
EXTENDS Hub, SequenceTheorems, TLAPS

-----------------------------------------------------------------------------
(* What is retained and what is sent: committed worlds, and the codec's    *)
(* deltas between two of them.                                             *)

Versions == { Version(t, World[t]) : t \in 1 .. MaxTick }

Snapshots == { Snapshot(t, World[t]) : t \in 1 .. MaxTick }

Deltas ==
  { Delta(b[1], b[2], Diff(World[b[2]], World[b[1]])) : b \in (1 .. MaxTick) \X (1 .. MaxTick) }

Packets == Snapshots \cup Deltas

Senders ==
  [ history : Seq(Versions), sends : Nat, lastSent : Nat, started : BOOLEAN,
    needSnap : BOOLEAN, confirmed : { NoTick } ]

Typed ==
  /\ mode \in Modes
  /\ tick \in 0 .. MaxTick
  /\ closed \in BOOLEAN /\ shut \in SUBSET Viewers
  /\ loop \in [ Viewers -> { "absent", "reading", "drained", "left" } ]
  /\ sender \in [ Viewers -> Senders ]
  /\ chan \in [ Viewers -> Seq(Packets) ]
  /\ receiver \in [ Viewers -> Seq(Versions) ]

\* The packet can be applied by who shows the version of tick before.
Follows(p, before) == p.tick > before /\ (p.kind = "delta" => p.baseline = before)

\* The version a reader of r shows once it has applied all of q.
EndOf(q, r) == IF q = << >> THEN NewestTick(r) ELSE q[Len(q)].tick

\* Each packet of a channel follows the one before it, the first one what the
\* viewer shows.
Chained(q, r) ==
  /\ q # << >> => Follows(q[1], NewestTick(r))
  /\ \A i \in 1 .. Len(q) - 1 : Follows(q[i + 1], q[i].tick)

\* What the hub remembers of a viewer: unless it owes a snapshot, the last
\* packet it made is the last one the viewer will have applied.
Remembers(s, q, r, t) ==
  /\ s.lastSent <= t
  /\ s.started => s.lastSent >= 1
  /\ ~s.started => q = << >> /\ r = << >>
  /\ NewestTick(r) <= s.lastSent
  /\ \A i \in 1 .. Len(q) : q[i].tick <= s.lastSent
  /\ s.started /\ ~s.needSnap => EndOf(q, r) = s.lastSent

Bounded(s, q, r) ==
  /\ Len(s.history) <= HistoryDepth
  /\ Len(q) <= ChanDepth
  /\ Len(r) <= HistoryDepth

ViewerInv(s, q, r, t) ==
  /\ Bounded(s, q, r)
  /\ Chained(q, r)
  /\ Remembers(s, q, r, t)

IInv ==
  /\ Typed
  /\ \A v \in Viewers : ViewerInv(sender[v], chan[v], receiver[v], tick)

-----------------------------------------------------------------------------
(* Lemmas on the operators.                                                *)

\* A committed world is one.
LEMMA WorldCommitted ==
  ASSUME NEW t \in 1 .. MaxTick
  PROVE  World[t] \in Worlds
  BY HubAssumption

\* Applying a delta to the baseline it was computed from gives the world it
\* was computed for.
LEMMA ApplyDiff ==
  ASSUME NEW b \in Worlds, NEW c \in Worlds
  PROVE  ApplyDelta(b, Diff(b, c)) = c
  BY DEF ApplyDelta, Diff, Worlds

\* A version names its tick and holds the world of that tick.
LEMMA VersionIs ==
  ASSUME NEW x \in Versions
  PROVE  x.tick \in 1 .. MaxTick /\ x.state = World[x.tick] /\ x = Version(x.tick, World[x.tick])
  BY DEF Versions, Version

\* What a packet is, by its kind.
LEMMA PacketIs ==
  ASSUME NEW p \in Packets
  PROVE  /\ p.tick \in 1 .. MaxTick
         /\ \/ p.kind = "snapshot" /\ p.payload = World[p.tick]
            \/ /\ p.kind = "delta" /\ p.baseline \in 1 .. MaxTick
               /\ p.payload = Diff(World[p.baseline], World[p.tick])
  <1>1. CASE p \in Snapshots
    BY <1>1 DEF Snapshots, Snapshot
  <1>2. CASE p \in Deltas
    <2>1. PICK b \in (1 .. MaxTick) \X (1 .. MaxTick) :
            p = Delta(b[1], b[2], Diff(World[b[2]], World[b[1]]))
      BY <1>2 DEF Deltas
    <2>2. b[1] \in 1 .. MaxTick /\ b[2] \in 1 .. MaxTick
      OBVIOUS
    <2>3. p.tick = b[1] /\ p.kind = "delta" /\ p.baseline = b[2]
          /\ p.payload = Diff(World[b[2]], World[b[1]])
      BY <2>1 DEF Delta
    <2>4. QED
      BY <2>2, <2>3
  <1>3. QED
    BY <1>1, <1>2 DEF Packets

\* Retaining a version drops at most the oldest one.
LEMMA RetainBounded ==
  ASSUME NEW h \in Seq(Versions), NEW x \in Versions, Len(h) <= HistoryDepth
  PROVE  LET k == Retain(h, x)
         IN  /\ k \in Seq(Versions)
             /\ Len(k) \in 1 .. HistoryDepth
             /\ k[Len(k)] = x
  <1> DEFINE g == Append(h, x)
             k == Retain(h, x)
  <1>1. g \in Seq(Versions) /\ Len(g) = Len(h) + 1 /\ g[Len(g)] = x
    BY AppendProperties
  <1>2. HistoryDepth \in Nat /\ HistoryDepth >= 1 /\ Len(h) \in Nat
    BY TuningAssumption, LenProperties
  <1>3. CASE Len(g) <= HistoryDepth
    <2>1. k = g
      BY <1>1, <1>2, <1>3 DEF Retain
    <2>2. QED
      BY <1>1, <1>2, <1>3, <2>1
  <1>4. CASE ~(Len(g) <= HistoryDepth)
    <2>1. k = Tail(g) /\ Len(g) = HistoryDepth + 1
      BY <1>1, <1>2, <1>4 DEF Retain
    <2>2. g # << >>
      BY <1>1, <1>2, EmptySeq
    <2>3. /\ k \in Seq(Versions) /\ Len(k) = Len(g) - 1
          /\ \A i \in 1 .. Len(k) : k[i] = g[i + 1]
      BY <1>1, <2>1, <2>2, HeadTailProperties
    <2>4. QED
      BY <1>1, <1>2, <2>1, <2>3
  <1>5. QED
    BY <1>3, <1>4

\* What is held under a tick is the world committed at it.
LEMMA FindCommitted ==
  ASSUME NEW h \in Seq(Versions), NEW t, Holds(h, t)
  PROVE  t \in 1 .. MaxTick /\ Find(h, t) = World[t]
  <1> DEFINE i == CHOOSE j \in DOMAIN h : h[j].tick = t
  <1>1. i \in DOMAIN h /\ h[i].tick = t
    BY DEF Holds
  <1>2. h[i] \in Versions
    BY <1>1
  <1>3. QED
    BY <1>1, <1>2, VersionIs DEF Find

\* The version a receiver shows is held.
LEMMA NewestHeld ==
  ASSUME NEW r \in Seq(Versions)
  PROVE  /\ r = << >> => NewestTick(r) = NoTick
         /\ r # << >> => /\ NewestTick(r) = r[Len(r)].tick
                         /\ NewestTick(r) \in 1 .. MaxTick
                         /\ Holds(r, NewestTick(r))
         /\ NewestTick(r) \in Int
  <1>1. CASE r = << >>
    BY <1>1 DEF NewestTick, Synced, NoTick
  <1>2. CASE r # << >>
    <2>1. Len(r) \in Nat /\ Len(r) >= 1 /\ Len(r) \in DOMAIN r /\ r[Len(r)] \in Versions
      BY <1>2, EmptySeq, LenProperties
    <2>2. r[Len(r)].tick \in 1 .. MaxTick
      BY <2>1, VersionIs
    <2>3. QED
      BY <1>2, <2>1, <2>2, HubAssumption DEF NewestTick, Synced, Holds
  <1>3. QED
    BY <1>1, <1>2

-----------------------------------------------------------------------------
(* One packet made, one packet applied.                                    *)

\* s sends the world of t as p and is a then.
Sends(s, m, t, p, a) ==
  p = Packet(s, m, t, World[t]) /\ a = AfterSending(s, m, t, World[t])

\* ... and what that makes of them.
Makes(s, t, p, a) ==
  /\ a \in Senders
  /\ a.started = TRUE /\ a.needSnap = FALSE /\ a.lastSent = t
  /\ Len(a.history) <= HistoryDepth
  /\ p \in Packets /\ p.tick = t
  /\ p.kind = "delta" => s.started /\ ~s.needSnap /\ p.baseline = s.lastSent

\* The packet of a broadcast, and the sender it leaves: nobody confirms, so
\* only a speculative delta against the last packet is possible.
LEMMA PacketMade ==
  ASSUME NEW s \in Senders, NEW m, NEW t \in 1 .. MaxTick,
         NEW p, NEW a, Sends(s, m, t, p, a),
         Len(s.history) <= HistoryDepth, s.lastSent < t
  PROVE  Makes(s, t, p, a)
  <1> DEFINE x == Version(t, World[t])
             h == Retain(s.history, x)
             g == Retaining(s, t, World[t])
             base == Baseline(g, m, t)
             must == MustSnapshot(g, m, t)
  <1>1. x \in Versions /\ s.history \in Seq(Versions)
    BY DEF Versions, Senders
  <1>2. h \in Seq(Versions) /\ Len(h) \in 1 .. HistoryDepth
    BY <1>1, RetainBounded
  <1>3. HistoryDepth \in Nat /\ MaxTick \in Nat
    BY TuningAssumption, HubAssumption
  <1>4. /\ g \in Senders /\ g.history = h /\ g.lastSent = s.lastSent
        /\ g.started = s.started /\ g.needSnap = s.needSnap /\ g.confirmed = NoTick
        /\ g.sends = s.sends
    BY <1>2 DEF Senders, Retaining
  <1>5. base = s.lastSent \/ base = NoTick
    BY <1>4 DEF Baseline
  <1> HIDE DEF h, x
  <1>6. p = Packet(s, m, t, World[t]) /\ a = AfterSending(s, m, t, World[t])
    BY DEF Sends
  <1>7. a = [ g EXCEPT !.sends = IF must THEN 0 ELSE @ + 1,
                       !.needSnap = IF must THEN FALSE ELSE @,
                       !.started = TRUE, !.lastSent = t ]
    BY <1>6 DEF AfterSending, SentFrom
  <1>8. must \/ g.needSnap = FALSE
    BY <1>4 DEF MustSnapshot, Senders
  <1>9. must \in BOOLEAN
    BY <1>4, TuningAssumption DEF MustSnapshot, Senders, Holds
  <1> HIDE DEF must, base, g
  <1>10. /\ a \in Senders /\ a.started = TRUE /\ a.needSnap = FALSE /\ a.lastSent = t
        /\ a.history = h
    <2>1. a = [ g EXCEPT !.sends = IF must THEN 0 ELSE g.sends + 1,
                         !.needSnap = IF must THEN FALSE ELSE g.needSnap,
                         !.started = TRUE, !.lastSent = t ]
      BY <1>4, <1>7 DEF Senders
    <2>2. (IF must THEN FALSE ELSE g.needSnap) = FALSE
      BY <1>8
    <2>3. (IF must THEN 0 ELSE g.sends + 1) \in Nat /\ t \in Nat
      BY <1>3, <1>4 DEF Senders
    <2>4. QED
      BY <1>4, <2>1, <2>2, <2>3 DEF Senders
  <1>11. CASE must
    <2>1. p = Snapshot(t, World[t])
      BY <1>11, <1>6 DEF Packet, PacketFrom, must, g
    <2>2. p \in Packets /\ p.tick = t /\ p.kind = "snapshot"
      BY <2>1 DEF Packets, Snapshots, Snapshot
    <2>3. QED
      BY <1>2, <1>3, <1>10, <2>2 DEF Makes
  <1>12. CASE ~must
    <2>1. s.started /\ ~s.needSnap /\ Holds(h, base)
      BY <1>4, <1>12 DEF must, base, MustSnapshot
    <2>2. base \in 1 .. MaxTick /\ Find(h, base) = World[base]
      BY <1>2, <2>1, FindCommitted
    <2>3. base = s.lastSent
      BY <1>5, <2>2 DEF NoTick
    <2>4. p = Delta(t, base, Diff(Find(g.history, base), World[t]))
      BY <1>12, <1>6 DEF Packet, PacketFrom, must, g, base
    <2>5. p = Delta(t, base, Diff(World[base], World[t]))
      BY <1>4, <2>2, <2>4
    <2>6. p \in Deltas
      <3>1. << t, base >> \in (1 .. MaxTick) \X (1 .. MaxTick)
        BY <2>2
      <3>2. << t, base >>[1] = t /\ << t, base >>[2] = base
        OBVIOUS
      <3>3. QED
        BY <2>5, <3>1, <3>2 DEF Deltas
    <2>7. p.tick = t /\ p.baseline = base
      BY <2>5 DEF Delta
    <2>8. QED
      BY <1>2, <1>3, <1>10, <2>1, <2>3, <2>6, <2>7 DEF Packets, Makes
  <1>13. QED
    BY <1>9, <1>11, <1>12

\* A packet that follows what a receiver shows is applied, and shows the world
\* of its tick.
LEMMA PacketApplied ==
  ASSUME NEW r \in Seq(Versions), Len(r) <= HistoryDepth,
         NEW p \in Packets, Follows(p, NewestTick(r))
  PROVE  LET k == Applied(r, p)
         IN  /\ ~ResyncNeeded(r, p)
             /\ k \in Seq(Versions) /\ Len(k) <= HistoryDepth /\ k # << >>
             /\ k[Len(k)] = Version(p.tick, World[p.tick])
             /\ NewestTick(k) = p.tick
  <1> DEFINE k == Applied(r, p)
             x == Version(p.tick, Reconstructed(r, p))
  <1>1. NewestTick(r) \in Int /\ p.tick \in 1 .. MaxTick /\ MaxTick \in Nat
    BY NewestHeld, PacketIs, HubAssumption
  <1>2. p.tick > NewestTick(r)
    BY DEF Follows
  <1>3. ~Stale(r, p)
    BY <1>1, <1>2 DEF Stale
  <1>4. p.kind = "delta" => Holds(r, p.baseline) /\ p.baseline \in 1 .. MaxTick
    <2>1. SUFFICES ASSUME p.kind = "delta" PROVE Holds(r, p.baseline) /\ p.baseline \in 1 .. MaxTick
      OBVIOUS
    <2>2. p.baseline = NewestTick(r) /\ p.baseline \in 1 .. MaxTick
      BY <2>1, PacketIs DEF Follows
    <2>3. r # << >>
      BY <2>2, NewestHeld DEF NoTick
    <2>4. QED
      BY <2>2, <2>3, NewestHeld
  <1>5. ~ResyncNeeded(r, p)
    BY <1>4 DEF ResyncNeeded
  <1>6. Reconstructed(r, p) = World[p.tick]
    <2>1. CASE p.kind = "snapshot"
      BY <2>1, PacketIs DEF Reconstructed
    <2>2. CASE p.kind # "snapshot"
      <3>1. /\ p.kind = "delta" /\ p.baseline \in 1 .. MaxTick
            /\ p.payload = Diff(World[p.baseline], World[p.tick])
        BY <2>2, PacketIs
      <3>2. Find(r, p.baseline) = World[p.baseline]
        BY <1>4, <3>1, FindCommitted
      <3>3. World[p.baseline] \in Worlds /\ World[p.tick] \in Worlds
        BY <1>1, <3>1, WorldCommitted
      <3>4. ApplyDelta(World[p.baseline], Diff(World[p.baseline], World[p.tick])) = World[p.tick]
        BY <3>3, ApplyDiff
      <3>5. QED
        BY <2>2, <3>1, <3>2, <3>4 DEF Reconstructed
    <2>3. QED
      BY <2>1, <2>2
  <1>7. x = Version(p.tick, World[p.tick]) /\ x \in Versions
    BY <1>1, <1>6 DEF Versions
  <1>8. k = Retain(r, x)
    BY <1>3, <1>5 DEF Applied
  <1> HIDE DEF x
  <1>9. k \in Seq(Versions) /\ Len(k) \in 1 .. HistoryDepth /\ k[Len(k)] = x
    BY <1>7, <1>8, RetainBounded
  <1>10. k # << >> /\ Len(k) <= HistoryDepth
    BY <1>9, TuningAssumption, EmptySeq
  <1>11. NewestTick(k) = p.tick
    BY <1>7, <1>9, <1>10 DEF NewestTick, Synced, Version
  <1>12. QED
    BY <1>5, <1>7, <1>9, <1>10, <1>11

-----------------------------------------------------------------------------
(* What each operation does to one viewer.                                 *)

\* Where a reader stands, by what is queued for it.
LEMMA EndIs ==
  ASSUME NEW q \in Seq(Packets), NEW r \in Seq(Versions)
  PROVE  /\ EndOf(q, r) \in Int
         /\ q # << >> => Len(q) \in Nat /\ Len(q) >= 1 /\ q[1] \in Packets
                         /\ EndOf(q, r) = q[Len(q)].tick
         /\ q = << >> => Len(q) = 0 /\ EndOf(q, r) = NewestTick(r)
  <1>1. NewestTick(r) \in Int
    BY NewestHeld
  <1>2. CASE q = << >>
    BY <1>1, <1>2, EmptySeq DEF EndOf
  <1>3. CASE q # << >>
    <2>1. Len(q) \in Nat /\ Len(q) >= 1
      BY <1>3, EmptySeq, LenProperties
    <2>2. q[1] \in Packets /\ q[Len(q)] \in Packets
      BY <2>1
    <2>3. q[Len(q)].tick \in Int
      BY <2>2, PacketIs, HubAssumption
    <2>4. QED
      BY <1>3, <2>1, <2>2, <2>3 DEF EndOf
  <1>4. QED
    BY <1>2, <1>3

\* ... and that is nothing the hub has not sent.
LEMMA EndBelow ==
  ASSUME NEW s, NEW q \in Seq(Packets), NEW r \in Seq(Versions), NEW t,
         Remembers(s, q, r, t)
  PROVE  EndOf(q, r) \in Int /\ EndOf(q, r) <= s.lastSent
  <1>1. CASE q = << >>
    BY <1>1, EndIs DEF Remembers
  <1>2. CASE q # << >>
    <2>1. Len(q) \in 1 .. Len(q)
      BY <1>2, EndIs
    <2>2. QED
      BY <1>2, <2>1, EndIs DEF Remembers
  <1>3. QED
    BY <1>1, <1>2

\* A request changes what the hub owes, nothing else.
LEMMA RequestKeeps ==
  ASSUME NEW s \in Senders, NEW q, NEW r, NEW t, ViewerInv(s, q, r, t)
  PROVE  ResyncRequested(s) \in Senders /\ ViewerInv(ResyncRequested(s), q, r, t)
  <1> DEFINE a == ResyncRequested(s)
  <1>1. /\ a \in Senders /\ a.history = s.history /\ a.lastSent = s.lastSent
        /\ a.started = s.started /\ a.needSnap = TRUE
    BY DEF ResyncRequested, Senders
  <1>2. QED
    BY <1>1 DEF ViewerInv, Bounded, Remembers

\* A broadcast to a viewer whose channel has room.
LEMMA SentKeeps ==
  ASSUME NEW s \in Senders, NEW q \in Seq(Packets), NEW r \in Seq(Versions),
         NEW m, NEW t \in 1 .. MaxTick, ViewerInv(s, q, r, t - 1), Len(q) < ChanDepth,
         NEW p, NEW a, Sends(s, m, t, p, a),
         NEW n, n = Append(q, p)
  PROVE  a \in Senders /\ n \in Seq(Packets) /\ ViewerInv(a, n, r, t)
  <1>1. Len(s.history) <= HistoryDepth /\ s.lastSent <= t - 1 /\ s.lastSent \in Nat
        /\ t \in Int
    BY HubAssumption DEF ViewerInv, Bounded, Remembers, Senders
  <1>2. s.lastSent < t
    BY <1>1
  <1>3. Makes(s, t, p, a)
    BY <1>1, <1>2, PacketMade
  <1>4. /\ a \in Senders
        /\ a.started = TRUE /\ a.needSnap = FALSE /\ a.lastSent = t
        /\ Len(a.history) <= HistoryDepth
        /\ p \in Packets /\ p.tick = t
        /\ p.kind = "delta" => s.started /\ ~s.needSnap /\ p.baseline = s.lastSent
    BY <1>3 DEF Makes
  <1>5. /\ EndOf(q, r) \in Int /\ EndOf(q, r) <= s.lastSent
        /\ s.started /\ ~s.needSnap => EndOf(q, r) = s.lastSent
    BY EndBelow DEF ViewerInv, Remembers
  <1>6. Follows(p, EndOf(q, r))
    BY <1>1, <1>4, <1>5 DEF Follows
  <1>7. /\ n \in Seq(Packets) /\ Len(n) = Len(q) + 1 /\ n[Len(q) + 1] = p
        /\ \A i \in 1 .. Len(q) : n[i] = q[i]
    BY <1>4, AppendProperties
  <1>8. Len(q) \in Nat /\ ChanDepth \in Nat
    BY LenProperties, HubAssumption
  <1>9. n # << >>
    BY <1>7, <1>8, EmptySeq
  <1>10. Chained(n, r)
    <2>1. Follows(n[1], NewestTick(r))
      <3>1. CASE q = << >>
        <4>1. Len(q) = 0 /\ EndOf(q, r) = NewestTick(r)
          BY <3>1, EndIs
        <4>2. n[1] = p
          BY <1>7, <4>1
        <4>3. QED
          BY <1>6, <4>1, <4>2
      <3>2. CASE q # << >>
        <4>1. n[1] = q[1]
          BY <1>7, <3>2, EndIs
        <4>2. QED
          BY <3>2, <4>1 DEF ViewerInv, Chained
      <3>3. QED
        BY <3>1, <3>2
    <2>2. ASSUME NEW i \in 1 .. Len(n) - 1 PROVE Follows(n[i + 1], n[i].tick)
      <3>1. i \in 1 .. Len(q) /\ n[i] = q[i]
        BY <1>7, <1>8
      <3>2. CASE i = Len(q)
        <4>1. q # << >>
          BY <1>8, <3>1, <3>2, EmptySeq
        <4>2. EndOf(q, r) = q[i].tick
          BY <3>2, <4>1, EndIs
        <4>3. QED
          BY <1>6, <1>7, <3>1, <3>2, <4>2
      <3>3. CASE i # Len(q)
        <4>1. i \in 1 .. Len(q) - 1 /\ i + 1 \in 1 .. Len(q)
          BY <1>8, <3>1, <3>3
        <4>2. n[i + 1] = q[i + 1]
          BY <1>7, <4>1
        <4>3. QED
          BY <3>1, <4>1, <4>2 DEF ViewerInv, Chained
      <3>4. QED
        BY <3>2, <3>3
    <2>3. QED
      BY <2>1, <2>2 DEF Chained
  <1>11. EndOf(n, r) = t
    BY <1>4, <1>7, <1>9 DEF EndOf
  <1>12. Remembers(a, n, r, t)
    <2>1. NewestTick(r) \in Int /\ NewestTick(r) <= s.lastSent
          /\ \A i \in 1 .. Len(q) : q[i].tick \in Int /\ q[i].tick <= s.lastSent
      BY NewestHeld, PacketIs, HubAssumption DEF ViewerInv, Remembers
    <2>2. NewestTick(r) <= t
      BY <1>1, <2>1
    <2>3. ASSUME NEW i \in 1 .. Len(n) PROVE n[i].tick <= t
      <3>1. CASE i \in 1 .. Len(q)
        BY <1>1, <1>7, <2>1, <3>1
      <3>2. CASE i \notin 1 .. Len(q)
        <4>1. i = Len(q) + 1
          BY <1>7, <1>8, <3>2
        <4>2. QED
          BY <1>1, <1>4, <1>7, <4>1
      <3>3. QED
        BY <3>1, <3>2
    <2>4. t <= t /\ t >= 1
      BY <1>1, HubAssumption
    <2>5. QED
      BY <1>4, <1>11, <2>2, <2>3, <2>4 DEF Remembers
  <1>13. Bounded(a, n, r)
    BY <1>4, <1>7, <1>8 DEF ViewerInv, Bounded
  <1>14. QED
    BY <1>4, <1>7, <1>10, <1>12, <1>13 DEF ViewerInv

\* A broadcast to a viewer whose channel is full.
LEMMA LostKeeps ==
  ASSUME NEW s \in Senders, NEW q \in Seq(Packets), NEW r \in Seq(Versions),
         NEW m, NEW t \in 1 .. MaxTick, ViewerInv(s, q, r, t - 1),
         NEW p, NEW b, Sends(s, m, t, p, b),
         NEW a, a = ResyncRequested(b)
  PROVE  a \in Senders /\ ViewerInv(a, q, r, t)
  <1>1. Len(s.history) <= HistoryDepth /\ s.lastSent <= t - 1 /\ s.lastSent \in Nat
        /\ t \in Nat /\ t >= 1
    BY HubAssumption DEF ViewerInv, Bounded, Remembers, Senders
  <1>2. s.lastSent < t
    BY <1>1
  <1>3. Makes(s, t, p, b)
    BY <1>1, <1>2, PacketMade
  <1>4. /\ b \in Senders /\ b.started = TRUE /\ b.lastSent = t
        /\ Len(b.history) <= HistoryDepth
    BY <1>3 DEF Makes
  <1>5. /\ a \in Senders /\ a.history = b.history /\ a.lastSent = t
        /\ a.started = TRUE /\ a.needSnap = TRUE
    BY <1>4 DEF ResyncRequested, Senders
  <1>6. NewestTick(r) \in Int /\ \A i \in 1 .. Len(q) : q[i].tick \in Int
    BY NewestHeld, PacketIs, HubAssumption
  <1>7. Remembers(a, q, r, t)
    <2>1. NewestTick(r) <= s.lastSent /\ \A i \in 1 .. Len(q) : q[i].tick <= s.lastSent
      BY DEF ViewerInv, Remembers
    <2>2. NewestTick(r) <= t /\ \A i \in 1 .. Len(q) : q[i].tick <= t
      BY <1>1, <1>6, <2>1
    <2>3. QED
      BY <1>1, <1>5, <2>2 DEF Remembers
  <1>8. Bounded(a, q, r)
    BY <1>4, <1>5 DEF ViewerInv, Bounded
  <1>9. Chained(q, r)
    BY DEF ViewerInv
  <1>10. QED
    BY <1>5, <1>7, <1>8, <1>9 DEF ViewerInv

\* A turn of a viewer's loop never needs a resync, and shows the world of the
\* packet it took.
LEMMA TurnKeeps ==
  ASSUME NEW s \in Senders, NEW q \in Seq(Packets), NEW r \in Seq(Versions), NEW t,
         q # << >>, ViewerInv(s, q, r, t),
         NEW k, k = Applied(r, Head(q)),
         NEW n, n = Tail(q)
  PROVE  /\ ~ResyncNeeded(r, Head(q))
         /\ n \in Seq(Packets) /\ k \in Seq(Versions)
         /\ ViewerInv(s, n, k, t)
         /\ q[1].tick \in NewestTick(r) + 1 .. s.lastSent
         /\ k # << >> /\ k[Len(k)] = Version(q[1].tick, World[q[1].tick])
  <1>1. /\ Len(q) \in Nat /\ Len(q) >= 1 /\ q[1] \in Packets
        /\ EndOf(q, r) = q[Len(q)].tick /\ Head(q) = q[1]
    BY EndIs
  <1>2. Follows(q[1], NewestTick(r)) /\ Len(r) <= HistoryDepth
    BY DEF ViewerInv, Chained, Bounded
  <1>3. /\ ~ResyncNeeded(r, q[1])
        /\ k \in Seq(Versions) /\ Len(k) <= HistoryDepth /\ k # << >>
        /\ k[Len(k)] = Version(q[1].tick, World[q[1].tick])
        /\ NewestTick(k) = q[1].tick
    BY <1>1, <1>2, PacketApplied
  <1>4. /\ n \in Seq(Packets) /\ Len(n) = Len(q) - 1
        /\ \A i \in 1 .. Len(n) : n[i] = q[i + 1]
    BY HeadTailProperties
  <1>5. EndOf(n, k) = EndOf(q, r)
    <2>1. CASE Len(q) = 1
      <3>1. Len(n) = 0
        BY <1>4, <2>1
      <3>2. n = << >>
        BY <1>4, <3>1, EmptySeq
      <3>3. QED
        BY <1>1, <1>3, <2>1, <3>2 DEF EndOf
    <2>2. CASE Len(q) # 1
      <3>1. Len(n) \in Nat /\ Len(n) >= 1 /\ n[Len(n)] = q[Len(q)]
        BY <1>1, <1>4, <2>2
      <3>2. n # << >>
        BY <1>4, <3>1, EmptySeq
      <3>3. QED
        BY <1>1, <3>1, <3>2 DEF EndOf
    <2>3. QED
      BY <2>1, <2>2
  <1>6. Chained(n, k)
    <2>1. ASSUME n # << >> PROVE Follows(n[1], NewestTick(k))
      <3>1. Len(n) \in Nat /\ Len(n) >= 1
        BY <1>4, <2>1, EmptySeq, LenProperties
      <3>2. 1 \in 1 .. Len(q) - 1 /\ n[1] = q[1 + 1]
        BY <1>1, <1>4, <3>1
      <3>3. Follows(q[1 + 1], q[1].tick)
        BY <3>2 DEF ViewerInv, Chained
      <3>4. QED
        BY <1>3, <3>2, <3>3
    <2>2. ASSUME NEW i \in 1 .. Len(n) - 1 PROVE Follows(n[i + 1], n[i].tick)
      <3>1. i + 1 \in 1 .. Len(q) - 1 /\ i \in 1 .. Len(n) /\ i + 1 \in 1 .. Len(n)
        BY <1>1, <1>4
      <3>2. n[i] = q[i + 1] /\ n[i + 1] = q[(i + 1) + 1]
        BY <1>4, <3>1
      <3>3. Follows(q[(i + 1) + 1], q[i + 1].tick)
        BY <3>1 DEF ViewerInv, Chained
      <3>4. QED
        BY <3>2, <3>3
    <2>3. QED
      BY <2>1, <2>2 DEF Chained
  <1>7. s.started
    BY DEF ViewerInv, Remembers
  <1>8. q[1].tick <= s.lastSent
    <2>1. 1 \in 1 .. Len(q)
      BY <1>1
    <2>2. QED
      BY <2>1 DEF ViewerInv, Remembers
  <1>9. Remembers(s, n, k, t)
    <2>1. ASSUME NEW i \in 1 .. Len(n) PROVE n[i].tick <= s.lastSent
      <3>1. i + 1 \in 1 .. Len(q) /\ n[i] = q[i + 1]
        BY <1>1, <1>4
      <3>2. QED
        BY <3>1 DEF ViewerInv, Remembers
    <2>2. QED
      BY <1>3, <1>5, <1>7, <1>8, <2>1 DEF ViewerInv, Remembers
  <1>10. Bounded(s, n, k)
    BY <1>1, <1>3, <1>4, HubAssumption DEF ViewerInv, Bounded
  <1>11. NewestTick(r) \in Int /\ q[1].tick \in Nat /\ s.lastSent \in Nat
    BY <1>1, NewestHeld, PacketIs, HubAssumption DEF Senders
  <1>12. q[1].tick > NewestTick(r)
    BY <1>2 DEF Follows
  <1>13. q[1].tick \in NewestTick(r) + 1 .. s.lastSent
    BY <1>8, <1>11, <1>12
  <1>14. QED
    BY <1>1, <1>3, <1>4, <1>6, <1>9, <1>10, <1>13 DEF ViewerInv

-----------------------------------------------------------------------------
(* The invariant.                                                          *)

\* It holds at the start: nobody is attached.
LEMMA InitInvariant == Init => IInv
  <1> SUFFICES ASSUME Init PROVE IInv
    OBVIOUS
  <1>1. /\ << >> \in Seq(Packets) /\ << >> \in Seq(Versions)
        /\ Len(<< >>) = 0
    OBVIOUS
  <1>2. /\ HistoryDepth \in Nat /\ ChanDepth \in Nat /\ MaxTick \in Nat
    BY TuningAssumption, HubAssumption
  <1>3. NewSender \in Senders
    BY <1>1 DEF NewSender, Senders
  <1>4. Typed
    <2>1. sender \in [ Viewers -> Senders ]
      BY <1>3 DEF Init
    <2>2. chan \in [ Viewers -> Seq(Packets) ] /\ receiver \in [ Viewers -> Seq(Versions) ]
      BY <1>1 DEF Init, NewReceiver
    <2>3. tick \in 0 .. MaxTick
      BY <1>2 DEF Init
    <2>4. mode \in Modes /\ shut \in SUBSET Viewers
      BY DEF Init
    <2>5. closed \in BOOLEAN
      BY DEF Init
    <2>6. loop \in [ Viewers -> { "absent", "reading", "drained", "left" } ]
      BY DEF Init
    <2>7. QED
      BY <2>1, <2>2, <2>3, <2>6, <2>4, <2>5 DEF Typed
  <1>5. ViewerInv(NewSender, << >>, << >>, 0)
    <2>1. Bounded(NewSender, << >>, << >>)
      BY <1>1, <1>2 DEF Bounded, NewSender
    <2>2. Chained(<< >>, << >>)
      BY <1>1 DEF Chained
    <2>3. NewestTick(<< >>) = -1
      BY DEF NewestTick, Synced, NoTick
    <2>4. Remembers(NewSender, << >>, << >>, 0)
      BY <1>1, <2>3 DEF Remembers, NewSender
    <2>5. QED
      BY <2>1, <2>2, <2>4 DEF ViewerInv
  <1>6. QED
    BY <1>4, <1>5 DEF Init, IInv, NewReceiver

\* A step keeps the invariant of a viewer whose part of the state it leaves
\* alone.
LEMMA UntouchedKeeps ==
  ASSUME NEW s, NEW q, NEW r, NEW t \in Int, NEW u \in Int, t <= u,
         s.lastSent \in Nat, ViewerInv(s, q, r, t)
  PROVE  ViewerInv(s, q, r, u)
  BY DEF ViewerInv, Remembers

\* A broadcast, for one viewer.
LEMMA BroadcastKeeps ==
  ASSUME IInv, Broadcast, NEW v \in Viewers
  PROVE  /\ sender'[v] \in Senders /\ chan'[v] \in Seq(Packets)
         /\ ViewerInv(sender'[v], chan'[v], receiver[v], tick + 1)
  <1>1. /\ tick \in 0 .. MaxTick /\ tick < MaxTick /\ tick' = tick + 1
        /\ MaxTick \in Nat
        /\ sender[v] \in Senders /\ chan[v] \in Seq(Packets) /\ receiver[v] \in Seq(Versions)
        /\ ViewerInv(sender[v], chan[v], receiver[v], tick)
    BY HubAssumption DEF IInv, Typed, Broadcast
  <1>2. PICK t \in 1 .. MaxTick : t = tick' /\ t - 1 = tick /\ t = tick + 1
    BY <1>1
  <1>3. PICK p, a : Sends(sender[v], mode, t, p, a)
    BY DEF Sends
  <1>4. CASE v \notin Attached
    <2>1. sender'[v] = sender[v] /\ chan'[v] = chan[v]
      BY <1>4 DEF Broadcast
    <2>2. sender[v].lastSent \in Nat /\ tick \in Int /\ tick + 1 \in Int /\ tick <= tick + 1
      BY <1>1 DEF Senders
    <2>3. ViewerInv(sender[v], chan[v], receiver[v], tick + 1)
      BY <1>1, <2>2, UntouchedKeeps
    <2>4. QED
      BY <1>1, <2>1, <2>3
  <1>5. CASE v \in Attached /\ Len(chan[v]) < ChanDepth
    <2>1. sender'[v] = a
      BY <1>2, <1>3, <1>5 DEF Broadcast, SenderAfter, Sends
    <2>2. chan'[v] = Append(chan[v], p)
      BY <1>2, <1>3, <1>5 DEF Broadcast, ChannelAfter, Sends
    <2>3. PICK n : n = Append(chan[v], p)
      OBVIOUS
    <2>4. ViewerInv(sender[v], chan[v], receiver[v], t - 1)
      BY <1>1, <1>2
    <2>5. a \in Senders /\ n \in Seq(Packets) /\ ViewerInv(a, n, receiver[v], t)
      BY <1>1, <1>3, <1>5, <2>3, <2>4, SentKeeps
    <2>6. QED
      BY <1>2, <2>1, <2>2, <2>3, <2>5
  <1>6. CASE v \in Attached /\ ~(Len(chan[v]) < ChanDepth)
    <2>1. PICK b : b = ResyncRequested(a)
      OBVIOUS
    <2>2. sender'[v] = b
      BY <1>2, <1>3, <1>6, <2>1 DEF Broadcast, SenderAfter, Sends
    <2>3. chan'[v] = chan[v]
      BY <1>6 DEF Broadcast, ChannelAfter
    <2>4. ViewerInv(sender[v], chan[v], receiver[v], t - 1)
      BY <1>1, <1>2
    <2>5. b \in Senders /\ ViewerInv(b, chan[v], receiver[v], t)
      BY <1>1, <1>3, <2>1, <2>4, LostKeeps
    <2>6. QED
      BY <1>1, <1>2, <2>2, <2>3, <2>5
  <1>7. QED
    BY <1>4, <1>5, <1>6

\* A viewer's turn, for that viewer: it never asks for a snapshot.
LEMMA ViewerTurnKeeps ==
  ASSUME IInv, NEW v \in Viewers, ViewerTurn(v)
  PROVE  /\ sender' = sender
         /\ chan'[v] \in Seq(Packets) /\ receiver'[v] \in Seq(Versions)
         /\ ViewerInv(sender[v], chan'[v], receiver'[v], tick)
         /\ chan[v][1].tick \in NewestTick(receiver[v]) + 1 .. tick
         /\ receiver'[v] # << >>
         /\ receiver'[v][Len(receiver'[v])]
              = Version(chan[v][1].tick, World[chan[v][1].tick])
  <1>1. /\ sender[v] \in Senders /\ chan[v] \in Seq(Packets) /\ receiver[v] \in Seq(Versions)
        /\ ViewerInv(sender[v], chan[v], receiver[v], tick)
        /\ sender \in [ Viewers -> Senders ] /\ chan \in [ Viewers -> Seq(Packets) ]
        /\ receiver \in [ Viewers -> Seq(Versions) ]
    BY DEF IInv, Typed
  <1>2. chan[v] # << >>
    BY DEF ViewerTurn
  <1>3. PICK s, q, r : s = sender[v] /\ q = chan[v] /\ r = receiver[v]
    OBVIOUS
  <1>4. PICK k, n : k = Applied(r, Head(q)) /\ n = Tail(q)
    OBVIOUS
  <1>5. chan'[v] = n /\ receiver'[v] = k
    BY <1>1, <1>3, <1>4 DEF ViewerTurn
  <1>6. s \in Senders /\ q \in Seq(Packets) /\ r \in Seq(Versions) /\ q # << >>
        /\ ViewerInv(s, q, r, tick)
    BY <1>1, <1>2, <1>3
  <1>7. /\ ~ResyncNeeded(r, Head(q))
        /\ n \in Seq(Packets) /\ k \in Seq(Versions)
        /\ ViewerInv(s, n, k, tick)
        /\ q[1].tick \in NewestTick(r) + 1 .. s.lastSent
        /\ k # << >> /\ k[Len(k)] = Version(q[1].tick, World[q[1].tick])
    BY <1>4, <1>6, TurnKeeps
  <1>8. sender' = sender
    BY <1>1, <1>3, <1>7 DEF ViewerTurn
  <1>9. /\ s.lastSent \in Nat /\ s.lastSent <= tick /\ tick \in Nat
        /\ NewestTick(r) \in Int
    BY <1>6, NewestHeld, HubAssumption DEF Senders, ViewerInv, Remembers, IInv, Typed
  <1>10. q[1].tick \in NewestTick(r) + 1 .. tick
    BY <1>7, <1>9
  <1>11. QED
    BY <1>3, <1>5, <1>7, <1>8, <1>10

\* It is kept by every step: a commit with its broadcast, a viewer's own steps,
\* attaching and detaching.
LEMMA NextKeeps == IInv /\ [Next]_vars => IInv'
  <1> SUFFICES ASSUME IInv, [Next]_vars PROVE IInv'
    OBVIOUS
  <1>1. /\ Typed
        /\ \A v \in Viewers : ViewerInv(sender[v], chan[v], receiver[v], tick)
    BY DEF IInv
  <1>2. ASSUME /\ sender' = sender /\ chan' = chan /\ receiver' = receiver /\ tick' = tick
        PROVE  \A v \in Viewers : ViewerInv(sender[v], chan[v], receiver[v], tick)'
    BY <1>1, <1>2
  <1>3. CASE Broadcast
    <2>1. /\ sender' \in [ Viewers -> Senders ]
          /\ chan' \in [ Viewers -> Seq(Packets) ]
          /\ \A v \in Viewers : ViewerInv(sender'[v], chan'[v], receiver[v], tick + 1)
      <3>1. \A v \in Viewers :
              /\ sender'[v] \in Senders /\ chan'[v] \in Seq(Packets)
              /\ ViewerInv(sender'[v], chan'[v], receiver[v], tick + 1)
        BY <1>3, BroadcastKeeps
      <3>2. DOMAIN sender' = Viewers /\ DOMAIN chan' = Viewers
            /\ sender' = [ v \in Viewers |-> sender'[v] ]
            /\ chan' = [ v \in Viewers |-> chan'[v] ]
        BY <1>3 DEF Broadcast
      <3>3. QED
        BY <3>1, <3>2
    <2>2. /\ tick' = tick + 1 /\ tick' \in 0 .. MaxTick /\ mode' = mode
          /\ closed' = closed /\ shut' = shut /\ receiver' = receiver /\ loop' = loop
      BY <1>1, <1>3, HubAssumption DEF Broadcast, Typed
    <2>3. Typed'
      BY <1>1, <2>1, <2>2 DEF Typed
    <2>4. QED
      BY <2>1, <2>2, <2>3 DEF IInv
  <1>4. CASE Close
    BY <1>1, <1>2, <1>4 DEF Close, Typed, IInv, Attached
  <1>5. ASSUME NEW v \in Viewers, Attach(v) PROVE IInv'
    BY <1>1, <1>2, <1>5 DEF Attach, Typed, IInv
  <1>6. ASSUME NEW v \in Viewers, RequestResync(v) PROVE IInv'
    <2>1. sender[v] \in Senders /\ ViewerInv(sender[v], chan[v], receiver[v], tick)
      BY <1>1 DEF Typed
    <2>2. PICK a : a = ResyncRequested(sender[v])
      OBVIOUS
    <2>3. a \in Senders /\ ViewerInv(a, chan[v], receiver[v], tick)
      BY <2>1, <2>2, RequestKeeps
    <2>4. /\ sender' = [ sender EXCEPT ![v] = a ] /\ mode' = mode /\ tick' = tick
          /\ closed' = closed /\ chan' = chan /\ shut' = shut /\ receiver' = receiver
          /\ loop' = loop
      BY <1>6, <2>2 DEF RequestResync
    <2>5. Typed'
      BY <1>1, <2>3, <2>4 DEF Typed
    <2>6. ASSUME NEW w \in Viewers
          PROVE  ViewerInv(sender'[w], chan[w], receiver[w], tick)
      <3>1. CASE w = v
        BY <1>1, <2>3, <2>4, <3>1 DEF Typed
      <3>2. CASE w # v
        BY <1>1, <2>4, <3>2 DEF Typed
      <3>3. QED
        BY <3>1, <3>2
    <2>7. QED
      BY <2>4, <2>5, <2>6 DEF IInv
  <1>7. ASSUME NEW v \in Viewers, ViewerTurn(v) PROVE IInv'
    <2>1. /\ sender' = sender
          /\ chan'[v] \in Seq(Packets) /\ receiver'[v] \in Seq(Versions)
          /\ ViewerInv(sender[v], chan'[v], receiver'[v], tick)
      BY <1>7, ViewerTurnKeeps
    <2>2. /\ chan' = [ chan EXCEPT ![v] = chan'[v] ]
          /\ receiver' = [ receiver EXCEPT ![v] = receiver'[v] ]
          /\ mode' = mode /\ tick' = tick /\ closed' = closed /\ shut' = shut /\ loop' = loop
      BY <1>1, <1>7 DEF ViewerTurn, Typed
    <2>3. Typed'
      BY <1>1, <2>1, <2>2 DEF Typed
    <2>4. ASSUME NEW w \in Viewers
          PROVE  ViewerInv(sender[w], chan'[w], receiver'[w], tick)
      <3>1. CASE w = v
        BY <2>1, <3>1
      <3>2. CASE w # v
        <4>1. chan'[w] = chan[w] /\ receiver'[w] = receiver[w]
          BY <1>1, <2>2, <3>2 DEF Typed
        <4>2. QED
          BY <1>1, <4>1
      <3>3. QED
        BY <3>1, <3>2
    <2>5. QED
      BY <2>1, <2>2, <2>3, <2>4 DEF IInv
  <1>8. ASSUME NEW v \in Viewers, ViewerEnds(v) PROVE IInv'
    BY <1>1, <1>2, <1>8 DEF ViewerEnds, Typed, IInv
  <1>9. ASSUME NEW v \in Viewers, ViewerLeaves(v) PROVE IInv'
    BY <1>1, <1>2, <1>9 DEF ViewerLeaves, Typed, IInv
  <1>10. CASE UNCHANGED vars
    BY <1>1, <1>2, <1>10 DEF vars, Typed, IInv
  <1>11. QED
    BY <1>3, <1>4, <1>5, <1>6, <1>7, <1>8, <1>9, <1>10 DEF Next

\* The inductive invariant of the hub holds of every behaviour.
THEOREM Invariance == Spec => []IInv
  BY InitInvariant, NextKeeps, PTL DEF Spec

\* Every reachable state is well typed, and no history and no channel holds
\* more than its bound.
THEOREM TypeCorrect == Spec => []TypeOK
  <1>1. IInv => TypeOK
    <2> SUFFICES ASSUME IInv PROVE TypeOK
      OBVIOUS
    <2>1. ASSUME NEW v \in Viewers
          PROVE  /\ Len(chan[v]) <= ChanDepth
                 /\ Len(sender[v].history) <= HistoryDepth
                 /\ Len(receiver[v]) <= HistoryDepth
                 /\ sender[v].lastSent \in 0 .. tick
                 /\ \A i \in DOMAIN chan[v] : chan[v][i].tick \in 1 .. tick
      <3>1. /\ ViewerInv(sender[v], chan[v], receiver[v], tick)
            /\ chan[v] \in Seq(Packets) /\ sender[v].lastSent \in Nat /\ tick \in Nat
        BY HubAssumption DEF IInv, Typed, Senders
      <3>2. sender[v].lastSent <= tick
        BY <3>1 DEF ViewerInv, Remembers
      <3>3. ASSUME NEW i \in DOMAIN chan[v] PROVE chan[v][i].tick \in 1 .. tick
        <4>1. i \in 1 .. Len(chan[v]) /\ chan[v][i] \in Packets
          BY <3>1
        <4>2. chan[v][i].tick \in 1 .. MaxTick
          BY <4>1, PacketIs
        <4>3. chan[v][i].tick <= sender[v].lastSent
          BY <3>1, <4>1 DEF ViewerInv, Remembers
        <4>4. QED
          BY <3>1, <3>2, <4>2, <4>3, HubAssumption
      <3>4. QED
        BY <3>1, <3>2, <3>3 DEF ViewerInv, Bounded
    <2>2. QED
      BY <2>1 DEF TypeOK, IInv, Typed
  <1>2. QED
    BY <1>1, Invariance, PTL

\* However many packets a full channel swallowed, the next one a viewer takes
\* decodes.
THEOREM NextPacketDecodesHolds == Spec => []NextPacketDecodes
  <1>1. IInv => NextPacketDecodes
    <2> SUFFICES ASSUME IInv, NEW v \in Viewers, chan[v] # << >>
                 PROVE  ~ResyncNeeded(receiver[v], Head(chan[v]))
      BY DEF NextPacketDecodes
    <2>1. /\ sender[v] \in Senders /\ chan[v] \in Seq(Packets)
          /\ receiver[v] \in Seq(Versions)
          /\ ViewerInv(sender[v], chan[v], receiver[v], tick)
      BY DEF IInv, Typed
    <2>2. QED
      BY <2>1, TurnKeeps
  <1>2. QED
    BY <1>1, Invariance, PTL

\* A viewer that emptied its channel shows the last world broadcast to it, or
\* the hub owes it a snapshot.
THEOREM ShowsLastOrOwedHolds == Spec => []ShowsLastOrOwed
  <1>1. IInv => ShowsLastOrOwed
    BY DEF IInv, ViewerInv, Remembers, EndOf, ShowsLastOrOwed
  <1>2. QED
    BY <1>1, Invariance, PTL

\* Every viewer's replica shows committed worlds only and moves forward only: a
\* broadcast is a commit, a turn moves the viewer that takes it to a newer
\* committed world, and nothing else can be seen in a replica.
THEOREM HubImplementsReplicas == Spec => ViewersAreReplicas
  <1>1. Init => \A v \in Viewers : Abstract(v)!Init
    BY DEF Init, Abstract!Init, Abstract!Nothing, Shown, Synced, NewReceiver
  <1>2. IInv /\ [Next]_vars => \A v \in Viewers : [Abstract(v)!Next]_(Abstract(v)!vars)
    <2> SUFFICES ASSUME IInv, [Next]_vars, NEW v \in Viewers
                 PROVE  [Abstract(v)!Next]_(Abstract(v)!vars)
      OBVIOUS
    <2>1. ASSUME receiver'[v] = receiver[v], tick' = tick
          PROVE  UNCHANGED Abstract(v)!vars
      BY <2>1 DEF Abstract!vars, Shown, Synced
    <2>2. CASE Broadcast
      <3>1. tick < MaxTick /\ tick' = tick + 1 /\ receiver' = receiver
        BY <2>2 DEF Broadcast
      <3>2. Shown(v)' = Shown(v)
        BY <3>1 DEF Shown, Synced
      <3>3. QED
        BY <3>1, <3>2 DEF Abstract!Next, Abstract!Commit
    <2>3. ASSUME ViewerTurn(v) PROVE [Abstract(v)!Next]_(Abstract(v)!vars)
      <3>1. PICK t : t = chan[v][1].tick
        OBVIOUS
      <3>2. /\ t \in NewestTick(receiver[v]) + 1 .. tick
            /\ receiver'[v] # << >>
            /\ receiver'[v][Len(receiver'[v])] = Version(t, World[t])
        BY <2>3, <3>1, ViewerTurnKeeps
      <3>3. tick' = tick
        BY <2>3 DEF ViewerTurn
      <3>4. Shown(v)' = [ tick |-> t, state |-> World[t] ]
        BY <3>2 DEF Shown, Synced, Version
      <3>5. receiver[v] \in Seq(Versions) /\ tick \in Nat
        BY HubAssumption DEF IInv, Typed
      <3>6. t \in Shown(v).tick + 1 .. tick
        <4>1. CASE receiver[v] # << >>
          BY <3>2, <4>1 DEF Shown, NewestTick, Synced
        <4>2. CASE receiver[v] = << >>
          <5>1. chan[v][1].tick \in Nat /\ chan[v][1].tick >= 1
            <6>1. chan[v] \in Seq(Packets) /\ chan[v] # << >>
              BY <2>3 DEF IInv, Typed, ViewerTurn
            <6>2. chan[v][1] \in Packets
              BY <3>5, <6>1, EndIs
            <6>3. QED
              BY <6>2, PacketIs, HubAssumption
          <5>2. Shown(v).tick = 0
            BY <4>2 DEF Shown, Synced
          <5>3. NewestTick(receiver[v]) = -1
            BY <4>2 DEF NewestTick, Synced, NoTick
          <5>4. QED
            BY <3>1, <3>2, <3>5, <5>1, <5>2, <5>3
        <4>3. QED
          BY <4>1, <4>2
      <3>7. Abstract(v)!Follow
        BY <3>3, <3>4, <3>6 DEF Abstract!Follow
      <3>8. QED
        BY <3>7 DEF Abstract!Next
    <2>4. ASSUME NEW w \in Viewers, w # v, ViewerTurn(w) PROVE receiver'[v] = receiver[v] /\ tick' = tick
      BY <2>4 DEF ViewerTurn, IInv, Typed
    <2>5. QED
      BY <2>1, <2>2, <2>3, <2>4
         DEF Next, Close, Attach, RequestResync, ViewerEnds, ViewerLeaves, vars
  <1>3. QED
    BY <1>1, <1>2, Invariance, PTL DEF Spec, ViewersAreReplicas
=============================================================================
