----------------------------- MODULE StateSync -----------------------------
(***************************************************************************)
(* Framework-side delta generation (statesync/statesync.go): the Sender    *)
(* retains committed world versions for one receiver and produces a        *)
(* snapshot or a delta against a named baseline; the Receiver retains what *)
(* it reconstructed and applies the packets.                               *)
(*                                                                         *)
(* Sender and Receiver are values and their methods operators: StateStream *)
(* runs a pair of them over the sequence/ack layer.                        *)
(***************************************************************************)
EXTENDS Integers, Sequences

CONSTANTS
  Fields,            \* the fields of a world
  Values,            \* the values a field takes
  HistoryDepth,      \* tuning: versions retained, on both ends
  SnapshotEvery,     \* tuning: a full snapshot every so many sends, 0 for never
  SpeculationDepth   \* tuning: how far BaselineBounded runs past the confirmed one

BaselineModes == { "speculative", "confirmedOnly", "bounded" }

\* TuningProfile.Validate, with the defaults filled in.
ASSUME TuningAssumption ==
  /\ HistoryDepth \in Nat \ {0}
  /\ SnapshotEvery \in Nat
  /\ SpeculationDepth \in Nat

Worlds == [ Fields -> Values ]

\* Confirmed versions are named by tick; -1 is the zero value before any.
NoTick == -1

(***************************************************************************)
(* The generated codec: a delta holds the fields that differ.              *)
(***************************************************************************)
Diff(baseline, current) ==
  [ f \in { g \in Fields : baseline[g] # current[g] } |-> current[f] ]

ApplyDelta(s, d) == [ f \in Fields |-> IF f \in DOMAIN d THEN d[f] ELSE s[f] ]

(***************************************************************************)
(* Retained versions, oldest first, bounded by HistoryDepth.               *)
(***************************************************************************)
Version(tick, state) == [ tick |-> tick, state |-> state ]

Retain(history, v) ==
  LET grown == Append(history, v)
  IN  IF Len(grown) > HistoryDepth THEN Tail(grown) ELSE grown

Holds(history, tick) == \E i \in DOMAIN history : history[i].tick = tick

Find(history, tick) ==
  history[CHOOSE i \in DOMAIN history : history[i].tick = tick].state

(***************************************************************************)
(* Sender                                                                  *)
(***************************************************************************)
NewSender ==
  [ history |-> << >>, sends |-> 0, lastSent |-> 0, started |-> FALSE,
    needSnap |-> FALSE, confirmed |-> NoTick ]

\* Mutant of ResyncRequested: the request is lost.
ResyncIgnored(s) == s

ResyncRequested(s) == [ s EXCEPT !.needSnap = TRUE ]

Confirm(s, tick) == [ s EXCEPT !.confirmed = IF tick > @ THEN tick ELSE @ ]

\* Mutant of Baseline: every mode speculates.
BaselineLastSent(s, mode, tick) == s.lastSent

\* The version to diff against; a version that is not retained, as NoTick
\* never is, forces a snapshot.
Baseline(s, mode, tick) ==
  CASE mode = "confirmedOnly" -> s.confirmed
    [] mode = "bounded" ->
         IF s.confirmed # NoTick /\ tick - s.confirmed <= SpeculationDepth
           THEN s.lastSent
           ELSE s.confirmed
    [] OTHER -> s.lastSent

Snapshot(tick, world) == [ kind |-> "snapshot", tick |-> tick, payload |-> world ]

Delta(tick, baseline, d) ==
  [ kind |-> "delta", tick |-> tick, baseline |-> baseline, payload |-> d ]

\* Send retains the world first, then decides.
Retaining(s, tick, world) == [ s EXCEPT !.history = Retain(@, Version(tick, world)) ]

MustSnapshot(s, mode, tick) ==
  \/ ~s.started
  \/ s.needSnap
  \/ SnapshotEvery > 0 /\ s.sends >= SnapshotEvery
  \/ ~Holds(s.history, Baseline(s, mode, tick))

\* Mutant of PacketFrom: the delta is against another version than it says.
PacketMislabelled(s, mode, tick, world) ==
  LET base == Baseline(s, mode, tick)
  IN  IF MustSnapshot(s, mode, tick) \/ ~Holds(s.history, s.lastSent)
        THEN Snapshot(tick, world)
        ELSE Delta(tick, base, Diff(Find(s.history, s.lastSent), world))

\* Mutant of PacketFrom: the delta is against the oldest version retained.
PacketAgainstOldest(s, mode, tick, world) ==
  IF MustSnapshot(s, mode, tick)
    THEN Snapshot(tick, world)
    ELSE Delta(tick, Baseline(s, mode, tick), Diff(s.history[1].state, world))

PacketFrom(s, mode, tick, world) ==
  LET base == Baseline(s, mode, tick)
  IN  IF MustSnapshot(s, mode, tick)
        THEN Snapshot(tick, world)
        ELSE Delta(tick, base, Diff(Find(s.history, base), world))

SentFrom(s, mode, tick) ==
  LET snap == MustSnapshot(s, mode, tick)
  IN  [ s EXCEPT !.sends    = IF snap THEN 0 ELSE @ + 1,
                 !.needSnap = IF snap THEN FALSE ELSE @,
                 !.started  = TRUE,
                 !.lastSent = tick ]

\* The packet Send returns, and the sender it leaves.
Packet(s, mode, tick, world) == PacketFrom(Retaining(s, tick, world), mode, tick, world)

AfterSending(s, mode, tick, world) == SentFrom(Retaining(s, tick, world), mode, tick)

(***************************************************************************)
(* Receiver: its retained versions; it is synced once it has one.          *)
(***************************************************************************)
NewReceiver == << >>

Synced(r) == r # << >>

NewestTick(r) == IF Synced(r) THEN r[Len(r)].tick ELSE NoTick

Stale(r, pkt) == Synced(r) /\ pkt.tick <= NewestTick(r)

\* Apply returns ErrResyncNeeded and changes nothing.
ResyncNeeded(r, pkt) ==
  /\ ~Stale(r, pkt)
  /\ pkt.kind = "delta"
  /\ ~Holds(r, pkt.baseline)

\* Mutant of Reconstructed: the delta is applied to the newest version.
ReconstructedOnNewest(r, pkt) ==
  IF pkt.kind = "snapshot" THEN pkt.payload
                           ELSE ApplyDelta(r[Len(r)].state, pkt.payload)

Reconstructed(r, pkt) ==
  IF pkt.kind = "snapshot" THEN pkt.payload
                           ELSE ApplyDelta(Find(r, pkt.baseline), pkt.payload)

\* The receiver Apply leaves.
Applied(r, pkt) ==
  IF Stale(r, pkt) \/ ResyncNeeded(r, pkt)
    THEN r
    ELSE Retain(r, Version(pkt.tick, Reconstructed(r, pkt)))
=============================================================================
