-------------------------- MODULE BehaviourProofs --------------------------
(***************************************************************************)
(* The way of a behaviour: the episodes it is recorded in, the rules mined *)
(* from them, and the library where they are decided upon.                 *)
(*                                                                         *)
(* What a corpus keeps for any number of windows, indices and matches,     *)
(* wherever its processes are stopped: one match per replayable log, the   *)
(* rows of some number of committed ticks in each, and no finished episode *)
(* lost to a window that is alone.                                         *)
(*                                                                         *)
(* What a mined list guarantees for any corpus, any vocabulary and any     *)
(* proposals: its counts are those of the replay, a developer who approves *)
(* only some of the rules loses nothing they claim, and a round has one    *)
(* rule per condition.                                                     *)
(*                                                                         *)
(* What the library guarantees for any rounds, any number of merges and    *)
(* any decisions: nothing is approved that nobody approved, and as long as *)
(* no writer overwrites what it has not read, every decision stands.       *)
(***************************************************************************)
EXTENDS Corpus, Mining, Library, FiniteSetTheorems, TLAPS

-----------------------------------------------------------------------------
(***************************************************************************)
(* The episodes of a corpus                                                *)
(***************************************************************************)

(* Types.                                                                  *)

CorpusPhases == { "down", "lobby", "opening", "heading", "deciding", "checking", "ending", "over" }

\* The headers are written.
Later == { "deciding", "checking", "ending", "over" }

File == [ by : Nat, mode : {"none"} \cup Modes, ticks : SUBSET Nat ]
Files4 == [ 1 .. 4 -> File ]
Process ==
  [ phase : CorpusPhases, index : Nat, mode : Modes, match : Nat, at : Nat, failed : BOOLEAN ]

\* A process that records counts the ticks of its match.
TicksFit(r) ==
  /\ r.match \in 1 .. MaxMatches
  /\ r.phase \in Later => r.at \in 0 .. MaxTicks[r.match]

CorpusTyped ==
  /\ disk \in [ Indices -> [ dir : BOOLEAN, file : Files4 ] ]
  /\ proc \in [ Procs -> Process ]
  /\ played \in Nat
  /\ sure \in SUBSET Windows
  /\ \A p \in Procs :
       proc[p].phase \notin { "down", "lobby" }
         => proc[p].index \in Indices /\ disk[proc[p].index].dir
  /\ \A p \in Procs : proc[p].phase = "opening" => proc[p].at \in 1 .. Opened(proc[p].mode)
  /\ \A p \in Procs : proc[p].phase \notin { "down", "lobby" } => TicksFit(proc[p])

-----------------------------------------------------------------------------
(* One directory.                                                          *)

\* The streams of n committed ticks of match m.
Prefix(f, m, n) ==
  /\ f[4].ticks = 1 .. n
  /\ f[1].ticks \subseteq 0 .. n
  /\ f[2].ticks \in { Due(m, n), Due(m, n) \ {n} }
  /\ f[3].ticks # {} => f[2].ticks = Due(m, n) /\ f[3].ticks = {n}

InStep(f, m) == \E n \in 0 .. MaxTicks[m] : Prefix(f, m, n)

\* A log that calls itself complete is one match's, and in step.
Sound(f, lossy) ==
  f[1].mode = "complete"
    => /\ \A n \in 2 .. 4 : f[n].by = f[1].by
       /\ f[1].by \notin lossy => InStep(f, f[1].by)

\* Where a complete recording that lost nothing stands: the checkpoint of a tick
\* is still to come when its world has been written.
AtPhase(r, f) ==
  /\ f[4].ticks = 1 .. r.at
  /\ f[1].ticks \subseteq 0 .. r.at
  /\ r.phase = "checking" => r.at > 0 /\ f[2].ticks = Due(r.match, r.at) \ {r.at}
  /\ r.phase # "checking" => f[2].ticks = Due(r.match, r.at)
  /\ f[3].ticks = IF r.phase = "over" THEN {r.at} ELSE {}

Mine(r, f, n) == f[n].by = r.match /\ f[n].mode \in { "none", r.mode }

\* What the one process that records a match has made of the directory.
Progress(r, f, lossy) ==
  /\ r.phase = "opening"
       => /\ \A n \in 1 .. r.at - 1 : Mine(r, f, n) /\ f[n].ticks = {}
          /\ r.at > 1 => f[1].mode = "none"
  /\ r.phase = "heading"
       => /\ \A n \in 1 .. Opened(r.mode) : Mine(r, f, n) /\ f[n].ticks = {}
          /\ f[1].mode = "none"
  /\ r.phase \in Later
       => /\ \A n \in 1 .. Opened(r.mode) : Mine(r, f, n)
          /\ r.phase # "over" => f[3].ticks = {}
          /\ r.mode = "complete" /\ r.match \notin lossy => AtPhase(r, f)

Whole(i) ==
  /\ Sound(disk[i].file, damaged)
  /\ \A p, q \in Procs : Recording(p, i) /\ Recording(q, i) => p = q
  /\ \A p \in Procs : Recording(p, i) => Progress(proc[p], disk[i].file, damaged)

AllWhole == \A i \in Indices \ tangled : Whole(i)

-----------------------------------------------------------------------------
(* A window that is alone.                                                 *)

FreeIsEmpty == \A i \in Indices : ~disk[i].dir => disk[i].file[3].ticks = {}

Ahead(w) ==
  /\ \A q \in Procs \ {w} : proc[q].phase = "down"
  /\ \A j \in Indices : j > proc[w].index => Free(j)
  /\ proc[w].phase = "lobby" => \A j \in Indices : j = proc[w].index => Free(j)
  /\ proc[w].phase \notin { "lobby", "over" } => disk[proc[w].index].file[3].ticks = {}

SureAhead == \A w \in sure : proc[w].phase # "down" => Ahead(w)

CorpusInv == CorpusTyped /\ AllWhole /\ FreeIsEmpty /\ SureAhead

-----------------------------------------------------------------------------
(* Lemmas.                                                                 *)

\* The checkpoints of the ticks so far.
LEMMA DueIs ==
  ASSUME NEW m, NEW n \in Nat
  PROVE  /\ Due(m, n) \subseteq 1 .. n
         /\ Due(m, 0) = {}
         /\ Due(m, n + 1) \ {n + 1} = Due(m, n)
         /\ Due(m, n) = Due(m, n) \ {n} \/ Checkpoints(m, n)
         /\ n > 0 /\ Checkpoints(m, n) => Due(m, n) = (Due(m, n) \ {n}) \cup {n}
  <1>1. \A k : Due(m, k) = { t \in 1 .. k : Checkpoints(m, t) }
    BY DEF Due, Checkpoints
  <1>2. { t \in 1 .. 0 : Checkpoints(m, t) } = {}
    OBVIOUS
  <1>3. { t \in 1 .. n + 1 : Checkpoints(m, t) } \ {n + 1} = { t \in 1 .. n : Checkpoints(m, t) }
    OBVIOUS
  <1>4. n > 0 => n \in 1 .. n
    OBVIOUS
  <1>5. QED
    BY <1>1, <1>2, <1>3, <1>4

\* A process that is at a phase holds a prefix of its match.
LEMMA AtPhaseIsPrefix ==
  ASSUME NEW r, TicksFit(r), r.phase \in Later, NEW f, AtPhase(r, f)
  PROVE  InStep(f, r.match)
  <1>1. r.at \in 0 .. MaxTicks[r.match]
    BY DEF TicksFit
  <1>2. Prefix(f, r.match, r.at)
    BY DEF AtPhase, Prefix
  <1>3. QED
    BY <1>1, <1>2 DEF InStep

LEMMA OpenedRange == \A mode : Opened(mode) \in 3 .. 4 /\ Opened("complete") = 4
  BY DEF Opened

LEMMA DownTyped == Down \in Process
  BY DEF Down, Process, CorpusPhases, Modes

LEMMA NoDirTyped ==
  /\ NoDir \in [ dir : BOOLEAN, file : Files4 ]
  /\ NoDir.dir = FALSE
  /\ NoDir.file[1].mode = "none" /\ NoDir.file[3].ticks = {}
  BY DEF NoDir, Files4, File, NoFile

\* A step that rewrites the streams of one directory.
LEMMA OneDirectory ==
  ASSUME CorpusTyped, NEW x \in Indices, NEW f \in Files4, disk' = [ disk EXCEPT ![x].file = f ]
  PROVE  /\ disk' \in [ Indices -> [ dir : BOOLEAN, file : Files4 ] ]
         /\ disk'[x].file = f /\ disk'[x].dir = disk[x].dir
         /\ \A i \in Indices \ {x} : disk'[i] = disk[i]
  BY DEF CorpusTyped

\* A step of one process.
LEMMA OneProcess ==
  ASSUME CorpusTyped, NEW p \in Procs, NEW r \in Process, proc' = [ proc EXCEPT ![p] = r ]
  PROVE  /\ proc' \in [ Procs -> Process ]
         /\ proc'[p] = r
         /\ \A q \in Procs \ {p} : proc'[q] = proc[q]
  BY DEF CorpusTyped

\* Losing more rows claims less.
LEMMA LossWeakens ==
  ASSUME NEW f, NEW r, NEW a, NEW b, a \subseteq b
  PROVE  /\ Sound(f, a) => Sound(f, b)
         /\ Progress(r, f, a) => Progress(r, f, b)
  BY DEF Sound, Progress

\* A step of one process in its directory, when the others stay where they are,
\* is about this directory alone.
LEMMA OnlyItsDirectory ==
  ASSUME AllWhole, NEW p \in Procs, NEW x \in Indices,
         \A q \in Procs \ {p} : proc'[q] = proc[q],
         \A i \in Indices \ {x} : disk'[i] = disk[i],
         damaged \subseteq damaged', tangled' = tangled,
         Recording(p, x),
         proc'[p].phase \notin { "down", "lobby" } => proc'[p].index = x,
         x \notin tangled => /\ Sound(disk'[x].file, damaged')
                             /\ proc'[p].phase \notin { "down", "lobby" }
                                  => Progress(proc'[p], disk'[x].file, damaged')
  PROVE  AllWhole'
  <1> SUFFICES ASSUME NEW i \in Indices \ tangled PROVE Whole(i)'
    BY DEF AllWhole
  <1>1. Whole(i)
    BY DEF AllWhole
  <1>2. CASE i # x
    <2>1. disk'[i] = disk[i]
      BY <1>2
    <2>2. \A q \in Procs : Recording(q, i)' => Recording(q, i) /\ proc'[q] = proc[q]
      BY <1>2 DEF Recording
    <2>3. Sound(disk'[i].file, damaged')
      BY <1>1, <2>1, LossWeakens DEF Whole
    <2>4. \A q \in Procs : Recording(q, i)' => Progress(proc'[q], disk'[i].file, damaged')
      BY <1>1, <2>1, <2>2, LossWeakens DEF Whole
    <2>5. QED
      BY <1>1, <2>2, <2>3, <2>4 DEF Whole
  <1>3. CASE i = x
    <2>1. \A q \in Procs : Recording(q, x)' => q = p
      BY <1>1, <1>3 DEF Whole, Recording
    <2>2. QED
      BY <1>3, <2>1 DEF Whole, Recording
  <1>4. QED
    BY <1>2, <1>3

-----------------------------------------------------------------------------
(* The steps.                                                              *)

LEMMA CorpusInitInvariant == CorpusInit => CorpusInv
  <1> SUFFICES ASSUME CorpusInit PROVE CorpusInv
    OBVIOUS
  <1>1. /\ \A i \in Indices : disk[i] = NoDir
        /\ \A p \in Procs : proc[p] = Down
    BY DEF CorpusInit
  <1>2. Down.phase = "down"
    BY DEF Down
  <1>3. /\ disk \in [ Indices -> [ dir : BOOLEAN, file : Files4 ] ]
        /\ proc \in [ Procs -> Process ]
    BY NoDirTyped, DownTyped DEF CorpusInit
  <1>4. CorpusTyped
    BY <1>1, <1>2, <1>3 DEF CorpusInit, CorpusTyped
  <1>5. AllWhole
    BY <1>1, <1>2, NoDirTyped DEF AllWhole, Whole, Sound, Recording
  <1>6. FreeIsEmpty /\ SureAhead
    BY <1>1, NoDirTyped DEF CorpusInit, FreeIsEmpty, SureAhead
  <1>7. QED
    BY <1>4, <1>5, <1>6 DEF CorpusInv

\* What a recording process is known to have made of its directory.
LEMMA RecordingKnows ==
  ASSUME CorpusInv, NEW p \in Procs, proc[p].phase \notin { "down", "lobby" }
  PROVE  /\ proc[p] \in Process
         /\ proc[p].index \in Indices /\ disk[proc[p].index].dir
         /\ Files(p) \in Files4
         /\ Recording(p, proc[p].index)
         /\ proc[p].index \notin tangled => /\ Sound(Files(p), damaged)
                                            /\ Progress(proc[p], Files(p), damaged)
         /\ p \in sure /\ proc[p].phase # "over" => Files(p)[3].ticks = {}
         /\ \A w \in sure : proc[w].phase # "down" => w = p /\ Ahead(p)
  <1>1. /\ proc[p] \in Process
        /\ proc[p].index \in Indices /\ disk[proc[p].index].dir
        /\ Files(p) \in Files4
    BY DEF CorpusInv, CorpusTyped, Files
  <1>2. Recording(p, proc[p].index)
    BY DEF Recording
  <1>3. proc[p].index \notin tangled => /\ Sound(Files(p), damaged)
                                        /\ Progress(proc[p], Files(p), damaged)
    BY <1>1, <1>2 DEF CorpusInv, AllWhole, Whole, Files
  <1>4. \A w \in sure : proc[w].phase # "down" => w = p /\ Ahead(p)
    BY DEF CorpusInv, SureAhead, Ahead
  <1>5. p \in sure /\ proc[p].phase # "over" => Files(p)[3].ticks = {}
    BY <1>4 DEF Ahead, Files
  <1>6. QED
    BY <1>1, <1>2, <1>3, <1>4, <1>5

\* A process goes on recording in its directory.
LEMMA GoesOn ==
  ASSUME CorpusInv, NEW p \in Procs, NEW r \in Process, NEW f \in Files4,
         proc[p].phase \notin { "down", "lobby" }, r.phase \notin { "down", "lobby" },
         r.index = proc[p].index, r.phase = "opening" => r.at \in 1 .. Opened(r.mode), TicksFit(r),
         proc' = [ proc EXCEPT ![p] = r ],
         (disk' = [ disk EXCEPT ![proc[p].index].file = f ]) \/ (disk' = disk /\ f = Files(p)),
         damaged \subseteq damaged', UNCHANGED << played, tangled, sure >>,
         proc[p].index \notin tangled => Sound(f, damaged') /\ Progress(r, f, damaged'),
         proc[p].phase # "over",
         r.phase # "over" /\ Files(p)[3].ticks = {} => f[3].ticks = {}
  PROVE  CorpusInv'
  <1>1. PICK y \in Indices : y = proc[p].index
    BY RecordingKnows
  <1>2. /\ Recording(p, y) /\ disk[y].dir
        /\ p \in sure => Files(p)[3].ticks = {}
        /\ \A w \in sure : proc[w].phase # "down" => w = p /\ Ahead(p)
    BY <1>1, RecordingKnows
  <1>3. /\ disk' \in [ Indices -> [ dir : BOOLEAN, file : Files4 ] ]
        /\ disk'[y].file = f /\ disk'[y].dir = disk[y].dir
        /\ \A i \in Indices \ {y} : disk'[i] = disk[i]
    BY <1>1, OneDirectory DEF CorpusInv, CorpusTyped, Files
  <1>4. /\ proc' \in [ Procs -> Process ]
        /\ proc'[p] = r
        /\ \A q \in Procs \ {p} : proc'[q] = proc[q]
    BY OneProcess DEF CorpusInv
  <1>5. \A i \in Indices : disk'[i].dir = disk[i].dir
    BY <1>3
  <1>6. CorpusTyped'
    BY <1>1, <1>2, <1>3, <1>4, <1>5 DEF CorpusInv, CorpusTyped
  <1>7. AllWhole'
    BY <1>1, <1>2, <1>3, <1>4, OnlyItsDirectory DEF CorpusInv
  <1>8. FreeIsEmpty'
    BY <1>2, <1>3, <1>5 DEF CorpusInv, FreeIsEmpty
  <1>9. SureAhead'
    <2> SUFFICES ASSUME NEW w \in sure, proc'[w].phase # "down" PROVE Ahead(w)'
      BY DEF SureAhead
    <2>1. w = p /\ Ahead(p)
      <3>1. w \in Procs
        BY DEF CorpusInv, CorpusTyped, Procs
      <3>2. CASE w = p
        <4>1. proc[p].phase # "down"
          OBVIOUS
        <4>2. QED
          BY <1>2, <3>2, <4>1
      <3>3. CASE w # p
        BY <1>2, <1>4, <3>1, <3>3
      <3>4. QED
        BY <3>2, <3>3
    <2>2. r.phase # "over" => f[3].ticks = {}
      BY <1>2, <2>1
    <2>3. \A q \in Procs \ {p} : proc'[q].phase = "down"
      BY <1>4, <2>1 DEF Ahead
    <2>4. \A j \in Indices : j > r.index => Free(j)'
      BY <1>5, <2>1 DEF Ahead, Free
    <2>5. QED
      BY <1>1, <1>3, <1>4, <2>1, <2>2, <2>3, <2>4 DEF Ahead
  <1>10. QED
    BY <1>6, <1>7, <1>8, <1>9 DEF CorpusInv

LEMMA OpenStreamKeeps ==
  ASSUME CorpusInv, NEW p \in Procs, OpenStream(p)
  PROVE  CorpusInv'
  <1> DEFINE o == proc[p]
             r == IF o.at < Opened(o.mode) THEN [ o EXCEPT !.at = @ + 1 ]
                                           ELSE [ o EXCEPT !.phase = "heading", !.at = 1 ]
             f == Reopened(p)
  <1>1. /\ o \in Process /\ o.phase = "opening" /\ Files(p) \in Files4
        /\ o.at \in 1 .. Opened(o.mode) /\ Opened(o.mode) \in 3 .. 4
        /\ o.index \notin tangled => Progress(o, Files(p), damaged)
        /\ o.match \in 1 .. MaxMatches
    BY RecordingKnows, OpenedRange DEF OpenStream, CorpusInv, CorpusTyped, TicksFit
  <1>2. /\ proc' = [ proc EXCEPT ![p] = r ]
        /\ disk' = [ disk EXCEPT ![o.index].file = f ]
        /\ UNCHANGED << played, damaged, tangled, sure >>
    BY DEF OpenStream, Streams
  <1>3. /\ f \in Files4
        /\ f[o.at] = [ by |-> o.match, mode |-> "none", ticks |-> {} ]
        /\ \A n \in 1 .. 4 : n # o.at => f[n] = Files(p)[n]
    BY <1>1 DEF Reopened, Files4, File, Process
  <1>4. /\ r \in Process /\ r.index = o.index /\ r.mode = o.mode /\ r.match = o.match
        /\ \/ r.phase = "opening" /\ r.at = o.at + 1 /\ r.at \in 1 .. Opened(o.mode)
           \/ r.phase = "heading" /\ o.at = Opened(o.mode)
    <2>1. CASE o.at < Opened(o.mode)
      <3>1. r = [ o EXCEPT !.at = o.at + 1 ]
        BY <2>1
      <3>2. o.at + 1 \in 1 .. Opened(o.mode) /\ o.at + 1 \in Nat
        BY <1>1, <2>1
      <3>3. QED
        BY <1>1, <3>1, <3>2 DEF Process, CorpusPhases
    <2>2. CASE ~(o.at < Opened(o.mode))
      <3>1. r = [ o EXCEPT !.phase = "heading", !.at = 1 ]
        BY <2>2
      <3>2. o.at = Opened(o.mode)
        BY <1>1, <2>2
      <3>3. QED
        BY <1>1, <3>1, <3>2 DEF Process, CorpusPhases
    <2>3. QED
      BY <2>1, <2>2
  <1> HIDE DEF f, r
  <1>5. o.index \notin tangled => Sound(f, damaged) /\ Progress(r, f, damaged)
    <2> SUFFICES ASSUME o.index \notin tangled PROVE Sound(f, damaged) /\ Progress(r, f, damaged)
      OBVIOUS
    <2>1. /\ \A n \in 1 .. o.at - 1 : Mine(o, Files(p), n) /\ Files(p)[n].ticks = {}
          /\ o.at > 1 => Files(p)[1].mode = "none"
      BY <1>1 DEF Progress
    <2>2. f[1].mode = "none"
      BY <1>1, <1>3, <2>1
    <2>3. \A n \in 1 .. o.at : Mine(r, f, n) /\ f[n].ticks = {}
      BY <1>1, <1>3, <1>4, <2>1 DEF Mine
    <2>4. Progress(r, f, damaged)
      BY <1>1, <1>4, <2>2, <2>3 DEF Progress, Later
    <2>5. QED
      BY <2>2, <2>4 DEF Sound
  <1>6. Files(p)[3].ticks = {} => f[3].ticks = {}
    BY <1>1, <1>3
  <1>7. /\ proc[p].phase \notin { "down", "lobby" } /\ r.phase \notin { "down", "lobby" }
        /\ r.index = proc[p].index
        /\ r.phase = "opening" => r.at \in 1 .. Opened(r.mode)
        /\ TicksFit(r)
        /\ damaged \subseteq damaged' /\ UNCHANGED << played, tangled, sure >>
        /\ proc[p].phase # "over"
        /\ r.phase # "over" /\ Files(p)[3].ticks = {} => f[3].ticks = {}
    BY <1>1, <1>2, <1>4, <1>6 DEF TicksFit, Later
  <1>8. proc[p].index \notin tangled => Sound(f, damaged') /\ Progress(r, f, damaged')
    BY <1>2, <1>5
  <1>9. r \in Process /\ f \in Files4
    BY <1>3, <1>4
  <1>10. QED
    BY <1>2, <1>7, <1>8, <1>9, GoesOn

\* A line is written or lost.
LEMMA WritesKeeps ==
  ASSUME CorpusInv, NEW p \in Procs, NEW f \in Files4, NEW t \in Process,
         proc[p].phase \in { "heading", "deciding", "checking", "ending" },
         t.phase \in Later, TicksFit(t),
         t.index = proc[p].index, t.mode = proc[p].mode, t.match = proc[p].match,
         Writes(p, f, t), UNCHANGED << played, tangled, sure >>,
         t.phase # "over" /\ Files(p)[3].ticks = {} => f[3].ticks = {},
         proc[p].index \notin tangled => Sound(f, damaged) /\ Progress(t, f, damaged)
  PROVE  CorpusInv'
  <1>1. /\ proc[p].phase \notin { "down", "lobby", "opening", "over" }
        /\ t.phase \notin { "down", "lobby", "opening" }
    BY DEF Later
  <1>2. CASE /\ disk' = [ disk EXCEPT ![proc[p].index].file = f ]
             /\ proc' = [ proc EXCEPT ![p] = t ]
             /\ UNCHANGED damaged
    <2>1. damaged' = damaged
      BY <1>2
    <2>2. QED
      BY <1>1, <1>2, <2>1, GoesOn
  <1>3. CASE /\ proc' = [ proc EXCEPT ![p] = [ t EXCEPT !.failed = TRUE ] ]
             /\ damaged' = damaged \cup {proc[p].match}
             /\ UNCHANGED disk
    <2> DEFINE g == Files(p)
    <2>1. PICK r \in Process : /\ r = [ t EXCEPT !.failed = TRUE ]
                               /\ r.phase = t.phase /\ r.index = t.index
                               /\ r.mode = t.mode /\ r.match = t.match /\ r.at = t.at
      <3>1. [ t EXCEPT !.failed = TRUE ] \in Process
        BY DEF Process
      <3>2. QED
        BY <3>1 DEF Process
    <2>2. /\ g \in Files4
          /\ proc[p].index \notin tangled => Sound(g, damaged) /\ Progress(proc[p], g, damaged)
      BY <1>1, RecordingKnows
    <2>3. damaged \subseteq damaged' /\ r.match \in damaged'
      BY <1>3, <2>1
    <2>4. proc[p].index \notin tangled => Sound(g, damaged') /\ Progress(r, g, damaged')
      <3> SUFFICES ASSUME proc[p].index \notin tangled
                   PROVE  Sound(g, damaged') /\ Progress(r, g, damaged')
        OBVIOUS
      <3>1. Sound(g, damaged')
        BY <2>2, <2>3, LossWeakens
      <3>2. /\ \A n \in 1 .. Opened(r.mode) : Mine(proc[p], g, n)
            /\ g[3].ticks = {}
        BY <2>1, <2>2, OpenedRange DEF Progress, Later
      <3>3. Progress(r, g, damaged')
        BY <2>1, <2>3, <3>2 DEF Progress, Mine, Later
      <3>4. QED
        BY <3>1, <3>3
    <2>5. proc' = [ proc EXCEPT ![p] = r ] /\ disk' = disk
      BY <1>3, <2>1
    <2> HIDE DEF g
    <2>6. /\ r.phase \notin { "down", "lobby", "opening" } /\ r.index = proc[p].index
          /\ g = Files(p) /\ g \in Files4 /\ TicksFit(r)
      BY <1>1, <2>1, <2>2 DEF g, TicksFit
    <2>7. QED
      BY <1>1, <2>3, <2>4, <2>5, <2>6, GoesOn
  <1>4. QED
    BY <1>2, <1>3 DEF Writes

LEMMA WriteHeadersKeeps ==
  ASSUME CorpusInv, NEW p \in Procs, WriteHeaders(p)
  PROVE  CorpusInv'
  <1> DEFINE o == proc[p]
             t == [ In(p, "deciding") EXCEPT !.at = 0 ]
             f == Headed(p)
  <1>1. /\ o \in Process /\ o.phase = "heading" /\ Files(p) \in Files4
        /\ Opened(o.mode) \in 3 .. 4 /\ o.match \in 1 .. MaxMatches
        /\ o.index \notin tangled => Sound(Files(p), damaged) /\ Progress(o, Files(p), damaged)
    BY RecordingKnows, OpenedRange DEF WriteHeaders, CorpusInv, CorpusTyped, TicksFit
  <1>2. /\ t \in Process /\ t.phase = "deciding" /\ t.at = 0
        /\ t.index = o.index /\ t.mode = o.mode /\ t.match = o.match
    BY <1>1 DEF In, Process, CorpusPhases
  <1>3. /\ f \in Files4
        /\ \A n \in 1 .. 4 : f[n].by = Files(p)[n].by /\ f[n].ticks = Files(p)[n].ticks
        /\ \A n \in 1 .. Opened(o.mode) : f[n].mode = o.mode
    BY <1>1 DEF Headed, Files4, File, Process
  <1>4. Writes(p, f, t) /\ UNCHANGED << played, tangled, sure >>
    BY DEF WriteHeaders
  <1> HIDE DEF f, t
  <1>5. TicksFit(t)
    <2>1. MaxTicks[o.match] \in Nat
      BY <1>1, CorpusAssumption
    <2>2. QED
      BY <1>1, <1>2, <2>1 DEF TicksFit
  <1>6. ASSUME o.index \notin tangled
        PROVE  Sound(f, damaged) /\ Progress(t, f, damaged)
    <2>1. \A n \in 1 .. Opened(o.mode) : Mine(t, f, n) /\ f[n].ticks = {}
      BY <1>1, <1>2, <1>3, <1>6 DEF Progress, Mine
    <2>2. o.mode = "complete" => AtPhase(t, f)
      <3>1. Due(t.match, 0) = {} /\ 1 .. 0 = {}
        BY DueIs
      <3>2. QED
        BY <1>2, <2>1, <3>1, OpenedRange DEF AtPhase
    <2>3. o.mode = "complete" => InStep(f, t.match)
      BY <1>2, <1>5, <2>2, AtPhaseIsPrefix DEF Later
    <2>4. f[1].mode = o.mode
      BY <1>1, <1>3
    <2>5. Sound(f, damaged)
      BY <1>2, <2>1, <2>3, <2>4, OpenedRange DEF Sound, Mine
    <2>6. Progress(t, f, damaged)
      BY <1>1, <1>2, <2>1, <2>2 DEF Progress, Later
    <2>7. QED
      BY <2>5, <2>6
  <1>7. Files(p)[3].ticks = {} => f[3].ticks = {}
    BY <1>3
  <1>8. QED
    BY <1>1, <1>2, <1>3, <1>4, <1>5, <1>6, <1>7, WritesKeeps DEF Later

\* One more row in a stream.
LEMMA RowAdded ==
  ASSUME NEW p \in Procs, Files(p) \in Files4, NEW n \in 1 .. 4, NEW k \in Nat
  PROVE  /\ RowIn(p, n, k) \in Files4
         /\ \A m \in 1 .. 4 : /\ RowIn(p, n, k)[m].by = Files(p)[m].by
                              /\ RowIn(p, n, k)[m].mode = Files(p)[m].mode
                              /\ m # n => RowIn(p, n, k)[m].ticks = Files(p)[m].ticks
         /\ RowIn(p, n, k)[n].ticks = Files(p)[n].ticks \cup {k}
  <1>1. RowIn(p, n, k)
          = [ Files(p) EXCEPT ![n] = [ Files(p)[n] EXCEPT !.ticks = Files(p)[n].ticks \cup {k} ] ]
    BY DEF RowIn
  <1>2. [ Files(p)[n] EXCEPT !.ticks = Files(p)[n].ticks \cup {k} ] \in File
    BY DEF Files4, File
  <1>3. QED
    BY <1>1, <1>2 DEF Files4, File

\* What a process that records a match knows of its count.
LEMMA CountKnown ==
  ASSUME CorpusInv, NEW p \in Procs, proc[p].phase \in Later
  PROVE  /\ proc[p] \in Process /\ proc[p].at \in Nat /\ proc[p].match \in 1 .. MaxMatches
         /\ MaxTicks[proc[p].match] \in Nat /\ proc[p].at <= MaxTicks[proc[p].match]
         /\ TicksFit(proc[p])
  <1>1. proc[p] \in Process /\ TicksFit(proc[p])
    BY DEF CorpusInv, CorpusTyped, Later
  <1>2. MaxTicks[proc[p].match] \in Nat
    BY <1>1, CorpusAssumption DEF TicksFit
  <1>3. QED
    BY <1>1, <1>2 DEF TicksFit, Process

\* A process goes on to r, and of its directory to f, by the row it has written.
Moves(o, r, g, f) ==
  /\ r.phase \in Later
  /\ r.index = o.index /\ r.mode = o.mode /\ r.match = o.match
  /\ TicksFit(r)
  /\ r.phase # "over" /\ g[3].ticks = {} => f[3].ticks = {}
  /\ o.mode = "complete" /\ AtPhase(o, g) => AtPhase(r, f)
  /\ \A m \in 1 .. 4 : f[m].by = g[m].by /\ f[m].mode = g[m].mode

\* Such a move keeps what is known of the directory.
LEMMA MoveKeepsProgress ==
  ASSUME NEW o \in Process, o.phase \in Later, o.phase # "over", NEW r,
         NEW g \in Files4, NEW f, NEW lossy,
         Sound(g, lossy), Progress(o, g, lossy), Moves(o, r, g, f)
  PROVE  Sound(f, lossy) /\ Progress(r, f, lossy)
  <1>1. /\ Opened(o.mode) \in 3 .. 4 /\ r.phase \in Later /\ TicksFit(r)
        /\ r.mode = o.mode /\ r.match = o.match
        /\ \A m \in 1 .. 4 : f[m].by = g[m].by /\ f[m].mode = g[m].mode
    BY OpenedRange DEF Moves
  <1>2. /\ \A m \in 1 .. Opened(o.mode) : Mine(o, g, m)
        /\ g[3].ticks = {}
        /\ o.mode = "complete" /\ o.match \notin lossy => AtPhase(o, g)
    BY DEF Progress, Later
  <1>3. \A m \in 1 .. Opened(o.mode) : Mine(r, f, m)
    BY <1>1, <1>2 DEF Mine
  <1>4. o.mode = "complete" /\ o.match \notin lossy => AtPhase(r, f)
    BY <1>2 DEF Moves
  <1>5. o.mode = "complete" /\ o.match \notin lossy => InStep(f, r.match)
    BY <1>1, <1>4, AtPhaseIsPrefix
  <1>6. r.phase # "over" => f[3].ticks = {}
    BY <1>2 DEF Moves
  <1>7. Progress(r, f, lossy)
    BY <1>1, <1>3, <1>4, <1>6 DEF Progress, Later
  <1>8. f[1].mode = "complete" => o.mode = "complete"
    BY <1>1, <1>3 DEF Mine
  <1>9. Sound(f, lossy)
    BY <1>1, <1>3, <1>5, <1>8, OpenedRange DEF Sound, Mine
  <1>10. QED
    BY <1>7, <1>9

\* A tick is written row by row, each one written or lost.
LEMMA RowKeeps ==
  ASSUME CorpusInv, NEW p \in Procs, NEW f \in Files4, NEW t \in Process,
         proc[p].phase \in Later, proc[p].phase # "over",
         Writes(p, f, t), UNCHANGED << played, tangled, sure >>,
         Moves(proc[p], t, Files(p), f)
  PROVE  CorpusInv'
  <1>1. /\ Files(p) \in Files4 /\ proc[p] \in Process
        /\ proc[p].index \notin tangled => /\ Sound(Files(p), damaged)
                                           /\ Progress(proc[p], Files(p), damaged)
    BY RecordingKnows DEF Later
  <1>2. proc[p].index \notin tangled => Sound(f, damaged) /\ Progress(t, f, damaged)
    BY <1>1, MoveKeepsProgress
  <1>3. /\ t.phase \in Later /\ TicksFit(t)
        /\ t.index = proc[p].index /\ t.mode = proc[p].mode /\ t.match = proc[p].match
        /\ t.phase # "over" /\ Files(p)[3].ticks = {} => f[3].ticks = {}
    BY DEF Moves
  <1>4. proc[p].phase \in { "heading", "deciding", "checking", "ending" }
    BY DEF Later
  <1>5. QED
    BY <1>2, <1>3, <1>4, WritesKeeps

\* ... or there is none to write.
LEMMA NoRowKeeps ==
  ASSUME CorpusInv, NEW p \in Procs, NEW t \in Process,
         proc[p].phase \in Later, proc[p].phase # "over",
         proc' = [ proc EXCEPT ![p] = t ],
         UNCHANGED << disk, played, damaged, tangled, sure >>,
         Moves(proc[p], t, Files(p), Files(p))
  PROVE  CorpusInv'
  <1>1. /\ Files(p) \in Files4 /\ proc[p] \in Process
        /\ proc[p].index \notin tangled => /\ Sound(Files(p), damaged)
                                           /\ Progress(proc[p], Files(p), damaged)
    BY RecordingKnows DEF Later
  <1>2. proc[p].index \notin tangled => Sound(Files(p), damaged) /\ Progress(t, Files(p), damaged)
    BY <1>1, MoveKeepsProgress
  <1>3. t.phase \in Later /\ TicksFit(t) /\ t.index = proc[p].index
    BY DEF Moves
  <1>4. /\ proc[p].phase \notin { "down", "lobby", "opening" }
        /\ t.phase \notin { "down", "lobby", "opening" }
    BY <1>3 DEF Later
  <1>5. proc[p].index \notin tangled => Sound(Files(p), damaged') /\ Progress(t, Files(p), damaged')
    BY <1>2
  <1>6. QED
    BY <1>1, <1>3, <1>4, <1>5, GoesOn

LEMMA RecordDecisionKeeps ==
  ASSUME CorpusInv, NEW p \in Procs, RecordDecision(p)
  PROVE  CorpusInv'
  <1> DEFINE o == proc[p]
             g == Files(p)
             f == RowIn(p, 1, o.at)
  <1>1. o.phase = "deciding" /\ o.phase \in Later
    BY DEF RecordDecision, Later
  <1>2. o \in Process /\ o.at \in Nat /\ TicksFit(o) /\ g \in Files4
    BY <1>1, CountKnown, RecordingKnows
  <1>3. /\ f \in Files4
        /\ \A m \in 1 .. 4 : /\ f[m].by = g[m].by /\ f[m].mode = g[m].mode
                             /\ m # 1 => f[m].ticks = g[m].ticks
        /\ f[1].ticks = g[1].ticks \cup {o.at}
    BY <1>2, RowAdded
  <1>4. Writes(p, f, o) /\ UNCHANGED << played, tangled, sure >>
    BY DEF RecordDecision
  <1> HIDE DEF f, g
  <1>5. AtPhase(o, g) => AtPhase(o, f)
    BY <1>2, <1>3 DEF AtPhase
  <1>6. Moves(o, o, g, f)
    BY <1>1, <1>2, <1>3, <1>5 DEF Moves
  <1>7. QED
    BY <1>1, <1>2, <1>3, <1>4, <1>6, RowKeeps DEF g

LEMMA RecordWorldKeeps ==
  ASSUME CorpusInv, NEW p \in Procs, RecordWorld(p)
  PROVE  CorpusInv'
  <1> DEFINE o == proc[p]
             g == Files(p)
             k == o.at + 1
             t == [ In(p, "checking") EXCEPT !.at = k ]
             f == RowIn(p, 4, k)
  <1>1. /\ o.phase = "deciding" /\ o.phase \in Later
        /\ o.at < MaxTicks[o.match] /\ UNCHANGED << played, tangled, sure >>
    BY DEF RecordWorld, Later
  <1>2. /\ o \in Process /\ o.at \in Nat /\ k \in Nat /\ g \in Files4
        /\ o.match \in 1 .. MaxMatches /\ MaxTicks[o.match] \in Nat
    BY <1>1, CountKnown, RecordingKnows
  <1>3. /\ t \in Process /\ t.phase = "checking" /\ t.at = k
        /\ t.index = o.index /\ t.mode = o.mode /\ t.match = o.match
    BY <1>2 DEF In, Process, CorpusPhases
  <1>4. /\ f \in Files4
        /\ \A m \in 1 .. 4 : /\ f[m].by = g[m].by /\ f[m].mode = g[m].mode
                             /\ m # 4 => f[m].ticks = g[m].ticks
        /\ f[4].ticks = g[4].ticks \cup {k}
    BY <1>2, RowAdded
  <1>5. /\ o.mode = "complete" => Writes(p, f, t)
        /\ o.mode # "complete" => proc' = [ proc EXCEPT ![p] = t ] /\ UNCHANGED << disk, damaged >>
    BY DEF RecordWorld
  <1> HIDE DEF f, g, t
  <1>6. TicksFit(t) /\ t.phase \in Later
    BY <1>1, <1>2, <1>3 DEF TicksFit, Later
  <1>7. AtPhase(o, g) => AtPhase(t, f)
    <2>1. Due(o.match, k) \ {k} = Due(o.match, o.at)
      BY <1>2, DueIs
    <2>2. 1 .. o.at \cup {k} = 1 .. k /\ 0 .. o.at \subseteq 0 .. k /\ k > 0
      BY <1>2
    <2>3. QED
      BY <1>1, <1>3, <1>4, <2>1, <2>2 DEF AtPhase
  <1>8. CASE o.mode = "complete"
    <2>1. Moves(o, t, g, f)
      BY <1>3, <1>4, <1>6, <1>7 DEF Moves
    <2>2. QED
      BY <1>1, <1>3, <1>4, <1>5, <1>8, <2>1, RowKeeps DEF g
  <1>9. CASE o.mode # "complete"
    <2>1. Moves(o, t, g, g)
      BY <1>3, <1>6, <1>9 DEF Moves
    <2>2. QED
      BY <1>1, <1>3, <1>5, <1>9, <2>1, NoRowKeeps DEF g
  <1>10. QED
    BY <1>8, <1>9

LEMMA RecordCheckpointKeeps ==
  ASSUME CorpusInv, NEW p \in Procs, RecordCheckpoint(p)
  PROVE  CorpusInv'
  <1> DEFINE o == proc[p]
             g == Files(p)
             t == In(p, "deciding")
             f == RowIn(p, 2, o.at)
             written == o.mode = "complete" /\ Checkpoints(o.match, o.at)
  <1>1. /\ o.phase = "checking" /\ o.phase \in Later
        /\ UNCHANGED << played, tangled, sure >>
    BY DEF RecordCheckpoint, Later
  <1>2. o \in Process /\ o.at \in Nat /\ TicksFit(o) /\ g \in Files4
    BY <1>1, CountKnown, RecordingKnows
  <1>3. /\ t \in Process /\ t.phase = "deciding" /\ t.at = o.at
        /\ t.index = o.index /\ t.mode = o.mode /\ t.match = o.match
    BY <1>2 DEF In, Process, CorpusPhases
  <1>4. /\ f \in Files4
        /\ \A m \in 1 .. 4 : /\ f[m].by = g[m].by /\ f[m].mode = g[m].mode
                             /\ m # 2 => f[m].ticks = g[m].ticks
        /\ f[2].ticks = g[2].ticks \cup {o.at}
    BY <1>2, RowAdded
  <1>5. /\ written => Writes(p, f, t)
        /\ ~written => proc' = [ proc EXCEPT ![p] = t ] /\ UNCHANGED << disk, damaged >>
    BY DEF RecordCheckpoint
  <1> HIDE DEF f, g, t
  <1>6. TicksFit(t) /\ t.phase \in Later
    BY <1>1, <1>2, <1>3 DEF TicksFit, Later
  <1>7. CASE written
    <2>1. AtPhase(o, g) => AtPhase(t, f)
      <3>1. o.at > 0 => Due(o.match, o.at) = (Due(o.match, o.at) \ {o.at}) \cup {o.at}
        BY <1>2, <1>7, DueIs
      <3>2. QED
        BY <1>1, <1>3, <1>4, <3>1 DEF AtPhase
    <2>2. Moves(o, t, g, f)
      BY <1>3, <1>4, <1>6, <2>1 DEF Moves
    <2>3. QED
      BY <1>1, <1>3, <1>4, <1>5, <1>7, <2>2, RowKeeps DEF g
  <1>8. CASE ~written
    <2>1. o.mode = "complete" /\ AtPhase(o, g) => AtPhase(t, g)
      <3>1. o.mode = "complete" => Due(o.match, o.at) = Due(o.match, o.at) \ {o.at}
        BY <1>2, <1>8, DueIs
      <3>2. QED
        BY <1>1, <1>3, <3>1 DEF AtPhase
    <2>2. Moves(o, t, g, g)
      BY <1>3, <1>6, <2>1 DEF Moves
    <2>3. QED
      BY <1>1, <1>3, <1>5, <1>8, <2>2, NoRowKeeps DEF g
  <1>9. QED
    BY <1>7, <1>8

LEMMA RecordSightsKeeps ==
  ASSUME CorpusInv, NEW p \in Procs, RecordSights(p)
  PROVE  CorpusInv'
  <1> DEFINE o == proc[p]
             g == Files(p)
             t == In(p, "ending")
             f == RowIn(p, 1, o.at)
  <1>1. o.phase = "deciding" /\ o.phase \in Later
    BY DEF RecordSights, Later
  <1>2. o \in Process /\ o.at \in Nat /\ TicksFit(o) /\ g \in Files4
    BY <1>1, CountKnown, RecordingKnows
  <1>3. /\ t \in Process /\ t.phase = "ending" /\ t.at = o.at
        /\ t.index = o.index /\ t.mode = o.mode /\ t.match = o.match
    BY <1>2 DEF In, Process, CorpusPhases
  <1>4. /\ f \in Files4
        /\ \A m \in 1 .. 4 : /\ f[m].by = g[m].by /\ f[m].mode = g[m].mode
                             /\ m # 1 => f[m].ticks = g[m].ticks
        /\ f[1].ticks = g[1].ticks \cup {o.at}
    BY <1>2, RowAdded
  <1>5. Writes(p, f, t) /\ UNCHANGED << played, tangled, sure >>
    BY DEF RecordSights
  <1> HIDE DEF f, g, t
  <1>6. TicksFit(t) /\ t.phase \in Later
    BY <1>1, <1>2, <1>3 DEF TicksFit, Later
  <1>7. AtPhase(o, g) => AtPhase(t, f)
    BY <1>1, <1>2, <1>3, <1>4 DEF AtPhase
  <1>8. Moves(o, t, g, f)
    BY <1>3, <1>4, <1>6, <1>7 DEF Moves
  <1>9. QED
    BY <1>1, <1>3, <1>4, <1>5, <1>8, RowKeeps DEF g

LEMMA RecordOutcomesKeeps ==
  ASSUME CorpusInv, NEW p \in Procs, RecordOutcomes(p)
  PROVE  CorpusInv'
  <1> DEFINE o == proc[p]
             g == Files(p)
             t == In(p, "over")
             f == RowIn(p, 3, o.at)
  <1>1. o.phase \in { "deciding", "ending" } /\ o.phase \in Later
    BY DEF RecordOutcomes, Later
  <1>2. o \in Process /\ o.at \in Nat /\ TicksFit(o) /\ g \in Files4
    BY <1>1, CountKnown, RecordingKnows
  <1>3. /\ t \in Process /\ t.phase = "over" /\ t.at = o.at
        /\ t.index = o.index /\ t.mode = o.mode /\ t.match = o.match
    BY <1>2 DEF In, Process, CorpusPhases
  <1>4. /\ f \in Files4
        /\ \A m \in 1 .. 4 : /\ f[m].by = g[m].by /\ f[m].mode = g[m].mode
                             /\ m # 3 => f[m].ticks = g[m].ticks
        /\ f[3].ticks = g[3].ticks \cup {o.at}
    BY <1>2, RowAdded
  <1>5. Writes(p, f, t) /\ UNCHANGED << played, tangled, sure >>
    BY DEF RecordOutcomes
  <1> HIDE DEF f, g, t
  <1>6. TicksFit(t) /\ t.phase \in Later
    BY <1>1, <1>2, <1>3 DEF TicksFit, Later
  <1>7. AtPhase(o, g) => AtPhase(t, f)
    BY <1>1, <1>2, <1>3, <1>4 DEF AtPhase
  <1>8. Moves(o, t, g, f)
    BY <1>3, <1>4, <1>6, <1>7 DEF Moves
  <1>9. QED
    BY <1>1, <1>3, <1>4, <1>5, <1>8, RowKeeps DEF g

LEMMA StartMatchKeeps ==
  ASSUME CorpusInv, NEW p \in Procs, StartMatch(p)
  PROVE  CorpusInv'
  <1> DEFINE t == [ proc[p] EXCEPT !.phase = "opening", !.match = played + 1, !.at = 1 ]
  <1>1. PICK i \in Indices : i = proc[p].index
    BY CorpusAssumption DEF StartMatch, CorpusInv, CorpusTyped, Process, Indices
  <1>2. /\ proc[p] \in Process /\ proc[p].phase = "lobby" /\ played + 1 \in Nat
        /\ played' = played + 1 /\ damaged' = damaged /\ sure' = sure
        /\ proc' = [ proc EXCEPT ![p] = t ]
        /\ disk' = [ disk EXCEPT ![i].dir = TRUE ]
        /\ tangled' = IF \E q \in Procs : Recording(q, i) THEN tangled \cup {i} ELSE tangled
    <2>1. proc[p] \in Process /\ played + 1 \in Nat
      BY DEF CorpusInv, CorpusTyped
    <2>2. QED
      BY <1>1, <2>1, Zenon DEF StartMatch
  <1>3. /\ t \in Process /\ t.phase = "opening" /\ t.at = 1
        /\ t.index = i /\ t.mode = proc[p].mode /\ t.match = played + 1
    BY <1>1, <1>2 DEF Process, CorpusPhases
  <1> TicksFit(t)
    <2>1. played + 1 \in 1 .. MaxMatches
      BY CorpusAssumption DEF StartMatch, CorpusInv, CorpusTyped
    <2>2. QED
      BY <1>3, <2>1 DEF TicksFit, Later
  <1> HIDE DEF t
  <1>4. /\ disk' \in [ Indices -> [ dir : BOOLEAN, file : Files4 ] ]
        /\ disk'[i].dir /\ disk'[i].file = disk[i].file
        /\ \A j \in Indices \ {i} : disk'[j] = disk[j]
    BY <1>2 DEF CorpusInv, CorpusTyped
  <1>5. /\ proc' \in [ Procs -> Process ]
        /\ proc'[p] = t
        /\ \A q \in Procs \ {p} : proc'[q] = proc[q]
    BY <1>2, <1>3, OneProcess DEF CorpusInv
  <1>6. CorpusTyped'
    BY <1>2, <1>3, <1>4, <1>5, OpenedRange DEF CorpusInv, CorpusTyped
  <1>7. AllWhole'
    <2> SUFFICES ASSUME NEW j \in Indices, j \notin tangled' PROVE Whole(j)'
      BY DEF AllWhole
    <2>1. j \notin tangled /\ Whole(j) /\ disk'[j].file = disk[j].file
      BY <1>2, <1>4 DEF CorpusInv, AllWhole
    <2>2. \A q \in Procs \ {p} : Recording(q, j)' => Recording(q, j) /\ proc'[q] = proc[q]
      BY <1>5 DEF Recording
    <2>3. Recording(p, j)' => j = i
      BY <1>3, <1>5 DEF Recording
    <2>4. j = i => \A q \in Procs \ {p} : ~Recording(q, j)'
      BY <1>2, <2>2
    <2>5. Progress(t, disk[j].file, damaged)
      BY <1>3 DEF Progress, Later
    <2>6. QED
      BY <1>2, <1>5, <2>1, <2>2, <2>3, <2>4, <2>5 DEF Whole
  <1>8. FreeIsEmpty'
    BY <1>4 DEF CorpusInv, FreeIsEmpty
  <1>9. SureAhead'
    <2> SUFFICES ASSUME NEW w \in sure, proc'[w].phase # "down" PROVE Ahead(w)'
      BY <1>2 DEF SureAhead
    <2>1. w \in Procs
      BY DEF CorpusInv, CorpusTyped, Procs
    <2>2. w = p
      BY <1>2, <1>5, <2>1 DEF CorpusInv, SureAhead, Ahead
    <2>3. Ahead(p)
      BY <1>2, <2>2 DEF CorpusInv, SureAhead
    <2>4. disk[i].file[3].ticks = {}
      BY <1>1, <1>2, <2>3 DEF Ahead, Free, CorpusInv, FreeIsEmpty
    <2>5. /\ \A q \in Procs \ {p} : proc'[q].phase = "down"
          /\ \A j \in Indices : j > i => Free(j)'
      BY <1>1, <1>4, <1>5, <2>3 DEF Ahead, Free, Indices
    <2>6. QED
      BY <1>3, <1>4, <1>5, <2>2, <2>4, <2>5 DEF Ahead
  <1>10. QED
    BY <1>6, <1>7, <1>8, <1>9 DEF CorpusInv

\* A process that records nothing after the step, and leaves the disk as it is.
LEMMA RecordsNothing ==
  ASSUME CorpusInv, NEW p \in Procs, NEW r \in Process, r.phase \in { "down", "lobby" },
         proc' = [ proc EXCEPT ![p] = r ],
         UNCHANGED << disk, played, damaged, tangled >>,
         sure' \in SUBSET Windows,
         \A w \in sure' : proc'[w].phase # "down" => Ahead(w)'
  PROVE  CorpusInv'
  <1>1. /\ proc' \in [ Procs -> Process ]
        /\ proc'[p] = r
        /\ \A q \in Procs \ {p} : proc'[q] = proc[q]
    BY OneProcess DEF CorpusInv
  <1>2. CorpusTyped'
    BY <1>1 DEF CorpusInv, CorpusTyped
  <1>3. \A i \in Indices, q \in Procs :
          Recording(q, i)' => Recording(q, i) /\ proc'[q] = proc[q]
    BY <1>1 DEF Recording
  <1>4. AllWhole'
    <2> SUFFICES ASSUME NEW i \in Indices \ tangled PROVE Whole(i)'
      BY DEF AllWhole
    <2>1. Whole(i)
      BY DEF CorpusInv, AllWhole
    <2>2. QED
      BY <1>3, <2>1 DEF Whole
  <1>5. FreeIsEmpty' /\ SureAhead'
    BY DEF CorpusInv, FreeIsEmpty, SureAhead
  <1>6. QED
    BY <1>2, <1>4, <1>5 DEF CorpusInv

LEMMA StartsKeeps ==
  ASSUME CorpusInv, NEW p \in Procs, NEW i \in Indices, NEW mode \in Modes,
         Starts(p, i, mode), p \in Windows => Free(i)
  PROVE  CorpusInv'
  <1> DEFINE r == [ Down EXCEPT !.phase = "lobby", !.index = i, !.mode = mode ]
  <1>1. r \in Process /\ r.phase = "lobby" /\ r.index = i
    <2>1. i \in Nat
      BY DEF Indices
    <2>2. QED
      BY <2>1, DownTyped DEF Process, CorpusPhases
  <1>2. /\ proc' = [ proc EXCEPT ![p] = r ]
        /\ UNCHANGED << disk, played, damaged, tangled >>
        /\ sure' = { w \in Windows \cap {p} : Alone(w) /\ \A j \in Indices : j > i => Free(j) }
    BY DEF Starts
  <1> HIDE DEF r
  <1>3. /\ proc'[p] = r
        /\ \A q \in Procs \ {p} : proc'[q] = proc[q]
    BY <1>1, <1>2, OneProcess DEF CorpusInv
  <1>4. \A w \in sure' : Ahead(w)'
    BY <1>1, <1>2, <1>3 DEF Ahead, Alone, Free
  <1>5. QED
    BY <1>1, <1>2, <1>4, RecordsNothing

LEMMA LaunchKeeps ==
  ASSUME CorpusInv, NEW w \in Windows, NEW i \in Indices, NEW mode \in Modes, Launch(w, i, mode)
  PROVE  CorpusInv'
  BY StartsKeeps DEF Launch, ResumeIndex, Procs

LEMMA LaunchBatchKeeps ==
  ASSUME CorpusInv, NEW mode \in Modes, LaunchBatch(mode)
  PROVE  CorpusInv'
  <1>1. 0 \in Indices /\ Batch \in Procs /\ Batch \notin Windows
    BY CorpusAssumption DEF Indices, Procs
  <1>2. QED
    BY <1>1, StartsKeeps DEF LaunchBatch

LEMMA StopsKeeps ==
  ASSUME CorpusInv, NEW p \in Procs, Stops(p)
  PROVE  CorpusInv'
  <1>1. Down \in Process /\ Down.phase = "down"
    BY DownTyped DEF Down
  <1>2. /\ proc' = [ proc EXCEPT ![p] = Down ]
        /\ UNCHANGED << disk, played, damaged, tangled, sure >>
        /\ sure' \in SUBSET Windows
    BY DEF Stops, CorpusInv, CorpusTyped
  <1>3. /\ proc'[p] = Down
        /\ \A q \in Procs \ {p} : proc'[q] = proc[q]
    BY <1>1, <1>2, OneProcess DEF CorpusInv
  <1>4. ASSUME NEW w \in sure, proc'[w].phase # "down" PROVE Ahead(w)'
    <2>1. w \in Procs \ {p} /\ proc'[w] = proc[w]
      BY <1>1, <1>3, <1>4 DEF CorpusInv, CorpusTyped, Procs
    <2>2. Ahead(w)
      BY <1>4, <2>1 DEF CorpusInv, SureAhead
    <2>3. QED
      BY <1>1, <1>2, <1>3, <2>1, <2>2 DEF Ahead, Free
  <1>5. QED
    BY <1>1, <1>2, <1>4, RecordsNothing

LEMMA WindowClosesKeeps ==
  ASSUME CorpusInv, NEW p \in Windows, WindowCloses(p)
  PROVE  CorpusInv'
  <1> DEFINE r == [ Down EXCEPT !.phase = "lobby", !.index = proc[p].index + 1,
                                !.mode = proc[p].mode ]
  <1>1. p \in Procs /\ proc[p] \in Process /\ proc[p].phase = "over" /\ proc[p].index \in Indices
    BY DEF WindowCloses, CorpusInv, CorpusTyped, Procs
  <1>2. proc[p].index + 1 \in Nat /\ proc[p].mode \in Modes
    BY <1>1 DEF Process
  <1>3. r \in Process /\ r.phase = "lobby" /\ r.index = proc[p].index + 1
    BY <1>2, DownTyped DEF Process, CorpusPhases
  <1>4. /\ proc' = [ proc EXCEPT ![p] = r ]
        /\ UNCHANGED << disk, played, damaged, tangled, sure >>
        /\ sure' \in SUBSET Windows
    BY DEF WindowCloses, CorpusInv, CorpusTyped
  <1> HIDE DEF r
  <1>5. /\ proc'[p] = r
        /\ \A q \in Procs \ {p} : proc'[q] = proc[q]
    BY <1>1, <1>3, <1>4, OneProcess DEF CorpusInv
  <1>6. ASSUME NEW w \in sure, proc'[w].phase # "down" PROVE Ahead(w)'
    <2>1. w \in Procs
      BY DEF CorpusInv, CorpusTyped, Procs
    <2>2. w = p /\ Ahead(p)
      BY <1>1, <1>5, <1>6, <2>1 DEF CorpusInv, SureAhead, Ahead
    <2>3. \A j \in Indices : j >= proc[p].index + 1 => Free(j)'
      BY <1>1, <1>4, <2>2 DEF Ahead, Free, Indices
    <2>4. QED
      BY <1>1, <1>2, <1>3, <1>4, <1>5, <2>2, <2>3 DEF Ahead, Indices
  <1>7. QED
    BY <1>1, <1>3, <1>4, <1>6, RecordsNothing

LEMMA BatchClosesKeeps ==
  ASSUME CorpusInv, BatchCloses
  PROVE  CorpusInv'
  <1> DEFINE next == [ Down EXCEPT !.phase = "lobby", !.index = proc[Batch].index + 1,
                                   !.mode = proc[Batch].mode ]
             r == IF proc[Batch].failed \/ proc[Batch].index + 1 = BatchMatches THEN Down ELSE next
  <1>1. /\ Batch \in Procs /\ Batch \notin Windows
        /\ proc[Batch] \in Process /\ proc[Batch].phase = "over"
    BY CorpusAssumption DEF BatchCloses, CorpusInv, CorpusTyped, Procs
  <1>2. proc[Batch].index + 1 \in Nat /\ proc[Batch].mode \in Modes
    BY <1>1 DEF Process
  <1>3. next \in Process /\ next.phase = "lobby"
    BY <1>2, DownTyped DEF Process, CorpusPhases
  <1>4. Down \in Process /\ Down.phase = "down"
    BY DownTyped DEF Down
  <1>5. /\ proc' = [ proc EXCEPT ![Batch] = r ]
        /\ UNCHANGED << disk, played, damaged, tangled, sure >>
        /\ sure' \in SUBSET Windows
    BY DEF BatchCloses, CorpusInv, CorpusTyped
  <1> HIDE DEF next
  <1>6. r \in Process /\ r.phase \in { "down", "lobby" }
    BY <1>3, <1>4
  <1> HIDE DEF r
  <1>7. \A q \in Procs \ {Batch} : proc'[q] = proc[q]
    BY <1>1, <1>5, <1>6, OneProcess DEF CorpusInv
  <1>8. ASSUME NEW w \in sure PROVE proc'[w].phase = "down"
    BY <1>1, <1>7, <1>8 DEF CorpusInv, CorpusTyped, Procs, SureAhead, Ahead
  <1>9. QED
    BY <1>1, <1>5, <1>6, <1>8, RecordsNothing

LEMMA PruneKeeps ==
  ASSUME CorpusInv, NEW x \in Indices, Prune(x)
  PROVE  CorpusInv'
  <1>1. /\ \A p \in Procs : proc[p].phase = "down"
        /\ disk' = [ disk EXCEPT ![x] = NoDir ]
        /\ tangled' = tangled \ {x}
        /\ UNCHANGED << proc, played, damaged, sure >>
    BY DEF Prune
  <1>2. /\ disk' \in [ Indices -> [ dir : BOOLEAN, file : Files4 ] ]
        /\ disk'[x] = NoDir
        /\ \A i \in Indices \ {x} : disk'[i] = disk[i]
    BY <1>1, NoDirTyped DEF CorpusInv, CorpusTyped
  <1>3. CorpusTyped'
    BY <1>1, <1>2 DEF CorpusInv, CorpusTyped
  <1>4. AllWhole'
    <2> SUFFICES ASSUME NEW i \in Indices, i \notin tangled' PROVE Whole(i)'
      BY DEF AllWhole
    <2>1. \A p \in Procs : ~Recording(p, i)'
      BY <1>1 DEF Recording
    <2>2. Sound(disk'[i].file, damaged')
      <3>1. CASE i = x
        BY <1>2, <3>1, NoDirTyped DEF Sound
      <3>2. CASE i # x
        BY <1>1, <1>2, <3>2 DEF CorpusInv, AllWhole, Whole
      <3>3. QED
        BY <3>1, <3>2
    <2>3. QED
      BY <2>1, <2>2 DEF Whole
  <1>5. FreeIsEmpty' /\ SureAhead'
    BY <1>1, <1>2, NoDirTyped DEF CorpusInv, FreeIsEmpty, SureAhead, CorpusTyped, Procs
  <1>6. QED
    BY <1>3, <1>4, <1>5 DEF CorpusInv

-----------------------------------------------------------------------------
(* The theorems.                                                           *)

LEMMA NextKeeps == CorpusInv /\ [CorpusNext]_CorpusVars => CorpusInv'
  <1> SUFFICES ASSUME CorpusInv, [CorpusNext]_CorpusVars PROVE CorpusInv'
    OBVIOUS
  <1>1. CASE \E mode \in Modes : \E w \in Windows, i \in Indices : Launch(w, i, mode)
    BY <1>1, LaunchKeeps
  <1>2. CASE \E mode \in Modes : LaunchBatch(mode)
    BY <1>2, LaunchBatchKeeps
  <1>3. CASE \E p \in Procs : StartMatch(p)
    BY <1>3, StartMatchKeeps
  <1>4. CASE \E p \in Procs : OpenStream(p)
    BY <1>4, OpenStreamKeeps
  <1>5. CASE \E p \in Procs : WriteHeaders(p)
    BY <1>5, WriteHeadersKeeps
  <1>6. CASE \E p \in Procs : RecordDecision(p)
    BY <1>6, RecordDecisionKeeps
  <1>7. CASE \E p \in Procs : RecordWorld(p)
    BY <1>7, RecordWorldKeeps
  <1>8. CASE \E p \in Procs : RecordCheckpoint(p)
    BY <1>8, RecordCheckpointKeeps
  <1>9. CASE \E p \in Procs : RecordSights(p)
    BY <1>9, RecordSightsKeeps
  <1>10. CASE \E p \in Procs : RecordOutcomes(p)
    BY <1>10, RecordOutcomesKeeps
  <1>11. CASE \E p \in Procs : Stops(p)
    BY <1>11, StopsKeeps
  <1>12. CASE \E w \in Windows : WindowCloses(w)
    BY <1>12, WindowClosesKeeps
  <1>13. CASE BatchCloses
    BY <1>13, BatchClosesKeeps
  <1>14. CASE \E i \in Indices : Prune(i)
    BY <1>14, PruneKeeps
  <1>15. CASE UNCHANGED CorpusVars
    <2>1. UNCHANGED << disk, proc, played, damaged, tangled, sure >>
      BY <1>15 DEF CorpusVars
    <2>2. CorpusTyped' /\ FreeIsEmpty'
      BY <2>1 DEF CorpusInv, CorpusTyped, FreeIsEmpty
    <2>3. AllWhole'
      BY <2>1 DEF CorpusInv, AllWhole, Whole, Recording
    <2>4. SureAhead'
      BY <2>1 DEF CorpusInv, SureAhead, Ahead, Free
    <2>5. QED
      BY <2>2, <2>3, <2>4 DEF CorpusInv
  <1>16. QED
    BY <1>1, <1>2, <1>3, <1>4, <1>5, <1>6, <1>7, <1>8, <1>9, <1>10, <1>11, <1>12, <1>13, <1>14,
       <1>15
       DEF CorpusNext

\* Whatever stops wherever: each directory only one process recorded in is one
\* match's work, with the worlds and checkpoints its committed ticks have, and a
\* window that is alone is ahead of all the others.
THEOREM CorpusInvariance == CorpusSpec => []CorpusInv
  BY CorpusInitInvariant, NextKeeps, PTL DEF CorpusSpec

\* A log that calls itself replay_complete holds one match (OpenRecording).
THEOREM ReplayableIsOneMatchHolds == CorpusSpec => []ReplayableIsOneMatch
  <1>1. CorpusInv => ReplayableIsOneMatch
    BY DEF CorpusInv, AllWhole, Whole, Sound, ReplayableIsOneMatch
  <1>2. QED
    BY <1>1, CorpusInvariance, PTL

\* ... and, cut anywhere, its streams are those of some number of committed ticks,
\* for any interval of checkpoints and with or without them (Writer, recordCommit).
THEOREM RecordIsPrefixHolds == CorpusSpec => []RecordIsPrefix
  <1>1. ASSUME CorpusInv, NEW i \in Indices \ tangled,
               disk[i].file[1].mode = "complete", disk[i].file[1].by \notin damaged
        PROVE  InStep(disk[i].file, disk[i].file[1].by)
    BY <1>1 DEF CorpusInv, AllWhole, Whole, Sound
  <1>2. CorpusInv => RecordIsPrefix
    BY <1>1 DEF InStep, Prefix, Finished, RecordIsPrefix
  <1>3. QED
    BY <1>2, CorpusInvariance, PTL

\* The episodes that have their outcomes outlive a window that is alone
\* (ResumeIndex, Start, ended).
THEOREM FinishedStaysHolds == CorpusSpec => FinishedStays
  <1> DEFINE Kept == \A w \in sure, i \in Indices :
                       Finished(i) /\ proc[w].phase # "down" => disk'[i] = disk[i]
  <1>1. CorpusInv /\ CorpusNext => Kept
    <2> SUFFICES ASSUME CorpusInv, CorpusNext, NEW w \in sure, NEW i \in Indices,
                        Finished(i), proc[w].phase # "down"
                 PROVE  disk'[i] = disk[i]
      OBVIOUS
    <2>1. /\ w \in Procs /\ Ahead(w) /\ disk[i] \in [ dir : BOOLEAN, file : Files4 ]
          /\ ~Free(i)
      BY DEF CorpusInv, CorpusTyped, SureAhead, Procs, Finished, FreeIsEmpty, Free, Files4, File
    <2>2. CASE disk' = disk
      BY <2>2
    <2>3. CASE \E p \in Procs : StartMatch(p)
      <3>1. PICK p \in Procs : StartMatch(p)
        BY <2>3
      <3>2. p = w /\ proc[w].phase = "lobby" /\ disk' = [ disk EXCEPT ![proc[w].index].dir = TRUE ]
        BY <2>1, <3>1 DEF StartMatch, Ahead
      <3>3. proc[w].index # i
        BY <2>1, <3>2 DEF Ahead
      <3>4. QED
        BY <2>1, <3>2, <3>3 DEF CorpusInv, CorpusTyped
    <2>4. CASE \E p \in Procs : /\ proc[p].phase \notin { "down", "lobby", "over" }
                                /\ \E f : disk' = [ disk EXCEPT ![proc[p].index].file = f ]
      <3>1. PICK p \in Procs : /\ proc[p].phase \notin { "down", "lobby", "over" }
                               /\ \E f : disk' = [ disk EXCEPT ![proc[p].index].file = f ]
        BY <2>4
      <3>2. p = w /\ disk[proc[w].index].file[3].ticks = {}
        BY <2>1, <3>1 DEF Ahead
      <3>3. proc[w].index # i
        BY <3>2 DEF Finished
      <3>4. QED
        BY <2>1, <3>1, <3>2, <3>3 DEF CorpusInv, CorpusTyped
    <2>5. CASE \E x \in Indices : Prune(x)
      BY <2>1, <2>5 DEF Prune
    <2>6. QED
      <3>1. ASSUME NEW p \in Procs, NEW f, NEW t, Writes(p, f, t),
                   proc[p].phase \notin { "down", "lobby", "over" }
            PROVE  disk'[i] = disk[i]
        BY <2>2, <2>4, <3>1 DEF Writes
      <3>2. ASSUME NEW p \in Procs, OpenStream(p) PROVE disk'[i] = disk[i]
        BY <2>4, <3>2 DEF OpenStream
      <3>3. ASSUME NEW p \in Procs, WriteHeaders(p) PROVE disk'[i] = disk[i]
        BY <3>1, <3>3 DEF WriteHeaders
      <3>4. ASSUME NEW p \in Procs, RecordDecision(p) PROVE disk'[i] = disk[i]
        BY <3>1, <3>4 DEF RecordDecision
      <3>5. ASSUME NEW p \in Procs, RecordWorld(p) PROVE disk'[i] = disk[i]
        BY <2>2, <3>1, <3>5 DEF RecordWorld
      <3>6. ASSUME NEW p \in Procs, RecordCheckpoint(p) PROVE disk'[i] = disk[i]
        BY <2>2, <3>1, <3>6 DEF RecordCheckpoint
      <3>7. ASSUME NEW p \in Procs, RecordSights(p) \/ RecordOutcomes(p) PROVE disk'[i] = disk[i]
        BY <3>1, <3>7 DEF RecordSights, RecordOutcomes
      <3>8. ASSUME NEW p \in Procs, Stops(p) PROVE disk'[i] = disk[i]
        BY <2>2, <3>8 DEF Stops
      <3>9. ASSUME \/ \E mode \in Modes : \/ \E v \in Windows, x \in Indices : Launch(v, x, mode)
                                          \/ LaunchBatch(mode)
                   \/ \E v \in Windows : WindowCloses(v)
                   \/ BatchCloses
            PROVE  disk'[i] = disk[i]
        BY <2>2, <3>9 DEF Launch, LaunchBatch, Starts, WindowCloses, BatchCloses
      <3>10. QED
        BY <2>3, <2>5, <3>2, <3>3, <3>4, <3>5, <3>6, <3>7, <3>8, <3>9 DEF CorpusNext
  <1>2. CorpusInv /\ [CorpusNext]_CorpusVars => [Kept]_CorpusVars
    BY <1>1
  <1>3. QED
    BY <1>2, CorpusInvariance, PTL DEF CorpusSpec, FinishedStays

-----------------------------------------------------------------------------
(***************************************************************************)
(* The rules mined from it                                                 *)
(***************************************************************************)

\* The records rule i takes: it matches and none before it does.
Takes(i) ==
  { r \in Records : /\ list[i].cond \in corpus[r].holds
                    /\ \A j \in 1 .. i - 1 : list[j].cond \notin corpus[r].holds }

MiningTyped ==
  /\ corpus \in [ Records -> [ holds : SUBSET Features, act : Actions ] ]
  /\ minCov \in MinCovs
  /\ remaining \in SUBSET Records
  /\ list \in Seq(Candidates)

\* Rules are numbered as they come, and what is left is what none of them matches.
Numbered == \A i \in 1 .. Len(list) : list[i].prio = i - 1

LeftIsSilent ==
  remaining = { r \in Records : \A i \in 1 .. Len(list) : list[i].cond \notin corpus[r].holds }

\* The numbers are counted on what the rule takes.
Counted ==
  \A i \in 1 .. Len(list) :
    /\ list[i].cov = Cardinality({ r \in Takes(i) : corpus[r].act = list[i].act })
    /\ list[i].ctr = Cardinality({ r \in Takes(i) : corpus[r].act # list[i].act })

Supported == \A i \in 1 .. Len(list) : list[i].cov > 0

MiningInv == MiningTyped /\ Numbered /\ LeftIsSilent /\ Counted /\ Supported

-----------------------------------------------------------------------------

\* A sub-selection of the records is finite, so it has a natural size.
LEMMA CountIsNat ==
  ASSUME NEW S \in SUBSET Records
  PROVE  IsFiniteSet(S) /\ Cardinality(S) \in Nat
  BY MiningAssumption, FS_Subset, FS_CardinalityType

LEMMA SizesAreNat ==
  ASSUME MiningTyped, NEW f, NEW a
  PROVE  Correct(f, a) \in Nat /\ Counter(f, a) \in Nat
  <1>1. /\ { r \in Matched(f) : corpus[r].act = a } \in SUBSET Records
        /\ { r \in Matched(f) : corpus[r].act # a } \in SUBSET Records
    BY DEF MiningTyped, Matched
  <1>2. QED
    BY <1>1, CountIsNat DEF Correct, Counter

\* A rule that joins the list takes exactly what nobody before it matched.
LEMMA AcceptKeeps ==
  ASSUME MiningInv, NEW f \in Features, NEW a \in Actions, Correct(f, a) > 0, Accept(f, a),
         UNCHANGED << corpus, minCov >>
  PROVE  MiningInv'
  <1>1. list \in Seq(Candidates) /\ Len(list) \in Nat
    BY DEF MiningInv, MiningTyped
  <1>n. PICK n \in Nat : n = Len(list)
    BY <1>1
  <1> DEFINE new == Candidate(f, a, n, Correct(f, a), Counter(f, a))
  <1>2. /\ new \in Candidates
        /\ new.cond = f /\ new.act = a /\ new.prio = n
        /\ new.cov = Correct(f, a) /\ new.ctr = Counter(f, a)
    BY <1>1, SizesAreNat DEF MiningInv, Candidate, Candidates
  <1>3. list' = Append(list, new) /\ remaining' = remaining \ Matched(f)
    BY <1>n DEF Accept
  <1> HIDE DEF new
  <1>4. /\ list' \in Seq(Candidates) /\ Len(list') = n + 1 /\ list'[n + 1] = new
        /\ \A i \in 1 .. n : list'[i] = list[i]
    BY <1>1, <1>n, <1>2, <1>3
  <1>5. MiningTyped'
    BY <1>3, <1>4 DEF MiningInv, MiningTyped
  <1>6. Numbered'
    BY <1>1, <1>n, <1>2, <1>4 DEF MiningInv, Numbered
  <1>7. LeftIsSilent'
    <2>1. remaining' = { r \in Records :
                           /\ \A i \in 1 .. n : list[i].cond \notin corpus[r].holds
                           /\ f \notin corpus[r].holds }
      BY <1>n, <1>3 DEF MiningInv, LeftIsSilent, Matched
    <2>2. \A r \in Records :
            (\A i \in 1 .. n + 1 : list'[i].cond \notin corpus[r].holds)
              <=> /\ \A i \in 1 .. n : list[i].cond \notin corpus[r].holds
                  /\ f \notin corpus[r].holds
      <3>1. TAKE r \in Records
      <3>2. 1 .. n + 1 = (1 .. n) \cup {n + 1}
        BY <1>1
      <3>3. list'[n + 1].cond = f
        BY <1>2, <1>4
      <3>4. \A i \in 1 .. n : list'[i].cond = list[i].cond
        BY <1>4
      <3>5. QED
        BY <3>2, <3>3, <3>4
    <2>3. QED
      BY <1>4, <2>1, <2>2 DEF LeftIsSilent
  <1>8. \A i \in 1 .. n : Takes(i)' = Takes(i)
    <2>1. TAKE i \in 1 .. n
    <2>2. i \in Nat /\ list'[i] = list[i] /\ \A j \in 1 .. i - 1 : j \in 1 .. n
      BY <1>1, <1>4
    <2>3. \A j \in 1 .. i - 1 : list'[j] = list[j]
      BY <1>4, <2>2
    <2>4. corpus' = corpus
      OBVIOUS
    <2>5. QED
      BY <2>2, <2>3, <2>4 DEF Takes
  <1>9. Takes(n + 1)' = Matched(f)
    <2>1. Takes(n + 1)' = { r \in Records :
                              /\ f \in corpus[r].holds
                              /\ \A j \in 1 .. n : list[j].cond \notin corpus[r].holds }
      BY <1>1, <1>2, <1>4 DEF Takes
    <2>2. QED
      BY <1>n, <2>1 DEF MiningInv, LeftIsSilent, Matched
  <1>10. Counted'
    <2>1. \A i \in 1 .. n :
            /\ list'[i].cov = Cardinality({ r \in Takes(i) : corpus'[r].act = list'[i].act })
            /\ list'[i].ctr = Cardinality({ r \in Takes(i) : corpus'[r].act # list'[i].act })
      <3> SUFFICES ASSUME NEW i \in 1 .. n
                   PROVE  /\ list'[i].cov = Cardinality({ r \in Takes(i) : corpus'[r].act = list'[i].act })
                          /\ list'[i].ctr = Cardinality({ r \in Takes(i) : corpus'[r].act # list'[i].act })
        OBVIOUS
      <3>1. list'[i] = list[i] /\ corpus' = corpus
        BY <1>4
      <3>2. /\ list[i].cov = Cardinality({ r \in Takes(i) : corpus[r].act = list[i].act })
            /\ list[i].ctr = Cardinality({ r \in Takes(i) : corpus[r].act # list[i].act })
        BY <1>n DEF MiningInv, Counted
      <3>3. QED
        BY <3>1, <3>2
    <2>2. /\ list'[n + 1].cov
               = Cardinality({ r \in Matched(f) : corpus'[r].act = list'[n + 1].act })
          /\ list'[n + 1].ctr
               = Cardinality({ r \in Matched(f) : corpus'[r].act # list'[n + 1].act })
      BY <1>2, <1>4 DEF Correct, Counter
    <2>3. \A i \in 1 .. n + 1 : i \in 1 .. n \/ i = n + 1
      OBVIOUS
    <2>4. ASSUME NEW i \in 1 .. n + 1
          PROVE  /\ list'[i].cov = Cardinality({ r \in Takes(i)' : corpus'[r].act = list'[i].act })
                 /\ list'[i].ctr = Cardinality({ r \in Takes(i)' : corpus'[r].act # list'[i].act })
      <3>1. CASE i \in 1 .. n
        <4>1. Takes(i)' = Takes(i)
          BY <1>8, <3>1
        <4>2. QED
          BY <2>1, <3>1, <4>1
      <3>2. CASE i = n + 1
        BY <1>9, <2>2, <3>2
      <3>3. QED
        BY <2>3, <3>1, <3>2
    <2>5. QED
      BY <1>4, <2>4 DEF Counted
  <1>11. Supported'
    BY <1>1, <1>n, <1>2, <1>4 DEF MiningInv, Supported
  <1>12. QED
    BY <1>5, <1>6, <1>7, <1>10, <1>11 DEF MiningInv

LEMMA MiningInitInvariant == MiningInit => MiningInv
  BY DEF MiningInit, MiningInv, MiningTyped, Numbered, LeftIsSilent, Counted, Supported

LEMMA QuietKeeps ==
  ASSUME MiningInv, UNCHANGED << corpus, minCov, remaining, list >>
  PROVE  MiningInv'
  BY DEF MiningInv, MiningTyped, Numbered, LeftIsSilent, Counted, Supported, Takes

\* The invariant holds whoever proposes and whatever the corpus is.
THEOREM MiningInvariance == MiningSpec => []MiningInv
  <1>1. MiningInit => MiningInv
    BY MiningInitInvariant
  <1>2. MiningInv /\ [MiningNext]_MiningVars => MiningInv'
    <2> SUFFICES ASSUME MiningInv, [MiningNext]_MiningVars PROVE MiningInv'
      OBVIOUS
    <2>1. CASE MineRule
      <3>1. PICK p \in Worthwhile : Accept(p[1], p[2])
        BY <2>1 DEF MineRule
      <3>2. p[1] \in Features /\ p[2] \in Actions /\ Correct(p[1], p[2]) >= minCov
        BY DEF Worthwhile
      <3>3. minCov \in Nat \ {0}
        BY MiningAssumption DEF MiningInv, MiningTyped
      <3>4. Correct(p[1], p[2]) > 0
        BY <3>2, <3>3, SizesAreNat DEF MiningInv
      <3>5. QED
        BY <2>1, <3>1, <3>2, <3>4, AcceptKeeps DEF MineRule
    <2>2. CASE MinerEnds
      BY <2>2, QuietKeeps DEF MinerEnds
    <2>3. ASSUME NEW f \in Features \cup {0}, NEW a \in Actions \cup {0}, Validate(f, a)
          PROVE  MiningInv'
      <3>1. CASE f \in Features /\ a \in Actions /\ Correct(f, a) > 0
        BY <2>3, <3>1, AcceptKeeps DEF Validate
      <3>2. CASE ~(f \in Features /\ a \in Actions /\ Correct(f, a) > 0)
        BY <2>3, <3>2, QuietKeeps DEF Validate
      <3>3. QED
        BY <3>1, <3>2
    <2>4. CASE ProposalsEnd
      BY <2>4, QuietKeeps DEF ProposalsEnd
    <2>5. CASE ApproveClean
      BY <2>5, QuietKeeps DEF ApproveClean
    <2>6. CASE UNCHANGED MiningVars
      BY <2>6, QuietKeeps DEF MiningVars
    <2>7. QED
      BY <2>1, <2>2, <2>3, <2>4, <2>5, <2>6 DEF MiningNext
  <1>3. QED
    BY <1>1, <1>2, PTL DEF MiningSpec

-----------------------------------------------------------------------------
(* What follows from it.                                                   *)

\* Priorities put the list in the order it was mined in.
LEMMA OrderIsListOrder ==
  ASSUME MiningInv, NEW i \in 1 .. Len(list), NEW j \in 1 .. Len(list)
  PROVE  Before(list, j, i) <=> j < i
  <1>1. list[i].prio = i - 1 /\ list[j].prio = j - 1
    BY DEF MiningInv, Numbered
  <1>2. QED
    BY <1>1 DEF Before

LEMMA DomainIsRange ==
  ASSUME MiningInv
  PROVE  DOMAIN list = 1 .. Len(list) /\ Len(list) \in Nat
  BY DEF MiningInv, MiningTyped

\* Compiled alone or among others, a rule plays at least what it took.
LEMMA TakesIsPlayed ==
  ASSUME MiningInv, NEW A \in SUBSET DOMAIN list, NEW i \in A
  PROVE  Takes(i) \subseteq Played(A, i)
  BY OrderIsListOrder, DomainIsRange DEF Played, Answers, Takes

\* In the whole list it plays just that.
LEMMA PlayedIsTakes ==
  ASSUME MiningInv, NEW i \in DOMAIN list
  PROVE  Played(DOMAIN list, i) = Takes(i)
  <1>1. \A j \in DOMAIN list : Before(list, j, i) <=> j \in 1 .. i - 1
    BY OrderIsListOrder, DomainIsRange
  <1>2. 1 .. i - 1 \subseteq DOMAIN list
    BY DomainIsRange
  <1>3. QED
    BY <1>1, <1>2 DEF Played, Answers, Takes

\* Coverage and counterexamples of every rule, counted along the way on a
\* shrinking pool, are those of the whole list replayed over the whole corpus.
THEOREM ClaimsHoldHolds == MiningSpec => []ClaimsHold
  <1>1. ASSUME MiningInv PROVE ClaimsHold
    <2>1. ASSUME NEW i \in DOMAIN list
          PROVE  /\ list[i].cov = Cardinality(PlayedAsRecorded(DOMAIN list, i))
                 /\ list[i].ctr = Cardinality(Played(DOMAIN list, i) \ PlayedAsRecorded(DOMAIN list, i))
      <3>1. /\ PlayedAsRecorded(DOMAIN list, i) = { r \in Takes(i) : corpus[r].act = list[i].act }
            /\ Played(DOMAIN list, i) \ PlayedAsRecorded(DOMAIN list, i)
                 = { r \in Takes(i) : corpus[r].act # list[i].act }
        BY <1>1, PlayedIsTakes DEF PlayedAsRecorded
      <3>2. QED
        BY <1>1, <3>1, DomainIsRange DEF MiningInv, Counted
    <2>2. remaining = { r \in Records : Silent(list, DOMAIN list, corpus[r].holds) }
      BY <1>1, DomainIsRange DEF MiningInv, LeftIsSilent, Silent
    <2>3. QED
      BY <2>1, <2>2 DEF ClaimsHold
  <1>2. QED
    BY <1>1, MiningInvariance, PTL

\* Whichever rules are approved, each plays at least as many records as recorded
\* as its coverage says.
THEOREM SubsetKeepsCoverageHolds == MiningSpec => []SubsetKeepsCoverage
  <1>1. ASSUME MiningInv PROVE SubsetKeepsCoverage
    <2> SUFFICES ASSUME NEW A \in SUBSET DOMAIN list, NEW i \in A
                 PROVE  Cardinality(PlayedAsRecorded(A, i)) >= list[i].cov
      BY DEF SubsetKeepsCoverage
    <2> DEFINE less == { r \in Takes(i) : corpus[r].act = list[i].act }
               more == PlayedAsRecorded(A, i)
    <2>1. less \subseteq more
      BY <1>1, TakesIsPlayed DEF PlayedAsRecorded
    <2>2. more \in SUBSET Records
      BY DEF PlayedAsRecorded, Played
    <2>3. Cardinality(less) <= Cardinality(more)
      BY <2>1, <2>2, CountIsNat, FS_Subset
    <2>4. list[i].cov = Cardinality(less)
      BY <1>1, DomainIsRange DEF MiningInv, Counted
    <2>5. Cardinality(less) \in Nat /\ Cardinality(more) \in Nat
      BY <2>1, <2>2, CountIsNat
    <2> HIDE DEF less, more
    <2>6. Cardinality(more) >= list[i].cov
      BY <2>3, <2>4, <2>5
    <2>7. QED
      BY <2>6 DEF more
  <1>2. QED
    BY <1>1, MiningInvariance, PTL

\* A round has at most one rule per condition, numbered in order and supported.
THEOREM RoundIsDistinctHolds == MiningSpec => []RoundIsDistinct
  <1>1. ASSUME MiningInv PROVE RoundIsDistinct
    <2>1. ASSUME NEW i \in DOMAIN list, NEW j \in DOMAIN list, j < i
          PROVE  list[i].cond # list[j].cond
      <3>1. Cardinality({ r \in Takes(i) : corpus[r].act = list[i].act }) > 0
        BY <1>1, DomainIsRange DEF MiningInv, Counted, Supported
      <3>2. PICK r : r \in Takes(i)
        BY <3>1, FS_EmptySet
      <3>3. j \in 1 .. i - 1
        BY <1>1, <2>1, DomainIsRange
      <3>4. QED
        BY <3>2, <3>3 DEF Takes
    <2>2. \A i, j \in DOMAIN list : i # j => i < j \/ j < i
      BY <1>1, DomainIsRange
    <2>3. \A i \in DOMAIN list : list[i].prio = i - 1 /\ list[i].cov > 0
      BY <1>1, DomainIsRange DEF MiningInv, Numbered, Supported
    <2>4. QED
      BY <2>1, <2>2, <2>3 DEF RoundIsDistinct
  <1>2. QED
    BY <1>1, MiningInvariance, PTL

-----------------------------------------------------------------------------
(***************************************************************************)
(* The library of a behaviour                                              *)
(***************************************************************************)

(* Types.                                                                  *)

ChipSet ==
  [ cond : Features, act : Actions, prio : Nat, cov : Nat, ctr : Nat, status : Statuses ]

LibraryTyped ==
  /\ file \in { Absent, Torn } \/ \E chips \in Seq(ChipSet) : file = Holding(chips)
  /\ version \in Nat
  /\ editor \in [ phase : { "down", "up", "writing" }, chips : Seq(ChipSet), base : 0 .. version ]
  /\ merger \in [ phase : { "idle", "merging", "writing" }, chips : Seq(ChipSet),
                  base : 0 .. version, todo : Seq(Candidates) ]
  /\ merges \in 0 .. MaxMerges /\ clicks \in 0 .. MaxClicks
  /\ asked \subseteq Keys
  /\ decided \in [ Keys -> SUBSET Statuses ]
  /\ raced \in BOOLEAN

\* A library, an empty one or a torn text are told apart.
LEMMA FileKinds ==
  ASSUME NEW chips
  PROVE  /\ Holding(chips) # Absent
         /\ Holding(chips) # Torn
         /\ Absent # Torn
         /\ Holding(chips).chips = chips
  BY SMT DEF Holding, Absent, Torn

LEMMA StoredTyped ==
  ASSUME LibraryTyped
  PROVE  /\ Stored \in Seq(ChipSet)
         /\ file \notin { Absent, Torn } => file = Holding(Stored) /\ Stored = file.chips
         /\ file = Absent => Stored = << >>
  BY FileKinds DEF LibraryTyped, Stored

\* A new chip is a candidate's, undecided.
LEMMA NewChipTyped ==
  ASSUME NEW c \in Candidates
  PROVE  NewChip(c) \in ChipSet /\ Key(NewChip(c)) = Key(c) /\ NewChip(c).status = "candidate"
  BY DEF Candidates, NewChip, ChipSet, Statuses, Key

LEMMA KeyTyped ==
  ASSUME NEW c \in ChipSet
  PROVE  Key(c) \in Keys
  BY DEF ChipSet, Key, Keys

\* Merging one candidate leaves the list as it is or adds the candidate's chip.
LEMMA MergedCases ==
  ASSUME NEW chips \in Seq(ChipSet), NEW c \in Candidates
  PROVE  \/ Merged(chips, c) = chips
         \/ /\ Merged(chips, c) = Append(chips, NewChip(c))
            /\ \A i \in DOMAIN chips : Key(chips[i]) # Key(c)
  BY DEF Merged

LEMMA MergedTyped ==
  ASSUME NEW chips \in Seq(ChipSet), NEW c \in Candidates
  PROVE  Merged(chips, c) \in Seq(ChipSet)
  <1>1. NewChip(c) \in ChipSet
    BY NewChipTyped
  <1>2. Append(chips, NewChip(c)) \in Seq(ChipSet)
    BY <1>1
  <1>3. QED
    BY <1>2, MergedCases

\* A decision changes one chip's status.
LEMMA DecidedTyped ==
  ASSUME LibraryTyped, NEW i \in DOMAIN editor.chips, NEW status \in Statuses
  PROVE  /\ Decided(i, status) \in Seq(ChipSet)
         /\ DOMAIN Decided(i, status) = DOMAIN editor.chips
         /\ Key(editor.chips[i]) \in Keys
         /\ \A j \in DOMAIN editor.chips :
              /\ Key(Decided(i, status)[j]) = Key(editor.chips[j])
              /\ Decided(i, status)[j].status = IF j = i THEN status ELSE editor.chips[j].status
  <1> DEFINE chips == editor.chips
  <1>1. chips \in Seq(ChipSet) /\ DOMAIN chips = 1 .. Len(chips) /\ Len(chips) \in Nat
    BY DEF LibraryTyped
  <1>2. \A j \in DOMAIN chips : chips[j] \in ChipSet
    BY <1>1
  <1>3. [ chips[i] EXCEPT !.status = status ] \in ChipSet
    BY <1>2 DEF ChipSet
  <1>4. Decided(i, status) = [ j \in DOMAIN chips |->
                                IF j = i THEN [ chips[i] EXCEPT !.status = status ] ELSE chips[j] ]
    BY <1>1 DEF Decided
  <1> HIDE DEF chips
  <1>5. Decided(i, status) \in [ 1 .. Len(chips) -> ChipSet ]
    BY <1>1, <1>2, <1>3, <1>4
  <1>6. Decided(i, status) \in Seq(ChipSet)
    BY <1>1, <1>5
  <1>7. /\ Key([ chips[i] EXCEPT !.status = status ]) = Key(chips[i])
        /\ [ chips[i] EXCEPT !.status = status ].status = status
    BY <1>2 DEF Key, ChipSet, chips
  <1>8. Key(chips[i]) \in Keys
    BY <1>2, KeyTyped DEF chips
  <1>9. QED
    BY <1>4, <1>6, <1>7, <1>8 DEF chips

-----------------------------------------------------------------------------
(* Approval.                                                               *)

\* One chip per key, approved only on request.
Human(chips, requests) ==
  /\ \A i \in DOMAIN chips : chips[i].status = "approved" => Key(chips[i]) \in requests
  /\ \A i, j \in DOMAIN chips : Key(chips[i]) = Key(chips[j]) => i = j

AllHuman == Human(Stored, asked) /\ Human(editor.chips, asked) /\ Human(merger.chips, asked)

LEMMA EmptyHuman == ASSUME NEW requests PROVE Human(<< >>, requests)
  BY DEF Human

LEMMA HumanGrows ==
  ASSUME NEW chips, NEW r1, NEW r2, Human(chips, r1), r1 \subseteq r2
  PROVE  Human(chips, r2)
  BY DEF Human

\* Merging adds only keys that are new, undecided.
LEMMA MergedHuman ==
  ASSUME NEW chips \in Seq(ChipSet), NEW c \in Candidates, NEW requests, Human(chips, requests)
  PROVE  Human(Merged(chips, c), requests)
  <1>1. CASE Merged(chips, c) = chips
    BY <1>1
  <1>2. CASE /\ Merged(chips, c) = Append(chips, NewChip(c))
             /\ \A i \in DOMAIN chips : Key(chips[i]) # Key(c)
    <2> DEFINE m == Merged(chips, c)
    <2>1. /\ NewChip(c) \in ChipSet /\ Key(NewChip(c)) = Key(c)
          /\ NewChip(c).status # "approved"
      BY NewChipTyped
    <2>2. /\ DOMAIN m = DOMAIN chips \cup { Len(chips) + 1 }
          /\ Len(chips) + 1 \notin DOMAIN chips
          /\ m[Len(chips) + 1] = NewChip(c)
          /\ \A i \in DOMAIN chips : m[i] = chips[i]
      BY <1>2, <2>1
    <2> HIDE DEF m
    <2>3. QED
      BY <1>2, <2>1, <2>2 DEF Human, m
  <1>3. QED
    BY <1>1, <1>2, MergedCases

\* A decision approves what it asks for.
LEMMA DecidedHuman ==
  ASSUME LibraryTyped, NEW i \in DOMAIN editor.chips, NEW status \in Statuses, Human(editor.chips, asked)
  PROVE  Human(Decided(i, status),
               IF status = "approved" THEN asked \cup {Key(editor.chips[i])} ELSE asked)
  BY DecidedTyped DEF Human

-----------------------------------------------------------------------------
(* Decisions.                                                              *)

HasKey(chips, k) == \E i \in DOMAIN chips : Key(chips[i]) = k

\* A list keeps every decision: the chip is there, in a state it may be in.
Keeps(chips, d) ==
  /\ \A k \in Keys : d[k] # { "candidate" } => HasKey(chips, k)
  /\ \A i \in DOMAIN chips : chips[i].status \in d[Key(chips[i])]

Covers(chips, other) == \A i \in DOMAIN other : HasKey(chips, Key(other[i]))

Merging == merger.phase # "idle" /\ merger.base = version
Editing == editor.phase # "down" /\ editor.base = version

\* Whoever stands on the last version keeps every decision and every chip the
\* editor shows, and so does the file.
NothingLost ==
  ~raced => /\ file # Torn => Keeps(Stored, decided) /\ Covers(Stored, editor.chips)
            /\ Merging => /\ Keeps(merger.chips, decided)
                          /\ Covers(merger.chips, editor.chips)
                          /\ file # Torn => Covers(merger.chips, Stored)
            /\ Editing => Keeps(editor.chips, decided)

\* A process that is not up holds nothing, a file being written is torn.
LibraryPhases ==
  /\ editor.phase = "down" => editor.chips = << >>
  /\ merger.phase = "idle" => merger.chips = << >>
  /\ merger.phase = "writing" /\ merger.base = version => file = Torn
  /\ editor.phase = "writing" /\ editor.base = version => file = Torn

LEMMA CoversIsAnOrder ==
  /\ \A a : Covers(a, a)
  /\ \A a, b, c : Covers(a, b) /\ Covers(b, c) => Covers(a, c)
  BY Zenon DEF Covers, HasKey

LEMMA KeepsStanding ==
  ASSUME LibraryTyped, Keeps(Stored, decided)
  PROVE  Standing
  BY DEF Keeps, HasKey, Standing

LEMMA MergedKeeps ==
  ASSUME NEW chips \in Seq(ChipSet), NEW c \in Candidates, NEW d, Keeps(chips, d)
  PROVE  Keeps(Merged(chips, c), d) /\ Covers(Merged(chips, c), chips)
  <1> DEFINE m == Merged(chips, c)
  <1>1. CASE m = chips
    BY <1>1 DEF Covers, HasKey
  <1>2. CASE /\ m = Append(chips, NewChip(c))
             /\ \A i \in DOMAIN chips : Key(chips[i]) # Key(c)
    <2>1. /\ NewChip(c) \in ChipSet /\ Key(NewChip(c)) = Key(c)
          /\ NewChip(c).status = "candidate"
      BY NewChipTyped
    <2>2. /\ DOMAIN m = DOMAIN chips \cup { Len(chips) + 1 }
          /\ m[Len(chips) + 1] = NewChip(c)
          /\ \A i \in DOMAIN chips : m[i] = chips[i]
      BY <1>2, <2>1
    <2>3. d[Key(c)] = { "candidate" }
      BY <1>2, <2>1, KeyTyped DEF Keeps, HasKey
    <2> HIDE DEF m
    <2>4. \A k \in Keys : d[k] # { "candidate" } => HasKey(m, k)
      BY <2>2 DEF Keeps, HasKey
    <2>5. \A i \in DOMAIN m : m[i].status \in d[Key(m[i])]
      BY <2>1, <2>2, <2>3 DEF Keeps
    <2>6. Covers(m, chips)
      BY <2>2 DEF Covers, HasKey
    <2>7. QED
      BY <2>4, <2>5, <2>6 DEF Keeps, m
  <1>3. QED
    BY <1>1, <1>2, MergedCases

\* A decision that is written: the editor's copy keeps it.
LEMMA ClickKeeps ==
  ASSUME LibraryTyped, NEW i \in DOMAIN editor.chips, NEW status \in Statuses,
         Human(editor.chips, asked), Keeps(editor.chips, decided)
  PROVE  Keeps(Decided(i, status), [ decided EXCEPT ![Key(editor.chips[i])] = { status } ])
  <1> DEFINE d == [ decided EXCEPT ![Key(editor.chips[i])] = { status } ]
             chips == Decided(i, status)
  <1>1. /\ DOMAIN chips = DOMAIN editor.chips
        /\ Key(editor.chips[i]) \in Keys
        /\ \A j \in DOMAIN editor.chips :
             /\ Key(chips[j]) = Key(editor.chips[j])
             /\ chips[j].status = IF j = i THEN status ELSE editor.chips[j].status
    BY DecidedTyped
  <1>2. \A k \in Keys : d[k] = IF k = Key(editor.chips[i]) THEN { status } ELSE decided[k]
    BY DEF LibraryTyped
  <1>3. \A j \in DOMAIN editor.chips : Key(editor.chips[j]) \in Keys
    <2>1. editor.chips \in Seq(ChipSet)
      BY DEF LibraryTyped
    <2>2. QED
      BY <2>1, KeyTyped
  <1> HIDE DEF d, chips
  <1>4. \A k \in Keys : d[k] # { "candidate" } => HasKey(chips, k)
    BY <1>1, <1>2 DEF Keeps, HasKey
  <1>5. \A j \in DOMAIN chips : chips[j].status \in d[Key(chips[j])]
    BY <1>1, <1>2, <1>3 DEF Keeps, Human
  <1>6. QED
    BY <1>4, <1>5 DEF Keeps, d, chips

\* A decision that is not: every list with the chip may still have either state.
LEMMA ClickFailsKeeps ==
  ASSUME LibraryTyped, NEW i \in DOMAIN editor.chips, NEW status \in Statuses,
         NEW chips \in Seq(ChipSet), Keeps(chips, decided), Covers(chips, editor.chips)
  PROVE  Keeps(chips, [ decided EXCEPT ![Key(editor.chips[i])] = @ \cup { status } ])
  <1> DEFINE d == [ decided EXCEPT ![Key(editor.chips[i])] = @ \cup { status } ]
  <1>1. \A k \in Keys :
          d[k] = IF k = Key(editor.chips[i]) THEN decided[k] \cup { status } ELSE decided[k]
    BY DEF LibraryTyped
  <1>2. \A j \in DOMAIN chips : Key(chips[j]) \in Keys
    BY KeyTyped
  <1> HIDE DEF d
  <1>3. \A k \in Keys : d[k] # { "candidate" } => HasKey(chips, k)
    BY <1>1 DEF Keeps, Covers
  <1>4. QED
    BY <1>1, <1>2, <1>3 DEF Keeps, d

LEMMA ClickFailsOwn ==
  ASSUME LibraryTyped, NEW i \in DOMAIN editor.chips, NEW status \in Statuses,
         Keeps(editor.chips, decided)
  PROVE  Keeps(Decided(i, status), [ decided EXCEPT ![Key(editor.chips[i])] = @ \cup { status } ])
  <1> DEFINE d == [ decided EXCEPT ![Key(editor.chips[i])] = @ \cup { status } ]
             chips == Decided(i, status)
  <1>1. /\ DOMAIN chips = DOMAIN editor.chips
        /\ Key(editor.chips[i]) \in Keys
        /\ \A j \in DOMAIN editor.chips :
             /\ Key(chips[j]) = Key(editor.chips[j])
             /\ chips[j].status = IF j = i THEN status ELSE editor.chips[j].status
    BY DecidedTyped
  <1>2. \A k \in Keys :
          d[k] = IF k = Key(editor.chips[i]) THEN decided[k] \cup { status } ELSE decided[k]
    BY DEF LibraryTyped
  <1>3. \A j \in DOMAIN editor.chips : Key(editor.chips[j]) \in Keys
    <2>1. editor.chips \in Seq(ChipSet)
      BY DEF LibraryTyped
    <2>2. QED
      BY <2>1, KeyTyped
  <1> HIDE DEF d, chips
  <1>4. \A k \in Keys : d[k] # { "candidate" } => HasKey(chips, k)
    BY <1>1, <1>2 DEF Keeps, HasKey
  <1>5. \A j \in DOMAIN chips : chips[j].status \in d[Key(chips[j])]
    BY <1>1, <1>2, <1>3 DEF Keeps
  <1>6. QED
    BY <1>4, <1>5 DEF Keeps, d, chips

-----------------------------------------------------------------------------
(* The inductive invariant.                                                *)

LibraryInv == LibraryTyped /\ AllHuman /\ LibraryPhases /\ NothingLost

LEMMA LibraryInitInvariant == LibraryInit => LibraryInv
  <1> SUFFICES ASSUME LibraryInit PROVE LibraryInv
    OBVIOUS
  <1>1. LibraryTyped
    <2>1. << >> \in Seq(ChipSet) /\ << >> \in Seq(Candidates)
      OBVIOUS
    <2>2. decided \in [ Keys -> SUBSET Statuses ]
      BY DEF LibraryInit, Statuses
    <2>3. /\ editor = [ phase |-> "down", chips |-> << >>, base |-> 0 ]
          /\ merger = [ phase |-> "idle", chips |-> << >>, base |-> 0, todo |-> << >> ]
          /\ version = 0 /\ merges = 0 /\ clicks = 0 /\ asked = {} /\ raced = FALSE
          /\ file = Absent
      BY DEF LibraryInit
    <2>4. editor \in [ phase : { "down", "up", "writing" }, chips : Seq(ChipSet), base : 0 .. version ]
      BY <2>1, <2>3
    <2>5. merger \in [ phase : { "idle", "merging", "writing" }, chips : Seq(ChipSet),
                      base : 0 .. version, todo : Seq(Candidates) ]
      BY <2>1, <2>3
    <2>6. version \in Nat /\ merges \in 0 .. MaxMerges /\ clicks \in 0 .. MaxClicks
      BY <2>3, LibraryAssumption
    <2>7. QED
      BY <2>2, <2>3, <2>4, <2>5, <2>6 DEF LibraryTyped
  <1>2. Stored = << >>
    BY <1>1, StoredTyped DEF LibraryInit
  <1>3. AllHuman
    BY <1>2, EmptyHuman DEF LibraryInit, AllHuman
  <1>4. LibraryPhases
    BY DEF LibraryInit, LibraryPhases
  <1>5. NothingLost
    BY <1>2 DEF LibraryInit, NothingLost, Keeps, Covers, HasKey, Merging, Editing
  <1>6. QED
    BY <1>1, <1>3, <1>4, <1>5 DEF LibraryInv

\* The file as a step leaves it.
LEMMA FileUntouched ==
  ASSUME UNCHANGED file
  PROVE  Stored' = Stored
  BY DEF Stored

LEMMA FileEmptied ==
  ASSUME file' = Torn
  PROVE  Stored' = << >>
  BY DEF Stored

LEMMA FileFilled ==
  ASSUME NEW chips \in Seq(ChipSet), file' \in Filled(chips)
  PROVE  /\ \/ file' = Torn /\ Stored' = << >>
            \/ file' = Holding(chips) /\ file' # Torn /\ Stored' = chips
         /\ file' \in { Absent, Torn } \/ file' = Holding(chips)
  BY FileKinds DEF Filled, Stored

LEMMA MergeReadsKeeps ==
  ASSUME LibraryInv, NEW round \in Rounds, MergeReads(round)
  PROVE  LibraryInv'
  <1>1. /\ merger' = [ phase |-> "merging", base |-> version, todo |-> round, chips |-> Stored ]
        /\ file # Torn
    BY FileKinds, StoredTyped DEF MergeReads, LibraryInv
  <1>2. Stored \in Seq(ChipSet) /\ Stored' = Stored
    BY FileUntouched, StoredTyped DEF MergeReads, LibraryInv
  <1>3. LibraryTyped'
    BY <1>1, <1>2, LibraryAssumption DEF MergeReads, LibraryInv, LibraryTyped
  <1>4. AllHuman'
    BY <1>1, <1>2 DEF MergeReads, LibraryInv, AllHuman
  <1>5. LibraryPhases'
    BY <1>1 DEF MergeReads, LibraryInv, LibraryPhases
  <1>6. NothingLost'
    BY <1>1, <1>2, CoversIsAnOrder DEF MergeReads, LibraryInv, NothingLost, Merging, Editing
  <1>7. QED
    BY <1>3, <1>4, <1>5, <1>6 DEF LibraryInv

LEMMA MergeOneKeeps ==
  ASSUME LibraryInv, MergeOne
  PROVE  LibraryInv'
  <1> DEFINE c == Head(merger.todo)
  <1>1. c \in Candidates /\ merger.chips \in Seq(ChipSet) /\ Tail(merger.todo) \in Seq(Candidates)
    BY DEF MergeOne, LibraryInv, LibraryTyped
  <1>2. /\ merger' = [ phase |-> merger.phase, base |-> merger.base, todo |-> Tail(merger.todo),
                       chips |-> Merged(merger.chips, c) ]
    BY DEF MergeOne, LibraryInv, LibraryTyped
  <1>3. Merged(merger.chips, c) \in Seq(ChipSet)
    BY <1>1, MergedTyped
  <1>4. /\ Stored' = Stored
        /\ UNCHANGED << file, version, editor, merges, clicks, asked, decided, raced >>
        /\ merger.phase # "idle"
    BY FileUntouched DEF MergeOne
  <1> HIDE DEF c
  <1>5. LibraryTyped'
    BY <1>1, <1>2, <1>3, <1>4 DEF LibraryInv, LibraryTyped
  <1>6. AllHuman'
    <2>1. Human(Merged(merger.chips, c), asked)
      BY <1>1, MergedHuman DEF LibraryInv, AllHuman
    <2>2. QED
      BY <1>2, <1>4, <2>1 DEF LibraryInv, AllHuman
  <1>7. LibraryPhases'
    BY <1>2, <1>4 DEF LibraryInv, LibraryPhases
  <1>8. NothingLost'
    <2>1. Keeps(merger.chips, decided)
            => /\ Keeps(Merged(merger.chips, c), decided)
               /\ Covers(Merged(merger.chips, c), merger.chips)
      BY <1>1, MergedKeeps
    <2>2. \A other : Covers(Merged(merger.chips, c), merger.chips) /\ Covers(merger.chips, other)
                      => Covers(Merged(merger.chips, c), other)
      BY CoversIsAnOrder
    <2>3. /\ merger'.chips = Merged(merger.chips, c)
          /\ merger'.phase = merger.phase /\ merger'.base = merger.base
      BY <1>2
    <2> HIDE DEF c
    <2>4. QED
      BY <1>4, <2>1, <2>2, <2>3 DEF LibraryInv, NothingLost, Merging, Editing
  <1>9. QED
    BY <1>5, <1>6, <1>7, <1>8 DEF LibraryInv

LEMMA MergeEmptiesKeeps ==
  ASSUME LibraryInv, MergeEmpties
  PROVE  LibraryInv'
  <1>1. /\ merger' = [ phase |-> "writing", base |-> version + 1, todo |-> merger.todo,
                       chips |-> merger.chips ]
        /\ file' = Torn /\ version' = version + 1 /\ Stored' = << >>
        /\ raced' = (raced \/ merger.base # version)
        /\ UNCHANGED << editor, merges, clicks, asked, decided >>
    BY FileEmptied DEF MergeEmpties, Emptied, LibraryInv, LibraryTyped
  <1>2. LibraryTyped'
    BY <1>1 DEF LibraryInv, LibraryTyped
  <1>3. AllHuman'
    BY <1>1, EmptyHuman DEF LibraryInv, AllHuman
  <1>4. ~Editing'
    BY <1>1 DEF Editing, LibraryInv, LibraryTyped
  <1>5. LibraryPhases'
    BY <1>1, <1>4 DEF LibraryInv, LibraryPhases, Editing
  <1>6. NothingLost'
    BY <1>1, <1>4 DEF MergeEmpties, LibraryInv, NothingLost, Merging
  <1>7. QED
    BY <1>2, <1>3, <1>5, <1>6 DEF LibraryInv

LEMMA MergeFillsKeeps ==
  ASSUME LibraryInv, MergeFills
  PROVE  LibraryInv'
  <1>1. /\ merger' = [ phase |-> "idle", base |-> 0, todo |-> merger.todo, chips |-> << >> ]
        /\ version' = version + 1
        /\ raced' = (raced \/ merger.base # version)
        /\ UNCHANGED << editor, merges, clicks, asked, decided >>
    BY DEF MergeFills, LibraryInv, LibraryTyped
  <1>2. merger.chips \in Seq(ChipSet)
    BY DEF LibraryInv, LibraryTyped
  <1>3. /\ \/ file' = Torn /\ Stored' = << >>
           \/ file' = Holding(merger.chips) /\ file' # Torn /\ Stored' = merger.chips
        /\ file' \in { Absent, Torn } \/ file' = Holding(merger.chips)
    BY <1>2, FileFilled DEF MergeFills
  <1>4. LibraryTyped'
    BY <1>1, <1>2, <1>3 DEF LibraryInv, LibraryTyped
  <1>5. AllHuman'
    BY <1>1, <1>3, EmptyHuman DEF LibraryInv, AllHuman
  <1>6. ~Editing' /\ ~Merging'
    BY <1>1 DEF Editing, Merging, LibraryInv, LibraryTyped
  <1>7. LibraryPhases'
    BY <1>1, <1>6 DEF LibraryInv, LibraryPhases, Editing
  <1>8. NothingLost'
    BY <1>1, <1>3, <1>6 DEF MergeFills, LibraryInv, NothingLost, Merging
  <1>9. QED
    BY <1>4, <1>5, <1>7, <1>8 DEF LibraryInv

LEMMA EditorOpensKeeps ==
  ASSUME LibraryInv, EditorOpens
  PROVE  LibraryInv'
  <1>1. /\ editor' = [ phase |-> "up", chips |-> Stored, base |-> version ]
        /\ Stored \in Seq(ChipSet) /\ Stored' = Stored
    BY FileUntouched, StoredTyped DEF EditorOpens, LibraryInv
  <1>2. LibraryTyped'
    BY <1>1 DEF EditorOpens, LibraryInv, LibraryTyped
  <1>3. AllHuman'
    BY <1>1 DEF EditorOpens, LibraryInv, AllHuman
  <1>4. LibraryPhases'
    BY <1>1 DEF EditorOpens, LibraryInv, LibraryPhases
  <1>5. NothingLost'
    BY <1>1, CoversIsAnOrder DEF EditorOpens, LibraryInv, NothingLost, Merging, Editing
  <1>6. QED
    BY <1>2, <1>3, <1>4, <1>5 DEF LibraryInv
\* The text of a decision replaces the last version: nobody else stands on it.
LEMMA ClickKeepsInvariant ==
  ASSUME LibraryInv, NEW i \in DOMAIN editor.chips, NEW status \in Statuses, Click(i, status)
  PROVE  LibraryInv'
  <1> DEFINE requests == IF status = "approved" THEN asked \cup {Key(editor.chips[i])} ELSE asked
             chips == Decided(i, status)
             d == [ decided EXCEPT ![Key(editor.chips[i])] = { status } ]
  <1>1. /\ editor' = [ phase |-> "writing", chips |-> chips, base |-> version + 1 ]
        /\ editor.phase = "up"
        /\ file' = Torn /\ version' = version + 1 /\ Stored' = << >>
        /\ raced' = (raced \/ editor.base # version)
        /\ asked' = requests /\ decided' = d
        /\ clicks' = clicks + 1 /\ clicks < MaxClicks
        /\ UNCHANGED << merger, merges >>
    BY FileEmptied DEF Click, Emptied
  <1>2. chips \in Seq(ChipSet) /\ Key(editor.chips[i]) \in Keys
    BY DecidedTyped DEF LibraryInv
  <1>3. d \in [ Keys -> SUBSET Statuses ] /\ requests \subseteq Keys
    BY <1>2 DEF LibraryInv, LibraryTyped
  <1>4. Human(chips, requests)
    BY DecidedHuman DEF LibraryInv, AllHuman
  <1>5. asked \subseteq requests
    OBVIOUS
  <1>6. Keeps(editor.chips, decided) => Keeps(chips, d)
    BY ClickKeeps DEF LibraryInv, AllHuman
  <1> HIDE DEF requests, chips, d
  <1>7. LibraryTyped'
    <2>1. version \in Nat /\ version + 1 \in Nat /\ clicks \in Nat /\ MaxClicks \in Nat
      BY LibraryAssumption DEF LibraryInv, LibraryTyped
    <2>2. editor' \in [ phase : { "down", "up", "writing" }, chips : Seq(ChipSet),
                        base : 0 .. version + 1 ]
      BY <1>1, <1>2, <2>1
    <2>3. merger \in [ phase : { "idle", "merging", "writing" }, chips : Seq(ChipSet),
                       base : 0 .. version + 1, todo : Seq(Candidates) ]
      BY <2>1 DEF LibraryInv, LibraryTyped
    <2>4. clicks' \in 0 .. MaxClicks /\ raced' \in BOOLEAN
      BY <1>1, <2>1 DEF LibraryInv, LibraryTyped
    <2>5. QED
      BY <1>1, <1>3, <2>1, <2>2, <2>3, <2>4 DEF LibraryInv, LibraryTyped
  <1>8. AllHuman'
    BY <1>1, <1>4, <1>5, EmptyHuman, HumanGrows DEF LibraryInv, AllHuman
  <1>9. ~Merging'
    BY <1>1 DEF Merging, LibraryInv, LibraryTyped
  <1>10. LibraryPhases'
    BY <1>1, <1>9 DEF LibraryInv, LibraryPhases, Merging
  <1>11. NothingLost'
    BY <1>1, <1>6, <1>9 DEF LibraryInv, NothingLost, Editing
  <1>12. QED
    BY <1>7, <1>8, <1>10, <1>11 DEF LibraryInv

\* A decision that could not be written leaves the file as it was.
LEMMA ClickFailsKeepsInvariant ==
  ASSUME LibraryInv, NEW i \in DOMAIN editor.chips, NEW status \in Statuses, ClickFails(i, status)
  PROVE  LibraryInv'
  <1> DEFINE requests == IF status = "approved" THEN asked \cup {Key(editor.chips[i])} ELSE asked
             chips == Decided(i, status)
             d == [ decided EXCEPT ![Key(editor.chips[i])] = @ \cup { status } ]
  <1>1. /\ editor' = [ phase |-> "up", chips |-> chips, base |-> editor.base ]
        /\ editor.phase = "up"
        /\ asked' = requests /\ decided' = d
        /\ clicks' = clicks + 1 /\ clicks < MaxClicks
        /\ UNCHANGED << file, version, merger, merges, raced >>
        /\ Stored' = Stored
    BY FileUntouched DEF ClickFails, LibraryInv, LibraryTyped
  <1>2. /\ chips \in Seq(ChipSet) /\ Key(editor.chips[i]) \in Keys
        /\ DOMAIN chips = DOMAIN editor.chips
        /\ \A j \in DOMAIN editor.chips : Key(chips[j]) = Key(editor.chips[j])
    BY DecidedTyped DEF LibraryInv
  <1>3. d \in [ Keys -> SUBSET Statuses ] /\ requests \subseteq Keys
    BY <1>2 DEF LibraryInv, LibraryTyped
  <1>4. Human(chips, requests)
    BY DecidedHuman DEF LibraryInv, AllHuman
  <1>5. asked \subseteq requests
    OBVIOUS
  <1>6. Keeps(editor.chips, decided) => Keeps(chips, d)
    BY ClickFailsOwn DEF LibraryInv
  <1>7. \A other \in Seq(ChipSet) :
          Keeps(other, decided) /\ Covers(other, editor.chips) => Keeps(other, d)
    BY ClickFailsKeeps DEF LibraryInv
  <1>8. \A other : Covers(other, editor.chips) => Covers(other, chips)
    BY <1>2 DEF Covers
  <1> HIDE DEF requests, chips, d
  <1>9. Stored \in Seq(ChipSet) /\ merger.chips \in Seq(ChipSet)
    BY StoredTyped DEF LibraryInv, LibraryTyped
  <1>10. LibraryTyped'
    <2>1. clicks' \in 0 .. MaxClicks
      BY <1>1, LibraryAssumption DEF LibraryInv, LibraryTyped
    <2>2. editor' \in [ phase : { "down", "up", "writing" }, chips : Seq(ChipSet),
                        base : 0 .. version ]
      BY <1>1, <1>2 DEF LibraryInv, LibraryTyped
    <2>3. QED
      BY <1>1, <1>3, <2>1, <2>2 DEF LibraryInv, LibraryTyped
  <1>11. AllHuman'
    BY <1>1, <1>4, <1>5, HumanGrows DEF LibraryInv, AllHuman
  <1>12. LibraryPhases'
    BY <1>1 DEF LibraryInv, LibraryPhases
  <1>13. NothingLost'
    BY <1>1, <1>6, <1>7, <1>8, <1>9 DEF LibraryInv, NothingLost, Editing, Merging
  <1>14. QED
    BY <1>10, <1>11, <1>12, <1>13 DEF LibraryInv

LEMMA EditorFillsKeeps ==
  ASSUME LibraryInv, EditorFills
  PROVE  LibraryInv'
  <1>1. /\ editor' = [ phase |-> "up", chips |-> editor.chips, base |-> version + 1 ]
        /\ editor.phase = "writing"
        /\ version' = version + 1
        /\ raced' = (raced \/ editor.base # version)
        /\ UNCHANGED << merger, merges, clicks, asked, decided >>
    BY DEF EditorFills, LibraryInv, LibraryTyped
  <1>2. editor.chips \in Seq(ChipSet)
    BY DEF LibraryInv, LibraryTyped
  <1>3. /\ \/ file' = Torn /\ Stored' = << >>
           \/ file' = Holding(editor.chips) /\ file' # Torn /\ Stored' = editor.chips
        /\ file' \in { Absent, Torn } \/ file' = Holding(editor.chips)
    BY <1>2, FileFilled DEF EditorFills
  <1>4. LibraryTyped'
    BY <1>1, <1>2, <1>3 DEF LibraryInv, LibraryTyped
  <1>5. AllHuman'
    BY <1>1, <1>3, EmptyHuman DEF LibraryInv, AllHuman
  <1>6. ~Merging'
    BY <1>1 DEF Merging, LibraryInv, LibraryTyped
  <1>7. LibraryPhases'
    BY <1>1, <1>6 DEF LibraryInv, LibraryPhases, Merging
  <1>8. NothingLost'
    BY <1>1, <1>3, <1>6, CoversIsAnOrder DEF LibraryInv, NothingLost, Editing
  <1>9. QED
    BY <1>4, <1>5, <1>7, <1>8 DEF LibraryInv

LEMMA EditorStopsKeeps ==
  ASSUME LibraryInv, EditorStops
  PROVE  LibraryInv'
  <1>1. /\ editor' = [ phase |-> "down", chips |-> << >>, base |-> 0 ]
        /\ UNCHANGED << file, version, merger, merges, clicks, asked, decided, raced >>
        /\ Stored' = Stored
    BY FileUntouched DEF EditorStops
  <1>2. \A chips : Covers(chips, << >>)
    BY DEF Covers
  <1>3. << >> \in Seq(ChipSet)
    OBVIOUS
  <1>4. LibraryTyped'
    BY <1>1, <1>3 DEF LibraryInv, LibraryTyped
  <1>5. AllHuman'
    BY <1>1, EmptyHuman DEF LibraryInv, AllHuman
  <1>6. LibraryPhases'
    BY <1>1 DEF LibraryInv, LibraryPhases
  <1>7. NothingLost'
    BY <1>1, <1>2 DEF LibraryInv, NothingLost, Merging, Editing
  <1>8. QED
    BY <1>4, <1>5, <1>6, <1>7 DEF LibraryInv

\* Nothing happens.
LEMMA StutterKeeps ==
  ASSUME LibraryInv, UNCHANGED LibraryVars
  PROVE  LibraryInv'
  BY DEF LibraryVars, LibraryInv, LibraryTyped, AllHuman, Human, LibraryPhases, NothingLost, Keeps, Covers, HasKey, Merging,
         Editing, Stored

-----------------------------------------------------------------------------
(* The theorems.                                                           *)

\* The invariant holds whatever rounds are merged and whatever is decided.
THEOREM LibraryInvariance == LibrarySpec => []LibraryInv
  <1>1. LibraryInit => LibraryInv
    BY LibraryInitInvariant
  <1>2. LibraryInv /\ [LibraryNext]_LibraryVars => LibraryInv'
    <2> SUFFICES ASSUME LibraryInv, [LibraryNext]_LibraryVars PROVE LibraryInv'
      OBVIOUS
    <2>1. ASSUME NEW round \in Rounds, MergeReads(round) PROVE LibraryInv'
      BY <2>1, MergeReadsKeeps
    <2>2. CASE MergeOne
      BY <2>2, MergeOneKeeps
    <2>3. CASE MergeEmpties
      BY <2>3, MergeEmptiesKeeps
    <2>4. CASE MergeFills
      BY <2>4, MergeFillsKeeps
    <2>5. CASE EditorOpens
      BY <2>5, EditorOpensKeeps
    <2>6. CASE EditorFills
      BY <2>6, EditorFillsKeeps
    <2>7. CASE EditorStops
      BY <2>7, EditorStopsKeeps
    <2>8. ASSUME NEW i \in DOMAIN editor.chips, NEW status \in Statuses, Click(i, status)
          PROVE  LibraryInv'
      BY <2>8, ClickKeepsInvariant
    <2>9. ASSUME NEW i \in DOMAIN editor.chips, NEW status \in Statuses, ClickFails(i, status)
          PROVE  LibraryInv'
      BY <2>9, ClickFailsKeepsInvariant
    <2>10. CASE UNCHANGED LibraryVars
      BY <2>10, StutterKeeps
    <2>11. QED
      BY <2>1, <2>2, <2>3, <2>4, <2>5, <2>6, <2>7, <2>8, <2>9, <2>10 DEF LibraryNext
  <1>3. QED
    BY <1>1, <1>2, PTL DEF LibrarySpec

LEMMA TypedIsTypeOK ==
  ASSUME LibraryTyped
  PROVE  TypeOK
  <1>1. /\ Stored \in Seq(ChipSet) /\ editor.chips \in Seq(ChipSet)
        /\ merger.chips \in Seq(ChipSet)
    BY StoredTyped DEF LibraryTyped
  <1>2. \A chips \in Seq(ChipSet) : \A i \in DOMAIN chips :
          Key(chips[i]) \in Keys /\ chips[i].status \in Statuses
    <2>1. \A c \in ChipSet : Key(c) \in Keys /\ c.status \in Statuses
      BY KeyTyped DEF ChipSet
    <2>2. \A chips \in Seq(ChipSet) : \A i \in DOMAIN chips : chips[i] \in ChipSet
      OBVIOUS
    <2>3. QED
      BY <2>1, <2>2
  <1>3. \A chips \in Copies : \A i \in DOMAIN chips :
          Key(chips[i]) \in Keys /\ chips[i].status \in Statuses
    BY <1>1, <1>2 DEF Copies
  <1>4. file \in { Absent, Torn } \/ file = Holding(Stored)
    BY StoredTyped
  <1>5. QED
    BY <1>3, <1>4 DEF LibraryTyped, TypeOK

\* Every reachable state of the library and its writers is well typed.
THEOREM TypeCorrect == LibrarySpec => []TypeOK
  <1>1. LibraryInv => TypeOK
    BY TypedIsTypeOK DEF LibraryInv
  <1>2. QED
    BY <1>1, LibraryInvariance, PTL

\* No copy of the library holds an approved chip nobody asked to approve, and a
\* key names one chip in each copy.
THEOREM ApprovalIsHumanHolds == LibrarySpec => []ApprovalIsHuman
  <1>1. LibraryInv => ApprovalIsHuman
    BY DEF LibraryInv, AllHuman, Human, ApprovalIsHuman, Copies
  <1>2. QED
    BY <1>1, LibraryInvariance, PTL

\* As long as no writer overwrites what it has not read, every decision stands
\* in the file.
THEOREM DecisionsKeptHolds == LibrarySpec => []DecisionsKept
  <1>1. LibraryInv => DecisionsKept
    BY KeepsStanding DEF LibraryInv, NothingLost, DecisionsKept
  <1>2. QED
    BY <1>1, LibraryInvariance, PTL
=============================================================================
