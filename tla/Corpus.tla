------------------------------- MODULE Corpus -------------------------------
(***************************************************************************)
(* Who writes which episode directory of a corpus, and what a process that *)
(* ends at any moment leaves there.  A window (run/eb/eb.go) numbers on    *)
(* from the first free index it found when it was launched                 *)
(* (run/record.go, ResumeIndex); a batch (run/serve.go, Serve) always      *)
(* counts from zero.  A match opens its streams one by one, which empties  *)
(* what was there, and then writes them line by line (episode/writer.go).  *)
(* A stream is its last opener, the mode in its header and the ticks its   *)
(* rows name; of the events only the checkpoints are kept.                 *)
(***************************************************************************)
EXTENDS Integers, FiniteSets

CONSTANTS
  Windows,          \* game windows sharing the corpus
  Batch,            \* the headless run
  BatchMatches,     \* ServeOptions.Matches
  Canonical,        \* the matches whose Config has a Canonical
  CheckpointEvery,  \* CheckpointEvery[m]: as the Config of match m has it
  MaxIndex,         \* bound: the highest episode index
  MaxMatches,       \* bound: matches recorded in all
  MaxTicks,         \* bound: MaxTicks[m]: committed ticks of match m
  Losing            \* bound: the matches a write may fail in

ASSUME CorpusAssumption ==
  /\ Batch \notin Windows /\ IsFiniteSet(Windows)
  /\ MaxIndex \in Nat /\ MaxMatches \in Nat
  /\ BatchMatches \in 1 .. MaxIndex + 1
  /\ CheckpointEvery \in [ 1 .. MaxMatches -> Nat ]
  /\ MaxTicks \in [ 1 .. MaxMatches -> Nat ]

VARIABLES
  disk,     \* the episode directories
  proc,     \* the processes
  played,   \* matches recorded so far: the last one's number
  damaged,  \* history: the matches that lost a row to a failed write
  tangled,  \* history: the directories two processes had open at once
  sure      \* history: the window nothing else was up with since it was launched,
            \* with no directory above its index

CorpusVars == << disk, proc, played, damaged, tangled, sure >>

Procs == Windows \cup {Batch}
Indices == 0 .. MaxIndex
Modes == { "sampled", "complete" }

\* The streams in the order they are opened; a sampled episode has no fourth.
Names == << "decisions", "events", "outcomes", "world" >>
Opened(mode) == IF mode = "complete" THEN 4 ELSE 3

NoFile == [ by |-> 0, mode |-> "none", ticks |-> {} ]
NoDir == [ dir |-> FALSE, file |-> [ n \in 1 .. 4 |-> NoFile ] ]

Down ==
  [ phase |-> "down", index |-> 0, mode |-> "sampled", match |-> 0, at |-> 0,
    failed |-> FALSE ]

CorpusInit ==
  /\ disk = [ i \in Indices |-> NoDir ]
  /\ proc = [ p \in Procs |-> Down ]
  /\ played = 0
  /\ damaged = {}
  /\ tangled = {}
  /\ sure = {}

Free(i) == ~disk[i].dir

\* Mutant of ResumeIndex: every launch starts at the beginning.
ResumeFromZero(i) == i = 0

\* The first index no directory uses.
ResumeIndex(i) == Free(i) /\ \A j \in 0 .. i - 1 : ~Free(j)

Alone(p) == \A q \in Procs \ {p} : proc[q].phase = "down"

Starts(p, i, mode) ==
  /\ proc[p].phase = "down"
  /\ proc' = [ proc EXCEPT ![p] =
       [ Down EXCEPT !.phase = "lobby", !.index = i, !.mode = mode ] ]
  /\ sure' = { w \in Windows \cap {p} : Alone(w) /\ \A j \in Indices : j > i => Free(j) }
  /\ UNCHANGED << disk, played, damaged, tangled >>

\* Run: a person opens the window; the index is looked up this once.
Launch(w, i, mode) == ResumeIndex(i) /\ Starts(w, i, mode)

\* Serve: a batch is given its count and starts over.
LaunchBatch(mode) == Starts(Batch, 0, mode)

Recording(p, i) == proc[p].phase \notin { "down", "lobby" } /\ proc[p].index = i

\* OpenRecording: the directory is made if it is not there...
StartMatch(p) ==
  /\ proc[p].phase = "lobby"
  /\ proc[p].index <= MaxIndex
  /\ played < MaxMatches
  /\ played' = played + 1
  /\ LET i == proc[p].index
     IN  /\ disk' = [ disk EXCEPT ![i].dir = TRUE ]
         /\ tangled' = IF \E q \in Procs : Recording(q, i) THEN tangled \cup {i} ELSE tangled
  /\ proc' = [ proc EXCEPT ![p].phase = "opening", ![p].match = played + 1, ![p].at = 1 ]
  /\ UNCHANGED << damaged, sure >>

\* Mutant of Streams: the world stream is left to whoever wrote it last.
StreamsButWorld(mode) == 3

\* The streams a match of the mode opens.
Streams(mode) == Opened(mode)

Files(p) == disk[proc[p].index].file

Reopened(p) ==
  [ Files(p) EXCEPT ![proc[p].at] = [ by |-> proc[p].match, mode |-> "none", ticks |-> {} ] ]

\* ... and each stream is created empty.
OpenStream(p) ==
  /\ proc[p].phase = "opening"
  /\ disk' = [ disk EXCEPT ![proc[p].index].file = Reopened(p) ]
  /\ proc' = [ proc EXCEPT ![p] =
       IF proc[p].at < Streams(proc[p].mode)
         THEN [ proc[p] EXCEPT !.at = @ + 1 ]
         ELSE [ proc[p] EXCEPT !.phase = "heading", !.at = 1 ] ]
  /\ UNCHANGED << played, damaged, tangled, sure >>

\* A line is written, or it is lost and only the writer remembers (Writer.line).
Writes(p, file, then) ==
  \/ /\ disk' = [ disk EXCEPT ![proc[p].index].file = file ]
     /\ proc' = [ proc EXCEPT ![p] = then ]
     /\ UNCHANGED damaged
  \/ /\ proc' = [ proc EXCEPT ![p] = [ then EXCEPT !.failed = TRUE ] ]
     /\ damaged' = damaged \cup {proc[p].match}
     /\ proc[p].match \in Losing
     /\ UNCHANGED disk

Headed(p) ==
  [ n \in 1 .. 4 |-> IF n <= Opened(proc[p].mode)
                       THEN [ Files(p)[n] EXCEPT !.mode = proc[p].mode ] ELSE Files(p)[n] ]

\* A row of the tick the session has reached.
RowIn(p, n, tick) == [ Files(p) EXCEPT ![n].ticks = @ \cup {tick} ]

In(p, phase) == [ proc[p] EXCEPT !.phase = phase ]

\* EpisodeStarted: a header in every stream.
WriteHeaders(p) ==
  /\ proc[p].phase = "heading"
  /\ Writes(p, Headed(p), [ In(p, "deciding") EXCEPT !.at = 0 ])
  /\ UNCHANGED << played, tangled, sure >>

\* One tick: a decision is accepted, or a slot that does not act observes.  There
\* is any number of these rows, in a realtime tick often none.
RecordDecision(p) ==
  /\ proc[p].phase = "deciding"
  /\ proc[p].at < MaxTicks[proc[p].match]
  /\ Writes(p, RowIn(p, 1, proc[p].at), proc[p])
  /\ UNCHANGED << played, tangled, sure >>

\* The tick is counted, and in a complete recording its world is written ...
RecordWorld(p) ==
  /\ proc[p].phase = "deciding"
  /\ proc[p].at < MaxTicks[proc[p].match]
  /\ LET tick == proc[p].at + 1
         then == [ In(p, "checking") EXCEPT !.at = tick ]
     IN  IF proc[p].mode = "complete"
           THEN Writes(p, RowIn(p, 4, tick), then)
           ELSE proc' = [ proc EXCEPT ![p] = then ] /\ UNCHANGED << disk, damaged >>
  /\ UNCHANGED << played, tangled, sure >>

\* Zero means every tick.
Interval(m) == IF CheckpointEvery[m] = 0 THEN 1 ELSE CheckpointEvery[m]

\* Mutant of Checkpoints: the interval is looked at before the tick is counted.
CheckpointsEarly(m, tick) == m \in Canonical /\ (tick - 1) % Interval(m) = 0

\* The ticks a session makes a checkpoint of.
Checkpoints(m, tick) == m \in Canonical /\ tick % Interval(m) = 0

\* ... then its checkpoint, if there is one; a sampled recording drops it.
RecordCheckpoint(p) ==
  /\ proc[p].phase = "checking"
  /\ IF proc[p].mode = "complete" /\ Checkpoints(proc[p].match, proc[p].at)
       THEN Writes(p, RowIn(p, 2, proc[p].at), In(p, "deciding"))
       ELSE proc' = [ proc EXCEPT ![p] = In(p, "deciding") ] /\ UNCHANGED << disk, damaged >>
  /\ UNCHANGED << played, tangled, sure >>

\* drain: every slot's last sight is a row of the decisions stream.
RecordSights(p) ==
  /\ proc[p].phase = "deciding"
  /\ Writes(p, RowIn(p, 1, proc[p].at), In(p, "ending"))
  /\ UNCHANGED << played, tangled, sure >>

\* The outcomes name the ticks committed.  abort comes to them from the middle of
\* a tick, without the sights.
RecordOutcomes(p) ==
  /\ proc[p].phase \in { "deciding", "ending" }
  /\ Writes(p, RowIn(p, 3, proc[p].at), In(p, "over"))
  /\ UNCHANGED << played, tangled, sure >>

\* ended: the window drops what Close reports and counts on.
WindowCloses(w) ==
  /\ proc[w].phase = "over"
  /\ proc' = [ proc EXCEPT ![w] =
       [ Down EXCEPT !.phase = "lobby", !.index = proc[w].index + 1, !.mode = proc[w].mode ] ]
  /\ UNCHANGED << disk, played, damaged, tangled, sure >>

\* serveOne: a lost row is an error that ends the batch.
BatchCloses ==
  /\ proc[Batch].phase = "over"
  /\ proc' = [ proc EXCEPT ![Batch] =
       IF proc[Batch].failed \/ proc[Batch].index + 1 = BatchMatches
         THEN Down
         ELSE [ Down EXCEPT !.phase = "lobby", !.index = proc[Batch].index + 1,
                            !.mode = proc[Batch].mode ] ]
  /\ UNCHANGED << disk, played, damaged, tangled, sure >>

\* A process goes, wherever it is: it is killed, quit or cancelled, a stream
\* cannot be created, the roster cannot be finalized.  Nothing is taken back.
Stops(p) ==
  /\ proc[p].phase # "down"
  /\ proc' = [ proc EXCEPT ![p] = Down ]
  /\ UNCHANGED << disk, played, damaged, tangled, sure >>

\* A person deletes an episode while nothing runs.
Prune(i) ==
  /\ \A p \in Procs : proc[p].phase = "down"
  /\ ~Free(i)
  /\ disk' = [ disk EXCEPT ![i] = NoDir ]
  /\ tangled' = tangled \ {i}
  /\ UNCHANGED << proc, played, damaged, sure >>

CorpusNext ==
  \/ \E mode \in Modes :
       \/ \E w \in Windows, i \in Indices : Launch(w, i, mode)
       \/ LaunchBatch(mode)
  \/ \E p \in Procs :
       \/ StartMatch(p) \/ OpenStream(p) \/ WriteHeaders(p)
       \/ RecordDecision(p) \/ RecordWorld(p) \/ RecordCheckpoint(p)
       \/ RecordSights(p) \/ RecordOutcomes(p) \/ Stops(p)
  \/ \E w \in Windows : WindowCloses(w)
  \/ BatchCloses
  \/ \E i \in Indices : Prune(i)

CorpusSpec == CorpusInit /\ [][CorpusNext]_CorpusVars

-----------------------------------------------------------------------------

Finished(i) == disk[i].file[3].ticks # {}

\* rule:shared-rng-seed, the corpus is added to: while a window is up that
\* nothing else was up with, and that found no used index above its own, no
\* episode that has its outcomes is emptied or continued, whatever the processes
\* before it were stopped at.
FinishedStays ==
  [][ \A w \in sure, i \in Indices :
        Finished(i) /\ proc[w].phase # "down" => disk'[i] = disk[i] ]_CorpusVars

\* Directories are reused and matches stop at any line, yet a log that says it is
\* replay_complete holds four streams of one match: no stream of a match that was
\* there before, and none that was not opened.  Only two processes that had the
\* directory open together can break that.
ReplayableIsOneMatch ==
  \A i \in Indices \ tangled :
    disk[i].file[1].mode = "complete"
      => \A n \in 2 .. 4 : disk[i].file[n].by = disk[i].file[1].by

\* The checkpoints of n ticks.
Due(m, n) == { t \in 1 .. n : m \in Canonical /\ t % Interval(m) = 0 }

\* ... and, unless a write failed, wherever its process was stopped its streams
\* are those of some n committed ticks: their worlds, no decision further than the
\* tick begun after them, and the checkpoints the match's interval asks for, of
\* which only that of the last tick may be missing.  A finished one misses none,
\* and its outcomes say how many ticks there are.
RecordIsPrefix ==
  \A i \in Indices \ tangled :
    LET file == disk[i].file
        m == file[1].by
    IN  file[1].mode = "complete" /\ m \notin damaged
          => \E n \in 0 .. MaxTicks[m] :
               /\ file[4].ticks = 1 .. n
               /\ file[1].ticks \subseteq 0 .. n
               /\ file[2].ticks \in { Due(m, n), Due(m, n) \ {n} }
               /\ Finished(i) => file[2].ticks = Due(m, n) /\ file[3].ticks = {n}
=============================================================================
