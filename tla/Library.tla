------------------------------ MODULE Library ------------------------------
(***************************************************************************)
(* The shared chip library: one JSON file, two kinds of writers.           *)
(* `ebigent merge` (cli/verbs.go, runMerge) reads it, folds a round of     *)
(* candidates into its copy (behavior/merge.go) and writes the copy back.  *)
(* The editor (cmd/behavior-editor/main.go) reads it once when it starts   *)
(* and from then on writes its own copy back at every decision of the      *)
(* developer.  Nobody locks the file, and os.WriteFile empties it before   *)
(* it fills it.                                                            *)
(***************************************************************************)
EXTENDS Chips

CONSTANTS
  Rounds,     \* the candidate lists that may be merged
  MaxMerges,  \* bound: merges started
  MaxClicks   \* bound: decisions of the developer

\* What Merge relies on; a round Mining leaves has one rule per condition too.
ASSUME LibraryAssumption ==
  /\ \A r \in Rounds : r \in Seq(Candidates)
  /\ MaxMerges \in Nat /\ MaxClicks \in Nat

VARIABLES
  file,     \* the library file: its chips, Absent, or Torn
  version,  \* history: how often the file was emptied or filled
  editor,   \* the editor: its phase, its copy, the version it stands on
  merger,   \* the merge verb: the same, and the candidates left
  merges,   \* merges started
  clicks,   \* decisions taken
  asked,    \* history: the keys whose approval was asked for
  decided,  \* history: per key, the states its last decisions may have left
  raced     \* history: a writer overwrote a version it had not read

LibraryVars == << file, version, editor, merger, merges, clicks, asked, decided, raced >>

Absent == [ state |-> "absent" ]
Torn == [ state |-> "torn" ]
Holding(chips) == [ state |-> "library", chips |-> chips ]

Keys == Features \X Actions

LibraryInit ==
  /\ file = Absent
  /\ version = 0
  /\ editor = [ phase |-> "down", chips |-> << >>, base |-> 0 ]
  /\ merger = [ phase |-> "idle", chips |-> << >>, base |-> 0, todo |-> << >> ]
  /\ merges = 0 /\ clicks = 0
  /\ asked = {}
  /\ decided = [ k \in Keys |-> { "candidate" } ]
  /\ raced = FALSE

NewChip(c) ==
  [ cond |-> c.cond, act |-> c.act, prio |-> c.prio, cov |-> c.cov, ctr |-> c.ctr,
    status |-> "candidate" ]

\* Mutant of Merged: the chip takes the fresh numbers, and starts anew.
MergedRefreshing(chips, c) ==
  IF \E i \in DOMAIN chips : Key(chips[i]) = Key(c)
    THEN [ i \in DOMAIN chips |-> IF Key(chips[i]) = Key(c) THEN NewChip(c) ELSE chips[i] ]
    ELSE Append(chips, NewChip(c))

\* Mutant of Merged: a rule for a condition that is approved is approved too.
MergedTrusting(chips, c) ==
  IF \E i \in DOMAIN chips : Key(chips[i]) = Key(c)
    THEN chips
    ELSE Append(chips, [ NewChip(c) EXCEPT !.status =
           IF \E i \in DOMAIN chips : chips[i].cond = c.cond /\ chips[i].status = "approved"
             THEN "approved" ELSE @ ])

\* Merge of one candidate: a key that is known is only reported, so is a
\* contradiction with an approved chip, and anything else is appended.
Merged(chips, c) ==
  IF \/ \E i \in DOMAIN chips : Key(chips[i]) = Key(c)
     \/ \E i \in DOMAIN chips : chips[i].cond = c.cond /\ chips[i].status = "approved"
    THEN chips
    ELSE Append(chips, NewChip(c))

-----------------------------------------------------------------------------

\* What is in the file after a writer that emptied it has filled it: where
\* another one has filled it in between, the rest of a longer text may stay.
Filled(chips) == IF file = Torn THEN { Holding(chips) } ELSE { Holding(chips), Torn }

\* Writing: the file is emptied, whatever it holds.
Emptied(w) ==
  /\ file' = Torn
  /\ version' = version + 1
  /\ raced' = (raced \/ w.base # version)

\* The merge verb reads the file; a missing one is an empty library, a torn one
\* an error that ends it.
MergeReads(round) ==
  /\ merger.phase = "idle"
  /\ merges < MaxMerges
  /\ file # Torn
  /\ merges' = merges + 1
  /\ merger' = [ phase |-> "merging", base |-> version, todo |-> round,
                 chips |-> IF file = Absent THEN << >> ELSE file.chips ]
  /\ UNCHANGED << file, version, editor, clicks, asked, decided, raced >>

MergeOne ==
  /\ merger.phase = "merging"
  /\ merger.todo # << >>
  /\ merger' = [ merger EXCEPT !.chips = Merged(@, Head(merger.todo)), !.todo = Tail(@) ]
  /\ UNCHANGED << file, version, editor, merges, clicks, asked, decided, raced >>

MergeEmpties ==
  /\ merger.phase = "merging"
  /\ merger.todo = << >>
  /\ Emptied(merger)
  /\ merger' = [ merger EXCEPT !.phase = "writing", !.base = version' ]
  /\ UNCHANGED << editor, merges, clicks, asked, decided >>

MergeFills ==
  /\ merger.phase = "writing"
  /\ file' \in Filled(merger.chips)
  /\ version' = version + 1
  /\ raced' = (raced \/ merger.base # version)
  /\ merger' = [ merger EXCEPT !.phase = "idle", !.chips = << >>, !.base = 0 ]
  /\ UNCHANGED << editor, merges, clicks, asked, decided >>

-----------------------------------------------------------------------------

EditorOpens ==
  /\ editor.phase = "down"
  /\ file \notin { Absent, Torn }
  /\ editor' = [ phase |-> "up", chips |-> file.chips, base |-> version ]
  /\ UNCHANGED << file, version, merger, merges, clicks, asked, decided, raced >>

Statuses == { "approved", "rejected", "candidate" }

Decided(i, status) == [ editor.chips EXCEPT ![i].status = status ]

\* postChip, holding the editor's lock: approve, reject or clear.  The file is
\* emptied for the new text...
Click(i, status) ==
  /\ editor.phase = "up"
  /\ clicks < MaxClicks
  /\ clicks' = clicks + 1
  /\ asked' = IF status = "approved" THEN asked \cup {Key(editor.chips[i])} ELSE asked
  /\ decided' = [ decided EXCEPT ![Key(editor.chips[i])] = { status } ]
  /\ Emptied(editor)
  /\ editor' = [ phase |-> "writing", chips |-> Decided(i, status), base |-> version' ]
  /\ UNCHANGED << merger, merges >>

\* ... or cannot be opened: the developer is told it failed, the copy keeps it.
ClickFails(i, status) ==
  /\ editor.phase = "up"
  /\ clicks < MaxClicks
  /\ clicks' = clicks + 1
  /\ asked' = IF status = "approved" THEN asked \cup {Key(editor.chips[i])} ELSE asked
  /\ decided' = [ decided EXCEPT ![Key(editor.chips[i])] = @ \cup { status } ]
  /\ editor' = [ editor EXCEPT !.chips = Decided(i, status) ]
  /\ UNCHANGED << file, version, merger, merges, raced >>

EditorFills ==
  /\ editor.phase = "writing"
  /\ file' \in Filled(editor.chips)
  /\ version' = version + 1
  /\ raced' = (raced \/ editor.base # version)
  /\ editor' = [ editor EXCEPT !.phase = "up", !.base = version' ]
  /\ UNCHANGED << merger, merges, clicks, asked, decided >>

\* The editor is stopped, in the middle of a write too.
EditorStops ==
  /\ editor.phase # "down"
  /\ editor' = [ phase |-> "down", chips |-> << >>, base |-> 0 ]
  /\ UNCHANGED << file, version, merger, merges, clicks, asked, decided, raced >>

LibraryNext ==
  \/ \E round \in Rounds : MergeReads(round)
  \/ MergeOne \/ MergeEmpties \/ MergeFills
  \/ EditorOpens \/ EditorFills \/ EditorStops
  \/ \E i \in DOMAIN editor.chips, status \in Statuses : Click(i, status) \/ ClickFails(i, status)

LibrarySpec == LibraryInit /\ [][LibraryNext]_LibraryVars

-----------------------------------------------------------------------------

Stored == IF file \in { Absent, Torn } THEN << >> ELSE file.chips

Copies == { Stored, editor.chips, merger.chips }

TypeOK ==
  /\ file \in { Absent, Torn } \/ file = Holding(Stored)
  /\ version \in Nat
  /\ editor.phase \in { "down", "up", "writing" } /\ editor.base \in 0 .. version
  /\ merger.phase \in { "idle", "merging", "writing" } /\ merger.base \in 0 .. version
  /\ merges \in 0 .. MaxMerges /\ clicks \in 0 .. MaxClicks
  /\ asked \subseteq Keys
  /\ decided \in [ Keys -> SUBSET Statuses ]
  /\ raced \in BOOLEAN
  /\ \A chips \in Copies : \A i \in DOMAIN chips :
       Key(chips[i]) \in Keys /\ chips[i].status \in Statuses

\* rule:generated-behavior-requires-approval: no copy of the library, on disk or
\* in a process, holds an approved chip nobody asked to approve, however rounds
\* repeat and writers overtake each other; and a key names one chip in each.
ApprovalIsHuman ==
  \A chips \in Copies :
    /\ \A i \in DOMAIN chips : chips[i].status = "approved" => Key(chips[i]) \in asked
    /\ \A i, j \in DOMAIN chips : Key(chips[i]) = Key(chips[j]) => i = j

Standing ==
  \A k \in Keys :
    decided[k] # { "candidate" }
      => \E i \in DOMAIN Stored : Key(Stored[i]) = k /\ Stored[i].status \in decided[k]

\* As long as no writer overwrites what it has not read, every decision stands
\* in the file, through merges, restarts and decisions about other chips.
DecisionsKept == ~raced /\ file # Torn => Standing

=============================================================================
