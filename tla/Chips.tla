------------------------------- MODULE Chips -------------------------------
(***************************************************************************)
(* The decision lists of the distillation pipeline (behavior/behavior.go): *)
(* a chip answers the situations its condition holds in with its action.   *)
(* A situation is the set of the features that hold.  The compiled switch  *)
(* (codegen.go) and the replay that evaluates it (evaluate.go) both take   *)
(* the chips by priority, equal priorities as the list has them, and let   *)
(* the first that matches answer.                                          *)
(***************************************************************************)
EXTENDS Integers, Sequences

CONSTANTS
  NFeatures,  \* features of the vocabulary, in its order
  NActions    \* actions of the vocabulary, in its order

ASSUME ChipsAssumption == NFeatures \in Nat /\ NActions \in Nat

Features == 1 .. NFeatures
Actions == 1 .. NActions

\* A proposed rule: cov records it answers as recorded, ctr it answers otherwise.
Candidate(cond, act, prio, cov, ctr) ==
  [ cond |-> cond, act |-> act, prio |-> prio, cov |-> cov, ctr |-> ctr ]

Candidates == [ cond : Features, act : Actions, prio : Nat, cov : Nat, ctr : Nat ]

Key(c) == << c.cond, c.act >>

\* Mutant of Before: the strongest rule goes first.
BeforeByCoverage(list, i, j) ==
  \/ list[i].cov > list[j].cov
  \/ list[i].cov = list[j].cov /\ i < j

\* sort.SliceStable by priority.
Before(list, i, j) ==
  \/ list[i].prio < list[j].prio
  \/ list[i].prio = list[j].prio /\ i < j

\* Chip i answers a situation when the chips that are compiled say so.
Answers(list, compiled, i, situation) ==
  /\ list[i].cond \in situation
  /\ \A j \in compiled : Before(list, j, i) => list[j].cond \notin situation

Silent(list, compiled, situation) ==
  \A i \in compiled : list[i].cond \notin situation
=============================================================================
