------------------------------ MODULE Replica ------------------------------
(***************************************************************************)
(* What the state stream promises a receiver: a replica that shows, from   *)
(* some tick on, worlds the session committed, each newer than the one     *)
(* before.  It may skip versions - the stream is last-writer-wins - but it *)
(* never shows a world nobody committed, and never goes back.              *)
(***************************************************************************)
EXTENDS Integers

CONSTANTS
  World,    \* World[t]: the world the session commits at tick t
  MaxTick   \* bound: last tick

VARIABLES
  tick,     \* ticks committed so far
  view      \* the replica: the tick it shows and the world, tick 0 for none

vars == << tick, view >>

Nothing == [ tick |-> 0 ]

Init ==
  /\ tick = 0
  /\ view = Nothing

Commit ==
  /\ tick < MaxTick
  /\ tick' = tick + 1
  /\ UNCHANGED view

Follow ==
  /\ \E t \in view.tick + 1 .. tick : view' = [ tick |-> t, state |-> World[t] ]
  /\ UNCHANGED tick

Next == Commit \/ Follow

Spec == Init /\ [][Next]_vars
=============================================================================
