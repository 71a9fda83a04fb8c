------------------------------ MODULE Session ------------------------------
(***************************************************************************)
(* The session: lifecycle, admission, and the two loops that turn actions  *)
(* into committed ticks (session/session.go, realtime.go, lifecycle.go).   *)
(* Run asks every acting agent in slot order and waits for its decision;   *)
(* RunRealtime takes what the inboxes hold and never waits.                *)
(*                                                                         *)
(* The session runs on one goroutine; drivers submit to the inboxes, the   *)
(* operator cancels the context and agents decide at any moment in         *)
(* between.  The game is its players': what an action does to the world is *)
(* kept as the list of moves, so that two worlds are equal only if every   *)
(* game agrees that they are.                                              *)
(***************************************************************************)
EXTENDS Integers, Sequences, FiniteSets

CONSTANTS
  Slots,               \* the slot set, positive integers: the commit order
  Actions,             \* what agents and drivers send
  Legal(_, _, _),      \* Legal(w, slot, a): the validators accept a
  Acting(_),           \* Acting(w): the slots that act in position w
  Finished(_),         \* Finished(w): the slots whose signal is terminal
  RetryBudget,         \* re-requests after an illegal action: 3 by default
  InboxCap,            \* inputs queued per slot: 64
  RejectionThreshold,  \* rejected actions that flag a slot, 0 for never
  SendEvery,           \* ticks between two broadcasts
  Pacings,             \* loops to consider
  Intakes,             \* input intake policies to consider
  MaxSubmit            \* bound: inputs submitted per slot

ASSUME SessionAssumption ==
  /\ Slots \subseteq Nat \ {0} /\ IsFiniteSet(Slots) /\ Slots # {}
  /\ RetryBudget \in Nat \ {0}
  /\ InboxCap \in Nat \ {0}
  /\ RejectionThreshold \in Nat
  /\ SendEvery \in Nat \ {0}
  /\ Pacings \subseteq { "step", "realtime" }
  /\ Intakes \subseteq { "newest", "all" }
  /\ MaxSubmit \in Nat

VARIABLES
  pacing,      \* which loop the host calls
  intake,      \* the declared intake policy
  life,        \* State
  agents,      \* slots with an agent
  stop,        \* the context is cancelled
  pc,          \* where the loop stands
  world,       \* the authoritative world
  tick,        \* committed ticks
  pending,     \* slots still to decide, or to be asked for input, this tick
  attempt,     \* illegal actions of the deciding slot this tick
  current,     \* slot whose inputs are being judged
  batch,       \* its inputs not judged yet
  inbox,       \* inbox[s]: inputs queued, oldest first
  dropped,     \* dropped[s]: inputs pushed out of a full inbox
  rejections,  \* rejections[s]: actions refused
  suspected,   \* slots flagged to the host
  told,        \* told[s]: history: the counts OnSuspect was called with for s
  weighed,     \* weighed[s]: history: actions of s the validators have judged
  shown,       \* tick of the last broadcast
  outcome,     \* outcome[s]: the terminal signal drain will report
  sight,       \* sight[s]: history: the last position s observed
  ended,       \* ended[s]: history: how often s was told the end
  submitted,   \* submitted[s]: history: inputs submitted
  judged,      \* judged[s]: history: numbers of the inputs judged, in order
  rows,        \* history: the decisions stream of the recorder
  committed    \* history: the worlds committed, by tick

players == << inbox, dropped, submitted >>
record == << rows, committed >>
ladder == << rejections, suspected, told, weighed >>
turn == << pending, attempt, current, batch >>
vars == << pacing, intake, life, agents, stop, pc, world, tick, turn, players,
           ladder, shown, outcome, sight, ended, judged, record >>

\* The game (samples): the free one, in which a world is its history.
Start == [ moves |-> << >>, steps |-> 0 ]
Apply(w, s, a) == [ w EXCEPT !.moves = Append(@, << s, a >>) ]
Advance(w) == [ w EXCEPT !.steps = @ + 1 ]

Terminal == { "ended", "aborted" }

First(S) == CHOOSE s \in S : \A u \in S : s <= u

Input(n, a) == [ n |-> n, action |-> a ]
\* Mutant of Row: filed under the tick after.
RowNextTick(s, a) == [ tick |-> tick + 1, slot |-> s, action |-> a ]

Row(s, a) == [ tick |-> tick, slot |-> s, action |-> a ]

Nothing == << >>

TypeOK ==
  /\ pacing \in Pacings /\ intake \in Intakes /\ stop \in BOOLEAN
  /\ life \in { "created", "admitting", "running", "draining" } \cup Terminal
  /\ pc \in { "idle", "top", "decide", "intake", "drain" }
  /\ agents \subseteq Slots /\ pending \subseteq Slots /\ suspected \subseteq Slots
  /\ attempt \in 0 .. RetryBudget
  /\ tick = Len(committed) /\ shown \in 0 .. tick
  /\ \A s \in Slots : Len(inbox[s]) <= InboxCap

Init ==
  /\ pacing \in Pacings /\ intake \in Intakes
  /\ life = "created" /\ agents = {} /\ stop = FALSE /\ pc = "idle"
  /\ world = Start /\ tick = 0 /\ shown = 0
  /\ pending = {} /\ attempt = 0 /\ current = 0 /\ batch = << >>
  /\ inbox = [ s \in Slots |-> << >> ]
  /\ dropped = [ s \in Slots |-> 0 ]
  /\ rejections = [ s \in Slots |-> 0 ] /\ suspected = {}
  /\ told = [ s \in Slots |-> << >> ] /\ weighed = [ s \in Slots |-> 0 ]
  /\ outcome = [ s \in Slots |-> "none" ]
  /\ sight = [ s \in Slots |-> Nothing ]
  /\ ended = [ s \in Slots |-> 0 ]
  /\ submitted = [ s \in Slots |-> 0 ]
  /\ judged = [ s \in Slots |-> << >> ]
  /\ rows = << >> /\ committed = << >>

-----------------------------------------------------------------------------
(* Before the loop.                                                        *)

OpenAdmission ==
  /\ life = "created"
  /\ life' = "admitting"
  /\ UNCHANGED << pacing, intake, agents, stop, pc, world, tick, turn, players,
                  ladder, shown, outcome, sight, ended, judged, record >>

Admit(s) ==
  /\ life = "admitting" /\ pc = "idle"
  /\ s \notin agents
  /\ agents' = agents \cup {s}
  /\ UNCHANGED << pacing, intake, life, stop, pc, world, tick, turn, players,
                  ladder, shown, outcome, sight, ended, judged, record >>

\* Run and RunRealtime refuse to start with an empty slot, and change nothing.
Run ==
  /\ life = "admitting" /\ agents = Slots
  /\ life' = "running"
  /\ pc' = "top"
  /\ world' = Start
  /\ UNCHANGED << pacing, intake, agents, stop, tick, turn, players,
                  ladder, shown, outcome, sight, ended, judged, record >>

-----------------------------------------------------------------------------
(* Around the loop.                                                        *)

\* Inbox.Submit: a full inbox loses its oldest input.
Full(s) == Len(inbox[s]) >= InboxCap

\* Mutant of Queued: a stack.
QueuedFirst(s, x) == << x >> \o (IF Full(s) THEN Tail(inbox[s]) ELSE inbox[s])

Queued(s, x) == Append(IF Full(s) THEN Tail(inbox[s]) ELSE inbox[s], x)

Submit(s) ==
  /\ pacing = "realtime"
  /\ submitted[s] < MaxSubmit
  /\ submitted' = [ submitted EXCEPT ![s] = @ + 1 ]
  /\ \E a \in Actions : inbox' = [ inbox EXCEPT ![s] = Queued(s, Input(submitted'[s], a)) ]
  /\ dropped' = [ dropped EXCEPT ![s] = IF Full(s) THEN @ + 1 ELSE @ ]
  /\ UNCHANGED << pacing, intake, life, agents, stop, pc, world, tick, turn,
                  ladder, shown, outcome, sight, ended, judged, record >>

Cancel ==
  /\ ~stop
  /\ stop' = TRUE
  /\ UNCHANGED << pacing, intake, life, agents, pc, world, tick, turn, players,
                  ladder, shown, outcome, sight, ended, judged, record >>

-----------------------------------------------------------------------------
(* The end.                                                                *)

\* Mutant of Outcomes: the signals computed when the tick opened.
OutcomesAtOpening(w) ==
  [ s \in Slots |-> IF s \in Finished(IF sight[s] = Nothing THEN w ELSE sight[s])
                      THEN "finished" ELSE "abandoned" ]

\* evaluateAll, with abandonRemaining for the slots that did not finish.
Outcomes(w) == [ s \in Slots |-> IF s \in Finished(w) THEN "finished" ELSE "abandoned" ]

\* Mutant of BeginDrain: the agents are told before the reports are accepted.
BeginDrainTelling ==
  /\ life' = "draining"
  /\ pc' = "drain"
  /\ outcome' = Outcomes(world)
  /\ ended' = [ s \in Slots |-> ended[s] + 1 ]
  /\ UNCHANGED sight

\* drain up to its reports.
BeginDrain ==
  /\ life' = "draining"
  /\ pc' = "drain"
  /\ outcome' = Outcomes(world)
  /\ UNCHANGED << sight, ended >>

\* Mutant of Abort: the transition is forgotten.
AbortUnnoticed ==
  /\ pc' = "idle"
  /\ ended' = [ s \in Slots |-> ended[s] + 1 ]
  /\ outcome' = [ s \in Slots |-> "abandoned" ]
  /\ UNCHANGED << life, sight >>

\* abort: agents are told at once.
Abort ==
  /\ life' = "aborted"
  /\ pc' = "idle"
  /\ ended' = [ s \in Slots |-> ended[s] + 1 ]
  /\ outcome' = [ s \in Slots |-> "abandoned" ]
  /\ UNCHANGED sight

\* The reports are accepted: final sights, then the end.
FinishDrain ==
  /\ pc = "drain"
  /\ life' = "ended"
  /\ pc' = "idle"
  /\ sight' = [ s \in Slots |-> world ]
  /\ ended' = [ s \in Slots |-> ended[s] + 1 ]
  /\ UNCHANGED << pacing, intake, agents, stop, world, tick, turn, players,
                  ladder, shown, outcome, judged, record >>

\* The report sink refuses one.
FailDrain ==
  /\ pc = "drain"
  /\ Abort
  /\ UNCHANGED << pacing, intake, agents, stop, world, tick, turn, players,
                  ladder, shown, judged, record >>

-----------------------------------------------------------------------------
(* The loop.                                                               *)

\* Mutant of Flags: each refusal past the threshold flags the slot again.
FlagsAgain(s, n) == RejectionThreshold > 0 /\ n >= RejectionThreshold

\* The flag rung of the ladder: the n-th refusal of s is the first to reach the
\* threshold.
Flags(s, n) ==
  /\ RejectionThreshold > 0 /\ n >= RejectionThreshold
  /\ s \notin suspected

\* The validators judge one action of s.
Weigh(s) == weighed' = [ weighed EXCEPT ![s] = @ + 1 ]

\* rejected: book the refusal and, once, tell the host.
Reject(s) ==
  /\ Weigh(s)
  /\ rejections' = [ rejections EXCEPT ![s] = @ + 1 ]
  /\ IF Flags(s, rejections'[s])
       THEN /\ suspected' = suspected \cup {s}
            /\ told' = [ told EXCEPT ![s] = Append(@, rejections'[s]) ]
       ELSE UNCHANGED << suspected, told >>

\* An accepted action is recorded and applied.
Accept(s, a) ==
  /\ Weigh(s)
  /\ rows' = Append(rows, Row(s, a))
  /\ world' = Apply(world, s, a)
  /\ UNCHANGED << rejections, suspected, told >>

\* The top of both loops, up to the first decision or the first inbox.  Every
\* slot observes the opening position in step pacing only.
Top ==
  /\ pc = "top"
  /\ \/ /\ Finished(world) = Slots \/ stop
        /\ BeginDrain
        /\ UNCHANGED turn
     \/ /\ Finished(world) # Slots /\ ~stop
        /\ pacing = "step" /\ Acting(world) = {}
        /\ Abort
        /\ UNCHANGED turn
     \/ /\ Finished(world) # Slots /\ ~stop
        /\ pacing = "step" /\ Acting(world) # {}
        /\ pc' = "decide" /\ pending' = Acting(world) /\ attempt' = 0
        /\ sight' = [ s \in Slots |-> world ]
        /\ UNCHANGED << life, ended, outcome, current, batch >>
     \/ /\ Finished(world) # Slots /\ ~stop
        /\ pacing = "realtime"
        /\ pc' = "intake" /\ pending' = Slots
        /\ UNCHANGED << life, ended, outcome, sight, attempt, current, batch >>
  /\ UNCHANGED << pacing, intake, agents, stop, world, tick, players, ladder,
                  shown, judged, record >>

\* decideLegal: one answer of the agent whose turn it is.
DecideLegal ==
  /\ pc = "decide" /\ pending # {}
  /\ LET s == First(pending)
     IN  \E a \in Actions :
           /\ Legal(world, s, a)
           /\ Accept(s, a)
           /\ pending' = pending \ {s}
  /\ attempt' = 0
  /\ UNCHANGED << pacing, intake, life, agents, stop, pc, tick, current, batch, players,
                  shown, outcome, sight, ended, judged, committed >>

DecideIllegal ==
  /\ pc = "decide" /\ pending # {}
  /\ LET s == First(pending)
     IN  /\ \E a \in Actions : ~Legal(world, s, a)
         /\ Reject(s)
  /\ \/ /\ attempt < RetryBudget
        /\ attempt' = attempt + 1
        /\ UNCHANGED << life, pc, ended, outcome, sight >>
     \/ /\ attempt = RetryBudget
        /\ Abort
        /\ UNCHANGED attempt
  /\ UNCHANGED << pacing, intake, agents, stop, world, tick, pending, current, batch,
                  players, shown, judged, record >>

\* The controller cannot continue: the position is evaluated as it stands.
DecideNone ==
  /\ pc = "decide" /\ pending # {}
  /\ BeginDrain
  /\ UNCHANGED << pacing, intake, agents, stop, world, tick, turn, players,
                  ladder, shown, judged, record >>

Decide == DecideLegal \/ DecideIllegal \/ DecideNone

\* Mutant of Taken: the newest input whatever the policy.
TakenNewest(s) ==
  IF inbox[s] = << >> THEN << >> ELSE << inbox[s][Len(inbox[s])] >>

\* takeNewest or takeAll, under the lock of the inbox.
Taken(s) ==
  IF intake = "all" \/ inbox[s] = << >> THEN inbox[s] ELSE << inbox[s][Len(inbox[s])] >>

TakeInputs ==
  /\ pc = "intake" /\ batch = << >> /\ pending # {}
  /\ LET s == First(pending)
     IN  /\ current' = s
         /\ pending' = pending \ {s}
         /\ batch' = Taken(s)
         /\ inbox' = [ inbox EXCEPT ![s] = << >> ]
  /\ UNCHANGED << pacing, intake, life, agents, stop, pc, world, tick, attempt, dropped,
                  ladder, shown, outcome, sight, ended, submitted, judged,
                  record >>

\* The validators judge an input against the world as it is by then.
JudgeInput ==
  /\ pc = "intake" /\ batch # << >>
  /\ batch' = Tail(batch)
  /\ judged' = [ judged EXCEPT ![current] = Append(@, Head(batch).n) ]
  /\ LET a == Head(batch).action
     IN  \/ /\ Legal(world, current, a)
            /\ Accept(current, a)
         \/ /\ ~Legal(world, current, a)
            /\ Reject(current)
            /\ UNCHANGED << rows, world >>
  /\ UNCHANGED << pacing, intake, life, agents, stop, pc, tick, pending, attempt, current,
                  players, shown, outcome, sight, ended, committed >>

\* The single commit point of the tick.
Commit ==
  /\ pc \in { "decide", "intake" } /\ pending = {} /\ batch = << >>
  /\ world' = IF pacing = "realtime" THEN Advance(world) ELSE world
  /\ tick' = tick + 1
  /\ committed' = Append(committed, world')
  /\ shown' = IF pacing = "realtime" /\ tick' % SendEvery = 0 THEN tick' ELSE shown
  /\ pc' = "top"
  /\ UNCHANGED << pacing, intake, life, agents, stop, turn, players, ladder,
                  outcome, sight, ended, judged, rows >>

Loop == Top \/ TakeInputs \/ JudgeInput \/ Commit \/ FinishDrain \/ FailDrain

Next ==
  \/ OpenAdmission \/ Run \/ Cancel
  \/ \E s \in Slots : Admit(s) \/ Submit(s)
  \/ Loop \/ Decide

\* The session goroutine runs; an agent whose context is cancelled answers
\* (agent.go:29-30, "a blocked Decide must then return").
Fairness == WF_vars(Loop) /\ WF_vars(stop /\ Decide)

Spec == Init /\ [][Next]_vars /\ Fairness

-----------------------------------------------------------------------------

\* However submissions interleave with the intake, the newest input of a slot
\* is judged or still queued, and a command stream (IntakeAll) loses none but
\* those a full inbox counted as dropped.
InputsAccounted ==
  \A s \in Slots :
    LET open == inbox[s] \o (IF current = s THEN batch ELSE << >>)
    IN  /\ intake = "all" =>
             submitted[s] = Len(judged[s]) + Len(open) + dropped[s]
        /\ submitted[s] > 0 =>
             submitted[s] \in { judged[s][i] : i \in DOMAIN judged[s] }
                                 \cup { open[i].n : i \in DOMAIN open }

\* Realtime.takeAll, "per-slot FIFO is the deterministic sequence", and
\* takeNewest, "stale queued inputs are superseded, not replayed": no input is
\* judged twice, or after a newer one.
InputsInOrder ==
  \A s \in Slots : \A i, j \in DOMAIN judged[s] : i < j => judged[s][i] < judged[s][j]

\* agent.go:15, "Ended exactly once", whatever ends the session and wherever a
\* report fails.
EndedOnce == \A s \in Slots : ended[s] = IF life \in Terminal THEN 1 ELSE 0

\* A session that ends has shown every agent the terminal position, and reports
\* the signals of that position: not those of the tick's opening, if it stopped
\* half-way.
EndedOnFinalPosition ==
  life = "ended" => /\ \A s \in Slots : sight[s] = world
                    /\ outcome = Outcomes(world)

\* The actions of s the recorder holds.
Recorded(s) == Cardinality({ i \in DOMAIN rows : rows[i].slot = s })

\* Config.OnSuspect, "fires when a slot's rejected-action count reaches" the
\* threshold, "at most once per slot per session".  The actions of a slot that
\* were judged and left no row in the record are its refusals, over ticks, retries
\* and both loops: the host hears of the one that reaches the threshold, and of
\* none after it.
SuspectedOnce ==
  \A s \in Slots :
    told[s] = IF RejectionThreshold > 0 /\ weighed[s] - Recorded(s) >= RejectionThreshold
                THEN << RejectionThreshold >> ELSE << >>

\* Run and RunRealtime return: a cancelled session whatever its agents answer,
\* a realtime one without anybody's help.
HostReturns == life = "running" /\ (stop \/ pacing = "realtime") ~> life \in Terminal
=============================================================================
