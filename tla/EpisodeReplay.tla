--------------------------- MODULE EpisodeReplay ---------------------------
(***************************************************************************)
(* Replaying a recorded episode: once the session is over, its decisions   *)
(* stream is read back as a per-tick schedule for RunRealtime or as        *)
(* per-slot action lists for ReplayAgents (episode/reader.go,              *)
(* session/replay.go), and a second session of the same configuration runs *)
(* on it.  A replay is just a session: its loop is the one of Session, with *)
(* the record in place of agents and inboxes.                              *)
(***************************************************************************)
EXTENDS Session

VARIABLES
  stage,    \* where the loop of the replay stands
  copy,     \* its world
  at,       \* its committed ticks
  asking,   \* slots still to ask this tick
  answers,  \* answers the slot being asked has given this tick
  left      \* rows of the record not handed out yet

replay == << stage, copy, at, asking, answers, left >>

ReplayInit ==
  /\ stage = "unread"
  /\ copy = Start /\ at = 0 /\ asking = {} /\ answers = 0 /\ left = {}

\* ReadReplay, ReadReplaySchedule: the rows with an action, in order.
Read ==
  /\ stage = "unread" /\ life \in Terminal
  /\ stage' = "top"
  /\ left' = DOMAIN rows
  /\ UNCHANGED << copy, at, asking, answers >>

\* The slots asked in position w: the acting ones wait for their agents, in
\* realtime all are polled.
Asked(w) == IF pacing = "step" THEN Acting(w) ELSE Slots

ReplayTop ==
  /\ stage = "top"
  /\ \/ /\ Finished(copy) = Slots \/ Asked(copy) = {}
        /\ stage' = "over"
        /\ UNCHANGED asking
     \/ /\ Finished(copy) # Slots /\ Asked(copy) # {}
        /\ stage' = "asking"
        /\ asking' = Asked(copy)
  /\ UNCHANGED << copy, at, answers, left >>

\* ReplayAgent goes through its slot's rows; the schedule through those of the
\* tick.
Due(s) == { i \in left : rows[i].slot = s /\ (pacing = "realtime" => rows[i].tick = at) }

\* takeInputs polls the schedule once, or until it is silent or an inbox full.
Polls == IF intake = "all" THEN InboxCap ELSE 1

Answers(s) == Due(s) # {} /\ (pacing = "realtime" => answers < Polls)

\* One recorded action is judged again.  An illegal one is dropped in realtime,
\* and costs an attempt of decideLegal in step.  takeInputs polls all of a slot's
\* before the first is judged: neither looks at what the other changes.
ReplayAnswer ==
  /\ stage = "asking" /\ asking # {}
  /\ LET s == First(asking)
         i == First(Due(s))
         legal == Legal(copy, s, rows[i].action)
     IN  /\ Answers(s)
         /\ left' = left \ {i}
         /\ copy' = IF legal THEN Apply(copy, s, rows[i].action) ELSE copy
         /\ asking' = IF pacing = "step" /\ legal THEN asking \ {s} ELSE asking
         /\ answers' = IF pacing = "step" /\ legal THEN 0 ELSE answers + 1
         /\ stage' = IF pacing = "step" /\ ~legal /\ answers = RetryBudget
                       THEN "over" ELSE stage
  /\ UNCHANGED at

\* A slot whose rows have run out: realtime goes on, step drains.
ReplaySilence ==
  /\ stage = "asking" /\ asking # {}
  /\ ~Answers(First(asking))
  /\ \/ /\ pacing = "realtime"
        /\ asking' = asking \ {First(asking)} /\ answers' = 0
        /\ UNCHANGED stage
     \/ /\ pacing = "step"
        /\ stage' = "over"
        /\ UNCHANGED << asking, answers >>
  /\ UNCHANGED << copy, at, left >>

ReplayCommit ==
  /\ stage = "asking" /\ asking = {}
  /\ copy' = IF pacing = "realtime" THEN Advance(copy) ELSE copy
  /\ at' = at + 1
  /\ stage' = "top"
  /\ UNCHANGED << asking, answers, left >>

Replay == Read \/ ReplayTop \/ ReplayAnswer \/ ReplaySilence \/ ReplayCommit

RecordedInit == Init /\ ReplayInit

RecordedNext ==
  \/ stage = "unread" /\ Next /\ UNCHANGED replay
  \/ Replay /\ UNCHANGED vars

RecordedSpec == RecordedInit /\ [][RecordedNext]_<< vars, replay >> /\ Fairness

\* replay_complete (session/record.go): the recorded decisions alone reproduce
\* the world of every tick, and none is missing, however inputs raced with the
\* intake, whatever was refused on the way and wherever the session stopped.
ReplayReproduces ==
  /\ stage = "top" /\ at \in 1 .. tick => copy = committed[at]
  /\ stage = "over" => at >= tick
=============================================================================
