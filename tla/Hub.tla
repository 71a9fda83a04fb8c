-------------------------------- MODULE Hub --------------------------------
(***************************************************************************)
(* The in-process fan-out of a session's worlds (statesync/hub.go): one    *)
(* Sender and one bounded channel per viewer.  A viewer whose channel is   *)
(* full loses the packet its Sender has already counted as sent; the hub   *)
(* then owes it a snapshot.  The viewers are the read loops of pong        *)
(* (samples/pong/pong/client.go): they apply what the channel holds until  *)
(* it is closed and drained, or until their context ends.                  *)
(*                                                                         *)
(* Every operation of the hub is one critical section; a channel is read   *)
(* outside of it.  Nobody confirms anything to a Sender here.              *)
(***************************************************************************)
EXTENDS StateSync

CONSTANTS
  Viewers,     \* the slots that may attach
  ChanDepth,   \* packets a channel holds (16 in the code)
  World,       \* World[t]: the world the session commits at tick t
  MaxTick,     \* bound: last tick
  Modes        \* baseline modes to consider

ASSUME HubAssumption ==
  /\ ChanDepth \in Nat \ {0}
  /\ MaxTick \in Nat
  /\ World \in [ 1 .. MaxTick -> Worlds ]
  /\ Modes \subseteq BaselineModes

VARIABLES
  mode,      \* the declared baseline mode
  tick,      \* ticks committed and broadcast
  closed,    \* the session is over
  sender,    \* per viewer: its Sender
  chan,      \* per viewer: the packets in its channel
  shut,      \* the viewers whose channel is closed
  receiver,  \* per viewer: its Receiver
  loop       \* per viewer: its read loop

vars == << mode, tick, closed, sender, chan, shut, receiver, loop >>

Attached == { v \in Viewers : loop[v] # "absent" }

Init ==
  /\ mode \in Modes
  /\ tick = 0
  /\ closed = FALSE
  /\ sender = [ v \in Viewers |-> NewSender ]
  /\ chan = [ v \in Viewers |-> << >> ]
  /\ shut = {}
  /\ receiver = [ v \in Viewers |-> NewReceiver ]
  /\ loop = [ v \in Viewers |-> "absent" ]

\* Attach, once per slot, at any time: nothing asks whether the hub is closed.
Attach(v) ==
  /\ loop[v] = "absent"
  /\ loop' = [ loop EXCEPT ![v] = "reading" ]
  /\ UNCHANGED << mode, tick, closed, sender, chan, shut, receiver >>

\* Mutants of SenderAfter: the loss goes unnoticed; the flag is raised before
\* the packet is made, which clears it.
SenderAfterLossIgnored(v) == AfterSending(sender[v], mode, tick', World[tick'])

SenderAfterFlagFirst(v) ==
  AfterSending(IF Len(chan[v]) < ChanDepth THEN sender[v] ELSE ResyncRequested(sender[v]),
               mode, tick', World[tick'])

\* A viewer's Sender after a broadcast: a packet its channel could not take is
\* made up for by a snapshot.
SenderAfter(v) ==
  LET sent == AfterSending(sender[v], mode, tick', World[tick'])
  IN  IF Len(chan[v]) < ChanDepth THEN sent ELSE ResyncRequested(sent)

ChannelAfter(v) ==
  LET pkt == Packet(sender[v], mode, tick', World[tick'])
  IN  IF Len(chan[v]) < ChanDepth THEN Append(chan[v], pkt) ELSE chan[v]

\* Broadcast of the next committed world, to every viewer attached so far.
Broadcast ==
  /\ ~closed
  /\ tick < MaxTick
  /\ tick' = tick + 1
  /\ sender' = [ v \in Viewers |-> IF v \in Attached THEN SenderAfter(v) ELSE sender[v] ]
  /\ chan' = [ v \in Viewers |-> IF v \in Attached THEN ChannelAfter(v) ELSE chan[v] ]
  /\ UNCHANGED << mode, closed, shut, receiver, loop >>

\* RequestResync: any viewer may ask for a snapshot.
RequestResync(v) ==
  /\ loop[v] = "reading"
  /\ sender' = [ sender EXCEPT ![v] = ResyncRequested(@) ]
  /\ UNCHANGED << mode, tick, closed, chan, shut, receiver, loop >>

\* One turn of a viewer's loop: apply the next packet, and ask for a snapshot
\* when its baseline is missing.
ViewerTurn(v) ==
  /\ loop[v] = "reading"
  /\ chan[v] # << >>
  /\ chan' = [ chan EXCEPT ![v] = Tail(@) ]
  /\ receiver' = [ receiver EXCEPT ![v] = Applied(@, Head(chan[v])) ]
  /\ sender' = [ sender EXCEPT ![v] =
       IF ResyncNeeded(receiver[v], Head(chan[v])) THEN ResyncRequested(@) ELSE @ ]
  /\ UNCHANGED << mode, tick, closed, shut, loop >>

\* Mutant of ViewerEnds: a viewer waits for the snapshot it is owed.
ViewerEndsWhole(v) ==
  /\ loop[v] = "reading"
  /\ chan[v] = << >>
  /\ v \in shut
  /\ ~sender[v].needSnap
  /\ loop' = [ loop EXCEPT ![v] = "drained" ]
  /\ UNCHANGED << mode, tick, closed, sender, chan, shut, receiver >>

\* A closed channel is drained before the loop sees that it is closed.
ViewerEnds(v) ==
  /\ loop[v] = "reading"
  /\ chan[v] = << >>
  /\ v \in shut
  /\ loop' = [ loop EXCEPT ![v] = "drained" ]
  /\ UNCHANGED << mode, tick, closed, sender, chan, shut, receiver >>

\* The loop's context ends, whatever its channel holds.
ViewerLeaves(v) ==
  /\ loop[v] = "reading"
  /\ loop' = [ loop EXCEPT ![v] = "left" ]
  /\ UNCHANGED << mode, tick, closed, sender, chan, shut, receiver >>

Close ==
  /\ ~closed
  /\ closed' = TRUE
  /\ shut' = Attached
  /\ UNCHANGED << mode, tick, sender, chan, receiver, loop >>

Next ==
  \/ Broadcast
  \/ Close
  \/ \E v \in Viewers :
       \/ Attach(v)
       \/ RequestResync(v)
       \/ ViewerTurn(v)
       \/ ViewerEnds(v)
       \/ ViewerLeaves(v)

\* A viewer's goroutine is scheduled: what its channel holds, or that it is
\* closed, is noticed in the end.
Fairness ==
  \A v \in Viewers : WF_vars(ViewerTurn(v)) /\ WF_vars(ViewerEnds(v))

Spec == Init /\ [][Next]_vars /\ Fairness

-----------------------------------------------------------------------------

TypeOK ==
  /\ mode \in Modes
  /\ tick \in 0 .. MaxTick
  /\ closed \in BOOLEAN /\ shut \subseteq Viewers
  /\ loop \in [ Viewers -> { "absent", "reading", "drained", "left" } ]
  /\ \A v \in Viewers :
       /\ Len(chan[v]) <= ChanDepth
       /\ Len(sender[v].history) <= HistoryDepth
       /\ Len(receiver[v]) <= HistoryDepth
       /\ sender[v].lastSent \in 0 .. tick
       /\ \A i \in DOMAIN chan[v] : chan[v][i].tick \in 1 .. tick

\* hub.go:19-21, "the hub then forces that receiver's next send to be a
\* snapshot, since a lost packet breaks the speculative delta chain": however
\* many packets a full channel swallowed, the next one a viewer takes decodes.
NextPacketDecodes ==
  \A v \in Viewers : chan[v] # << >> => ~ResyncNeeded(receiver[v], Head(chan[v]))

\* A viewer that emptied its channel shows the last world broadcast to it,
\* unless the hub owes it a snapshot: a loss is never forgotten, and only a loss
\* or a request costs a snapshot.
ShowsLastOrOwed ==
  \A v \in Viewers :
    sender[v].started /\ chan[v] = << >> /\ ~sender[v].needSnap
      => NewestTick(receiver[v]) = sender[v].lastSent

\* Every channel that was closed sets its reader free, however full it was.
ClosedViewersEnd ==
  \A v \in Viewers : v \in shut ~> loop[v] # "reading"

\* What the stream promises each viewer (Replica), seen through its newest
\* version.
Shown(v) ==
  IF Synced(receiver[v]) THEN receiver[v][Len(receiver[v])] ELSE [ tick |-> 0 ]

Abstract(v) == INSTANCE Replica WITH view <- Shown(v)

\* Every viewer's replica shows committed worlds only and moves forward only,
\* whatever its channel lost.
ViewersAreReplicas ==
  /\ \A v \in Viewers : Abstract(v)!Init
  /\ [][\A v \in Viewers : [Abstract(v)!Next]_(Abstract(v)!vars)]_vars
=============================================================================
