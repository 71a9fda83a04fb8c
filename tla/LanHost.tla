------------------------------ MODULE LanHost ------------------------------
(***************************************************************************)
(* An instance that offers its matches on the local network (run/lan): the *)
(* window's goroutine gathers a roster, finalizes it into a match, plays   *)
(* it and gathers the next (run/eb); the HTTP handlers seat guests and     *)
(* park their connections at any moment in between; one goroutine per      *)
(* connection admits it, and one per match ends its links.                 *)
(*                                                                         *)
(* Each action is one critical section of the host's lock, of a roster's   *)
(* lock, or one access to the atomic server pointer.  What happens inside  *)
(* netplay's Admit is the business of Netplay: here it succeeds or fails.  *)
(* Closing the links a list held is one step with taking the list, because *)
(* nothing but the list says which they are.                               *)
(***************************************************************************)
EXTENDS Roster, FiniteSets

CONSTANTS
  Guests,   \* instances that ask for a seat, each once
  MaxRoom   \* bound: matches, and rosters, one after the other

ASSUME LanAssumption ==
  /\ IsFiniteSet(Guests)
  /\ Guests \cap { Empty, Player, Bot } = {}
  /\ MaxRoom \in Nat \ {0}

Rooms == 1 .. MaxRoom

VARIABLES
  at,        \* where the window's goroutine stands
  aim,       \* the slot it is about to fill
  todo,      \* slots FillBots has still to look at
  room,      \* the host's roster, by its match
  holder,    \* holder[m]: the roster of match m
  seats,     \* seats[m]: the seats match m was finalized with
  agents,    \* agents[m]: the slots match m was given an agent for
  server,    \* the match the server pointer serves, 0 for nil
  parked,    \* connections waiting for a match
  admitted,  \* connections to be closed with the match
  closed,    \* the host is closed
  listening, \* the HTTP server takes requests
  over,      \* matches that have ended
  waking,    \* matches whose endWith has still to act
  stage,     \* stage[g]: where guest g, or its handler, stands
  asked,     \* asked[g]: the roster its handler works on
  choice,    \* choice[g]: free seats of that roster it has still to try
  slot,      \* slot[g]: the seat its ticket names, 0 for none
  into,      \* into[g]: the match it is admitted into, 0 for none
  open,      \* guests whose connection is open
  early      \* history: admitted to the list before the end of their match

window == << at, aim, todo, seats, agents, over >>
service == << closed, listening >>
offer == << room, server, parked, admitted, service, waking >>
guest == << stage, asked, choice, slot, into, open, early >>
vars == << window, holder, offer, guest >>

Unfinalized == << >>

Rosters == [ Slots -> Guests \cup { Empty, Player, Bot } ]

TypeOK ==
  /\ at \in { "seat", "sit", "lobby", "fill", "bot", "ready", "finalize", "seats", "agents",
              "serve", "take", "play", "unserve", "drop", "stopped" }
  /\ aim \in Slots \cup {0} /\ todo \subseteq Slots
  /\ room \in Rooms /\ server \in Rooms \cup {0}
  /\ holder \in [ Rooms -> Rosters ]
  /\ seats \in [ Rooms -> Rosters \cup { Unfinalized } ]
  /\ agents \in [ Rooms -> SUBSET Slots ]
  /\ parked \subseteq Guests /\ admitted \subseteq Guests /\ open \subseteq Guests
  /\ early \subseteq Guests
  /\ closed \in BOOLEAN /\ listening \in BOOLEAN
  /\ over \subseteq Rooms /\ waking \subseteq Rooms
  /\ stage \in [ Guests -> { "away", "asked", "trying", "granted", "parking", "parked",
                             "admitting", "accepted", "linked", "done" } ]
  /\ asked \in [ Guests -> Rooms \cup {0} ] /\ into \in [ Guests -> Rooms \cup {0} ]
  /\ slot \in [ Guests -> Slots \cup {0} ]
  /\ choice \in [ Guests -> SUBSET Slots ]

Init ==
  /\ at = "seat" /\ aim = 0 /\ todo = {}
  /\ room = 1 /\ holder = [ m \in Rooms |-> NewRoster ]
  /\ seats = [ m \in Rooms |-> Unfinalized ] /\ agents = [ m \in Rooms |-> {} ]
  /\ server = 0 /\ parked = {} /\ admitted = {} /\ closed = FALSE /\ listening = TRUE
  /\ over = {} /\ waking = {}
  /\ stage = [ g \in Guests |-> "away" ] /\ asked = [ g \in Guests |-> 0 ]
  /\ choice = [ g \in Guests |-> {} ] /\ slot = [ g \in Guests |-> 0 ]
  /\ into = [ g \in Guests |-> 0 ] /\ open = {} /\ early = {}

-----------------------------------------------------------------------------
(* The window's goroutine: gathering.                                      *)

Go(a) == at' = a

\* joinFree, its first critical section: the lowest free slot.
ProbeSeat ==
  /\ at = "seat"
  /\ IF Complete(holder[room])
       THEN Go("lobby") /\ UNCHANGED aim
       ELSE Go("sit") /\ aim' = Lowest(Free(holder[room]))
  /\ UNCHANGED << todo, seats, agents, over, holder, offer, guest >>

\* ... and its second: a guest may have come first.
SitLocal ==
  /\ at = "sit"
  /\ holder' = [ holder EXCEPT ![room] = AfterSit(@, aim, Player) ]
  /\ Go("lobby")
  /\ UNCHANGED << aim, todo, seats, agents, over, offer, guest >>

\* A press, or the frame that sees the roster complete: sit down if nobody at
\* this machine has, else start, with bots in the empty seats or without.
Press ==
  /\ at = "lobby"
  /\ \/ /\ ~Hosted(holder[room]) /\ ~Complete(holder[room])
        /\ Go("seat") /\ UNCHANGED todo
     \/ /\ Hosted(holder[room])
        /\ \/ Go("fill") /\ todo' = Slots
           \/ Go("ready") /\ UNCHANGED todo
  /\ UNCHANGED << aim, seats, agents, over, holder, offer, guest >>

\* FillBots looks at the next slot ...
FillNext ==
  /\ at = "fill" /\ todo # {}
  /\ LET s == Lowest(todo)
     IN  /\ todo' = todo \ {s}
         /\ IF Filled(holder[room], s)
              THEN UNCHANGED << at, aim >>
              ELSE Go("bot") /\ aim' = s
  /\ UNCHANGED << seats, agents, over, holder, offer, guest >>

\* ... and seats a bot there; one that was taken meanwhile ends the attempt.
SitBot ==
  /\ at = "bot"
  /\ holder' = [ holder EXCEPT ![room] = AfterSit(@, aim, Bot) ]
  /\ Go(IF Sits(holder[room], aim) THEN "fill" ELSE "lobby")
  /\ UNCHANGED << aim, todo, seats, agents, over, offer, guest >>

FillDone ==
  /\ at = "fill" /\ todo = {}
  /\ Go("ready")
  /\ UNCHANGED << aim, todo, seats, agents, over, holder, offer, guest >>

\* The seats are marked ready; a roster short of a person keeps waiting.
Ready ==
  /\ at = "ready"
  /\ Go(IF Complete(holder[room]) THEN "finalize" ELSE "lobby")
  /\ UNCHANGED << aim, todo, seats, agents, over, holder, offer, guest >>

\* A gathering scene of the game's own finalizes the roster when it likes.
OwnSceneStarts ==
  /\ at = "lobby"
  /\ Go("finalize")
  /\ UNCHANGED << aim, todo, seats, agents, over, holder, offer, guest >>

\* Mutant of Whole: that the roster is complete is left to the lobby.
WholeEnough(r) == TRUE

\* Finalize refuses a roster with an empty seat.
Whole(r) == Complete(r)

\* Finalize takes the roster's lock three times.  It looks whether every seat is
\* filled: if not it returns ErrIncomplete, and the scene goes on gathering or lets
\* the error end the window ...
FinalizeChecks ==
  /\ at = "finalize"
  /\ \/ Whole(holder[room]) /\ Go("seats")
     \/ ~Whole(holder[room]) /\ (Go("lobby") \/ Go("stopped"))
  /\ UNCHANGED << aim, todo, seats, agents, over, holder, offer, guest >>

\* ... copies the list of seats ...
FinalizeSeats ==
  /\ at = "seats"
  /\ seats' = [ seats EXCEPT ![room] = holder[room] ]
  /\ Go("agents")
  /\ UNCHANGED << aim, todo, agents, over, holder, offer, guest >>

\* ... and the agents, which only bots have: every other slot is admitted detached.
FinalizeAgents ==
  /\ at = "agents"
  /\ agents' = [ agents EXCEPT ![room] = { s \in Slots : holder[room][s] = Bot } ]
  /\ Go("serve")
  /\ UNCHANGED << aim, todo, seats, over, holder, offer, guest >>

-----------------------------------------------------------------------------
(* The window's goroutine: the match.                                      *)

\* Host.Serve puts the server where the handlers find it ...
StoreServer ==
  /\ at = "serve"
  /\ server' = room
  /\ Go("take")
  /\ UNCHANGED << aim, todo, seats, agents, over, holder, room, parked, admitted,
                  service, waking, guest >>

\* ... and starts the admission of everyone who waited, and the goroutine that
\* waits for the end.
TakeParked ==
  /\ at = "take"
  /\ stage' = [ g \in Guests |-> IF g \in parked THEN "admitting" ELSE stage[g] ]
  /\ into' = [ g \in Guests |-> IF g \in parked THEN room ELSE into[g] ]
  /\ parked' = {}
  /\ waking' = waking \cup {room}
  /\ Go("play")
  /\ UNCHANGED << aim, todo, seats, agents, over, holder, room, server, admitted,
                  service, asked, choice, slot, open, early >>

\* The session ends (HostReturns of Session).
MatchEnds ==
  /\ at = "play" /\ room \notin over
  /\ over' = over \cup {room}
  /\ UNCHANGED << at, aim, todo, seats, agents, holder, offer, guest >>

\* The result is dismissed: gather makes the next roster the offer's.
Rebind ==
  /\ at = "play" /\ room \in over /\ room < MaxRoom
  /\ room' = room + 1
  /\ Go("unserve")
  /\ UNCHANGED << aim, todo, seats, agents, over, holder, server, parked, admitted,
                  service, waking, guest >>

ClearServer ==
  /\ at = "unserve"
  /\ server' = 0
  /\ Go("drop")
  /\ UNCHANGED << aim, todo, seats, agents, over, holder, room, parked, admitted,
                  service, waking, guest >>

\* Mutant of Dropping: the links are forgotten and left open.
DroppingNone(links) == {}

\* dropAdmitted closes all that the list held.
Dropping(links) == links

DropAdmitted ==
  /\ admitted' = {}
  /\ open' = open \ Dropping(admitted)

Regather ==
  /\ at = "drop"
  /\ DropAdmitted
  /\ Go("seat")
  /\ UNCHANGED << aim, todo, seats, agents, over, holder, room, server, parked, service,
                  waking, stage, asked, choice, slot, into, early >>

\* endWith wakes up after the end of its match, at whatever time.
EndWith(m) ==
  /\ m \in waking \cap over
  /\ waking' = waking \ {m}
  /\ DropAdmitted
  /\ UNCHANGED << window, holder, room, server, parked, service, stage, asked, choice,
                  slot, into, early >>

\* Host.Close takes the connections it knows and closes them ...
Close ==
  /\ ~closed
  /\ closed' = TRUE
  /\ open' = open \ (parked \cup admitted)
  /\ parked' = {} /\ admitted' = {}
  /\ UNCHANGED << window, holder, room, server, listening, waking, stage, asked, choice,
                  slot, into, early >>

\* ... and only then stops the HTTP server, which leaves the requests alone that
\* it has begun.
StopListening ==
  /\ closed /\ listening
  /\ listening' = FALSE
  /\ UNCHANGED << window, holder, room, server, parked, admitted, closed, waking,
                  guest >>

-----------------------------------------------------------------------------
(* The guests and their handlers.                                          *)

Step(g, from, to) == stage[g] = from /\ stage' = [ stage EXCEPT ![g] = to ]

\* handleSit reads the roster the offer is filling ...
AskSeat(g) ==
  /\ listening
  /\ Step(g, "away", "asked")
  /\ asked' = [ asked EXCEPT ![g] = room ]
  /\ UNCHANGED << window, holder, offer, choice, slot, into, open, early >>

\* ... claimFreeSeat the seats of it ...
LookForSeat(g) ==
  /\ Step(g, "asked", "trying")
  /\ choice' = [ choice EXCEPT ![g] = Free(holder[asked[g]]) ]
  /\ UNCHANGED << window, holder, offer, asked, slot, into, open, early >>

\* Mutant of Claim: the seat was free when it was looked at.
ClaimBlind(r, s, g) == [ r EXCEPT ![s] = g ]

\* SitRemote.
Claim(r, s, g) == AfterSit(r, s, g)

\* ... and takes the first it still gets: the ticket names it.
ClaimSeat(g) ==
  LET s == Lowest(choice[g])
      r == Claim(holder[asked[g]], s, g)
  IN  /\ choice[g] # {}
      /\ holder' = [ holder EXCEPT ![asked[g]] = r ]
      /\ choice' = [ choice EXCEPT ![g] = @ \ {s} ]
      /\ IF r[s] = g
           THEN Step(g, "trying", "granted") /\ slot' = [ slot EXCEPT ![g] = s ]
           ELSE Step(g, "trying", "trying") /\ UNCHANGED slot
      /\ UNCHANGED << window, offer, asked, into, open, early >>

\* Every seat is taken.
RefuseGuest(g) ==
  /\ Step(g, "trying", "done")
  /\ choice[g] = {}
  /\ UNCHANGED << window, holder, offer, asked, choice, slot, into, open, early >>

\* handleWS upgrades the connection and reads the server pointer: a running
\* match admits it straight away ...
Dial(g) ==
  /\ listening
  /\ open' = open \cup {g}
  /\ into' = [ into EXCEPT ![g] = server ]
  /\ Step(g, "granted", IF server # 0 THEN "admitting" ELSE "parking")
  /\ UNCHANGED << window, holder, offer, asked, choice, slot, early >>

\* Mutant of Parking: a closed host still takes connections in.
ParkingAlways == TRUE

\* The host parks connections.
Parking == ~closed

\* ... otherwise it is parked.
Park(g) ==
  /\ IF Parking
       THEN /\ Step(g, "parking", "parked")
            /\ parked' = parked \cup {g}
            /\ UNCHANGED open
       ELSE /\ Step(g, "parking", "done")
            /\ open' = open \ {g}
            /\ UNCHANGED parked
  /\ UNCHANGED << window, holder, room, server, admitted, service, waking, asked,
                  choice, slot, into, early >>

\* admit: the handshake succeeds ...
Accept(g) ==
  /\ g \in open
  /\ Step(g, "admitting", "accepted")
  /\ UNCHANGED << window, holder, offer, asked, choice, slot, into, open, early >>

\* ... or fails, ...
Reject(g) ==
  /\ Step(g, "admitting", "done")
  /\ open' = open \ {g}
  /\ UNCHANGED << window, holder, offer, asked, choice, slot, into, early >>

\* ... and the connection joins those that end with the match.
Link(g) ==
  /\ Step(g, "accepted", "linked")
  /\ admitted' = admitted \cup {g}
  /\ early' = IF into[g] \in over THEN early ELSE early \cup {g}
  /\ UNCHANGED << window, holder, room, server, parked, service, waking, asked, choice,
                  slot, into, open >>

\* The guest goes, or the network between.
Hangup(g) ==
  /\ g \in open
  /\ open' = open \ {g}
  /\ UNCHANGED << window, holder, offer, stage, asked, choice, slot, into, early >>

Gather ==
  \/ ProbeSeat \/ SitLocal \/ Press \/ FillNext \/ SitBot \/ FillDone
  \/ Ready \/ OwnSceneStarts \/ FinalizeChecks \/ FinalizeSeats \/ FinalizeAgents

Match ==
  \/ StoreServer \/ TakeParked \/ MatchEnds \/ Rebind \/ ClearServer \/ Regather

Handle(g) ==
  \/ AskSeat(g) \/ LookForSeat(g) \/ ClaimSeat(g) \/ RefuseGuest(g) \/ Dial(g) \/ Park(g)
  \/ Accept(g) \/ Reject(g) \/ Link(g) \/ Hangup(g)

Next ==
  \/ Gather \/ Match \/ Close \/ StopListening
  \/ \E m \in Rooms : EndWith(m)
  \/ \E g \in Guests : Handle(g)

\* A goroutine that waits for a channel wakes once it is closed.
Fairness == \A m \in Rooms : WF_vars(EndWith(m))

Spec == Init /\ [][Next]_vars /\ Fairness

-----------------------------------------------------------------------------

\* claimFreeSeat, "two guests arriving together race here, and the roster's own
\* lock decides": whoever was granted a seat holds it, against other guests,
\* the person at this machine and FillBots, who all look before they sit.
GrantIsHeld ==
  \A g \in Guests : slot[g] # 0 => holder[asked[g]][slot[g]] = g

\* Roster.Finalize "freezes the roster into a running match" from three readings
\* under separate locks, called by a scene that may not have looked before, while
\* handlers go on seating: a guest that was granted a seat of the match, before,
\* between or after them, is in the match's list of seats, and no agent of the
\* roster plays its slot.
GuestsPlay ==
  \A g \in Guests :
    slot[g] # 0 /\ seats[asked[g]] # Unfinalized
      => seats[asked[g]][slot[g]] = g /\ slot[g] \notin agents[asked[g]]

\* Host.Close closes what is parked, and handleWS parks nothing after that,
\* whenever its upgrade began: no connection waits for a match that no closed
\* host starts.
ClosedHoldsNothing == closed => parked = {}

\* Serve "admits every parked connection the moment the match begins"
\* (lan.go:24-25): while the match runs, none is left waiting.
NoneLeftParked == at = "play" => parked = {}

\* endWith: a guest that was admitted while its match ran does not "wait forever
\* on a link that will never speak again" (lan.go:498).
LinksEnd ==
  \A g \in Guests : g \in early /\ into[g] \in over ~> g \notin open
=============================================================================
