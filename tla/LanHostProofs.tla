--------------------------- MODULE LanHostProofs ---------------------------
(***************************************************************************)
(* What the host's locks guarantee for any slots, any number of guests and *)
(* any number of matches: a granted seat is held, a match has the guests   *)
(* that were granted its seats, and a closed host holds nobody.            *)
(***************************************************************************)
EXTENDS LanHost, WellFoundedInduction, TLAPS

-----------------------------------------------------------------------------
(* The roster.                                                             *)

\* Looking for the lowest of some slots finds one of them.
LEMMA LowestIsMember ==
  ASSUME NEW S \in SUBSET Slots, S # {}
  PROVE  Lowest(S) \in S
  <1>1. S \subseteq Nat
    BY SlotsAssumption
  <1>2. PICK s \in S : \A u \in S : << u, s >> \notin OpToRel(<, Nat)
    BY <1>1, NatLessThanWellFounded, WFMin
  <1>3. ASSUME NEW u \in Nat, NEW v \in Nat, u < v
        PROVE  << u, v >> \in OpToRel(<, Nat)
    BY <1>3, Zenon DEF OpToRel
  <1>4. \A u \in S : ~ (u < s)
    BY <1>1, <1>2, <1>3, Zenon
  <1>5. \A u \in S : s <= u
    BY <1>1, <1>4
  <1>6. QED
    BY <1>5 DEF Lowest

\* Sitting down keeps everybody where they are, and the roster a roster.
LEMMA SittingKeeps ==
  ASSUME NEW r \in Rosters, NEW s \in Slots,
         NEW who \in Guests \cup { Player, Bot }
  PROVE  /\ AfterSit(r, s, who) \in Rosters
         /\ \A u \in Slots : Filled(r, u) => AfterSit(r, s, who)[u] = r[u]
         /\ Sits(r, s) => AfterSit(r, s, who)[s] = who
  BY DEF Rosters, AfterSit, Sits, Filled

-----------------------------------------------------------------------------
(* The inductive invariant.                                                *)

\* A handler works on some roster, and has granted nothing until it is through;
\* a parked connection is its guest's.
HandlersTell ==
  \A g \in Guests :
    /\ stage[g] \in { "away", "asked", "trying" } => slot[g] = 0
    /\ stage[g] # "away" => asked[g] \in Rooms
    /\ g \in parked => stage[g] = "parked"

\* The window's goroutine fills a slot when it has picked one, and copies the seats
\* of a roster it has found complete.
WindowTells ==
  /\ at \in { "sit", "bot" } => aim \in Slots
  /\ at = "seats" => Complete(holder[room])

\* A finalized roster is full, and is what the match was made with; its agents
\* play the slots of bots.
Frozen ==
  \A m \in Rooms :
    /\ seats[m] # Unfinalized => seats[m] = holder[m] /\ Complete(holder[m])
    /\ \A s \in agents[m] : holder[m][s] = Bot

IInv ==
  /\ TypeOK /\ HandlersTell /\ WindowTells /\ Frozen /\ GrantIsHeld /\ ClosedHoldsNothing

\* Who sits, sits until the match is forgotten.
Keeps == \A m \in Rooms, s \in Slots : Filled(holder[m], s) => holder'[m][s] = holder[m][s]

LEMMA InitInvariant == Init => IInv
  <1> SUFFICES ASSUME Init
               PROVE  IInv
    OBVIOUS
  <1> USE DEF Init
  <1>0. NewRoster \in Rosters /\ room \in Rooms
    BY LanAssumption DEF NewRoster, Rosters, Rooms
  <1>1. TypeOK
    BY <1>0 DEF TypeOK
  <1>2. HandlersTell /\ WindowTells /\ GrantIsHeld /\ ClosedHoldsNothing
    BY DEF HandlersTell, WindowTells, GrantIsHeld, ClosedHoldsNothing
  <1>3. Frozen
    BY DEF Frozen
  <1>4. QED
    BY <1>1, <1>2, <1>3 DEF IInv

-----------------------------------------------------------------------------
(* What a step does to the rosters.                                        *)

\* The slot a guest tries is one of the roster, and not the empty one.
LEMMA ClaimedSlot ==
  ASSUME TypeOK, NEW g \in Guests, choice[g] # {}
  PROVE  /\ Lowest(choice[g]) \in choice[g]
         /\ Lowest(choice[g]) \in Slots
  BY LowestIsMember DEF TypeOK

\* Every step leaves the rosters alone or seats somebody in one of them.
LEMMA RosterStep ==
  ASSUME IInv, [Next]_vars
  PROVE  /\ holder' \in [ Rooms -> Rosters ]
         /\ Keeps
  <1> USE DEF IInv
  <1>0. holder \in [ Rooms -> Rosters ] /\ room \in Rooms
    BY DEF TypeOK
  <1> DEFINE Seating(m, s, who) ==
               holder' = [ holder EXCEPT ![m] = AfterSit(@, s, who) ]
  <1>1. ASSUME NEW m \in Rooms, NEW s \in Slots,
               NEW who \in Guests \cup { Player, Bot }, Seating(m, s, who)
        PROVE  holder' \in [ Rooms -> Rosters ] /\ Keeps
    <2>1. holder[m] \in Rosters
      BY <1>0
    <2>2. /\ AfterSit(holder[m], s, who) \in Rosters
          /\ \A u \in Slots :
               Filled(holder[m], u) => AfterSit(holder[m], s, who)[u] = holder[m][u]
      BY <2>1, SittingKeeps
    <2>3. QED
      BY <1>0, <1>1, <2>2 DEF Keeps
  <1>2. CASE UNCHANGED holder
    BY <1>0, <1>2 DEF Keeps
  <1>3. CASE SitLocal
    <2>1. aim \in Slots
      BY <1>3 DEF SitLocal, WindowTells
    <2>2. QED
      BY <1>0, <1>1, <1>3, <2>1 DEF SitLocal
  <1>4. CASE SitBot
    <2>1. aim \in Slots
      BY <1>4 DEF SitBot, WindowTells
    <2>2. QED
      BY <1>0, <1>1, <1>4, <2>1 DEF SitBot
  <1>5. ASSUME NEW g \in Guests, ClaimSeat(g)
        PROVE  holder' \in [ Rooms -> Rosters ] /\ Keeps
    <2>1. choice[g] # {} /\ stage[g] = "trying"
      BY <1>5 DEF ClaimSeat, Step
    <2>2. asked[g] \in Rooms /\ Lowest(choice[g]) \in Slots
      BY <2>1, ClaimedSlot DEF HandlersTell
    <2>3. Seating(asked[g], Lowest(choice[g]), g)
      BY <1>0, <1>5, <2>2 DEF ClaimSeat, Claim
    <2>4. QED
      BY <1>1, <2>2, <2>3
  <1>6. ASSUME NEW g \in Guests, Handle(g), ~ClaimSeat(g)
        PROVE  UNCHANGED holder
    BY <1>6 DEF Handle, AskSeat, LookForSeat, RefuseGuest, Dial, Park, Accept, Reject, Link,
                Hangup
  <1>7. CASE Gather /\ ~SitLocal /\ ~SitBot
    BY <1>2, <1>7 DEF Gather, ProbeSeat, Press, FillNext, FillDone, Ready, OwnSceneStarts,
                      FinalizeChecks, FinalizeSeats, FinalizeAgents
  <1>8. CASE Match
    BY <1>2, <1>8 DEF Match, StoreServer, TakeParked, MatchEnds, Rebind, ClearServer, Regather
  <1>9. CASE Close \/ StopListening \/ \E m \in Rooms : EndWith(m)
    BY <1>2, <1>9 DEF Close, StopListening, EndWith, service, guest
  <1>10. CASE UNCHANGED vars
    BY <1>2, <1>10 DEF vars
  <1>11. QED
    BY <1>2, <1>3, <1>4, <1>5, <1>6, <1>7, <1>8, <1>9, <1>10 DEF Next

-----------------------------------------------------------------------------
(* The parts of the invariant, step by step.                               *)

LEMMA TypeStep ==
  ASSUME IInv, [Next]_vars
  PROVE  TypeOK'
  <1> USE DEF TypeOK
  <1>1. TypeOK /\ holder' \in [ Rooms -> Rosters ]
    BY RosterStep DEF IInv
  <1>2. CASE UNCHANGED vars
    BY <1>1, <1>2 DEF vars, window, offer, service, guest
  <1>3. CASE Gather
    <2>1. CASE ProbeSeat
      <3>1. ~Complete(holder[room]) => Lowest(Free(holder[room])) \in Slots
        BY LowestIsMember DEF Complete, Free
      <3>2. QED
        BY <1>1, <2>1, <3>1 DEF ProbeSeat, Go, offer, service, guest
    <2>2. CASE SitLocal
      BY <1>1, <2>2 DEF SitLocal, Go, offer, service, guest
    <2>3. CASE Press
      BY <1>1, <2>3 DEF Press, Go, offer, service, guest
    <2>4. CASE FillNext
      <3>1. Lowest(todo) \in Slots
        BY <1>1, <2>4, LowestIsMember DEF FillNext
      <3>2. QED
        BY <1>1, <2>4, <3>1 DEF FillNext, Go, offer, service, guest
    <2>5. CASE SitBot
      BY <1>1, <2>5 DEF SitBot, Go, offer, service, guest
    <2>6. CASE FillDone \/ Ready \/ OwnSceneStarts \/ FinalizeChecks
      BY <1>1, <2>6 DEF FillDone, Ready, OwnSceneStarts, FinalizeChecks, Go, offer, service, guest
    <2>7. CASE FinalizeSeats
      BY <1>1, <2>7 DEF FinalizeSeats, Go, offer, service, guest
    <2>8. CASE FinalizeAgents
      BY <1>1, <2>8 DEF FinalizeAgents, Go, offer, service, guest
    <2>9. QED
      BY <1>3, <2>1, <2>2, <2>3, <2>4, <2>5, <2>6, <2>7, <2>8 DEF Gather
  <1>4. CASE Match
    <2>1. CASE StoreServer \/ ClearServer
      BY <1>1, <2>1 DEF StoreServer, ClearServer, Go, guest, service
    <2>2. CASE TakeParked
      BY <1>1, <2>2 DEF TakeParked, Go, service
    <2>3. CASE MatchEnds
      BY <1>1, <2>3 DEF MatchEnds, offer, service, guest
    <2>4. CASE Rebind
      <3>1. room + 1 \in Rooms
        BY <1>1, <2>4, LanAssumption DEF Rebind, Rooms
      <3>2. QED
        BY <1>1, <2>4, <3>1 DEF Rebind, Go, guest, service
    <2>5. CASE Regather
      BY <1>1, <2>5 DEF Regather, DropAdmitted, Go, service
    <2>6. QED
      BY <1>4, <2>1, <2>2, <2>3, <2>4, <2>5 DEF Match
  <1>5. CASE Close \/ StopListening
    BY <1>1, <1>5 DEF Close, StopListening, window, guest
  <1>6. ASSUME NEW m \in Rooms, EndWith(m)
        PROVE  TypeOK'
    BY <1>1, <1>6 DEF EndWith, DropAdmitted, window, service
  <1>7. ASSUME NEW g \in Guests, Handle(g)
        PROVE  TypeOK'
    <2> USE DEF Step, window, offer, service
    <2>1. CASE AskSeat(g)
      BY <1>1, <2>1 DEF AskSeat
    <2>2. CASE LookForSeat(g)
      <3>1. Free(holder[asked[g]]) \in SUBSET Slots
        BY DEF Free
      <3>2. QED
        BY <1>1, <2>2, <3>1 DEF LookForSeat
    <2>3. CASE ClaimSeat(g)
      <3>1. Lowest(choice[g]) \in Slots
        BY <1>1, <2>3, ClaimedSlot DEF ClaimSeat
      <3>2. choice' \in [ Guests -> SUBSET Slots ]
        BY <1>1, <2>3 DEF ClaimSeat
      <3>3. /\ stage' \in [ Guests -> { "away", "asked", "trying", "granted", "parking",
                                       "parked", "admitting", "accepted", "linked", "done" } ]
            /\ slot' \in [ Guests -> Slots \cup {0} ]
        BY <1>1, <2>3, <3>1 DEF ClaimSeat
      <3>4. UNCHANGED << window, offer, asked, into, open, early >>
        BY <2>3 DEF ClaimSeat
      <3>5. QED
        BY <1>1, <3>2, <3>3, <3>4
    <2>4. CASE RefuseGuest(g)
      BY <1>1, <2>4 DEF RefuseGuest
    <2>5. CASE Dial(g)
      BY <1>1, <2>5 DEF Dial
    <2>6. CASE Park(g)
      BY <1>1, <2>6 DEF Park
    <2>7. CASE Accept(g) \/ Reject(g)
      BY <1>1, <2>7 DEF Accept, Reject
    <2>8. CASE Link(g)
      BY <1>1, <2>8 DEF Link
    <2>9. CASE Hangup(g)
      BY <1>1, <2>9 DEF Hangup
    <2>10. QED
      BY <1>7, <2>1, <2>2, <2>3, <2>4, <2>5, <2>6, <2>7, <2>8, <2>9 DEF Handle
  <1>8. QED
    BY <1>2, <1>3, <1>4, <1>5, <1>6, <1>7 DEF Next

\* A grant stays with its seat, and a seat once granted is kept.
LEMMA GrantStep ==
  ASSUME IInv, [Next]_vars
  PROVE  GrantIsHeld' /\ HandlersTell'
  <1>1. TypeOK /\ HandlersTell /\ GrantIsHeld /\ Keeps
    BY RosterStep DEF IInv
  <1>2. ASSUME NEW g \in Guests, slot[g] # 0, slot'[g] = slot[g], asked'[g] = asked[g]
        PROVE  holder'[asked'[g]][slot'[g]] = g
    <2>1. stage[g] # "away" /\ asked[g] \in Rooms /\ slot[g] \in Slots
      BY <1>1, <1>2 DEF TypeOK, HandlersTell
    <2>2. holder[asked[g]][slot[g]] = g /\ g # Empty
      BY <1>1, <1>2, LanAssumption DEF GrantIsHeld
    <2>3. QED
      BY <1>1, <1>2, <2>1, <2>2 DEF Keeps, Filled
  <1>3. ASSUME UNCHANGED << stage, asked, slot >>, parked' \subseteq parked
        PROVE  GrantIsHeld' /\ HandlersTell'
    BY <1>1, <1>2, <1>3 DEF GrantIsHeld, HandlersTell
  <1>4. CASE UNCHANGED vars
    BY <1>3, <1>4 DEF vars, guest, offer, service
  <1>5. CASE Gather
    BY <1>3, <1>5 DEF Gather, ProbeSeat, SitLocal, Press, FillNext, SitBot, FillDone, Ready,
                      OwnSceneStarts, FinalizeChecks, FinalizeSeats, FinalizeAgents,
                      guest, offer, service
  <1>6. CASE Match /\ ~TakeParked
    BY <1>3, <1>6 DEF Match, StoreServer, MatchEnds, Rebind, ClearServer, Regather, guest,
                      offer, service
  <1>7. CASE Close \/ StopListening \/ \E m \in Rooms : EndWith(m)
    BY <1>3, <1>7 DEF Close, StopListening, EndWith, service, guest
  <1>8. CASE TakeParked
    <2>1. /\ UNCHANGED << asked, slot >> /\ parked' = {}
          /\ stage' = [ g \in Guests |-> IF g \in parked THEN "admitting" ELSE stage[g] ]
      BY <1>8 DEF TakeParked
    <2>2. HandlersTell'
      BY <1>1, <2>1 DEF HandlersTell
    <2>3. QED
      BY <1>2, <2>1, <2>2 DEF GrantIsHeld
  <1>9. ASSUME NEW g \in Guests, Handle(g), ~ClaimSeat(g)
        PROVE  GrantIsHeld' /\ HandlersTell'
    <2> USE <1>1 DEF TypeOK, HandlersTell, Step
    <2>1. CASE AskSeat(g)
      <3>1. slot[g] = 0
        BY <2>1 DEF AskSeat
      <3>2. \A h \in Guests \ {g} : asked'[h] = asked[h] /\ stage'[h] = stage[h]
        BY <2>1 DEF AskSeat
      <3>3. /\ slot' = slot /\ parked' = parked
            /\ asked'[g] \in Rooms /\ stage'[g] = "asked" /\ g \notin parked
        BY <2>1 DEF AskSeat, offer, service
      <3>4. GrantIsHeld'
        BY <1>2, <3>1, <3>2, <3>3 DEF GrantIsHeld
      <3>5. QED
        BY <3>1, <3>2, <3>3, <3>4
    <2>2. CASE LookForSeat(g) \/ RefuseGuest(g) \/ Dial(g) \/ Park(g) \/ Accept(g)
               \/ Reject(g) \/ Link(g)
      <3>1. UNCHANGED << asked, slot >>
        BY <2>2 DEF LookForSeat, RefuseGuest, Dial, Park, Accept, Reject, Link
      <3>2. HandlersTell'
        BY <2>2, <3>1 DEF LookForSeat, RefuseGuest, Dial, Park, Accept, Reject, Link, offer, service
      <3>3. QED
        BY <1>2, <3>1, <3>2 DEF GrantIsHeld
    <2>3. CASE Hangup(g)
      BY <1>3, <2>3 DEF Hangup, offer, service
    <2>4. QED
      BY <1>9, <2>1, <2>2, <2>3 DEF Handle
  <1>10. ASSUME NEW g \in Guests, ClaimSeat(g)
         PROVE  GrantIsHeld' /\ HandlersTell'
    <2> DEFINE s == Lowest(choice[g])
               r == Claim(holder[asked[g]], s, g)
    <2> USE <1>1
    <2>1. /\ stage[g] = "trying" /\ slot[g] = 0
          /\ asked[g] \in Rooms /\ g \notin parked
      BY <1>10 DEF ClaimSeat, Step, HandlersTell
    <2>2. s \in Slots
      BY <1>10, ClaimedSlot DEF ClaimSeat
    <2>3. UNCHANGED << parked, asked >>
      BY <1>10 DEF ClaimSeat, offer, service
    <2>4. \A h \in Guests \ {g} : slot'[h] = slot[h] /\ stage'[h] = stage[h]
      BY <1>10 DEF ClaimSeat, Step, TypeOK
    <2>5. CASE r[s] = g
      <3>1. slot'[g] = s /\ stage'[g] = "granted"
        BY <1>10, <2>5 DEF ClaimSeat, Step, TypeOK
      <3>2. holder'[asked[g]] = r
        BY <1>10, <2>1 DEF ClaimSeat, TypeOK
      <3>3. HandlersTell'
        BY <2>1, <2>3, <2>4, <3>1 DEF HandlersTell
      <3>4. QED
        BY <1>2, <2>3, <2>4, <2>5, <3>1, <3>2, <3>3 DEF GrantIsHeld
    <2>6. CASE r[s] # g
      <3>1. slot'[g] = 0 /\ stage'[g] = "trying"
        BY <1>10, <2>1, <2>6 DEF ClaimSeat, Step, TypeOK
      <3>2. HandlersTell'
        BY <2>1, <2>3, <2>4, <3>1 DEF HandlersTell
      <3>3. QED
        BY <1>2, <2>3, <2>4, <3>1, <3>2 DEF GrantIsHeld
    <2>7. QED
      BY <2>5, <2>6
  <1>11. QED
    BY <1>4, <1>5, <1>6, <1>7, <1>8, <1>9, <1>10 DEF Next

\* A roster that was complete when it was frozen stays as it was.
LEMMA FrozenStep ==
  ASSUME IInv, [Next]_vars
  PROVE  Frozen' /\ WindowTells'
  <1>1. /\ TypeOK /\ Frozen /\ WindowTells /\ Keeps
        /\ holder' \in [ Rooms -> Rosters ]
    BY RosterStep DEF IInv
  <1>2. ASSUME NEW m \in Rooms, Complete(holder[m])
        PROVE  holder'[m] = holder[m] /\ Complete(holder'[m])
    <2>1. \A s \in Slots : holder'[m][s] = holder[m][s]
      BY <1>1, <1>2 DEF Complete, Free, Keeps
    <2>2. holder[m] \in Rosters /\ holder'[m] \in Rosters
      BY <1>1 DEF TypeOK
    <2>3. holder'[m] = holder[m]
      BY <2>1, <2>2 DEF Rosters
    <2>4. QED
      BY <1>2, <2>3
  <1>3. ASSUME NEW m \in Rooms
        PROVE  \A s \in agents[m] : holder'[m][s] = Bot
    <2> SUFFICES ASSUME NEW s \in agents[m] PROVE holder'[m][s] = Bot
      OBVIOUS
    <2>1. s \in Slots /\ holder[m][s] = Bot
      BY <1>1 DEF Frozen, TypeOK
    <2>2. Filled(holder[m], s)
      BY <2>1 DEF Filled, Bot, Empty
    <2>3. QED
      BY <1>1, <2>1, <2>2 DEF Keeps
  <1>4. ASSUME UNCHANGED << seats, agents >>
        PROVE  Frozen'
    BY <1>1, <1>2, <1>3, <1>4 DEF Frozen
  <1>5. ASSUME UNCHANGED << at, aim, room >>
        PROVE  WindowTells'
    BY <1>1, <1>2, <1>5 DEF WindowTells, TypeOK
  <1>6. CASE UNCHANGED vars \/ Close \/ StopListening \/ (\E m \in Rooms : EndWith(m))
             \/ (\E g \in Guests : Handle(g))
    BY <1>4, <1>5, <1>6
    DEF vars, window, offer, service, guest, Close, StopListening, EndWith, Handle,
        AskSeat, LookForSeat, ClaimSeat,
        RefuseGuest, Dial, Park, Accept, Reject, Link, Hangup
  <1>7. CASE Match
    <2>1. UNCHANGED << seats, agents >>
      BY <1>7 DEF Match, StoreServer, TakeParked, MatchEnds, Rebind, ClearServer, Regather
    <2>2. WindowTells'
      BY <1>5, <1>7
      DEF Match, StoreServer, TakeParked, MatchEnds, Rebind, ClearServer, Regather, Go,
          offer, service, WindowTells
    <2>3. QED
      BY <1>4, <2>1, <2>2
  <1>8. CASE ProbeSeat
    <2>1. ~Complete(holder[room]) => Lowest(Free(holder[room])) \in Slots
      BY LowestIsMember DEF Complete, Free
    <2>2. QED
      BY <1>4, <1>8, <2>1 DEF ProbeSeat, Go, WindowTells
  <1>9. CASE FillNext
    <2>1. Lowest(todo) \in Slots
      BY <1>1, <1>9, LowestIsMember DEF FillNext, TypeOK
    <2>2. QED
      BY <1>1, <1>4, <1>5, <1>9, <2>1 DEF FillNext, Go, WindowTells, offer, service
  <1>10. CASE SitLocal \/ Press \/ SitBot \/ FillDone \/ Ready \/ OwnSceneStarts
    BY <1>4, <1>10
    DEF SitLocal, Press, SitBot, FillDone, Ready, OwnSceneStarts, Go, WindowTells
  <1>11. CASE FinalizeChecks
    <2>1. UNCHANGED << seats, agents, holder, room >>
      BY <1>11 DEF FinalizeChecks, offer, service
    <2>2. WindowTells'
      BY <1>11, <2>1 DEF FinalizeChecks, Whole, Go, WindowTells
    <2>3. QED
      BY <1>4, <2>1, <2>2
  <1>12. CASE FinalizeSeats
    <2>1. /\ at = "seats" /\ UNCHANGED << holder, room, agents >>
          /\ seats' = [ seats EXCEPT ![room] = holder[room] ]
          /\ at' = "agents"
      BY <1>12 DEF FinalizeSeats, Go, offer, service
    <2>2. /\ Complete(holder[room]) /\ room \in Rooms
          /\ seats \in [ Rooms -> Rosters \cup { Unfinalized } ]
      BY <1>1, <2>1 DEF WindowTells, TypeOK
    <2>3. Frozen'
      BY <1>1, <2>1, <2>2 DEF Frozen
    <2>4. QED
      BY <2>1, <2>3 DEF WindowTells
  <1>13. CASE FinalizeAgents
    <2>1. /\ UNCHANGED << holder, room, seats >> /\ at' = "serve"
          /\ agents' = [ agents EXCEPT ![room] = { s \in Slots : holder[room][s] = Bot } ]
      BY <1>13 DEF FinalizeAgents, Go, offer, service
    <2>2. room \in Rooms /\ agents \in [ Rooms -> SUBSET Slots ]
      BY <1>1 DEF TypeOK
    <2>3. Frozen'
      BY <1>1, <2>1, <2>2 DEF Frozen
    <2>4. QED
      BY <2>1, <2>3 DEF WindowTells
  <1>14. QED
    BY <1>6, <1>7, <1>8, <1>9, <1>10, <1>11, <1>12, <1>13 DEF Next, Gather

\* Only Park adds to the parked connections.
LEMMA ClosedStep ==
  ASSUME IInv, [Next]_vars
  PROVE  ClosedHoldsNothing'
  <1> USE DEF IInv, ClosedHoldsNothing
  <1>1. CASE UNCHANGED << parked, closed >>
    BY <1>1
  <1>2. CASE UNCHANGED vars \/ Gather
    BY <1>1, <1>2 DEF vars, offer, service, Gather, ProbeSeat, SitLocal, Press, FillNext, SitBot,
                      FillDone, Ready, OwnSceneStarts, FinalizeChecks, FinalizeSeats,
                      FinalizeAgents
  <1>3. CASE Match
    BY <1>3 DEF Match, StoreServer, TakeParked, MatchEnds, Rebind, ClearServer, Regather,
                offer, service
  <1>4. CASE Close \/ StopListening \/ \E m \in Rooms : EndWith(m)
    BY <1>1, <1>4 DEF Close, StopListening, EndWith, service, guest
  <1>5. ASSUME NEW g \in Guests, Handle(g)
        PROVE  ClosedHoldsNothing'
    BY <1>1, <1>5 DEF Handle, AskSeat, LookForSeat, ClaimSeat, RefuseGuest, Dial, Park,
                      Parking, Accept, Reject, Link, Hangup, offer, service
  <1>6. QED
    BY <1>2, <1>3, <1>4, <1>5 DEF Next

-----------------------------------------------------------------------------

\* The invariant holds in every reachable state.
THEOREM Invariance == Spec => []IInv
  <1>1. IInv /\ [Next]_vars => IInv'
    BY TypeStep, GrantStep, FrozenStep, ClosedStep DEF IInv
  <1>2. QED
    BY <1>1, InitInvariant, PTL DEF Spec

\* Every variable keeps its type: no handler works on a roster that was never
\* offered, and nobody but guests, players and bots sits anywhere.
THEOREM TypeCorrect == Spec => []TypeOK
  <1>1. IInv => TypeOK
    BY DEF IInv
  <1>2. QED
    BY <1>1, Invariance, PTL

\* For any number of guests, slots and matches, a guest holds the seat its ticket
\* names: nobody else was granted it or seated there.
THEOREM GrantIsHeldHolds == Spec => []GrantIsHeld
  <1>1. IInv => GrantIsHeld
    BY DEF IInv
  <1>2. QED
    BY <1>1, Invariance, PTL

\* For any number of guests, slots and matches, and whichever scene finalizes the
\* roster at whatever moment: a guest that holds a seat of a match has it in the
\* match's list, and no agent of the roster plays its slot (match.go Finalize).
THEOREM GuestsPlayHolds == Spec => []GuestsPlay
  <1>1. ASSUME IInv, NEW g \in Guests, slot[g] # 0, seats[asked[g]] # Unfinalized
        PROVE  seats[asked[g]][slot[g]] = g /\ slot[g] \notin agents[asked[g]]
    <2>1. asked[g] \in Rooms /\ holder[asked[g]][slot[g]] = g
      BY <1>1 DEF IInv, TypeOK, HandlersTell, GrantIsHeld
    <2>2. g # Bot
      BY LanAssumption
    <2>3. /\ seats[asked[g]] = holder[asked[g]]
          /\ \A s \in agents[asked[g]] : holder[asked[g]][s] = Bot
      BY <1>1, <2>1 DEF IInv, Frozen
    <2>4. QED
      BY <2>1, <2>2, <2>3
  <1>2. IInv => GuestsPlay
    BY <1>1 DEF GuestsPlay
  <1>3. QED
    BY <1>2, Invariance, PTL

\* A closed host has no connection parked.
THEOREM ClosedHoldsNothingHolds == Spec => []ClosedHoldsNothing
  <1>1. IInv => ClosedHoldsNothing
    BY DEF IInv
  <1>2. QED
    BY <1>1, Invariance, PTL

\* Seats are never taken over: whoever sits in a roster, sits there for good.
THEOREM SeatsAreKept == Spec => [][Keeps]_vars
  <1>1. IInv /\ [Next]_vars => [Keeps]_vars
    BY RosterStep
  <1>2. QED
    BY <1>1, Invariance, PTL DEF Spec
=============================================================================
