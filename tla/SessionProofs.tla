--------------------------- MODULE SessionProofs ---------------------------
(***************************************************************************)
(* What the session guarantees for any slots, any game and any number of   *)
(* inputs: every agent is told the end once and in the final position, the *)
(* host of a suspect once, and no input is lost, taken twice or taken out  *)
(* of order, wherever submitters and the loop meet.                        *)
(* And what it records is enough: a replay of the decisions passes through *)
(* every world the session committed.                                      *)
(***************************************************************************)
EXTENDS EpisodeReplay, SequenceTheorems, FiniteSetTheorems, WellFoundedInduction, TLAPS

-----------------------------------------------------------------------------
(* Definitions.                                                            *)

Worlds == [ moves : Seq(Slots \X Actions), steps : Nat ]

\* What session.go takes for granted of a rule set: it asks the acting slots
\* for their controllers without a check that they are slots.
RuleSetActsInSlots == \A w \in Worlds : Acting(w) \subseteq Slots

Inputs == [ n : Nat, action : Actions ]

Typed ==
  /\ pacing \in Pacings /\ intake \in Intakes /\ stop \in BOOLEAN
  /\ life \in { "created", "admitting", "running", "draining" } \cup Terminal
  /\ pc \in { "idle", "top", "decide", "intake", "drain" }
  /\ agents \in SUBSET Slots /\ pending \in SUBSET Slots
  /\ attempt \in 0 .. RetryBudget
  /\ world \in Worlds /\ committed \in Seq(Worlds)
  /\ tick = Len(committed) /\ shown \in 0 .. tick
  /\ ended \in [ Slots -> Nat ]

\* Where the session's goroutine stands and what it has promised agree.
StageTells ==
  /\ pc \in { "top", "decide", "intake" } <=> life = "running"
  /\ pc = "drain" <=> life = "draining"
  /\ pc = "drain" => outcome = Outcomes(world)

RowsOf == [ tick : Nat, slot : Slots, action : Actions ]

\* The rows of r that are slot s's.
Tally(r, s) == Cardinality({ i \in DOMAIN r : r[i].slot = s })

Reached(n) == RejectionThreshold > 0 /\ n >= RejectionThreshold

\* The rungs of the escalation ladder agree: what was judged was refused or
\* recorded, and the host heard of a slot when its refusals reached the threshold.
LadderTyped ==
  /\ rejections \in [ Slots -> Nat ] /\ weighed \in [ Slots -> Nat ]
  /\ suspected \in SUBSET Slots /\ told \in [ Slots -> Seq(Nat) ]
  /\ rows \in Seq(RowsOf)

Weighs == \A s \in Slots : weighed[s] = rejections[s] + Tally(rows, s)

Tells ==
  \A s \in Slots :
    /\ s \in suspected <=> Reached(rejections[s])
    /\ Reached(rejections[s]) => told[s] = << RejectionThreshold >>
    /\ ~ Reached(rejections[s]) => told[s] = << >>

LadderTells == LadderTyped /\ Weighs /\ Tells

\* The batch of inputs being judged, as far as it is slot s's.
Held(s) == IF current = s THEN batch ELSE << >>

TypedIntake ==
  /\ inbox \in [ Slots -> Seq(Inputs) ]
  /\ batch \in Seq(Inputs)
  /\ batch # << >> => current \in Slots
  /\ dropped \in [ Slots -> Nat ] /\ submitted \in [ Slots -> Nat ]
  /\ judged \in [ Slots -> Seq(Nat) ]

\* The inputs of a slot in the order they were sent: judged, held, queued.
Rising(q) == \A i, k \in 1 .. Len(q) : i < k => q[i].n < q[k].n
UpTo(q, n) == \A i \in 1 .. Len(q) : q[i].n <= n
Precede(j, q) == \A i \in 1 .. Len(j), k \in 1 .. Len(q) : j[i] < q[k].n
Before(p, q) == \A i \in 1 .. Len(p), k \in 1 .. Len(q) : p[i].n < q[k].n
Judged(j, n) == /\ \A i, k \in 1 .. Len(j) : i < k => j[i] < j[k]
                /\ \A i \in 1 .. Len(j) : j[i] <= n

InOrder(j, h, q, n) ==
  /\ Judged(j, n)
  /\ Rising(h) /\ Rising(q)
  /\ Precede(j, h) /\ Precede(j, q) /\ Before(h, q)
  /\ UpTo(h, n) /\ UpTo(q, n)

Among(j, h, q, n) ==
  \/ \E i \in 1 .. Len(j) : j[i] = n
  \/ \E i \in 1 .. Len(h) : h[i].n = n
  \/ \E i \in 1 .. Len(q) : q[i].n = n

Accounted(policy, j, h, q, n, d) ==
  /\ policy = "all" => n = Len(j) + Len(h) + Len(q) + d
  /\ n > 0 => Among(j, h, q, n)

SlotInOrder(s) ==
  /\ Len(inbox[s]) <= InboxCap
  /\ InOrder(judged[s], Held(s), inbox[s], submitted[s])
  /\ Accounted(intake, judged[s], Held(s), inbox[s], submitted[s], dropped[s])

IntakeTells == TypedIntake /\ \A s \in Slots : SlotInOrder(s)

IInv ==
  /\ Typed
  /\ StageTells
  /\ EndedOnce
  /\ EndedOnFinalPosition
  /\ LadderTells
  /\ IntakeTells

-----------------------------------------------------------------------------
(* Lemmas.                                                                 *)

\* The first of some numbers is one of them, and the least.
LEMMA FirstIsLeast ==
  ASSUME NEW S \in SUBSET Nat, S # {}
  PROVE  First(S) \in S /\ \A u \in S : First(S) <= u
  <1> S \subseteq Nat
    OBVIOUS
  <1>1. PICK s \in S : \A u \in S : << u, s >> \notin OpToRel(<, Nat)
    BY NatLessThanWellFounded, WFMin
  <1>2. ASSUME NEW u \in Nat, NEW v \in Nat, u < v
        PROVE  << u, v >> \in OpToRel(<, Nat)
    BY <1>2, Zenon DEF OpToRel
  <1>3. \A u \in S : ~ (u < s)
    BY <1>1, <1>2, Zenon
  <1>4. \A u \in S : s <= u
    BY <1>3
  <1>5. QED
    BY <1>4 DEF First

LEMMA FirstIsMember ==
  ASSUME NEW S \in SUBSET Slots, S # {}
  PROVE  First(S) \in S
  BY FirstIsLeast, SessionAssumption

LEMMA ApplyTyped ==
  ASSUME NEW w \in Worlds, NEW s \in Slots, NEW a \in Actions
  PROVE  Apply(w, s, a) \in Worlds
  <1>1. Append(w.moves, << s, a >>) \in Seq(Slots \X Actions)
    BY DEF Worlds
  <1>2. QED
    BY <1>1 DEF Apply, Worlds

LEMMA StartTyped == Start \in Worlds
  <1>1. << >> \in Seq(Slots \X Actions)
    OBVIOUS
  <1>2. QED
    BY <1>1 DEF Start, Worlds

LEMMA AdvanceTyped == \A w \in Worlds : Advance(w) \in Worlds
  BY DEF Advance, Worlds

\* The rows of a slot are finitely many.
LEMMA RowsTallied ==
  ASSUME NEW r \in Seq(RowsOf), NEW s \in Slots
  PROVE  /\ IsFiniteSet({ i \in DOMAIN r : r[i].slot = s })
         /\ Tally(r, s) \in Nat
  <1>1. Len(r) \in Nat /\ DOMAIN r = 1 .. Len(r)
    OBVIOUS
  <1>2. IsFiniteSet(1 .. Len(r))
    BY <1>1, FS_Interval
  <1>3. { i \in DOMAIN r : r[i].slot = s } \subseteq 1 .. Len(r)
    BY <1>1
  <1>4. IsFiniteSet({ i \in DOMAIN r : r[i].slot = s })
    BY <1>2, <1>3, FS_Subset
  <1>5. QED
    BY <1>4, FS_CardinalityType DEF Tally

\* One row more is one row more of its slot.
LEMMA TallyOfAppend ==
  ASSUME NEW r \in Seq(RowsOf), NEW x \in RowsOf, NEW s \in Slots
  PROVE  /\ x.slot = s => Tally(Append(r, x), s) = Tally(r, s) + 1
         /\ x.slot # s => Tally(Append(r, x), s) = Tally(r, s)
  <1> DEFINE n == Len(r)
             of(q) == { i \in DOMAIN q : q[i].slot = s }
             g == Append(r, x)
  <1>1. /\ n \in Nat /\ DOMAIN r = 1 .. n /\ DOMAIN g = 1 .. n + 1
        /\ g[n + 1] = x /\ \A i \in 1 .. n : g[i] = r[i]
    OBVIOUS
  <1>2. IsFiniteSet(of(r)) /\ n + 1 \notin of(r)
    BY <1>1, RowsTallied
  <1>3. CASE x.slot = s
    <2>1. of(g) = of(r) \cup { n + 1 }
      BY <1>1, <1>3
    <2>2. Cardinality(of(g)) = Cardinality(of(r)) + 1
      BY <1>2, <2>1, FS_AddElement
    <2>3. QED
      BY <1>3, <2>2 DEF Tally
  <1>4. CASE x.slot # s
    <2>1. of(g) = of(r)
      BY <1>1, <1>4
    <2>2. QED
      BY <1>4, <2>1 DEF Tally
  <1>5. QED
    BY <1>3, <1>4

\* A refusal is told or not, and the rungs agree again.
LEMMA RejectKeepsLadder ==
  ASSUME LadderTells, NEW s \in Slots, Reject(s), rows' = rows
  PROVE  LadderTells'
  <1>1. LadderTyped /\ Weighs /\ Tells /\ RejectionThreshold \in Nat
    BY SessionAssumption DEF LadderTells
  <1>2. /\ rejections' = [ rejections EXCEPT ![s] = @ + 1 ]
        /\ weighed' = [ weighed EXCEPT ![s] = @ + 1 ]
    BY DEF Reject, Weigh
  <1>3. /\ rejections[s] \in Nat /\ weighed[s] \in Nat /\ told[s] \in Seq(Nat)
        /\ rejections' \in [ Slots -> Nat ] /\ weighed' \in [ Slots -> Nat ]
        /\ rejections'[s] = rejections[s] + 1 /\ weighed'[s] = weighed[s] + 1
        /\ \A u \in Slots \ {s} : rejections'[u] = rejections[u] /\ weighed'[u] = weighed[u]
    BY <1>1, <1>2 DEF LadderTyped
  <1>4. Weighs'
    <2> SUFFICES ASSUME NEW u \in Slots
                 PROVE  weighed'[u] = rejections'[u] + Tally(rows, u)
      BY DEF Weighs
    <2>1. weighed[u] = rejections[u] + Tally(rows, u) /\ weighed[u] \in Nat /\ rejections[u] \in Nat
      BY <1>1 DEF Weighs, LadderTyped
    <2>2. Tally(rows, u) \in Nat
      BY <1>1, RowsTallied DEF LadderTyped
    <2>3. CASE u = s
      BY <1>3, <2>1, <2>2, <2>3
    <2>4. CASE u # s
      BY <1>3, <2>1, <2>4
    <2>5. QED
      BY <2>3, <2>4
  <1>5. CASE Flags(s, rejections'[s])
    <2>1. s \notin suspected /\ Reached(rejections'[s])
      BY <1>5 DEF Flags, Reached
    <2>2. told[s] = << >> /\ ~ Reached(rejections[s])
      BY <1>1, <2>1 DEF Tells
    <2>3. rejections'[s] = RejectionThreshold
      BY <1>1, <1>3, <2>1, <2>2 DEF Reached
    <2>4. /\ suspected' = suspected \cup {s}
          /\ told' = [ told EXCEPT ![s] = Append(@, RejectionThreshold) ]
      BY <1>5, <2>3 DEF Reject
    <2>5. Append(told[s], RejectionThreshold) = << RejectionThreshold >>
      BY <2>2
    <2>6. told' \in [ Slots -> Seq(Nat) ] /\ told'[s] = << RejectionThreshold >>
      <3>1. << RejectionThreshold >> \in Seq(Nat)
        BY <1>1
      <3>2. QED
        BY <1>1, <2>4, <2>5, <3>1 DEF LadderTyped
    <2>7. \A u \in Slots \ {s} : told'[u] = told[u]
      BY <1>1, <2>4 DEF LadderTyped
    <2>8. Tells'
      <3> SUFFICES ASSUME NEW u \in Slots
                   PROVE  /\ u \in suspected' <=> Reached(rejections'[u])
                          /\ Reached(rejections'[u]) => told'[u] = << RejectionThreshold >>
                          /\ ~ Reached(rejections'[u]) => told'[u] = << >>
        BY DEF Tells, Reached
      <3>1. CASE u = s
        BY <2>1, <2>4, <2>6, <3>1
      <3>2. CASE u # s
        BY <1>1, <1>3, <2>4, <2>7, <3>2 DEF Tells
      <3>3. QED
        BY <3>1, <3>2
    <2>9. LadderTyped'
      BY <1>1, <1>3, <2>4, <2>6 DEF LadderTyped
    <2>10. QED
      BY <1>4, <2>8, <2>9 DEF LadderTells
  <1>6. CASE ~ Flags(s, rejections'[s])
    <2>1. suspected' = suspected /\ told' = told
      BY <1>6 DEF Reject
    <2>2. Reached(rejections'[s]) <=> Reached(rejections[s])
      <3>1. Reached(rejections'[s]) => s \in suspected
        BY <1>6 DEF Flags, Reached
      <3>2. Reached(rejections[s]) => Reached(rejections'[s])
        BY <1>1, <1>3 DEF Reached
      <3>3. QED
        BY <1>1, <3>1, <3>2 DEF Tells
    <2>3. Tells'
      <3> SUFFICES ASSUME NEW u \in Slots
                   PROVE  /\ u \in suspected <=> Reached(rejections'[u])
                          /\ Reached(rejections'[u]) => told[u] = << RejectionThreshold >>
                          /\ ~ Reached(rejections'[u]) => told[u] = << >>
        BY <2>1 DEF Tells, Reached
      <3>1. CASE u = s
        BY <1>1, <2>2, <3>1 DEF Tells
      <3>2. CASE u # s
        BY <1>1, <1>3, <3>2 DEF Tells
      <3>3. QED
        BY <3>1, <3>2
    <2>4. LadderTyped'
      BY <1>1, <1>3, <2>1 DEF LadderTyped
    <2>5. QED
      BY <1>4, <2>3, <2>4 DEF LadderTells
  <1>7. QED
    BY <1>5, <1>6

\* An accepted action is one more judged, and one more recorded.
LEMMA AcceptKeepsLadder ==
  ASSUME LadderTells, tick \in Nat, NEW s \in Slots, NEW a \in Actions, Accept(s, a)
  PROVE  LadderTells'
  <1>1. LadderTyped /\ Weighs /\ Tells
    BY DEF LadderTells
  <1>2. PICK x \in RowsOf : x.slot = s /\ rows' = Append(rows, x)
    BY DEF Accept, Row, RowsOf
  <1>3. /\ weighed' = [ weighed EXCEPT ![s] = @ + 1 ]
        /\ UNCHANGED << rejections, suspected, told >>
    BY DEF Accept, Weigh
  <1>4. LadderTyped'
    <2>1. rows' \in Seq(RowsOf)
      BY <1>1, <1>2 DEF LadderTyped
    <2>2. weighed' \in [ Slots -> Nat ]
      BY <1>1, <1>3 DEF LadderTyped
    <2>3. QED
      BY <1>1, <1>3, <2>1, <2>2 DEF LadderTyped
  <1>5. Tells'
    BY <1>1, <1>3 DEF Tells, Reached
  <1>6. Weighs'
    <2> SUFFICES ASSUME NEW u \in Slots
                 PROVE  weighed'[u] = rejections[u] + Tally(Append(rows, x), u)
      BY <1>2, <1>3 DEF Weighs, Tally
    <2>1. weighed[u] = rejections[u] + Tally(rows, u) /\ weighed[u] \in Nat /\ rejections[u] \in Nat
      BY <1>1 DEF Weighs, LadderTyped
    <2>2. /\ x.slot = u => Tally(Append(rows, x), u) = Tally(rows, u) + 1
          /\ x.slot # u => Tally(Append(rows, x), u) = Tally(rows, u)
      BY <1>1, TallyOfAppend DEF LadderTyped
    <2> Tally(rows, u) \in Nat
      BY <1>1, RowsTallied DEF LadderTyped
    <2>3. CASE u = s
      <3>1. weighed'[u] = weighed[u] + 1
        BY <1>1, <1>3, <2>3 DEF LadderTyped
      <3>2. QED
        BY <1>2, <2>1, <2>2, <2>3, <3>1
    <2>4. CASE u # s
      <3>1. weighed'[u] = weighed[u]
        BY <1>1, <1>3, <2>4 DEF LadderTyped
      <3>2. QED
        BY <1>2, <2>1, <2>2, <2>4, <3>1
    <2>5. QED
      BY <2>3, <2>4
  <1>7. QED
    BY <1>4, <1>5, <1>6 DEF LadderTells

LEMMA LadderUntouched ==
  ASSUME LadderTells, UNCHANGED << ladder, rows >>
  PROVE  LadderTells'
  <1>1. UNCHANGED << rejections, suspected, told, weighed, rows >>
    BY DEF ladder
  <1>2. LadderTyped' /\ Weighs' /\ Tells'
    BY <1>1 DEF LadderTells, LadderTyped, Weighs, Tells, Tally, Reached
  <1>3. QED
    BY <1>2 DEF LadderTells

\* Told once, and of the threshold.
LEMMA LadderTellsOnce == LadderTells => SuspectedOnce
  <1> SUFFICES ASSUME LadderTells, NEW s \in Slots
               PROVE  told[s] = IF Reached(weighed[s] - Recorded(s))
                                  THEN << RejectionThreshold >> ELSE << >>
    BY DEF SuspectedOnce, Reached
  <1>1. Recorded(s) = Tally(rows, s)
    BY DEF Recorded, Tally
  <1>2. /\ weighed[s] = rejections[s] + Tally(rows, s)
        /\ weighed[s] \in Nat /\ rejections[s] \in Nat
    BY DEF LadderTells, LadderTyped, Weighs
  <1>3. Tally(rows, s) \in Nat
    BY RowsTallied DEF LadderTells, LadderTyped
  <1>4. weighed[s] - Recorded(s) = rejections[s]
    BY <1>1, <1>2, <1>3
  <1>5. QED
    BY <1>4 DEF LadderTells, Tells

-----------------------------------------------------------------------------
(* One slot's inputs.                                                      *)

\* What Submit makes of a queue: the input at its end, the oldest gone if full.
LEMMA QueuedIs ==
  ASSUME NEW s \in Slots, inbox[s] \in Seq(Inputs), NEW x \in Inputs
  PROVE  /\ Queued(s, x) \in Seq(Inputs)
         /\ ~Full(s) => /\ Len(Queued(s, x)) = Len(inbox[s]) + 1
                        /\ Queued(s, x)[Len(inbox[s]) + 1] = x
                        /\ \A i \in 1 .. Len(inbox[s]) : Queued(s, x)[i] = inbox[s][i]
         /\ Full(s) => /\ Len(inbox[s]) > 0
                       /\ Len(Queued(s, x)) = Len(inbox[s])
                       /\ Queued(s, x)[Len(inbox[s])] = x
                       /\ \A i \in 1 .. Len(inbox[s]) - 1 : Queued(s, x)[i] = inbox[s][i + 1]
  <1> DEFINE q == inbox[s]
  <1>1. CASE ~Full(s)
    <2>1. Queued(s, x) = Append(q, x)
      BY <1>1 DEF Queued
    <2>2. QED
      BY <1>1, <2>1
  <1>2. CASE Full(s)
    <2>1. Queued(s, x) = Append(Tail(q), x)
      BY <1>2 DEF Queued
    <2>2. Len(q) > 0
      BY <1>2, SessionAssumption DEF Full
    <2>3. /\ Tail(q) \in Seq(Inputs) /\ Len(Tail(q)) = Len(q) - 1
          /\ \A i \in 1 .. Len(q) - 1 : Tail(q)[i] = q[i + 1]
      BY <2>2
    <2>4. QED
      BY <1>2, <2>1, <2>2, <2>3
  <1>3. QED
    BY <1>1, <1>2

\* The numbers of inputs are numbers.
LEMMA NumbersTyped ==
  ASSUME NEW q \in Seq(Inputs)
  PROVE  Len(q) \in Nat /\ \A i \in 1 .. Len(q) : q[i].n \in Nat
  <1>1. \A i \in 1 .. Len(q) : q[i] \in Inputs
    OBVIOUS
  <1>2. \A x \in Inputs : x.n \in Nat
    BY DEF Inputs
  <1>3. QED
    BY <1>1, <1>2

\* x joins q, and so it becomes r: q and x, or all but the first of q and x.
Joined(q, x, r) ==
  /\ Len(r) = Len(q) + 1
  /\ r[Len(q) + 1] = x
  /\ \A i \in 1 .. Len(q) : r[i] = q[i]

Displaced(q, x, r) ==
  /\ Len(q) > 0
  /\ Len(r) = Len(q)
  /\ r[Len(q)] = x
  /\ \A i \in 1 .. Len(q) - 1 : r[i] = q[i + 1]

\* An input newer than all its slot has sent joins behind them.
LEMMA JoinKeepsOrder ==
  ASSUME NEW j \in Seq(Nat), NEW h \in Seq(Inputs), NEW q \in Seq(Inputs),
         NEW r \in Seq(Inputs), NEW n \in Nat, NEW x \in Inputs, x.n = n + 1,
         InOrder(j, h, q, n), Joined(q, x, r) \/ Displaced(q, x, r)
  PROVE  InOrder(j, h, r, n + 1)
  <1>1. /\ Len(j) \in Nat /\ Len(h) \in Nat /\ Len(q) \in Nat /\ Len(r) \in Nat
        /\ \A i \in 1 .. Len(j) : j[i] \in Nat
        /\ \A i \in 1 .. Len(h) : h[i].n \in Nat
        /\ \A i \in 1 .. Len(q) : q[i].n \in Nat
    <2>1. Len(j) \in Nat /\ \A i \in 1 .. Len(j) : j[i] \in Nat
      OBVIOUS
    <2>2. Len(h) \in Nat /\ \A i \in 1 .. Len(h) : h[i].n \in Nat
      BY NumbersTyped
    <2>3. Len(q) \in Nat /\ \A i \in 1 .. Len(q) : q[i].n \in Nat
      BY NumbersTyped
    <2>4. Len(r) \in Nat
      OBVIOUS
    <2>5. QED
      BY <2>1, <2>2, <2>3, <2>4
  <1>2. /\ Judged(j, n) /\ Rising(h) /\ Rising(q) /\ Precede(j, h) /\ Precede(j, q)
        /\ Before(h, q) /\ UpTo(h, n) /\ UpTo(q, n)
    BY DEF InOrder
  <1>3. PICK e \in { 0, 1 } :
          /\ Len(r) > 0 /\ r[Len(r)].n = n + 1
          /\ \A i \in 1 .. Len(r) : i # Len(r) => i + e \in 1 .. Len(q) /\ r[i] = q[i + e]
    <2>1. CASE Joined(q, x, r)
      BY <1>1, <2>1 DEF Joined
    <2>2. CASE Displaced(q, x, r)
      BY <1>1, <2>2 DEF Displaced
    <2>3. QED
      BY <2>1, <2>2
  <1>4. Rising(r)
    <2> SUFFICES ASSUME NEW i \in 1 .. Len(r), NEW k \in 1 .. Len(r), i < k
                 PROVE  r[i].n < r[k].n
      BY DEF Rising
    <2>1. i + e \in 1 .. Len(q) /\ r[i] = q[i + e]
      BY <1>1, <1>3
    <2>2. CASE k = Len(r)
      BY <1>1, <1>2, <1>3, <2>1, <2>2 DEF UpTo
    <2>3. CASE k # Len(r)
      <3>1. k + e \in 1 .. Len(q) /\ r[k] = q[k + e] /\ i + e < k + e
        BY <1>1, <1>3, <2>3
      <3>2. QED
        BY <1>2, <2>1, <3>1 DEF Rising
    <2>4. QED
      BY <2>2, <2>3
  <1>5. \A k \in 1 .. Len(r) : r[k].n = n + 1 \/ \E i \in 1 .. Len(q) : r[k] = q[i]
    BY <1>3
  <1>6. Precede(j, r)
    <2> SUFFICES ASSUME NEW i \in 1 .. Len(j), NEW k \in 1 .. Len(r) PROVE j[i] < r[k].n
      BY DEF Precede
    <2>1. j[i] <= n /\ \A m \in 1 .. Len(q) : j[i] < q[m].n
      BY <1>2 DEF Judged, Precede
    <2>2. CASE r[k].n = n + 1
      BY <1>1, <2>1, <2>2
    <2>3. CASE \E m \in 1 .. Len(q) : r[k] = q[m]
      BY <1>1, <2>1, <2>3
    <2>4. QED
      BY <1>5, <2>2, <2>3
  <1>7. Before(h, r)
    <2> SUFFICES ASSUME NEW i \in 1 .. Len(h), NEW k \in 1 .. Len(r) PROVE h[i].n < r[k].n
      BY DEF Before
    <2>1. h[i].n <= n /\ \A m \in 1 .. Len(q) : h[i].n < q[m].n
      BY <1>2 DEF UpTo, Before
    <2>2. CASE r[k].n = n + 1
      BY <1>1, <2>1, <2>2
    <2>3. CASE \E m \in 1 .. Len(q) : r[k] = q[m]
      BY <1>1, <2>1, <2>3
    <2>4. QED
      BY <1>5, <2>2, <2>3
  <1>8. UpTo(r, n + 1)
    <2> SUFFICES ASSUME NEW k \in 1 .. Len(r) PROVE r[k].n <= n + 1
      BY DEF UpTo
    <2>1. \A m \in 1 .. Len(q) : q[m].n <= n
      BY <1>2 DEF UpTo
    <2>2. CASE r[k].n = n + 1
      BY <1>1, <2>1, <2>2
    <2>3. CASE \E m \in 1 .. Len(q) : r[k] = q[m]
      BY <1>1, <2>1, <2>3
    <2>4. QED
      BY <1>5, <2>2, <2>3
  <1>9. Judged(j, n + 1)
    <2>1. ASSUME NEW i \in 1 .. Len(j)
          PROVE  j[i] <= n + 1
      <3>1. j[i] <= n
        BY <1>2 DEF Judged
      <3>2. QED
        BY <1>1, <3>1
    <2>2. QED
      BY <1>2, <2>1 DEF Judged
  <1>10. UpTo(h, n + 1)
    <2> SUFFICES ASSUME NEW i \in 1 .. Len(h) PROVE h[i].n <= n + 1
      BY DEF UpTo
    <2>1. h[i].n <= n
      BY <1>2 DEF UpTo
    <2>2. QED
      BY <1>1, <2>1
  <1>11. QED
    BY <1>2, <1>4, <1>6, <1>7, <1>8, <1>9, <1>10 DEF InOrder

\* It is accounted for: as queued, or with the one it displaced as dropped.
LEMMA JoinKeepsAccount ==
  ASSUME NEW p, NEW j \in Seq(Nat), NEW h \in Seq(Inputs), NEW q \in Seq(Inputs),
         NEW r \in Seq(Inputs), NEW n \in Nat, NEW x \in Inputs, x.n = n + 1,
         NEW d \in Nat, NEW e \in Nat, Accounted(p, j, h, q, n, d),
         \/ Joined(q, x, r) /\ e = d
         \/ Displaced(q, x, r) /\ e = d + 1
  PROVE  Accounted(p, j, h, r, n + 1, e)
  <1>1. Len(j) \in Nat /\ Len(h) \in Nat /\ Len(q) \in Nat /\ Len(r) \in Nat
    OBVIOUS
  <1>2. Len(r) > 0 /\ r[Len(r)].n = n + 1 /\ Len(r) + e = Len(q) + d + 1
    <2>1. CASE Joined(q, x, r) /\ e = d
      BY <1>1, <2>1 DEF Joined
    <2>2. CASE Displaced(q, x, r) /\ e = d + 1
      BY <1>1, <2>2 DEF Displaced
    <2>3. QED
      BY <2>1, <2>2
  <1>3. Among(j, h, r, n + 1)
    BY <1>1, <1>2 DEF Among
  <1>4. p = "all" => n + 1 = Len(j) + Len(h) + Len(r) + e
    BY <1>1, <1>2 DEF Accounted
  <1>5. QED
    BY <1>3, <1>4 DEF Accounted

\* What is taken of a queue, its whole or its last, is held in order.
LEMMA TakeKeepsOrder ==
  ASSUME NEW p, NEW j \in Seq(Nat), NEW q \in Seq(Inputs), NEW n \in Nat, NEW d \in Nat,
         InOrder(j, << >>, q, n), Accounted(p, j, << >>, q, n, d),
         NEW h \in Seq(Inputs),
         \/ h = q
         \/ p # "all" /\ Len(q) > 0 /\ h = << q[Len(q)] >>
  PROVE  InOrder(j, h, << >>, n) /\ Accounted(p, j, h, << >>, n, d)
  <1>1. /\ Len(j) \in Nat /\ Len(q) \in Nat /\ Len(<< >>) = 0
        /\ \A i \in 1 .. Len(q) : q[i].n \in Nat
        /\ \A i \in 1 .. Len(j) : j[i] \in Nat
    BY NumbersTyped
  <1>2. /\ Judged(j, n) /\ Rising(q) /\ Precede(j, q) /\ UpTo(q, n)
    BY DEF InOrder
  <1>3. Rising(<< >>) /\ Precede(j, << >>) /\ Before(h, << >>) /\ UpTo(<< >>, n)
    BY <1>1 DEF Rising, Precede, Before, UpTo
  <1>4. CASE h = q
    <2>1. InOrder(j, h, << >>, n)
      BY <1>2, <1>3, <1>4 DEF InOrder
    <2>2. Accounted(p, j, h, << >>, n, d)
      BY <1>1, <1>4 DEF Accounted, Among
    <2>3. QED
      BY <2>1, <2>2
  <1>5. CASE p # "all" /\ Len(q) > 0 /\ h = << q[Len(q)] >>
    <2>1. Len(h) = 1 /\ h[1] = q[Len(q)] /\ Len(q) \in 1 .. Len(q)
      BY <1>1, <1>5
    <2>2. Rising(h) /\ Precede(j, h) /\ UpTo(h, n)
      BY <1>1, <1>2, <2>1 DEF Rising, Precede, UpTo
    <2>3. InOrder(j, h, << >>, n)
      BY <1>2, <1>3, <2>2 DEF InOrder
    <2>4. ASSUME n > 0
          PROVE  Among(j, h, << >>, n)
      <3>1. CASE \E i \in 1 .. Len(j) : j[i] = n
        BY <3>1 DEF Among
      <3>2. CASE \E i \in 1 .. Len(q) : q[i].n = n
        <4>1. PICK i \in 1 .. Len(q) : q[i].n = n
          BY <3>2
        <4>2. i = Len(q)
          <5>1. q[Len(q)].n <= n
            BY <1>2, <2>1 DEF UpTo
          <5>2. i < Len(q) => q[i].n < q[Len(q)].n
            BY <1>2, <2>1 DEF Rising
          <5>3. QED
            BY <1>1, <2>1, <4>1, <5>1, <5>2
        <4>3. QED
          BY <2>1, <4>1, <4>2 DEF Among
      <3>3. QED
        BY <1>1, <2>4, <3>1, <3>2 DEF Accounted, Among
    <2>5. QED
      BY <1>5, <2>3, <2>4 DEF Accounted
  <1>6. QED
    BY <1>4, <1>5

\* The first held is judged: it comes after all judged before it.
LEMMA JudgeKeepsOrder ==
  ASSUME NEW p, NEW j \in Seq(Nat), NEW h \in Seq(Inputs), NEW q \in Seq(Inputs),
         NEW n \in Nat, NEW d \in Nat, h # << >>,
         InOrder(j, h, q, n), Accounted(p, j, h, q, n, d)
  PROVE  /\ InOrder(Append(j, Head(h).n), Tail(h), q, n)
         /\ Accounted(p, Append(j, Head(h).n), Tail(h), q, n, d)
  <1> DEFINE g == Append(j, Head(h).n)
             t == Tail(h)
  <1>1. /\ Len(j) \in Nat /\ Len(h) \in Nat /\ Len(q) \in Nat /\ Len(h) > 0
        /\ \A i \in 1 .. Len(j) : j[i] \in Nat
        /\ \A i \in 1 .. Len(h) : h[i].n \in Nat
        /\ \A i \in 1 .. Len(q) : q[i].n \in Nat
    <2>1. Len(j) \in Nat /\ \A i \in 1 .. Len(j) : j[i] \in Nat
      OBVIOUS
    <2>2. Len(h) \in Nat /\ \A i \in 1 .. Len(h) : h[i].n \in Nat
      BY NumbersTyped
    <2>3. Len(q) \in Nat /\ \A i \in 1 .. Len(q) : q[i].n \in Nat
      BY NumbersTyped
    <2>4. QED
      BY <2>1, <2>2, <2>3
  <1>2. /\ Judged(j, n) /\ Rising(h) /\ Rising(q) /\ Precede(j, h) /\ Precede(j, q)
        /\ Before(h, q) /\ UpTo(h, n) /\ UpTo(q, n)
    BY DEF InOrder
  <1>3. /\ g \in Seq(Nat) /\ Len(g) = Len(j) + 1 /\ g[Len(j) + 1] = h[1].n
        /\ \A i \in 1 .. Len(j) : g[i] = j[i]
    <2>1. Head(h) = h[1] /\ h[1].n \in Nat
      BY <1>1
    <2> DEFINE a == Head(h).n
    <2>2. a = h[1].n /\ a \in Nat
      BY <2>1
    <2> HIDE DEF a
    <2>3. /\ Append(j, a) \in Seq(Nat) /\ Len(Append(j, a)) = Len(j) + 1
          /\ Append(j, a)[Len(j) + 1] = a
          /\ \A i \in 1 .. Len(j) : Append(j, a)[i] = j[i]
      BY <2>2
    <2>4. QED
      BY <2>2, <2>3 DEF a
  <1>4. /\ t \in Seq(Inputs) /\ Len(t) = Len(h) - 1
        /\ \A i \in 1 .. Len(t) : t[i] = h[i + 1]
    BY <1>1
  <1> HIDE DEF g, t
  <1>5. \A i \in 1 .. Len(t) : i + 1 \in 1 .. Len(h)
    BY <1>1, <1>4
  <1>6. Judged(g, n)
    <2>1. ASSUME NEW i \in 1 .. Len(g), NEW k \in 1 .. Len(g), i < k
          PROVE  g[i] < g[k]
      <3>1. i \in 1 .. Len(j) /\ g[i] = j[i]
        BY <1>1, <1>3, <2>1
      <3>2. CASE k = Len(j) + 1
        BY <1>1, <1>2, <1>3, <3>1, <3>2 DEF Precede
      <3>3. CASE k # Len(j) + 1
        <4>1. k \in 1 .. Len(j) /\ g[k] = j[k]
          BY <1>1, <1>3, <3>3
        <4>2. QED
          BY <1>2, <2>1, <3>1, <4>1 DEF Judged
      <3>4. QED
        BY <3>2, <3>3
    <2>2. ASSUME NEW i \in 1 .. Len(g)
          PROVE  g[i] <= n
      <3>1. CASE i = Len(j) + 1
        BY <1>1, <1>2, <1>3, <3>1 DEF UpTo
      <3>2. CASE i # Len(j) + 1
        <4>1. i \in 1 .. Len(j) /\ g[i] = j[i]
          BY <1>1, <1>3, <3>2
        <4>2. QED
          BY <1>2, <4>1 DEF Judged
      <3>3. QED
        BY <3>1, <3>2
    <2>3. QED
      BY <2>1, <2>2 DEF Judged
  <1>7. Rising(t)
    <2> SUFFICES ASSUME NEW i \in 1 .. Len(t), NEW k \in 1 .. Len(t), i < k
                 PROVE  t[i].n < t[k].n
      BY DEF Rising
    <2>1. i + 1 \in 1 .. Len(h) /\ k + 1 \in 1 .. Len(h) /\ i + 1 < k + 1
      BY <1>5
    <2>2. QED
      BY <1>2, <1>4, <2>1 DEF Rising
  <1>8. Precede(g, t)
    <2> SUFFICES ASSUME NEW i \in 1 .. Len(g), NEW k \in 1 .. Len(t) PROVE g[i] < t[k].n
      BY DEF Precede
    <2>1. k + 1 \in 1 .. Len(h) /\ t[k] = h[k + 1] /\ 1 < k + 1 /\ 1 \in 1 .. Len(h)
      BY <1>1, <1>4, <1>5
    <2>2. h[1].n < h[k + 1].n
      BY <1>2, <2>1 DEF Rising
    <2>3. CASE i = Len(j) + 1
      BY <1>3, <2>1, <2>2, <2>3
    <2>4. CASE i # Len(j) + 1
      <3>1. i \in 1 .. Len(j)
        BY <1>1, <1>3, <2>4
      <3>2. g[i] = j[i]
        BY <1>3, <3>1
      <3>3. j[i] < h[k + 1].n
        BY <1>2, <2>1, <3>1 DEF Precede
      <3>4. QED
        BY <2>1, <3>2, <3>3
    <2>5. QED
      BY <2>3, <2>4
  <1>9. Precede(g, q)
    <2> SUFFICES ASSUME NEW i \in 1 .. Len(g), NEW k \in 1 .. Len(q) PROVE g[i] < q[k].n
      BY DEF Precede
    <2>1. CASE i = Len(j) + 1
      BY <1>1, <1>2, <1>3, <2>1 DEF Before
    <2>2. CASE i # Len(j) + 1
      <3>1. i \in 1 .. Len(j) /\ g[i] = j[i]
        BY <1>1, <1>3, <2>2
      <3>2. QED
        BY <1>2, <3>1 DEF Precede
    <2>3. QED
      BY <2>1, <2>2
  <1>10. Before(t, q) /\ UpTo(t, n)
    BY <1>2, <1>4, <1>5 DEF Before, UpTo
  <1>11. InOrder(g, t, q, n)
    BY <1>2, <1>6, <1>7, <1>8, <1>9, <1>10 DEF InOrder
  <1>12. ASSUME n > 0
         PROVE  Among(g, t, q, n)
    <2>1. Among(j, h, q, n)
      BY <1>12 DEF Accounted
    <2>2. CASE \E i \in 1 .. Len(j) : j[i] = n
      BY <1>1, <1>3, <2>2 DEF Among
    <2>3. CASE \E i \in 1 .. Len(h) : h[i].n = n
      <3>1. PICK i \in 1 .. Len(h) : h[i].n = n
        BY <2>3
      <3>2. CASE i = 1
        BY <1>1, <1>3, <3>1, <3>2 DEF Among
      <3>3. CASE i # 1
        <4>1. i - 1 \in 1 .. Len(t) /\ t[i - 1] = h[i]
          BY <1>1, <1>4, <3>3
        <4>2. QED
          BY <3>1, <4>1 DEF Among
      <3>4. QED
        BY <3>2, <3>3
    <2>4. CASE \E i \in 1 .. Len(q) : q[i].n = n
      BY <2>4 DEF Among
    <2>5. QED
      BY <2>1, <2>2, <2>3, <2>4 DEF Among
  <1>13. Accounted(p, g, t, q, n, d)
    <2>1. Len(g) + Len(t) = Len(j) + Len(h)
      BY <1>1, <1>3, <1>4
    <2>2. p = "all" => n = Len(j) + Len(h) + Len(q) + d
      BY DEF Accounted
    <2>3. p = "all" => n = Len(g) + Len(t) + Len(q) + d
      BY <2>1, <2>2
    <2>4. QED
      BY <1>12, <2>3 DEF Accounted
  <1>14. QED
    BY <1>11, <1>13 DEF g, t

-----------------------------------------------------------------------------
(* The steps of the intake.                                                *)

\* A slot none of whose inputs moves keeps its order.
LEMMA SlotUntouched ==
  ASSUME NEW s \in Slots, SlotInOrder(s), intake' = intake, inbox'[s] = inbox[s],
         Held(s)' = Held(s), submitted'[s] = submitted[s], judged'[s] = judged[s],
         dropped'[s] = dropped[s]
  PROVE  SlotInOrder(s)'
  BY DEF SlotInOrder, InOrder, Judged, Rising, Precede, Before, UpTo, Accounted, Among

LEMMA SubmitKeepsIntake ==
  ASSUME IntakeTells, NEW s \in Slots, Submit(s)
  PROVE  IntakeTells'
  <1> DEFINE n == submitted[s]
  <1>1. TypedIntake /\ \A u \in Slots : SlotInOrder(u)
    BY DEF IntakeTells
  <1>2. /\ UNCHANGED << intake, current, batch, judged >>
        /\ submitted' = [ submitted EXCEPT ![s] = @ + 1 ]
        /\ dropped' = [ dropped EXCEPT ![s] = IF Full(s) THEN @ + 1 ELSE @ ]
    BY DEF Submit, turn
  <1>3. PICK a \in Actions :
          inbox' = [ inbox EXCEPT ![s] = Queued(s, Input(submitted'[s], a)) ]
    BY DEF Submit
  <1> DEFINE x == Input(n + 1, a)
  <1>4. /\ inbox[s] \in Seq(Inputs) /\ n \in Nat /\ dropped[s] \in Nat
        /\ judged[s] \in Seq(Nat) /\ Held(s) \in Seq(Inputs)
        /\ x \in Inputs /\ x.n = n + 1
        /\ submitted'[s] = n + 1
    <2>1. /\ inbox[s] \in Seq(Inputs) /\ n \in Nat /\ dropped[s] \in Nat
          /\ judged[s] \in Seq(Nat) /\ submitted'[s] = n + 1
      BY <1>1, <1>2 DEF TypedIntake
    <2>2. Held(s) \in Seq(Inputs)
      BY <1>1 DEF TypedIntake, Held
    <2>3. x \in Inputs /\ x.n = n + 1
      BY <2>1 DEF Input, Inputs
    <2>4. QED
      BY <2>1, <2>2, <2>3
  <1>5. inbox'[s] = Queued(s, x)
    BY <1>1, <1>3, <1>4 DEF TypedIntake
  <1>6. /\ inbox'[s] \in Seq(Inputs)
        /\ ~Full(s) => Joined(inbox[s], x, inbox'[s])
        /\ Full(s) => Displaced(inbox[s], x, inbox'[s])
    <2> HIDE DEF x
    <2>1. QED
      BY <1>4, <1>5, QueuedIs DEF Joined, Displaced
  <1>7. dropped'[s] \in Nat /\ dropped'[s] = IF Full(s) THEN dropped[s] + 1 ELSE dropped[s]
    BY <1>1, <1>2 DEF TypedIntake
  <1>8. TypedIntake'
    BY <1>1, <1>2, <1>3, <1>5, <1>6 DEF TypedIntake
  <1>9. SlotInOrder(s)'
    <2> HIDE DEF x, n
    <2>1. /\ InOrder(judged[s], Held(s), inbox[s], n) /\ Len(inbox[s]) <= InboxCap
          /\ Accounted(intake, judged[s], Held(s), inbox[s], n, dropped[s])
      BY <1>1 DEF SlotInOrder, n
    <2>2. InOrder(judged[s], Held(s), inbox'[s], n + 1)
      BY <1>4, <1>6, <2>1, JoinKeepsOrder
    <2>3. Accounted(intake, judged[s], Held(s), inbox'[s], n + 1, dropped'[s])
      BY <1>4, <1>6, <1>7, <2>1, JoinKeepsAccount
    <2>4. Len(inbox'[s]) <= InboxCap
      BY <1>4, <1>6, <2>1, SessionAssumption DEF Joined, Displaced, Full
    <2>5. Held(s)' = Held(s)
      BY <1>2 DEF Held
    <2>6. judged'[s] = judged[s] /\ intake' = intake
      BY <1>2
    <2>7. QED
      BY <1>4, <2>2, <2>3, <2>4, <2>5, <2>6 DEF SlotInOrder, InOrder, Judged, Rising,
         Precede, Before, UpTo, Accounted, Among
  <1>10. ASSUME NEW u \in Slots, u # s
         PROVE  SlotInOrder(u)'
    <2>1. /\ inbox'[u] = inbox[u] /\ submitted'[u] = submitted[u]
          /\ dropped'[u] = dropped[u] /\ judged'[u] = judged[u]
      BY <1>1, <1>2, <1>3, <1>10 DEF TypedIntake
    <2>2. Held(u)' = Held(u) /\ intake' = intake
      BY <1>2 DEF Held
    <2>3. QED
      BY <1>1, <2>1, <2>2, SlotUntouched
  <1>11. QED
    BY <1>8, <1>9, <1>10 DEF IntakeTells

LEMMA TakeKeepsIntake ==
  ASSUME Typed, IntakeTells, TakeInputs
  PROVE  IntakeTells'
  <1>1. TypedIntake /\ \A u \in Slots : SlotInOrder(u)
    BY DEF IntakeTells
  <1>2. PICK s \in Slots : s = First(pending)
    <2>1. pending \in SUBSET Slots /\ pending # {}
      BY DEF Typed, TakeInputs
    <2>2. QED
      BY <2>1, FirstIsMember
  <1>3. /\ batch = << >> /\ current' = s /\ batch' = Taken(s)
        /\ inbox' = [ inbox EXCEPT ![s] = << >> ]
        /\ UNCHANGED << intake, dropped, submitted, judged >>
    BY <1>2 DEF TakeInputs
  <1>4. inbox[s] \in Seq(Inputs) /\ inbox'[s] = << >>
    BY <1>1, <1>2, <1>3 DEF TypedIntake
  <1>5. /\ Taken(s) \in Seq(Inputs)
        /\ \/ Taken(s) = inbox[s]
           \/ /\ intake # "all" /\ Len(inbox[s]) > 0
              /\ Taken(s) = << inbox[s][Len(inbox[s])] >>
    <2>1. CASE intake = "all" \/ inbox[s] = << >>
      BY <1>4, <2>1 DEF Taken
    <2>2. CASE ~ (intake = "all" \/ inbox[s] = << >>)
      <3>1. Len(inbox[s]) > 0 /\ inbox[s][Len(inbox[s])] \in Inputs
        BY <1>4, <2>2
      <3>2. QED
        BY <2>2, <3>1 DEF Taken
    <2>3. QED
      BY <2>1, <2>2
  <1>6. TypedIntake'
    <2>1. inbox' \in [ Slots -> Seq(Inputs) ]
      BY <1>1, <1>2, <1>3 DEF TypedIntake
    <2>2. QED
      BY <1>1, <1>2, <1>3, <1>5, <2>1 DEF TypedIntake
  <1>7. Held(s) = << >> /\ Held(s)' = Taken(s)
    BY <1>3 DEF Held
  <1>8. SlotInOrder(s)'
    <2> DEFINE j == judged[s]
               n == submitted[s]
               d == dropped[s]
    <2>1. /\ InOrder(j, << >>, inbox[s], n)
          /\ Accounted(intake, j, << >>, inbox[s], n, d)
      BY <1>1, <1>2, <1>7 DEF SlotInOrder
    <2>2. j \in Seq(Nat) /\ n \in Nat /\ d \in Nat
      BY <1>1, <1>2 DEF TypedIntake
    <2>3. /\ j = judged'[s] /\ n = submitted'[s] /\ d = dropped'[s] /\ intake' = intake
      BY <1>3
    <2> HIDE DEF j, n, d
    <2>4. /\ InOrder(j, Taken(s), << >>, n)
          /\ Accounted(intake, j, Taken(s), << >>, n, d)
      BY <1>4, <1>5, <2>1, <2>2, TakeKeepsOrder
    <2>5. Len(inbox'[s]) <= InboxCap
      BY <1>4, SessionAssumption
    <2>6. QED
      BY <1>4, <1>7, <2>3, <2>4, <2>5 DEF SlotInOrder, InOrder, Judged, Rising,
         Precede, Before, UpTo, Accounted, Among
  <1>9. ASSUME NEW u \in Slots, u # s
        PROVE  SlotInOrder(u)'
    <2>1. inbox'[u] = inbox[u]
      BY <1>1, <1>3, <1>9 DEF TypedIntake
    <2>2. Held(u)' = Held(u)
      BY <1>3, <1>9 DEF Held
    <2>3. QED
      BY <1>1, <1>3, <2>1, <2>2, SlotUntouched
  <1>10. QED
    BY <1>6, <1>8, <1>9 DEF IntakeTells

LEMMA JudgeKeepsIntake ==
  ASSUME Typed, IntakeTells, JudgeInput
  PROVE  IntakeTells'
  <1>1. TypedIntake /\ \A u \in Slots : SlotInOrder(u)
    BY DEF IntakeTells
  <1>2. /\ batch # << >> /\ batch' = Tail(batch)
        /\ judged' = [ judged EXCEPT ![current] = Append(@, Head(batch).n) ]
        /\ UNCHANGED << current, intake, inbox, dropped, submitted >>
    BY DEF JudgeInput, players
  <1>3. current \in Slots /\ batch \in Seq(Inputs)
    BY <1>1, <1>2 DEF TypedIntake
  <1>4. Head(batch) \in Inputs /\ Tail(batch) \in Seq(Inputs)
    BY <1>2, <1>3
  <1>5. Head(batch).n \in Nat
    BY <1>4 DEF Inputs
  <1>6. judged[current] \in Seq(Nat) /\ judged'[current] = Append(judged[current], Head(batch).n)
    BY <1>1, <1>2, <1>3 DEF TypedIntake
  <1>7. TypedIntake'
    <2>1. Append(judged[current], Head(batch).n) \in Seq(Nat)
      BY <1>5, <1>6
    <2>2. judged' \in [ Slots -> Seq(Nat) ]
      BY <1>1, <1>2, <1>3, <2>1 DEF TypedIntake
    <2>3. QED
      BY <1>1, <1>2, <1>3, <1>4, <2>2 DEF TypedIntake
  <1>8. Held(current) = batch /\ Held(current)' = Tail(batch)
    BY <1>2 DEF Held
  <1>9. SlotInOrder(current)'
    <2> DEFINE j == judged[current]
               q == inbox[current]
               n == submitted[current]
               d == dropped[current]
    <2>1. /\ InOrder(j, batch, q, n) /\ Len(q) <= InboxCap
          /\ Accounted(intake, j, batch, q, n, d)
      BY <1>1, <1>3, <1>8 DEF SlotInOrder
    <2>2. j \in Seq(Nat) /\ q \in Seq(Inputs) /\ n \in Nat /\ d \in Nat
      BY <1>1, <1>3 DEF TypedIntake
    <2>3. /\ judged'[current'] = Append(j, Head(batch).n) /\ q = inbox'[current']
          /\ n = submitted'[current'] /\ d = dropped'[current'] /\ intake' = intake
          /\ Held(current)' = Tail(batch)
      BY <1>2, <1>6, <1>8
    <2> HIDE DEF j, q, n, d
    <2>4. /\ InOrder(Append(j, Head(batch).n), Tail(batch), q, n)
          /\ Accounted(intake, Append(j, Head(batch).n), Tail(batch), q, n, d)
      BY <1>2, <1>3, <2>1, <2>2, JudgeKeepsOrder
    <2>5. QED
      BY <2>1, <2>3, <2>4 DEF SlotInOrder, InOrder, Judged, Rising, Precede, Before,
         UpTo, Accounted, Among
  <1>10. ASSUME NEW u \in Slots, u # current
         PROVE  SlotInOrder(u)'
    <2>1. judged'[u] = judged[u]
      BY <1>1, <1>2, <1>10 DEF TypedIntake
    <2>2. Held(u)' = Held(u)
      BY <1>2, <1>10 DEF Held
    <2>3. QED
      BY <1>1, <1>2, <2>1, <2>2, SlotUntouched
  <1>11. ASSUME NEW u \in Slots
         PROVE  SlotInOrder(u)'
    <2>1. CASE u = current
      BY <1>2, <1>9, <2>1
    <2>2. CASE u # current
      BY <1>10, <2>2
    <2>3. QED
      BY <2>1, <2>2
  <1>12. QED
    BY <1>7, <1>11 DEF IntakeTells

\* Any other step leaves the inputs where they are.
LEMMA OthersKeepIntake ==
  ASSUME IntakeTells, UNCHANGED << intake, current, batch, players, judged >>
  PROVE  IntakeTells'
  <1>1. TypedIntake /\ \A u \in Slots : SlotInOrder(u)
    BY DEF IntakeTells
  <1>2. UNCHANGED << intake, current, batch, inbox, dropped, submitted, judged >>
    BY DEF players
  <1>3. TypedIntake'
    BY <1>1, <1>2 DEF TypedIntake
  <1>4. ASSUME NEW u \in Slots
        PROVE  SlotInOrder(u)'
    <2>1. Held(u)' = Held(u)
      BY <1>2 DEF Held
    <2>2. QED
      BY <1>1, <1>2, <2>1, SlotUntouched
  <1>5. QED
    BY <1>3, <1>4 DEF IntakeTells

-----------------------------------------------------------------------------
(* The induction.                                                          *)

\* All of the invariant but the inputs.
Course == Typed /\ StageTells /\ EndedOnce /\ EndedOnFinalPosition /\ LadderTells

LEMMA InitHolds == Init => IInv
  <1> SUFFICES ASSUME Init PROVE IInv
    OBVIOUS
  <1> USE SessionAssumption
  <1>1. Typed
    <2>1. /\ world \in Worlds /\ committed \in Seq(Worlds) /\ Len(committed) = 0
      BY StartTyped DEF Init
    <2>2. attempt \in 0 .. RetryBudget /\ tick = 0 /\ shown \in 0 .. tick
      BY DEF Init
    <2>3. ended \in [ Slots -> Nat ]
      BY DEF Init
    <2>4. /\ agents \in SUBSET Slots /\ pending \in SUBSET Slots
          /\ pacing \in Pacings /\ intake \in Intakes /\ stop \in BOOLEAN
          /\ life = "created" /\ pc = "idle"
      BY DEF Init
    <2>5. QED
      BY <2>1, <2>2, <2>3, <2>4 DEF Typed
  <1>2. StageTells /\ EndedOnce /\ EndedOnFinalPosition
    BY DEF Init, StageTells, EndedOnce, EndedOnFinalPosition, Terminal
  <1>3. LadderTells
    <2>1. LadderTyped /\ rows = << >>
      BY DEF Init, LadderTyped
    <2>2. \A s \in Slots : /\ weighed[s] = 0 /\ rejections[s] = 0 /\ told[s] = << >>
                           /\ s \notin suspected
      BY DEF Init
    <2>3. \A s \in Slots : Tally(rows, s) = 0
      <3>1. \A s \in Slots : { i \in DOMAIN rows : rows[i].slot = s } = {}
        BY <2>1
      <3>2. QED
        BY <3>1, FS_EmptySet DEF Tally
    <2>4. ~ Reached(0)
      BY DEF Reached
    <2>5. Weighs /\ Tells
      BY <2>2, <2>3, <2>4 DEF Weighs, Tells
    <2>6. QED
      BY <2>1, <2>5 DEF LadderTells
  <1>4. TypedIntake
    BY DEF Init, TypedIntake
  <1>5. ASSUME NEW s \in Slots
        PROVE  SlotInOrder(s)
    <2>1. /\ judged[s] = << >> /\ Held(s) = << >> /\ inbox[s] = << >>
          /\ submitted[s] = 0 /\ dropped[s] = 0 /\ Len(<< >>) = 0
      BY DEF Init, Held
    <2>2. InOrder(<< >>, << >>, << >>, 0)
      BY <2>1 DEF InOrder, Judged, Rising, Precede, Before, UpTo
    <2>3. Accounted(intake, << >>, << >>, << >>, 0, 0)
      BY <2>1 DEF Accounted
    <2>4. QED
      BY <2>1, <2>2, <2>3 DEF SlotInOrder
  <1>6. QED
    BY <1>1, <1>2, <1>3, <1>4, <1>5 DEF IInv, IntakeTells

\* The host's calls before the loop.
LEMMA HostKeepsCourse ==
  ASSUME Course, OpenAdmission \/ Run \/ Cancel \/ \E s \in Slots : Admit(s)
  PROVE  Course'
  <1>1. Typed /\ StageTells /\ EndedOnce /\ EndedOnFinalPosition /\ LadderTells
    BY DEF Course
  <1>2. LadderTells'
    BY <1>1, LadderUntouched DEF OpenAdmission, Run, Cancel, Admit, record
  <1>3. CASE OpenAdmission
    BY <1>1, <1>2, <1>3 DEF Course, OpenAdmission, Typed, StageTells, EndedOnce,
       EndedOnFinalPosition, Terminal, turn, players, record
  <1>4. CASE Run
    BY <1>1, <1>2, <1>4, StartTyped DEF Course, Run, Typed, StageTells, EndedOnce,
       EndedOnFinalPosition, Terminal, turn, players, record
  <1>5. CASE Cancel
    BY <1>1, <1>2, <1>5 DEF Course, Cancel, Typed, StageTells, EndedOnce,
       EndedOnFinalPosition, Terminal, turn, players, record
  <1>6. CASE \E s \in Slots : Admit(s)
    BY <1>1, <1>2, <1>6 DEF Course, Admit, Typed, StageTells, EndedOnce,
       EndedOnFinalPosition, Terminal, turn, players, record
  <1>7. QED
    BY <1>3, <1>4, <1>5, <1>6

\* abort tells every agent, once: it is only reached before the end.
LEMMA AbortTells ==
  ASSUME Course, Abort, pc # "idle",
         UNCHANGED << pacing, intake, agents, stop, world, tick, pending, shown, record >>,
         attempt' \in 0 .. RetryBudget, LadderTells'
  PROVE  Course'
  <1>1. Typed /\ StageTells /\ EndedOnce /\ EndedOnFinalPosition
    BY DEF Course
  <1>2. /\ life' = "aborted" /\ pc' = "idle"
        /\ ended' = [ s \in Slots |-> ended[s] + 1 ]
    BY DEF Abort
  <1>3. life \notin Terminal
    BY <1>1 DEF Typed, StageTells, Terminal
  <1>4. \A s \in Slots : ended[s] = 0
    BY <1>1, <1>3 DEF EndedOnce
  <1>5. Typed'
    BY <1>1, <1>2 DEF Typed, Terminal, record
  <1>6. StageTells' /\ EndedOnFinalPosition'
    BY <1>2 DEF StageTells, EndedOnFinalPosition
  <1>7. EndedOnce'
    BY <1>2, <1>4 DEF EndedOnce, Terminal
  <1>8. QED
    BY <1>5, <1>6, <1>7 DEF Course

\* drain opens with the signals of the position as it stands.
LEMMA DrainOpens ==
  ASSUME Course, BeginDrain, pc \in { "top", "decide", "intake" },
         UNCHANGED << pacing, intake, agents, stop, world, tick, pending, attempt, shown,
                      record, ladder >>
  PROVE  Course'
  <1>1. Typed /\ StageTells /\ EndedOnce /\ LadderTells
    BY DEF Course
  <1>2. /\ life' = "draining" /\ pc' = "drain" /\ outcome' = Outcomes(world)
        /\ ended' = ended
    BY DEF BeginDrain
  <1>3. life \notin Terminal
    BY <1>1 DEF StageTells, Terminal
  <1>4. Typed'
    BY <1>1, <1>2 DEF Typed, Terminal, record
  <1>5. StageTells' /\ EndedOnFinalPosition'
    BY <1>2 DEF StageTells, EndedOnFinalPosition, Outcomes
  <1>6. EndedOnce'
    BY <1>1, <1>2, <1>3 DEF EndedOnce, Terminal
  <1>7. LadderTells'
    BY <1>1, LadderUntouched DEF record
  <1>8. QED
    BY <1>4, <1>5, <1>6, <1>7 DEF Course

\* A step inside the loop that ends nothing.
LEMMA LoopGoesOn ==
  ASSUME Course, pc \in { "top", "decide", "intake" }, pc' \in { "top", "decide", "intake" },
         UNCHANGED << life, ended >>, Typed', LadderTells'
  PROVE  Course'
  <1>1. StageTells /\ EndedOnce
    BY DEF Course
  <1>2. life = "running"
    BY <1>1 DEF StageTells
  <1>3. StageTells' /\ EndedOnce' /\ EndedOnFinalPosition'
    BY <1>1, <1>2 DEF StageTells, EndedOnce, EndedOnFinalPosition
  <1>4. QED
    BY <1>3 DEF Course

LEMMA TopKeepsCourse ==
  ASSUME RuleSetActsInSlots, Course, Top
  PROVE  Course'
  <1>1. Typed /\ LadderTells
    BY DEF Course
  <1>2. /\ pc = "top"
        /\ UNCHANGED << pacing, intake, agents, stop, world, tick, players, ladder,
                        shown, judged, record >>
    BY DEF Top
  <1>3. LadderTells'
    BY <1>1, <1>2, LadderUntouched DEF record
  <1>4. CASE BeginDrain /\ UNCHANGED turn
    BY <1>2, <1>4, DrainOpens DEF turn
  <1>5. CASE Abort /\ UNCHANGED turn
    BY <1>1, <1>2, <1>3, <1>5, AbortTells DEF turn, Typed
  <1>6. CASE /\ pc' = "decide" /\ pending' = Acting(world) /\ attempt' = 0
             /\ UNCHANGED << life, ended >>
    <2>1. Typed'
      BY <1>1, <1>2, <1>6, SessionAssumption DEF RuleSetActsInSlots, Typed, record
    <2>2. QED
      BY <1>2, <1>3, <1>6, <2>1, LoopGoesOn
  <1>7. CASE pc' = "intake" /\ pending' = Slots /\ UNCHANGED << life, ended, attempt >>
    <2>1. Typed'
      BY <1>1, <1>2, <1>7 DEF Typed, record
    <2>2. QED
      BY <1>2, <1>3, <1>7, <2>1, LoopGoesOn
  <1>8. QED
    BY <1>4, <1>5, <1>6, <1>7 DEF Top

\* An action of a slot is applied, or refused and counted.
LEMMA JudgementKeepsTypes ==
  ASSUME Course, NEW s \in Slots, NEW a \in Actions,
         Accept(s, a) \/ (Reject(s) /\ world' = world /\ rows' = rows)
  PROVE  world' \in Worlds /\ LadderTells'
  <1>1. Typed /\ LadderTells
    BY DEF Course
  <1>2. CASE Accept(s, a)
    <2>1. world' \in Worlds
      BY <1>1, <1>2, ApplyTyped DEF Accept, Typed
    <2>2. tick \in Nat
      BY <1>1 DEF Typed
    <2>3. QED
      BY <1>1, <1>2, <2>1, <2>2, AcceptKeepsLadder
  <1>3. CASE Reject(s) /\ world' = world /\ rows' = rows
    BY <1>1, <1>3, RejectKeepsLadder DEF Typed
  <1>4. QED
    BY <1>2, <1>3

LEMMA DecideKeepsCourse ==
  ASSUME Course, Decide
  PROVE  Course'
  <1>1. Typed /\ LadderTells
    BY DEF Course
  <1>2. pc = "decide" /\ pending \in SUBSET Slots /\ pending # {}
    BY <1>1 DEF Decide, DecideLegal, DecideIllegal, DecideNone, Typed
  <1>3. PICK s \in Slots : s = First(pending)
    BY <1>2, FirstIsMember
  <1>4. CASE DecideLegal
    <2>1. PICK a \in Actions : Accept(s, a) /\ pending' = pending \ {s}
      BY <1>3, <1>4 DEF DecideLegal
    <2>2. world' \in Worlds /\ LadderTells'
      BY <2>1, JudgementKeepsTypes
    <2>3. /\ attempt' = 0
          /\ UNCHANGED << pacing, intake, life, agents, stop, pc, tick, shown, ended,
                          committed >>
      BY <1>4 DEF DecideLegal
    <2>4. Typed'
      BY <1>1, <2>1, <2>2, <2>3, SessionAssumption DEF Typed
    <2>5. QED
      BY <1>2, <2>2, <2>3, <2>4, LoopGoesOn
  <1>5. CASE DecideIllegal
    <2>1. /\ Reject(s)
          /\ UNCHANGED << pacing, intake, agents, stop, world, tick, pending, shown, record >>
      BY <1>3, <1>5 DEF DecideIllegal
    <2>2. LadderTells'
      BY <1>1, <2>1, RejectKeepsLadder DEF record
    <2>3. CASE attempt < RetryBudget /\ attempt' = attempt + 1 /\ UNCHANGED << life, pc, ended >>
      <3>1. Typed'
        BY <1>1, <2>1, <2>2, <2>3, SessionAssumption DEF Typed, record
      <3>2. QED
        BY <1>2, <2>2, <2>3, <3>1, LoopGoesOn
    <2>4. CASE Abort /\ UNCHANGED attempt
      BY <1>1, <1>2, <2>1, <2>2, <2>4, AbortTells DEF Typed
    <2>5. QED
      BY <1>5, <2>3, <2>4 DEF DecideIllegal
  <1>6. CASE DecideNone
    BY <1>2, <1>6, DrainOpens DEF DecideNone, turn
  <1>7. QED
    BY <1>4, <1>5, <1>6 DEF Decide

LEMMA IntakeKeepsCourse ==
  ASSUME Course, TypedIntake, TakeInputs \/ JudgeInput
  PROVE  Course'
  <1>1. Typed /\ LadderTells
    BY DEF Course
  <1>2. CASE TakeInputs
    <2>1. /\ pc = "intake"
          /\ pending' \in SUBSET Slots
          /\ UNCHANGED << pacing, intake, life, agents, stop, pc, world, tick, attempt,
                          ladder, shown, ended, record >>
      BY <1>1, <1>2 DEF TakeInputs, Typed
    <2>2. Typed' /\ LadderTells'
      BY <1>1, <2>1, LadderUntouched DEF Typed, record
    <2>3. QED
      BY <2>1, <2>2, LoopGoesOn
  <1>3. CASE JudgeInput
    <2>1. /\ pc = "intake" /\ batch # << >>
          /\ UNCHANGED << pacing, intake, life, agents, stop, pc, tick, pending, attempt,
                          shown, ended, committed >>
      BY <1>3 DEF JudgeInput
    <2>2. current \in Slots /\ batch \in Seq(Inputs)
      BY <2>1 DEF TypedIntake
    <2>3. Head(batch) \in Inputs
      BY <2>1, <2>2
    <2>4. PICK s \in Slots, a \in Actions : s = current /\ a = Head(batch).action
      BY <2>2, <2>3 DEF Inputs
    <2>5. Accept(s, a) \/ (Reject(s) /\ world' = world /\ rows' = rows)
      BY <1>3, <2>4 DEF JudgeInput
    <2>6. world' \in Worlds /\ LadderTells'
      BY <2>5, JudgementKeepsTypes
    <2>7. Typed'
      BY <1>1, <2>1, <2>6 DEF Typed
    <2>8. QED
      BY <2>1, <2>6, <2>7, LoopGoesOn
  <1>4. QED
    BY <1>2, <1>3

LEMMA CommitKeepsCourse ==
  ASSUME Course, Commit
  PROVE  Course'
  <1>1. Typed /\ LadderTells
    BY DEF Course
  <1>2. /\ pc \in { "decide", "intake" } /\ pc' = "top"
        /\ world' = IF pacing = "realtime" THEN Advance(world) ELSE world
        /\ tick' = tick + 1
        /\ committed' = Append(committed, world')
        /\ shown' = tick' \/ shown' = shown
        /\ UNCHANGED << pacing, intake, life, agents, stop, pending, attempt, ladder,
                        rows, ended >>
    BY DEF Commit, turn
  <1>3. world' \in Worlds
    BY <1>1, <1>2, AdvanceTyped DEF Typed
  <1>4. committed' \in Seq(Worlds) /\ Len(committed') = Len(committed) + 1
    BY <1>1, <1>2, <1>3 DEF Typed
  <1>5. shown' \in 0 .. tick' /\ tick' = Len(committed')
    BY <1>1, <1>2, <1>4 DEF Typed
  <1>6. Typed'
    BY <1>1, <1>2, <1>3, <1>4, <1>5 DEF Typed
  <1>7. LadderTells'
    BY <1>1, <1>2, LadderUntouched
  <1>8. QED
    BY <1>2, <1>6, <1>7, LoopGoesOn

LEMMA EndKeepsCourse ==
  ASSUME Course, FinishDrain \/ FailDrain
  PROVE  Course'
  <1>1. Typed /\ StageTells /\ EndedOnce /\ LadderTells
    BY DEF Course
  <1>2. CASE FinishDrain
    <2>1. /\ life' = "ended" /\ pc' = "idle" /\ pc = "drain"
          /\ sight' = [ s \in Slots |-> world ]
          /\ ended' = [ s \in Slots |-> ended[s] + 1 ]
          /\ UNCHANGED << pacing, intake, agents, stop, world, tick, pending, attempt,
                          ladder, shown, outcome, record >>
      BY <1>2 DEF FinishDrain, turn
    <2>2. life = "draining" /\ outcome = Outcomes(world)
      BY <1>1, <2>1 DEF StageTells
    <2>3. \A s \in Slots : ended[s] = 0
      BY <1>1, <2>2 DEF EndedOnce, Terminal
    <2>4. Typed'
      BY <1>1, <2>1 DEF Typed, Terminal, record
    <2>5. StageTells' /\ EndedOnFinalPosition'
      BY <2>1, <2>2 DEF StageTells, EndedOnFinalPosition, Outcomes
    <2>6. EndedOnce'
      BY <2>1, <2>3 DEF EndedOnce, Terminal
    <2>7. LadderTells'
      BY <1>1, <2>1, LadderUntouched DEF record
    <2>8. QED
      BY <2>4, <2>5, <2>6, <2>7 DEF Course
  <1>3. CASE FailDrain
    <2>1. /\ pc = "drain" /\ Abort
          /\ UNCHANGED << pacing, intake, agents, stop, world, tick, turn, ladder,
                          shown, record >>
      BY <1>3 DEF FailDrain
    <2>2. LadderTells'
      BY <1>1, <2>1, LadderUntouched DEF record
    <2>3. QED
      BY <1>1, <2>1, <2>2, AbortTells DEF Typed, turn
  <1>4. QED
    BY <1>2, <1>3

\* A step that moves neither the loop nor its verdicts.
LEMMA CourseUntouched ==
  ASSUME Course,
         UNCHANGED << pacing, intake, life, agents, stop, pc, world, tick, pending, attempt,
                      ladder, shown, outcome, sight, ended, record >>
  PROVE  Course'
  <1>1. Typed /\ StageTells /\ EndedOnce /\ EndedOnFinalPosition /\ LadderTells
    BY DEF Course
  <1>2. Typed'
    BY <1>1 DEF Typed, record
  <1>3. StageTells' /\ EndedOnFinalPosition'
    BY <1>1 DEF StageTells, EndedOnFinalPosition, Outcomes
  <1>4. EndedOnce' /\ LadderTells'
    BY <1>1, LadderUntouched DEF EndedOnce, record
  <1>5. QED
    BY <1>2, <1>3, <1>4 DEF Course

LEMMA StepHolds ==
  ASSUME RuleSetActsInSlots, IInv, [Next]_vars
  PROVE  IInv'
  <1>1. Course /\ Typed /\ IntakeTells /\ TypedIntake
    BY DEF IInv, Course, IntakeTells
  <1>2. CASE OpenAdmission \/ Run \/ Cancel \/ \E s \in Slots : Admit(s)
    <2>1. Course'
      BY <1>1, <1>2, HostKeepsCourse
    <2>2. UNCHANGED << intake, current, batch, players, judged >>
      BY <1>2 DEF OpenAdmission, Run, Cancel, Admit, turn
    <2>3. QED
      BY <1>1, <2>1, <2>2, OthersKeepIntake DEF IInv, Course
  <1>3. CASE \E s \in Slots : Submit(s)
    <2>1. PICK s \in Slots : Submit(s)
      BY <1>3
    <2>2. IntakeTells'
      BY <1>1, <2>1, SubmitKeepsIntake
    <2>3. Course'
      BY <1>1, <2>1, CourseUntouched DEF Submit, turn
    <2>4. QED
      BY <2>2, <2>3 DEF IInv, Course
  <1>4. CASE Top
    <2>1. Course'
      BY <1>1, <1>4, TopKeepsCourse
    <2>2. UNCHANGED << intake, current, batch, players, judged >>
      BY <1>4 DEF Top, turn
    <2>3. QED
      BY <1>1, <2>1, <2>2, OthersKeepIntake DEF IInv, Course
  <1>5. CASE Decide
    <2>1. Course'
      BY <1>1, <1>5, DecideKeepsCourse
    <2>2. UNCHANGED << intake, current, batch, players, judged >>
      BY <1>5 DEF Decide, DecideLegal, DecideIllegal, DecideNone, turn
    <2>3. QED
      BY <1>1, <2>1, <2>2, OthersKeepIntake DEF IInv, Course
  <1>6. CASE TakeInputs \/ JudgeInput
    <2>1. Course'
      BY <1>1, <1>6, IntakeKeepsCourse
    <2>2. IntakeTells'
      BY <1>1, <1>6, TakeKeepsIntake, JudgeKeepsIntake
    <2>3. QED
      BY <2>1, <2>2 DEF IInv, Course
  <1>7. CASE Commit \/ FinishDrain \/ FailDrain
    <2>1. Course'
      BY <1>1, <1>7, CommitKeepsCourse, EndKeepsCourse
    <2>2. UNCHANGED << intake, current, batch, players, judged >>
      BY <1>7 DEF Commit, FinishDrain, FailDrain, turn
    <2>3. QED
      BY <1>1, <2>1, <2>2, OthersKeepIntake DEF IInv, Course
  <1>8. CASE UNCHANGED vars
    <2>1. Course'
      BY <1>1, <1>8, CourseUntouched DEF vars, turn
    <2>2. UNCHANGED << intake, current, batch, players, judged >>
      BY <1>8 DEF vars, turn
    <2>3. QED
      BY <1>1, <2>1, <2>2, OthersKeepIntake DEF IInv, Course
  <1>9. QED
    BY <1>2, <1>3, <1>4, <1>5, <1>6, <1>7, <1>8 DEF Next, Loop

-----------------------------------------------------------------------------
(* What the invariant says.                                                *)

LEMMA IInvTypes == IInv => TypeOK
  <1> SUFFICES ASSUME IInv PROVE TypeOK
    OBVIOUS
  <1>1. Typed /\ \A s \in Slots : Len(inbox[s]) <= InboxCap
    BY DEF IInv, IntakeTells, SlotInOrder
  <1>2. suspected \subseteq Slots
    BY DEF IInv, LadderTells, LadderTyped
  <1>3. QED
    BY <1>1, <1>2 DEF TypeOK, Typed

LEMMA IInvOrders == IInv => InputsInOrder
  <1> SUFFICES ASSUME IInv, NEW s \in Slots, NEW i \in DOMAIN judged[s],
                      NEW k \in DOMAIN judged[s], i < k
               PROVE  judged[s][i] < judged[s][k]
    BY DEF InputsInOrder
  <1>1. judged[s] \in Seq(Nat) /\ InOrder(judged[s], Held(s), inbox[s], submitted[s])
    BY DEF IInv, IntakeTells, TypedIntake, SlotInOrder
  <1>2. DOMAIN judged[s] = 1 .. Len(judged[s])
    BY <1>1
  <1>3. QED
    BY <1>1, <1>2 DEF InOrder, Judged

LEMMA IInvAccounts == IInv => InputsAccounted
  <1> SUFFICES ASSUME IInv, NEW s \in Slots
               PROVE  LET open == inbox[s] \o (IF current = s THEN batch ELSE << >>)
                      IN  /\ intake = "all" =>
                               submitted[s] = Len(judged[s]) + Len(open) + dropped[s]
                          /\ submitted[s] > 0 =>
                               submitted[s] \in { judged[s][i] : i \in DOMAIN judged[s] }
                                                   \cup { open[i].n : i \in DOMAIN open }
    BY DEF InputsAccounted
  <1> DEFINE j == judged[s]
             h == Held(s)
             q == inbox[s]
             n == submitted[s]
             open == q \o h
  <1>1. /\ j \in Seq(Nat) /\ h \in Seq(Inputs) /\ q \in Seq(Inputs)
        /\ n \in Nat /\ dropped[s] \in Nat
    BY DEF IInv, IntakeTells, TypedIntake, Held
  <1>2. Accounted(intake, j, h, q, n, dropped[s])
    BY DEF IInv, IntakeTells, SlotInOrder
  <1>3. h = IF current = s THEN batch ELSE << >>
    BY DEF Held
  <1> HIDE DEF j, h, q, n
  <1>4. /\ DOMAIN j = 1 .. Len(j) /\ DOMAIN open = 1 .. Len(q) + Len(h)
        /\ Len(open) = Len(q) + Len(h) /\ Len(j) \in Nat /\ Len(q) \in Nat /\ Len(h) \in Nat
        /\ \A i \in 1 .. Len(q) : open[i] = q[i]
        /\ \A i \in 1 .. Len(h) : open[Len(q) + i] = h[i]
    BY <1>1
  <1> HIDE DEF open
  <1>5. intake = "all" => n = Len(j) + Len(open) + dropped[s]
    BY <1>1, <1>2, <1>4 DEF Accounted
  <1>6. ASSUME n > 0
        PROVE  n \in { j[i] : i \in DOMAIN j } \cup { open[i].n : i \in DOMAIN open }
    <2>1. Among(j, h, q, n)
      BY <1>2, <1>6 DEF Accounted
    <2>2. CASE \E i \in 1 .. Len(j) : j[i] = n
      BY <1>4, <2>2
    <2>3. CASE \E i \in 1 .. Len(h) : h[i].n = n
      <3>1. PICK i \in 1 .. Len(h) : h[i].n = n
        BY <2>3
      <3>2. Len(q) + i \in DOMAIN open /\ open[Len(q) + i].n = n
        BY <1>4, <3>1
      <3>3. QED
        BY <3>2
    <2>4. CASE \E i \in 1 .. Len(q) : q[i].n = n
      <3>1. PICK i \in 1 .. Len(q) : q[i].n = n
        BY <2>4
      <3>2. i \in DOMAIN open /\ open[i].n = n
        BY <1>4, <3>1
      <3>3. QED
        BY <3>2
    <2>5. QED
      BY <2>1, <2>2, <2>3, <2>4 DEF Among
  <1>7. QED
    BY <1>3, <1>5, <1>6 DEF j, q, n, open

-----------------------------------------------------------------------------
(* The record: what the rows and the committed worlds say of each other.   *)

\* The world after k rows of the record r, at tick t.
Position(p, r, k, t) ==
  [ moves |-> [ i \in 1 .. k |-> << r[i].slot, r[i].action >> ],
    steps |-> IF p = "realtime" THEN t ELSE 0 ]

\* The world tick t opens with.
Opening(c, t) == IF t = 0 THEN Start ELSE c[t]

Cap(q) == IF q = "all" THEN InboxCap ELSE 1

HasRow(r, t, s) == \E i \in 1 .. Len(r) : r[i].tick = t /\ r[i].slot = s

\* Rows are in the order of ticks and, within a tick, of slots; in step one of
\* each slot, in realtime as many as are polled.
RowOrder(p, q, r) ==
  \A i, j \in 1 .. Len(r) : i < j =>
    /\ r[i].tick <= r[j].tick
    /\ r[i].tick = r[j].tick =>
         /\ r[i].slot <= r[j].slot
         /\ r[i].slot = r[j].slot => p # "step" /\ j - i < Cap(q)

\* What was recorded was legal where it was recorded.
Lawful(p, r) ==
  \A i \in 1 .. Len(r) : Legal(Position(p, r, i - 1, r[i].tick), r[i].slot, r[i].action)

\* The world of tick t is that after the rows of the ticks before it.
CutAt(p, r, c, t) ==
  \E k \in 0 .. Len(r) :
    /\ Opening(c, t) = Position(p, r, k, t)
    /\ \A i \in 1 .. Len(r) : i <= k <=> r[i].tick < t

\* Tick t had something to do, and in step every acting slot did it.
Passed(p, r, c, t) ==
  LET w == Opening(c, t)
  IN  /\ Finished(w) # Slots
      /\ p = "step" => Acting(w) # {} /\ \A s \in Acting(w) : HasRow(r, t, s)

\* In step the rows of tick t are of acting slots, the first ones of them.
OfFirst(r, c, t) ==
  LET w == Opening(c, t)
  IN  \A i \in 1 .. Len(r) : r[i].tick = t =>
        r[i].slot \in Acting(w) /\ \A s \in Acting(w) : s < r[i].slot => HasRow(r, t, s)

History(p, q, r, c, n) ==
  /\ RowOrder(p, q, r)
  /\ Lawful(p, r)
  /\ \A i \in 1 .. Len(r) : r[i].tick <= n
  /\ \A t \in 0 .. n : CutAt(p, r, c, t)
  /\ \A t \in 0 .. n - 1 : Passed(p, r, c, t)
  /\ p = "step" => \A t \in 0 .. n : OfFirst(r, c, t)

\* Half-way through a tick of step: who has no row yet is still to decide.
Deciding(r, c, n, todo) ==
  LET w == Opening(c, n)
  IN  /\ Finished(w) # Slots /\ Acting(w) # {}
      /\ todo = { s \in Acting(w) : ~HasRow(r, n, s) }
      /\ \A i \in 1 .. Len(r) : r[i].tick = n => \A s \in todo : r[i].slot < s

\* Half-way through the intake: the rows of the tick are of the slots up to the
\* current one, and its rows and open inputs are no more than are polled.
Taking(q, r, c, n, todo, u, b) ==
  /\ Finished(Opening(c, n)) # Slots
  /\ Len(b) <= Cap(q)
  /\ b # << >> => \A s \in todo : u < s
  /\ \A i \in 1 .. Len(r) : r[i].tick = n =>
       /\ r[i].slot <= u
       /\ \A s \in todo : r[i].slot < s
       /\ r[i].slot = u => Len(r) - i + 1 + Len(b) <= Cap(q)

RecordTells ==
  /\ rows \in Seq(RowsOf)
  /\ History(pacing, intake, rows, committed, tick)
  /\ world = Position(pacing, rows, Len(rows), tick)
  /\ life \in { "created", "admitting" } => rows = << >> /\ tick = 0
  /\ pc = "top" => \A i \in 1 .. Len(rows) : rows[i].tick < tick
  /\ pc # "intake" => batch = << >>
  /\ pc = "decide" => pacing = "step" /\ Deciding(rows, committed, tick, pending)
  /\ pc = "intake" =>
       pacing = "realtime" /\ Taking(intake, rows, committed, tick, pending, current, batch)

-----------------------------------------------------------------------------
(* The replay, as long as it is at a tick of the record: it has handed out *)
(* the first k rows and stands where the session stood after them.         *)

\* The replay of a tick in step: whose row it has not handed out is to ask.
StepAsks(r, c, k, m, todo) ==
  todo = { s \in Acting(Opening(c, m)) :
             ~ \E i \in 1 .. k : r[i].tick = m /\ r[i].slot = s }

\* In realtime: the rows of the tick still to come are of slots to ask, and the
\* answers counted are the last rows handed out.
RealtimeAsks(q, r, k, m, todo, a) ==
  /\ todo \subseteq Slots
  /\ \A i \in k + 1 .. Len(r) : r[i].tick = m => r[i].slot \in todo
  /\ a <= Cap(q)
  /\ a > 0 => /\ todo # {} /\ a <= k
              /\ r[k - a + 1].tick = m /\ r[k - a + 1].slot = First(todo)

\* The replay at tick m, at stage g, with world w, slots todo, a answers, rows f.
Stands(p, q, r, c, k, g, w, m, todo, a, f) ==
  /\ f = k + 1 .. Len(r)
  /\ w = Position(p, r, k, m)
  /\ \A i \in 1 .. k : r[i].tick <= m
  /\ \A i \in k + 1 .. Len(r) : r[i].tick >= m
  /\ g = "top" => \A i \in 1 .. k : r[i].tick < m
  /\ p = "realtime" /\ g = "top" => a = 0
  /\ p = "step" /\ g = "asking" => StepAsks(r, c, k, m, todo)
  /\ p = "realtime" /\ g = "asking" => RealtimeAsks(q, r, k, m, todo, a)

ReplayTells ==
  /\ stage \in { "unread", "top", "asking", "over" } /\ at \in Nat /\ answers \in Nat
  /\ stage = "unread" => copy = Start /\ at = 0 /\ answers = 0
  /\ stage \in { "top", "asking" } /\ at <= tick =>
       \E k \in 0 .. Len(rows) :
         Stands(pacing, intake, rows, committed, k, stage, copy, at, asking, answers, left)
  /\ stage = "over" => at >= tick


-----------------------------------------------------------------------------
(* Lemmas on the record.                                                   *)

LEMMA AppendIs ==
  ASSUME NEW S, NEW r \in Seq(S), NEW x \in S
  PROVE  /\ Append(r, x) \in Seq(S)
         /\ Len(r) \in Nat
         /\ Len(Append(r, x)) = Len(r) + 1
         /\ Append(r, x)[Len(r) + 1] = x
         /\ \A i \in 1 .. Len(r) : Append(r, x)[i] = r[i]
  OBVIOUS

LEMMA RowTyped ==
  ASSUME NEW r \in Seq(RowsOf), NEW i \in 1 .. Len(r)
  PROVE  r[i] \in RowsOf /\ r[i].tick \in Nat /\ r[i].slot \in Slots
         /\ r[i].action \in Actions /\ r[i].slot \in Nat
  <1>1. r[i] \in RowsOf
    OBVIOUS
  <1>2. Slots \subseteq Nat
    BY SessionAssumption
  <1>3. QED
    BY <1>1, <1>2 DEF RowsOf

\* A row more changes no position before it.
LEMMA PositionOfPrefix ==
  ASSUME NEW p, NEW r \in Seq(RowsOf), NEW x \in RowsOf, NEW k \in 0 .. Len(r), NEW t
  PROVE  Position(p, Append(r, x), k, t) = Position(p, r, k, t)
  <1>1. \A i \in 1 .. k : Append(r, x)[i] = r[i]
    BY AppendIs
  <1>2. QED
    BY <1>1 DEF Position

LEMMA ApplyIs ==
  ASSUME NEW m, NEW z, NEW s, NEW a
  PROVE  Apply([ moves |-> m, steps |-> z ], s, a)
           = [ moves |-> Append(m, << s, a >>), steps |-> z ]
  <1>1. ASSUME NEW e
        PROVE  [ [ moves |-> m, steps |-> z ] EXCEPT !.moves = Append(@, e) ]
                 = [ moves |-> Append(m, e), steps |-> z ]
    BY Z3
  <1>2. QED
    BY <1>1, Zenon DEF Apply

\* The next row leads to the next position.
LEMMA PositionOfNext ==
  ASSUME NEW p, NEW r \in Seq(RowsOf), NEW k \in 1 .. Len(r), NEW t, NEW j, j = k - 1
  PROVE  Apply(Position(p, r, j, t), r[k].slot, r[k].action) = Position(p, r, k, t)
  <1> DEFINE m == [ i \in 1 .. j |-> << r[i].slot, r[i].action >> ]
             e == << r[k].slot, r[k].action >>
             M == [ i \in 1 .. k |-> << r[i].slot, r[i].action >> ]
             z == IF p = "realtime" THEN t ELSE 0
  <1>1. j \in Nat /\ k = j + 1
    OBVIOUS
  <1>2. /\ m \in Seq(Slots \X Actions) /\ Len(m) = j /\ e \in Slots \X Actions
    <2>1. \A i \in 1 .. k : << r[i].slot, r[i].action >> \in Slots \X Actions
      BY RowTyped
    <2>2. QED
      BY <1>1, <2>1
  <1>3. M \in Seq(Slots \X Actions) /\ Len(M) = k
    <2>1. \A i \in 1 .. k : << r[i].slot, r[i].action >> \in Slots \X Actions
      BY RowTyped
    <2>2. QED
      BY <1>1, <2>1
  <1>4. Append(m, e) \in Seq(Slots \X Actions) /\ Len(Append(m, e)) = k
    BY <1>1, <1>2
  <1>5. \A i \in 1 .. k : Append(m, e)[i] = M[i]
    <2>1. TAKE i \in 1 .. k
    <2>2. CASE i = k
      BY <1>1, <1>2, <2>2
    <2>3. CASE i # k
      <3>1. i \in 1 .. j
        BY <1>1, <2>3
      <3>2. Append(m, e)[i] = m[i]
        BY <1>2, <3>1
      <3>3. QED
        BY <3>1, <3>2
    <2>4. QED
      BY <2>2, <2>3
  <1>6. Append(m, e) = M
    <2> HIDE DEF m, e, M
    <2>1. QED
      BY <1>3, <1>4, <1>5, SeqEqual
  <1>7. /\ Position(p, r, j, t) = [ moves |-> m, steps |-> z ]
        /\ Position(p, r, k, t) = [ moves |-> M, steps |-> z ]
    BY DEF Position
  <1> HIDE DEF m, M, e, z
  <1>8. Apply([ moves |-> m, steps |-> z ], r[k].slot, r[k].action)
          = [ moves |-> Append(m, e), steps |-> z ]
    BY ApplyIs DEF e
  <1>9. QED
    BY <1>6, <1>7, <1>8

LEMMA NothingRecorded ==
  ASSUME NEW p, NEW r, NEW t, p = "step" \/ t = 0
  PROVE  Position(p, r, 0, t) = Start
  <1>1. [ i \in 1 .. 0 |-> << r[i].slot, r[i].action >> ] = << >>
    OBVIOUS
  <1>2. QED
    BY <1>1 DEF Position, Start

LEMMA PositionAdvances ==
  ASSUME NEW p, NEW r, NEW k, NEW t \in Nat
  PROVE  Position(p, r, k, t + 1)
           = IF p = "realtime" THEN Advance(Position(p, r, k, t)) ELSE Position(p, r, k, t)
  BY DEF Position, Advance

LEMMA RowTells ==
  ASSUME NEW p, NEW q, NEW r \in Seq(RowsOf), NEW c, NEW n \in Nat, NEW x \in RowsOf,
         History(p, q, r, c, n), x.tick = n,
         Legal(Position(p, r, Len(r), n), x.slot, x.action),
         \A i \in 1 .. Len(r) : r[i].tick = n =>
           /\ r[i].slot <= x.slot
           /\ r[i].slot = x.slot => p # "step" /\ Len(r) + 1 - i < Cap(q),
         p = "step" => /\ x.slot \in Acting(Opening(c, n))
                       /\ \A s \in Acting(Opening(c, n)) : s < x.slot => HasRow(r, n, s)
  PROVE  History(p, q, Append(r, x), c, n)
  <1> DEFINE R == Append(r, x)
  <1>1. /\ R \in Seq(RowsOf) /\ Len(r) \in Nat /\ Len(R) = Len(r) + 1 /\ R[Len(r) + 1] = x
        /\ \A i \in 1 .. Len(r) : R[i] = r[i]
    BY AppendIs
  <1>2. /\ RowOrder(p, q, r) /\ Lawful(p, r)
        /\ \A i \in 1 .. Len(r) : r[i].tick <= n
        /\ \A t \in 0 .. n : CutAt(p, r, c, t)
        /\ \A t \in 0 .. n - 1 : Passed(p, r, c, t)
        /\ p = "step" => \A t \in 0 .. n : OfFirst(r, c, t)
    BY DEF History
  <1>3. \A k \in 0 .. Len(r), t \in Nat : Position(p, R, k, t) = Position(p, r, k, t)
    BY PositionOfPrefix
  <1> HIDE DEF R
  <1>4. \A i \in 1 .. Len(R) : i \in 1 .. Len(r) \/ i = Len(r) + 1
    BY <1>1
  <1>5. \A t, s : HasRow(r, t, s) => HasRow(R, t, s)
    BY <1>1 DEF HasRow
  <1>6. RowOrder(p, q, R)
    BY <1>1, <1>2, <1>4 DEF RowOrder
  <1>7. Lawful(p, R)
    <2> SUFFICES ASSUME NEW i \in 1 .. Len(R), NEW j, j = i - 1
                 PROVE  Legal(Position(p, R, j, R[i].tick), R[i].slot, R[i].action)
      BY DEF Lawful
    <2>1. CASE i \in 1 .. Len(r)
      <3>1. j \in 0 .. Len(r) /\ R[i] = r[i] /\ r[i].tick \in Nat
        BY <1>1, <2>1, RowTyped
      <3>2. Legal(Position(p, r, j, r[i].tick), r[i].slot, r[i].action)
        BY <1>2, <2>1 DEF Lawful
      <3>3. QED
        BY <1>3, <3>1, <3>2
    <2>2. CASE i = Len(r) + 1
      <3>1. j = Len(r) /\ R[i] = x
        BY <1>1, <2>2
      <3>2. Position(p, R, j, n) = Position(p, r, Len(r), n)
        BY <1>1, <1>3, <3>1
      <3>3. QED
        BY <3>1, <3>2
    <2>3. QED
      BY <1>4, <2>1, <2>2
  <1>8. \A i \in 1 .. Len(R) : R[i].tick <= n
    BY <1>1, <1>2, <1>4
  <1>9. \A t \in 0 .. n : CutAt(p, R, c, t)
    <2>1. TAKE t \in 0 .. n
    <2>2. PICK k \in 0 .. Len(r) : /\ Opening(c, t) = Position(p, r, k, t)
                                   /\ \A i \in 1 .. Len(r) : i <= k <=> r[i].tick < t
      BY <1>2 DEF CutAt
    <2>3. k \in 0 .. Len(R) /\ Opening(c, t) = Position(p, R, k, t)
      BY <1>1, <1>3, <2>2
    <2>4. \A i \in 1 .. Len(R) : i <= k <=> R[i].tick < t
      BY <1>1, <1>4, <2>2
    <2>5. QED
      BY <2>3, <2>4 DEF CutAt
  <1>10. \A t \in 0 .. n - 1 : Passed(p, R, c, t)
    BY <1>2, <1>5 DEF Passed
  <1>11. ASSUME p = "step"
         PROVE  \A t \in 0 .. n : OfFirst(R, c, t)
    <2>1. TAKE t \in 0 .. n
    <2>2. OfFirst(r, c, t)
      BY <1>2, <1>11
    <2>3. QED
      BY <1>1, <1>4, <1>5, <1>11, <2>2 DEF OfFirst
  <1>12. QED
    BY <1>6, <1>7, <1>8, <1>9, <1>10, <1>11 DEF History, R

LEMMA CommitTells ==
  ASSUME NEW p, NEW q, NEW r \in Seq(RowsOf), NEW c \in Seq(Worlds), NEW n \in Nat,
         NEW w \in Worlds,
         History(p, q, r, c, n), Passed(p, r, c, n),
         Len(c) = n, w = Position(p, r, Len(r), n + 1)
  PROVE  History(p, q, r, Append(c, w), n + 1)
  <1> DEFINE C == Append(c, w)
  <1>1. \A t \in 0 .. n : Opening(C, t) = Opening(c, t)
    BY DEF Opening
  <1>2. Opening(C, n + 1) = w
    BY DEF Opening
  <1> HIDE DEF C
  <1>3. /\ RowOrder(p, q, r) /\ Lawful(p, r)
        /\ \A i \in 1 .. Len(r) : r[i].tick <= n
        /\ \A t \in 0 .. n : CutAt(p, r, c, t)
        /\ \A t \in 0 .. n - 1 : Passed(p, r, c, t)
        /\ p = "step" => \A t \in 0 .. n : OfFirst(r, c, t)
    BY DEF History
  <1>4. \A i \in 1 .. Len(r) : r[i].tick \in Nat
    BY RowTyped
  <1>5. \A i \in 1 .. Len(r) : r[i].tick <= n + 1 /\ r[i].tick < n + 1 /\ r[i].tick # n + 1
    BY <1>3, <1>4
  <1>6. \A t \in 0 .. n + 1 : t \in 0 .. n \/ t = n + 1
    OBVIOUS
  <1>7. \A t \in 0 .. n + 1 : CutAt(p, r, C, t)
    <2>1. TAKE t \in 0 .. n + 1
    <2>2. CASE t \in 0 .. n
      BY <1>1, <1>3, <2>2 DEF CutAt
    <2>3. CASE t = n + 1
      <3>1. Len(r) \in 0 .. Len(r) /\ \A i \in 1 .. Len(r) : i <= Len(r) <=> r[i].tick < t
        BY <1>5, <2>3
      <3>2. Opening(C, t) = Position(p, r, Len(r), t)
        BY <1>2, <2>3
      <3>3. QED
        BY <3>1, <3>2 DEF CutAt
    <2>4. QED
      BY <1>6, <2>2, <2>3
  <1>8. \A t \in 0 .. (n + 1) - 1 : Passed(p, r, C, t)
    <2>1. TAKE t \in 0 .. (n + 1) - 1
    <2>2. t \in 0 .. n /\ Passed(p, r, c, t)
      BY <1>3
    <2>3. QED
      BY <1>1, <2>2 DEF Passed
  <1>9. ASSUME p = "step"
        PROVE  \A t \in 0 .. n + 1 : OfFirst(r, C, t)
    <2>1. TAKE t \in 0 .. n + 1
    <2>2. CASE t \in 0 .. n
      BY <1>1, <1>3, <1>9, <2>2 DEF OfFirst
    <2>3. CASE t = n + 1
      BY <1>5, <2>3 DEF OfFirst
    <2>4. QED
      BY <1>6, <2>2, <2>3
  <1>10. QED
    BY <1>3, <1>5, <1>7, <1>8, <1>9 DEF History, C

-----------------------------------------------------------------------------
(* The session keeps the record.                                           *)

LEMMA RecordOpens == Init => RecordTells
  <1> SUFFICES ASSUME Init PROVE RecordTells
    OBVIOUS
  <1>1. /\ rows = << >> /\ committed = << >> /\ tick = 0 /\ world = Start /\ pc = "idle"
        /\ batch = << >>
    BY DEF Init
  <1>2. rows \in Seq(RowsOf) /\ Len(rows) = 0
    BY <1>1
  <1>3. Position(pacing, rows, 0, 0) = Start
    BY NothingRecorded
  <1>4. Opening(committed, 0) = Start
    BY DEF Opening
  <1>5. CutAt(pacing, rows, committed, 0)
    BY <1>2, <1>3, <1>4 DEF CutAt
  <1>6. History(pacing, intake, rows, committed, tick)
    BY <1>1, <1>2, <1>5 DEF History, RowOrder, Lawful, OfFirst
  <1>7. QED
    BY <1>1, <1>2, <1>3, <1>6 DEF RecordTells

\* A step that neither records nor commits and leaves the tick's work as it is.
LEMMA RecordKept ==
  ASSUME RecordTells,
         UNCHANGED << pacing, intake, rows, committed, tick, world >>,
         life' \in { "created", "admitting" } => life \in { "created", "admitting" },
         pc' = "top" => pc = "top",
         pc' \in { "decide", "intake" } => pc' = pc /\ UNCHANGED << pending, current, batch >>,
         pc' # "intake" => batch' = << >>
  PROVE  RecordTells'
  BY DEF RecordTells

LEMMA HostKeepsRecord ==
  ASSUME IInv, RecordTells,
         OpenAdmission \/ Run \/ Cancel \/ \E s \in Slots : Admit(s) \/ Submit(s)
  PROVE  RecordTells'
  <1>1. StageTells
    BY DEF IInv
  <1>2. CASE OpenAdmission \/ Cancel \/ \E s \in Slots : Admit(s) \/ Submit(s)
    <2>1. /\ UNCHANGED << pacing, intake, rows, committed, tick, world, pc, turn >>
          /\ life' \in { "created", "admitting" } => life \in { "created", "admitting" }
      BY <1>2 DEF OpenAdmission, Cancel, Admit, Submit, record
    <2>2. UNCHANGED << pending, current, batch >>
      BY <2>1 DEF turn
    <2>3. pc # "intake" => batch = << >>
      BY DEF RecordTells
    <2>4. QED
      BY <2>1, <2>2, <2>3, RecordKept
  <1>3. CASE Run
    <2>1. /\ UNCHANGED << pacing, intake, rows, committed, tick, batch >>
          /\ life = "admitting" /\ life' = "running" /\ pc' = "top" /\ world' = Start
      BY <1>3 DEF Run, record, turn
    <2>2. rows = << >> /\ tick = 0
      BY <2>1 DEF RecordTells
    <2>3. pc # "intake"
      BY <1>1, <2>1 DEF StageTells
    <2>4. Len(rows) = 0 /\ Position(pacing, rows, 0, 0) = Start
      BY <2>2, NothingRecorded
    <2>5. QED
      BY <2>1, <2>2, <2>3, <2>4 DEF RecordTells
  <1>4. QED
    BY <1>2, <1>3

\* At the top of a tick the world is the one it opens with.
LEMMA TopIsOpening ==
  ASSUME IInv, RecordTells, pc = "top"
  PROVE  /\ world = Opening(committed, tick)
         /\ \A i \in 1 .. Len(rows) : rows[i].tick # tick
         /\ \A s : ~ HasRow(rows, tick, s)
  <1>1. tick \in Nat
    BY DEF IInv, Typed
  <1>2. /\ rows \in Seq(RowsOf)
        /\ CutAt(pacing, rows, committed, tick)
        /\ world = Position(pacing, rows, Len(rows), tick)
        /\ \A i \in 1 .. Len(rows) : rows[i].tick < tick
    BY <1>1 DEF RecordTells, History
  <1>3. PICK k \in 0 .. Len(rows) :
               /\ Opening(committed, tick) = Position(pacing, rows, k, tick)
               /\ \A i \in 1 .. Len(rows) : i <= k <=> rows[i].tick < tick
    BY <1>2 DEF CutAt
  <1>4. Len(rows) \in Nat
    BY <1>2
  <1>5. k = Len(rows)
    BY <1>2, <1>3, <1>4
  <1>6. \A i \in 1 .. Len(rows) : rows[i].tick # tick
    BY <1>1, <1>2, RowTyped
  <1>7. QED
    BY <1>2, <1>3, <1>5, <1>6 DEF HasRow

LEMMA TopKeepsRecord ==
  ASSUME IInv, RecordTells, Top
  PROVE  RecordTells'
  <1>1. /\ UNCHANGED << pacing, intake, rows, committed, tick, world >>
        /\ pc = "top" /\ life = "running" /\ batch = << >> /\ batch' = << >>
    BY DEF Top, record, turn, IInv, StageTells, RecordTells, BeginDrain, Abort
  <1>2. /\ world = Opening(committed, tick)
        /\ \A i \in 1 .. Len(rows) : rows[i].tick # tick
        /\ \A s : ~ HasRow(rows, tick, s)
    BY <1>1, TopIsOpening
  <1>3. life' \in { "running", "draining", "aborted" }
    BY <1>1 DEF Top, BeginDrain, Abort
  <1>4. CASE pc' \in { "drain", "idle" }
    BY <1>1, <1>3, <1>4, RecordKept
  <1>5. CASE pc' = "decide"
    <2>1. /\ Finished(world) # Slots /\ pacing = "step" /\ Acting(world) # {}
          /\ pending' = Acting(world)
      BY <1>5 DEF Top, BeginDrain, Abort
    <2>2. pending' = { s \in Acting(world) : ~ HasRow(rows, tick, s) }
      BY <1>2, <2>1
    <2>3. Deciding(rows, committed, tick, pending')
      BY <1>2, <2>1, <2>2 DEF Deciding
    <2>4. QED
      BY <1>1, <1>3, <1>5, <2>1, <2>3 DEF RecordTells
  <1>6. CASE pc' = "intake"
    <2>1. Finished(world) # Slots /\ pacing = "realtime"
      BY <1>6 DEF Top, BeginDrain, Abort
    <2>2. Len(batch') <= Cap(intake)
      BY <1>1, SessionAssumption DEF Cap
    <2>3. Taking(intake, rows, committed, tick, pending', current', batch')
      BY <1>1, <1>2, <2>1, <2>2 DEF Taking
    <2>4. QED
      BY <1>1, <1>3, <1>6, <2>1, <2>3 DEF RecordTells
  <1>7. pc' \in { "drain", "idle", "decide", "intake" }
    BY DEF Top, BeginDrain, Abort
  <1>8. QED
    BY <1>4, <1>5, <1>6, <1>7

LEMMA EndKeepsRecord ==
  ASSUME RecordTells, IInv, FinishDrain \/ FailDrain \/ DecideNone \/ DecideIllegal
  PROVE  RecordTells'
  <1>1. /\ UNCHANGED << pacing, intake, rows, committed, tick, world, pending, current, batch >>
        /\ pc' # "top" /\ pc # "intake" /\ pc' # "intake" /\ life' \notin { "created", "admitting" }
        /\ pc' = "decide" => pc = "decide"
    BY DEF FinishDrain, FailDrain, DecideNone, DecideIllegal, BeginDrain, Abort, record, turn,
           IInv, StageTells
  <1>2. QED
    BY <1>1, RecordKept DEF RecordTells

\* One more action is recorded where it was legal and applied.
LEMMA AcceptKeepsHistory ==
  ASSUME IInv, RecordTells, NEW s \in Slots, NEW a \in Actions,
         Legal(world, s, a), Accept(s, a), UNCHANGED << pacing, intake, committed, tick >>,
         \A i \in 1 .. Len(rows) : rows[i].tick = tick =>
           /\ rows[i].slot <= s
           /\ rows[i].slot = s => pacing # "step" /\ Len(rows) + 1 - i < Cap(intake),
         pacing = "step" =>
           /\ s \in Acting(Opening(committed, tick))
           /\ \A u \in Acting(Opening(committed, tick)) : u < s => HasRow(rows, tick, u)
  PROVE  /\ rows' \in Seq(RowsOf)
         /\ History(pacing, intake, rows', committed, tick)
         /\ world' = Position(pacing, rows', Len(rows'), tick)
         /\ Len(rows) \in Nat /\ Len(rows') = Len(rows) + 1
         /\ rows'[Len(rows')] = [ tick |-> tick, slot |-> s, action |-> a ]
         /\ \A i \in 1 .. Len(rows) : rows'[i] = rows[i]
  <1>1. /\ rows \in Seq(RowsOf) /\ tick \in Nat
        /\ History(pacing, intake, rows, committed, tick)
        /\ world = Position(pacing, rows, Len(rows), tick)
    BY DEF RecordTells, IInv, Typed
  <1>2. PICK x \in RowsOf : x = [ tick |-> tick, slot |-> s, action |-> a ]
    BY <1>1 DEF RowsOf
  <1>3. x.tick = tick /\ x.slot = s /\ x.action = a
    BY <1>2
  <1>4. rows' = Append(rows, x) /\ world' = Apply(world, s, a)
    BY <1>2 DEF Accept, Row
  <1>5. /\ rows' \in Seq(RowsOf) /\ Len(rows) \in Nat /\ Len(rows') = Len(rows) + 1
        /\ rows'[Len(rows) + 1] = x
        /\ \A i \in 1 .. Len(rows) : rows'[i] = rows[i]
    BY <1>1, <1>4, AppendIs
  <1>6. History(pacing, intake, Append(rows, x), committed, tick)
    BY <1>1, <1>3, RowTells
  <1>7. Position(pacing, rows', Len(rows), tick) = Position(pacing, rows, Len(rows), tick)
    BY <1>1, <1>4, <1>5, PositionOfPrefix
  <1>8. PICK k \in 1 .. Len(rows') : k = Len(rows')
    BY <1>5
  <1>9. Len(rows) = k - 1 /\ rows'[k] = x
    BY <1>5, <1>8
  <1>10. Apply(Position(pacing, rows', Len(rows), tick), rows'[k].slot, rows'[k].action)
           = Position(pacing, rows', k, tick)
    BY <1>5, <1>9, PositionOfNext
  <1>11. world' = Position(pacing, rows', Len(rows'), tick)
    BY <1>1, <1>3, <1>4, <1>7, <1>8, <1>9, <1>10
  <1>12. QED
    BY <1>2, <1>4, <1>5, <1>6, <1>11

LEMMA DecideKeepsRecord ==
  ASSUME IInv, RecordTells, DecideLegal
  PROVE  RecordTells'
  <1>1. /\ pc = "decide" /\ pending # {}
        /\ UNCHANGED << pacing, intake, committed, tick, life, pc, batch >>
    BY DEF DecideLegal, turn
  <1>2. /\ pending \in SUBSET Slots /\ life = "running" /\ tick \in Nat
    BY <1>1 DEF IInv, Typed, StageTells
  <1>3. /\ rows \in Seq(RowsOf) /\ pacing = "step" /\ batch = << >>
        /\ Deciding(rows, committed, tick, pending)
    BY <1>1 DEF RecordTells
  <1>4. PICK s \in Slots, a \in Actions :
               /\ s = First(pending)
               /\ Legal(world, s, a) /\ Accept(s, a) /\ pending' = pending \ {s}
    BY <1>1, <1>2, FirstIsMember DEF DecideLegal
  <1>5. s \in pending /\ \A u \in pending : s <= u
    <2>1. pending \in SUBSET Nat
      BY <1>2, SessionAssumption
    <2>2. QED
      BY <1>1, <1>4, <2>1, FirstIsLeast
  <1> DEFINE w == Opening(committed, tick)
  <1>6. /\ Finished(w) # Slots /\ Acting(w) # {}
        /\ pending = { u \in Acting(w) : ~ HasRow(rows, tick, u) }
        /\ \A i \in 1 .. Len(rows) : rows[i].tick = tick => \A u \in pending : rows[i].slot < u
    BY <1>3 DEF Deciding
  <1> HIDE DEF w
  <1>7. s \in Acting(w) /\ \A u \in Acting(w) : u < s => HasRow(rows, tick, u)
    <2>1. \A u \in pending : u \in Nat /\ s \in Nat
      BY <1>2, SessionAssumption
    <2>2. \A u \in pending : ~ (u < s)
      BY <1>5, <2>1
    <2>3. QED
      BY <1>5, <1>6, <2>2
  <1>8. \A i \in 1 .. Len(rows) : rows[i].tick = tick => rows[i].slot < s
    BY <1>5, <1>6
  <1>9. \A i \in 1 .. Len(rows) : rows[i].slot \in Nat /\ s \in Nat
    BY <1>3, RowTyped, SessionAssumption
  <1>10. \A i \in 1 .. Len(rows) : rows[i].tick = tick =>
           /\ rows[i].slot <= s
           /\ rows[i].slot = s => pacing # "step" /\ Len(rows) + 1 - i < Cap(intake)
    BY <1>8, <1>9
  <1>11. /\ rows' \in Seq(RowsOf)
         /\ History(pacing, intake, rows', committed, tick)
         /\ world' = Position(pacing, rows', Len(rows'), tick)
         /\ Len(rows) \in Nat /\ Len(rows') = Len(rows) + 1
         /\ rows'[Len(rows')] = [ tick |-> tick, slot |-> s, action |-> a ]
         /\ \A i \in 1 .. Len(rows) : rows'[i] = rows[i]
    BY <1>1, <1>4, <1>7, <1>10, AcceptKeepsHistory DEF w
  <1>12. \A i \in 1 .. Len(rows') : i \in 1 .. Len(rows) \/ i = Len(rows')
    BY <1>11
  <1>13. \A u : HasRow(rows', tick, u) <=> HasRow(rows, tick, u) \/ u = s
    BY <1>11, <1>12 DEF HasRow
  <1>14. pending' = { u \in Acting(w) : ~ HasRow(rows', tick, u) }
    BY <1>4, <1>6, <1>13
  <1>15. \A i \in 1 .. Len(rows') : rows'[i].tick = tick => \A u \in pending' : rows'[i].slot < u
    <2>1. \A u \in pending' : u \in pending /\ u \in Nat /\ s < u
      BY <1>2, <1>4, <1>5, <1>9, SessionAssumption
    <2>2. QED
      BY <1>6, <1>11, <1>12, <2>1
  <1>16. Deciding(rows', committed, tick, pending')
    BY <1>6, <1>14, <1>15 DEF Deciding, w
  <1>17. QED
    BY <1>1, <1>2, <1>3, <1>11, <1>16 DEF RecordTells

LEMMA TakeKeepsRecord ==
  ASSUME IInv, RecordTells, TakeInputs
  PROVE  RecordTells'
  <1>1. /\ pc = "intake" /\ pending # {} /\ batch = << >>
        /\ UNCHANGED << pacing, intake, committed, tick, life, pc, rows, world >>
    BY DEF TakeInputs, record
  <1>2. /\ pending \in SUBSET Slots /\ life = "running"
        /\ \A s \in Slots : inbox[s] \in Seq(Inputs) /\ Len(inbox[s]) <= InboxCap
        /\ intake \in { "newest", "all" }
    BY <1>1, SessionAssumption DEF IInv, Typed, StageTells, IntakeTells, TypedIntake, SlotInOrder
  <1>3. PICK s \in Slots : /\ s = First(pending)
                           /\ current' = s /\ pending' = pending \ {s} /\ batch' = Taken(s)
    BY <1>1, <1>2, FirstIsMember DEF TakeInputs
  <1>4. s \in pending /\ \A u \in pending : s <= u
    <2>1. pending \in SUBSET Nat
      BY <1>2, SessionAssumption
    <2>2. QED
      BY <1>1, <1>3, <2>1, FirstIsLeast
  <1>5. /\ rows \in Seq(RowsOf) /\ pacing = "realtime"
        /\ Taking(intake, rows, committed, tick, pending, current, batch)
    BY <1>1 DEF RecordTells
  <1>6. Len(batch') <= Cap(intake)
    <2>1. PICK q \in Seq(Inputs) : q = inbox[s]
      BY <1>2
    <2>2. CASE intake = "all"
      BY <1>2, <1>3, <2>1, <2>2 DEF Taken, Cap
    <2>3. CASE intake # "all" /\ q = << >>
      <3>1. Len(batch') = 0
        BY <1>3, <2>1, <2>3 DEF Taken
      <3>2. QED
        BY <2>3, <3>1 DEF Cap
    <2>4. CASE intake # "all" /\ q # << >>
      <3>1. Len(batch') = 1
        BY <1>3, <2>1, <2>4 DEF Taken
      <3>2. QED
        BY <2>4, <3>1 DEF Cap
    <2>5. QED
      BY <2>2, <2>3, <2>4
  <1>7. \A u \in pending' : u \in pending /\ u \in Nat /\ s \in Nat /\ s < u
    <2>1. \A u \in pending' : u \in pending /\ u # s /\ u \in Nat /\ s \in Nat
      BY <1>2, <1>3, SessionAssumption
    <2>2. QED
      BY <1>4, <2>1
  <1>8. /\ Finished(Opening(committed, tick)) # Slots
        /\ \A i \in 1 .. Len(rows) : rows[i].tick = tick => \A u \in pending : rows[i].slot < u
    BY <1>5 DEF Taking
  <1>9. \A i \in 1 .. Len(rows) : rows[i].slot \in Nat /\ s \in Nat
    BY <1>5, RowTyped, SessionAssumption
  <1>10. \A i \in 1 .. Len(rows) : rows[i].tick = tick => rows[i].slot <= s /\ rows[i].slot # s
    BY <1>4, <1>8, <1>9
  <1>11. Taking(intake, rows, committed, tick, pending', s, batch')
    BY <1>6, <1>7, <1>8, <1>10 DEF Taking
  <1>12. QED
    BY <1>1, <1>2, <1>3, <1>5, <1>11 DEF RecordTells

LEMMA JudgeKeepsRecord ==
  ASSUME IInv, RecordTells, JudgeInput
  PROVE  RecordTells'
  <1>1. /\ pc = "intake" /\ batch # << >> /\ batch' = Tail(batch)
        /\ UNCHANGED << pacing, intake, committed, tick, life, pc, pending, current >>
    BY DEF JudgeInput
  <1>2. /\ pending \in SUBSET Slots /\ life = "running" /\ current \in Slots
        /\ batch \in Seq(Inputs) /\ tick \in Nat
        /\ intake \in { "newest", "all" }
    BY <1>1, SessionAssumption DEF IInv, Typed, StageTells, IntakeTells, TypedIntake
  <1>3. /\ rows \in Seq(RowsOf) /\ pacing = "realtime"
        /\ Taking(intake, rows, committed, tick, pending, current, batch)
    BY <1>1 DEF RecordTells
  <1>4. Len(batch) \in Nat /\ Len(batch) > 0 /\ Len(batch') = Len(batch) - 1
    BY <1>1, <1>2
  <1>5. /\ Finished(Opening(committed, tick)) # Slots
        /\ Len(batch) <= Cap(intake)
        /\ \A u \in pending : current < u
        /\ \A i \in 1 .. Len(rows) : rows[i].tick = tick =>
             /\ rows[i].slot <= current
             /\ \A u \in pending : rows[i].slot < u
             /\ rows[i].slot = current => Len(rows) - i + 1 + Len(batch) <= Cap(intake)
    BY <1>1, <1>3 DEF Taking
  <1>6. Cap(intake) \in Nat /\ Len(rows) \in Nat
    BY <1>3, SessionAssumption DEF Cap
  <1>7. CASE Legal(world, current, Head(batch).action)
    <2>1. PICK a \in Actions : a = Head(batch).action
      <3>1. Head(batch) \in Inputs
        BY <1>1, <1>2
      <3>2. QED
        BY <3>1 DEF Inputs
    <2>2. Accept(current, a)
      BY <1>7, <2>1 DEF JudgeInput
    <2>3. \A i \in 1 .. Len(rows) : rows[i].tick = tick =>
            /\ rows[i].slot <= current
            /\ rows[i].slot = current => pacing # "step" /\ Len(rows) + 1 - i < Cap(intake)
      BY <1>3, <1>4, <1>5, <1>6
    <2>4. /\ rows' \in Seq(RowsOf)
          /\ History(pacing, intake, rows', committed, tick)
          /\ world' = Position(pacing, rows', Len(rows'), tick)
          /\ Len(rows) \in Nat /\ Len(rows') = Len(rows) + 1
          /\ rows'[Len(rows')] = [ tick |-> tick, slot |-> current, action |-> a ]
          /\ \A i \in 1 .. Len(rows) : rows'[i] = rows[i]
      BY <1>1, <1>2, <1>3, <1>7, <2>1, <2>2, <2>3, AcceptKeepsHistory
    <2>5. \A i \in 1 .. Len(rows') : i \in 1 .. Len(rows) \/ i = Len(rows) + 1
      BY <2>4
    <2>6. Len(batch') <= Cap(intake) /\ current \in Nat
      BY <1>2, <1>4, <1>5, <1>6, SessionAssumption
    <2>7. ASSUME NEW i \in 1 .. Len(rows'), rows'[i].tick = tick
          PROVE  /\ rows'[i].slot <= current
                 /\ \A u \in pending : rows'[i].slot < u
                 /\ rows'[i].slot = current => Len(rows') - i + 1 + Len(batch') <= Cap(intake)
      <3>1. CASE i \in 1 .. Len(rows)
        BY <1>4, <1>5, <1>6, <2>4, <2>7, <3>1
      <3>2. CASE i = Len(rows) + 1
        <4>1. rows'[i].slot = current
          BY <2>4, <3>2
        <4>2. Len(rows') - i + 1 + Len(batch') = Len(batch)
          BY <1>4, <1>6, <2>4, <3>2
        <4>3. QED
          BY <1>5, <2>6, <4>1, <4>2
      <3>3. QED
        BY <2>5, <3>1, <3>2
    <2>8. Taking(intake, rows', committed, tick, pending, current, batch')
      BY <1>5, <2>6, <2>7 DEF Taking
    <2>9. QED
      BY <1>1, <1>2, <1>3, <2>4, <2>8 DEF RecordTells
  <1>8. CASE ~ Legal(world, current, Head(batch).action)
    <2>1. UNCHANGED << rows, world >>
      BY <1>8 DEF JudgeInput
    <2>2. Taking(intake, rows, committed, tick, pending, current, batch')
      <3>1. Len(batch') <= Cap(intake)
        BY <1>4, <1>5, <1>6
      <3>2. \A i \in 1 .. Len(rows) : rows[i].tick = tick /\ rows[i].slot = current =>
              Len(rows) - i + 1 + Len(batch') <= Cap(intake)
        BY <1>4, <1>5, <1>6
      <3>3. QED
        BY <1>5, <3>1, <3>2 DEF Taking
    <2>3. QED
      BY <1>1, <1>2, <1>3, <2>1, <2>2 DEF RecordTells
  <1>9. QED
    BY <1>7, <1>8

LEMMA CommitKeepsRecord ==
  ASSUME IInv, RecordTells, Commit
  PROVE  RecordTells'
  <1>1. /\ pc \in { "decide", "intake" } /\ pending = {} /\ batch = << >> /\ pc' = "top"
        /\ world' = IF pacing = "realtime" THEN Advance(world) ELSE world
        /\ tick' = tick + 1 /\ committed' = Append(committed, world')
        /\ UNCHANGED << pacing, intake, life, batch, rows >>
    BY DEF Commit, turn
  <1>2. /\ life = "running" /\ committed \in Seq(Worlds) /\ world \in Worlds
        /\ tick = Len(committed) /\ tick \in Nat
    BY <1>1 DEF IInv, Typed, StageTells
  <1>3. /\ rows \in Seq(RowsOf)
        /\ History(pacing, intake, rows, committed, tick)
        /\ world = Position(pacing, rows, Len(rows), tick)
    BY DEF RecordTells
  <1>4. Passed(pacing, rows, committed, tick)
    <2>1. CASE pc = "decide"
      BY <1>1, <2>1 DEF RecordTells, Deciding, Passed
    <2>2. CASE pc = "intake"
      BY <2>2 DEF RecordTells, Taking, Passed
    <2>3. QED
      BY <1>1, <2>1, <2>2
  <1>5. world' \in Worlds
    BY <1>1, <1>2, AdvanceTyped
  <1>6. world' = Position(pacing, rows, Len(rows), tick + 1)
    BY <1>1, <1>2, <1>3, PositionAdvances
  <1>7. PICK w \in Worlds : w = world'
    BY <1>5
  <1>8. History(pacing, intake, rows, Append(committed, w), tick + 1)
    BY <1>2, <1>3, <1>4, <1>6, <1>7, CommitTells
  <1>9. \A i \in 1 .. Len(rows) : rows[i].tick < tick + 1
    <2>1. \A i \in 1 .. Len(rows) : rows[i].tick <= tick /\ rows[i].tick \in Nat
      BY <1>3, RowTyped DEF History
    <2>2. QED
      BY <1>2, <2>1
  <1>10. QED
    BY <1>1, <1>2, <1>3, <1>6, <1>7, <1>8, <1>9 DEF RecordTells

LEMMA RecordStep ==
  ASSUME IInv, RecordTells, [Next]_vars
  PROVE  RecordTells'
  <1>1. CASE OpenAdmission \/ Run \/ Cancel \/ \E s \in Slots : Admit(s) \/ Submit(s)
    BY <1>1, HostKeepsRecord
  <1>2. CASE Top
    BY <1>2, TopKeepsRecord
  <1>3. CASE TakeInputs
    BY <1>3, TakeKeepsRecord
  <1>4. CASE JudgeInput
    BY <1>4, JudgeKeepsRecord
  <1>5. CASE Commit
    BY <1>5, CommitKeepsRecord
  <1>6. CASE DecideLegal
    BY <1>6, DecideKeepsRecord
  <1>7. CASE FinishDrain \/ FailDrain \/ DecideNone \/ DecideIllegal
    BY <1>7, EndKeepsRecord
  <1>8. CASE UNCHANGED vars
    BY <1>8 DEF vars, turn, record, RecordTells
  <1>9. QED
    BY <1>1, <1>2, <1>3, <1>4, <1>5, <1>6, <1>7, <1>8 DEF Next, Loop, Decide

-----------------------------------------------------------------------------
(* Lemmas on the replay: what it asks next is what the record has next.    *)

\* In step no slot has two rows in a tick.
LEMMA OneRow ==
  ASSUME NEW q, NEW r \in Seq(RowsOf), RowOrder("step", q, r),
         NEW i \in 1 .. Len(r), NEW j \in 1 .. Len(r), i < j, r[i].tick = r[j].tick
  PROVE  r[i].slot # r[j].slot
  BY DEF RowOrder

\* A row left over in step: it is of a slot still to ask.
LEMMA LeftIsAsked ==
  ASSUME NEW q, NEW r \in Seq(RowsOf), NEW c, NEW n \in Nat, History("step", q, r, c, n),
         NEW m \in 0 .. n, NEW k \in 0 .. Len(r), NEW todo, StepAsks(r, c, k, m, todo),
         NEW j \in k + 1 .. Len(r), r[j].tick = m
  PROVE  r[j].slot \in todo
  <1>1. j \in 1 .. Len(r) /\ Len(r) \in Nat
    OBVIOUS
  <1>2. r[j].slot \in Acting(Opening(c, m))
    BY <1>1 DEF History, OfFirst
  <1>3. RowOrder("step", q, r)
    BY DEF History
  <1>4. ASSUME NEW i \in 1 .. k, r[i].tick = m, r[i].slot = r[j].slot
        PROVE  FALSE
    <2>1. i \in 1 .. Len(r) /\ i < j
      BY <1>1
    <2>2. QED
      BY <1>1, <1>3, <1>4, <2>1, OneRow
  <1>5. QED
    BY <1>2, <1>4 DEF StepAsks

\* The rows of a slot of the record that a replay has left.
LeftOf(p, r, k, m, s) ==
  { i \in k + 1 .. Len(r) : r[i].slot = s /\ (p = "realtime" => r[i].tick = m) }

\* In step, the first slot to ask finds its next row first in the record.
LEMMA StepFindsNext ==
  ASSUME NEW q, NEW r \in Seq(RowsOf), NEW c, NEW n \in Nat, History("step", q, r, c, n),
         NEW m \in 0 .. n, NEW k \in 0 .. Len(r), NEW todo \in SUBSET Slots, todo # {},
         StepAsks(r, c, k, m, todo),
         \A i \in k + 1 .. Len(r) : r[i].tick >= m,
         LeftOf("step", r, k, m, First(todo)) # {}
  PROVE  /\ First(LeftOf("step", r, k, m, First(todo))) = k + 1
         /\ k + 1 \in 1 .. Len(r)
         /\ r[k + 1].tick = m /\ r[k + 1].slot = First(todo)
  <1> DEFINE F == LeftOf("step", r, k, m, First(todo))
             j == First(F)
             w == Opening(c, m)
  <1>1. k \in Nat /\ Len(r) \in Nat
    OBVIOUS
  <1>2. PICK s \in Slots : s = First(todo) /\ s \in todo /\ \A u \in todo : s <= u
    <2>1. todo \in SUBSET Nat
      BY SessionAssumption
    <2>2. QED
      BY <2>1, FirstIsLeast
  <1>3. PICK g \in k + 1 .. Len(r) : r[g].slot = s
    BY <1>2 DEF LeftOf
  <1>4. PICK d \in 1 .. Len(r) : d = k + 1
    BY <1>1, <1>3
  <1>5. d \in k + 1 .. Len(r) /\ \A i \in k + 1 .. Len(r) : d <= i /\ i \in 1 .. Len(r)
    BY <1>1, <1>4
  <1>6. /\ RowOrder("step", q, r)
        /\ \A i \in 1 .. Len(r) : r[i].tick <= n
        /\ \A t \in 0 .. n - 1 : Passed("step", r, c, t)
        /\ OfFirst(r, c, m)
    BY DEF History
  <1>7. \A i \in 1 .. Len(r) : r[i].tick \in Nat /\ r[i].slot \in Nat
    BY RowTyped
  <1>8. \A i, e \in 1 .. Len(r) : i <= e => r[i].tick <= r[e].tick
    BY <1>6, <1>7 DEF RowOrder
  <1>9. \A i, e \in 1 .. Len(r) : i <= e /\ r[i].tick = r[e].tick => r[i].slot <= r[e].slot
    BY <1>6, <1>7 DEF RowOrder
  \* s has no row of tick m before the left ones
  <1>10. s \in Acting(w) /\ \A i \in 1 .. k : ~ (r[i].tick = m /\ r[i].slot = s)
    BY <1>2 DEF StepAsks
  <1>11. \A i \in 1 .. Len(r) : r[i].tick = m /\ r[i].slot = s => i \in k + 1 .. Len(r)
    <2>1. \A i \in 1 .. Len(r) : i \in 1 .. k \/ i \in k + 1 .. Len(r)
      BY <1>1
    <2>2. QED
      BY <1>10, <2>1
  <1>12. r[d].tick >= m
    BY <1>5
  <1>13. r[d].tick = m
    <2>1. CASE m = n
      BY <1>6, <1>7, <1>12, <2>1
    <2>2. CASE m < n
      <3>1. HasRow(r, m, s)
        BY <1>6, <1>10, <2>2 DEF Passed
      <3>2. PICK i \in 1 .. Len(r) : r[i].tick = m /\ r[i].slot = s
        BY <3>1 DEF HasRow
      <3>3. d <= i
        BY <1>5, <1>11, <3>2
      <3>4. QED
        BY <1>7, <1>8, <1>12, <3>2, <3>3
    <2>3. QED
      BY <2>1, <2>2
  <1>14. r[d].slot \in todo
    BY <1>5, <1>13, LeftIsAsked
  <1>15. r[d].slot = s
    <2>1. s <= r[d].slot
      BY <1>2, <1>14
    <2>2. ASSUME s < r[d].slot
          PROVE  FALSE
      <3>1. HasRow(r, m, s)
        BY <1>6, <1>10, <1>13, <2>2 DEF OfFirst
      <3>2. PICK i \in 1 .. Len(r) : r[i].tick = m /\ r[i].slot = s
        BY <3>1 DEF HasRow
      <3>3. d <= i
        BY <1>5, <1>11, <3>2
      <3>4. r[d].slot <= s
        BY <1>9, <1>13, <3>2, <3>3
      <3>5. s \in Nat /\ r[d].slot \in Nat
        BY <1>7, SessionAssumption
      <3>6. QED
        BY <2>2, <3>4, <3>5
    <2>3. s \in Nat /\ r[d].slot \in Nat
      BY <1>7, SessionAssumption
    <2>4. QED
      BY <2>1, <2>2, <2>3
  <1>16. d \in F /\ F \in SUBSET Nat /\ \A i \in F : d <= i
    BY <1>2, <1>5, <1>15, <1>1 DEF LeftOf
  <1> HIDE DEF F
  <1>17. j \in F /\ j <= d
    BY <1>16, FirstIsLeast
  <1>18. j = d
    <2>1. d <= j /\ j \in Nat
      BY <1>16, <1>17
    <2> HIDE DEF j
    <2>2. QED
      BY <1>4, <1>17, <2>1
  <1>19. QED
    BY <1>2, <1>4, <1>13, <1>15, <1>18 DEF F

LEMMA RealtimeFindsNext ==
  ASSUME NEW q, NEW r \in Seq(RowsOf), NEW a,
         NEW m \in Nat, NEW k \in 0 .. Len(r), NEW todo \in SUBSET Slots, todo # {},
         RowOrder("realtime", q, r),
         RealtimeAsks(q, r, k, m, todo, a),
         \A i \in k + 1 .. Len(r) : r[i].tick >= m,
         LeftOf("realtime", r, k, m, First(todo)) # {}
  PROVE  /\ First(LeftOf("realtime", r, k, m, First(todo))) = k + 1
         /\ k + 1 \in 1 .. Len(r)
         /\ r[k + 1].tick = m /\ r[k + 1].slot = First(todo)
  <1> DEFINE F == LeftOf("realtime", r, k, m, First(todo))
             j == First(F)
  <1>1. k \in Nat /\ Len(r) \in Nat
    OBVIOUS
  <1>2. PICK s \in Slots : s = First(todo) /\ s \in todo /\ \A u \in todo : s <= u
    <2>1. todo \in SUBSET Nat
      BY SessionAssumption
    <2>2. QED
      BY <2>1, FirstIsLeast
  <1>3. PICK g \in k + 1 .. Len(r) : r[g].slot = s /\ r[g].tick = m
    BY <1>2 DEF LeftOf
  <1>4. PICK d \in 1 .. Len(r) : d = k + 1
    BY <1>1, <1>3
  <1>5. d \in k + 1 .. Len(r) /\ \A i \in k + 1 .. Len(r) : d <= i /\ i \in 1 .. Len(r)
    BY <1>1, <1>4
  <1>7. \A i \in 1 .. Len(r) : r[i].tick \in Nat /\ r[i].slot \in Nat
    BY RowTyped
  <1>8. \A i, e \in 1 .. Len(r) : i <= e => r[i].tick <= r[e].tick
    BY <1>7 DEF RowOrder
  <1>9. \A i, e \in 1 .. Len(r) : i <= e /\ r[i].tick = r[e].tick => r[i].slot <= r[e].slot
    BY <1>7 DEF RowOrder
  <1>10. r[d].tick = m
    <2>1. r[d].tick >= m /\ r[d].tick <= r[g].tick
      BY <1>3, <1>5, <1>8
    <2>2. QED
      BY <1>3, <1>7, <2>1
  <1>11. r[d].slot = s
    <2>1. r[d].slot \in todo
      BY <1>5, <1>10 DEF RealtimeAsks
    <2>2. s <= r[d].slot /\ r[d].slot <= s
      BY <1>2, <1>3, <1>5, <1>9, <1>10, <2>1
    <2>3. s \in Nat /\ r[d].slot \in Nat
      BY <1>7, SessionAssumption
    <2>4. QED
      BY <2>2, <2>3
  <1>16. d \in F /\ F \in SUBSET Nat /\ \A i \in F : d <= i
    BY <1>2, <1>5, <1>10, <1>11, <1>1 DEF LeftOf
  <1> HIDE DEF F
  <1>17. j \in F /\ j <= d
    BY <1>16, FirstIsLeast
  <1>18. j = d
    <2>1. d <= j /\ j \in Nat
      BY <1>16, <1>17
    <2> HIDE DEF j
    <2>2. QED
      BY <1>4, <1>17, <2>1
  <1>19. QED
    BY <1>2, <1>4, <1>10, <1>11, <1>18 DEF F

-----------------------------------------------------------------------------
(* The replay follows the record.                                          *)

LEMMA RecordFacts ==
  ASSUME IInv, RecordTells
  PROVE  /\ rows \in Seq(RowsOf) /\ Len(rows) \in Nat /\ tick \in Nat
         /\ pacing \in { "step", "realtime" } /\ intake \in { "newest", "all" }
         /\ History(pacing, intake, rows, committed, tick)
         /\ RowOrder(pacing, intake, rows)
  BY SessionAssumption DEF IInv, Typed, RecordTells, History

LEMMA OpeningTyped ==
  ASSUME IInv, NEW m \in 0 .. tick
  PROVE  Opening(committed, m) \in Worlds
  BY StartTyped DEF IInv, Typed, Opening

LEMMA AskedTyped ==
  ASSUME RuleSetActsInSlots, IInv, RecordTells, NEW k \in 0 .. Len(rows),
         NEW w, NEW m \in 0 .. tick, NEW todo, NEW a, NEW f,
         Stands(pacing, intake, rows, committed, k, "asking", w, m, todo, a, f)
  PROVE  todo \in SUBSET Slots
  <1>1. CASE pacing = "step"
    <2>1. Acting(Opening(committed, m)) \subseteq Slots
      BY OpeningTyped DEF RuleSetActsInSlots
    <2>2. QED
      BY <1>1, <2>1 DEF Stands, StepAsks
  <1>2. CASE pacing = "realtime"
    BY <1>2 DEF Stands, RealtimeAsks
  <1>3. QED
    BY <1>1, <1>2, RecordFacts

\* At the top of a tick the replay is in the world the tick opened with.
LEMMA ReplayOpens ==
  ASSUME IInv, RecordTells, NEW k \in 0 .. Len(rows),
         NEW w, NEW m \in 0 .. tick, NEW todo, NEW a, NEW f,
         Stands(pacing, intake, rows, committed, k, "top", w, m, todo, a, f)
  PROVE  w = Opening(committed, m)
  <1>1. /\ w = Position(pacing, rows, k, m)
        /\ \A i \in 1 .. k : rows[i].tick < m
        /\ \A i \in k + 1 .. Len(rows) : rows[i].tick >= m
    BY DEF Stands
  <1>2. CutAt(pacing, rows, committed, m)
    BY RecordFacts DEF History
  <1>3. PICK g \in 0 .. Len(rows) :
               /\ Opening(committed, m) = Position(pacing, rows, g, m)
               /\ \A i \in 1 .. Len(rows) : i <= g <=> rows[i].tick < m
    BY <1>2 DEF CutAt
  <1>4. \A i \in 1 .. Len(rows) : rows[i].tick \in Nat
    BY RecordFacts, RowTyped
  <1>5. k \in Nat /\ g \in Nat /\ Len(rows) \in Nat
    BY RecordFacts
  <1>6. ~ (g < k)
    <2>1. SUFFICES ASSUME g < k PROVE FALSE
      OBVIOUS
    <2>2. k \in 1 .. Len(rows) /\ rows[k].tick < m
      BY <1>1, <1>5, <2>1
    <2>3. QED
      BY <1>3, <1>5, <2>1, <2>2
  <1>7. ~ (k < g)
    <2>1. SUFFICES ASSUME k < g PROVE FALSE
      OBVIOUS
    <2>2. g \in 1 .. Len(rows) /\ g \in k + 1 .. Len(rows)
      BY <1>5, <2>1
    <2>3. rows[g].tick < m /\ rows[g].tick >= m /\ rows[g].tick \in Nat
      BY <1>1, <1>3, <1>4, <2>2
    <2>4. QED
      BY <2>3
  <1>8. k = g
    BY <1>5, <1>6, <1>7
  <1>9. QED
    BY <1>1, <1>3, <1>8

LEMMA ReadFollows ==
  ASSUME IInv, RecordTells, ReplayTells, Read, UNCHANGED vars
  PROVE  ReplayTells'
  <1>1. /\ stage' = "top" /\ left' = DOMAIN rows /\ copy' = Start /\ at' = 0 /\ answers' = 0
        /\ UNCHANGED << pacing, intake, rows, committed, tick >>
    BY DEF Read, ReplayTells, vars, record
  <1>2. left' = 0 + 1 .. Len(rows) /\ 0 \in 0 .. Len(rows)
    BY <1>1, RecordFacts
  <1>3. copy' = Position(pacing, rows, 0, 0)
    BY <1>1, NothingRecorded
  <1>4. \A i \in 0 + 1 .. Len(rows) : rows[i].tick >= 0
    BY RecordFacts, RowTyped
  <1>5. Stands(pacing, intake, rows, committed, 0, stage', copy', at', asking', answers', left')
    BY <1>1, <1>2, <1>3, <1>4 DEF Stands
  <1>6. QED
    BY <1>1, <1>2, <1>5 DEF ReplayTells

LEMMA TopFollows ==
  ASSUME IInv, RecordTells, ReplayTells, ReplayTop, UNCHANGED vars
  PROVE  ReplayTells'
  <1>1. /\ stage = "top" /\ at \in Nat /\ answers \in Nat
        /\ UNCHANGED << pacing, intake, rows, committed, tick, copy, at, answers, left >>
    BY DEF ReplayTop, ReplayTells, vars, record
  <1>2. CASE at > tick
    <2>1. stage' \in { "over", "asking" } /\ ~ (at <= tick) /\ at >= tick
      BY <1>1, <1>2, RecordFacts DEF ReplayTop
    <2>2. QED
      BY <1>1, <2>1 DEF ReplayTells
  <1>3. CASE at <= tick
    <2>1. PICK k \in 0 .. Len(rows) :
            Stands(pacing, intake, rows, committed, k, "top", copy, at, asking, answers, left)
      BY <1>1, <1>3 DEF ReplayTells
    <2>2. at \in 0 .. tick
      BY <1>1, <1>3, RecordFacts
    <2>3. copy = Opening(committed, at)
      BY <2>1, <2>2, ReplayOpens
    <2>4. CASE stage' = "over"
      <3>1. Finished(copy) = Slots \/ Asked(copy) = {}
        BY <2>4 DEF ReplayTop
      <3>2. ASSUME at < tick PROVE FALSE
        <4>1. at \in 0 .. tick - 1
          BY <1>1, <3>2, RecordFacts
        <4>2. Passed(pacing, rows, committed, at)
          BY <4>1, RecordFacts DEF History
        <4>3. QED
          BY <2>3, <3>1, <4>2, SessionAssumption DEF Passed, Asked
      <3>3. at >= tick
        BY <1>1, <3>2, RecordFacts
      <3>4. QED
        BY <1>1, <2>4, <3>3 DEF ReplayTells
    <2>5. CASE stage' = "asking" /\ asking' = Asked(copy)
      <3>1. /\ left = k + 1 .. Len(rows) /\ copy = Position(pacing, rows, k, at)
            /\ \A i \in 1 .. k : rows[i].tick < at
            /\ \A i \in k + 1 .. Len(rows) : rows[i].tick >= at
            /\ pacing = "realtime" => answers = 0
        BY <2>1 DEF Stands
      <3>2. \A i \in 1 .. k : i \in 1 .. Len(rows) /\ rows[i].tick \in Nat
        BY RecordFacts, RowTyped
      <3>3. \A i \in 1 .. k : rows[i].tick <= at /\ rows[i].tick # at
        BY <1>1, <3>1, <3>2
      <3>4. pacing = "step" => StepAsks(rows, committed, k, at, asking')
        BY <2>3, <2>5, <3>3 DEF StepAsks, Asked
      <3>5. ASSUME pacing = "realtime"
            PROVE  RealtimeAsks(intake, rows, k, at, asking', answers)
        <4>1. asking' = Slots
          BY <2>5, <3>5 DEF Asked
        <4>2. \A i \in k + 1 .. Len(rows) : rows[i].slot \in Slots
          BY RecordFacts, RowTyped
        <4>3. 0 <= Cap(intake)
          BY SessionAssumption DEF Cap
        <4>4. QED
          BY <3>1, <3>5, <4>1, <4>2, <4>3 DEF RealtimeAsks
      <3>6. Stands(pacing, intake, rows, committed, k, stage', copy', at', asking', answers', left')
        BY <1>1, <2>5, <3>1, <3>3, <3>4, <3>5 DEF Stands
      <3>7. QED
        BY <1>1, <2>5, <3>6 DEF ReplayTells
    <2>6. QED
      BY <2>4, <2>5 DEF ReplayTop
  <1>4. QED
    BY <1>1, <1>2, <1>3, RecordFacts

\* The answer of the replay is the next row of the record, and legal.
LEMMA AnswerIsNext ==
  ASSUME RuleSetActsInSlots, IInv, RecordTells, NEW k \in 0 .. Len(rows),
         at \in 0 .. tick, asking # {}, Answers(First(asking)),
         Stands(pacing, intake, rows, committed, k, "asking", copy, at, asking, answers, left)
  PROVE  /\ First(Due(First(asking))) = k + 1
         /\ k + 1 \in 1 .. Len(rows)
         /\ rows[k + 1].tick = at /\ rows[k + 1].slot = First(asking)
         /\ Legal(copy, First(asking), rows[k + 1].action)
         /\ asking \in SUBSET Slots
  <1> DEFINE s == First(asking)
  <1>1. asking \in SUBSET Slots
    BY AskedTyped
  <1>2. /\ left = k + 1 .. Len(rows) /\ copy = Position(pacing, rows, k, at)
        /\ \A i \in k + 1 .. Len(rows) : rows[i].tick >= at
    BY DEF Stands
  <1>3. Due(s) = LeftOf(pacing, rows, k, at, s) /\ Due(s) # {}
    BY <1>2 DEF Due, LeftOf, Answers
  <1>4. /\ First(LeftOf(pacing, rows, k, at, s)) = k + 1
        /\ k + 1 \in 1 .. Len(rows)
        /\ rows[k + 1].tick = at /\ rows[k + 1].slot = s
    <2>1. CASE pacing = "step"
      <3>1. StepAsks(rows, committed, k, at, asking)
        BY <2>1 DEF Stands
      <3>2. QED
        BY <1>1, <1>2, <1>3, <2>1, <3>1, RecordFacts, StepFindsNext
    <2>2. CASE pacing = "realtime"
      <3>1. RealtimeAsks(intake, rows, k, at, asking, answers) /\ at \in Nat
        BY <2>2, RecordFacts DEF Stands
      <3>2. QED
        BY <1>1, <1>2, <1>3, <2>2, <3>1, RecordFacts, RealtimeFindsNext
    <2>3. QED
      BY <2>1, <2>2, RecordFacts
  <1> HIDE DEF s
  <1>5. Legal(copy, s, rows[k + 1].action)
    <2>1. PICK d \in 1 .. Len(rows) : d = k + 1
      BY <1>4
    <2>2. d - 1 = k
      BY <2>1
    <2>3. Lawful(pacing, rows)
      BY RecordFacts DEF History
    <2>4. Legal(Position(pacing, rows, d - 1, rows[d].tick), rows[d].slot, rows[d].action)
      BY <2>3 DEF Lawful
    <2>5. QED
      BY <1>2, <1>4, <2>1, <2>2, <2>4
  <1>6. QED
    BY <1>1, <1>3, <1>4, <1>5 DEF s

LEMMA AnswerFollows ==
  ASSUME RuleSetActsInSlots, IInv, RecordTells, ReplayTells, ReplayAnswer, UNCHANGED vars
  PROVE  ReplayTells'
  <1>1. /\ stage = "asking" /\ asking # {} /\ Answers(First(asking))
        /\ at \in Nat /\ answers \in Nat
        /\ UNCHANGED << pacing, intake, rows, committed, tick, at >>
    BY DEF ReplayAnswer, ReplayTells, vars, record
  <1>2. answers' \in Nat /\ stage' \in { "asking", "over" }
    BY <1>1 DEF ReplayAnswer
  <1>3. CASE at > tick
    <2>1. ~ (at <= tick) /\ at >= tick
      BY <1>1, <1>3, RecordFacts
    <2>2. QED
      BY <1>1, <1>2, <2>1 DEF ReplayTells
  <1>4. CASE at <= tick
    <2>1. PICK k \in 0 .. Len(rows) :
            Stands(pacing, intake, rows, committed, k, "asking", copy, at, asking, answers, left)
      BY <1>1, <1>4 DEF ReplayTells
    <2>2. at \in 0 .. tick
      BY <1>1, <1>4, RecordFacts
    <2>3. PICK s \in Slots : s = First(asking) /\ s \in asking
      BY <1>1, <2>1, <2>2, AskedTyped, FirstIsMember
    <2>4. /\ First(Due(s)) = k + 1
          /\ k + 1 \in 1 .. Len(rows)
          /\ rows[k + 1].tick = at /\ rows[k + 1].slot = s
          /\ Legal(copy, s, rows[k + 1].action)
      BY <1>1, <2>1, <2>2, <2>3, AnswerIsNext
    <2>5. PICK d \in 1 .. Len(rows) : d = k + 1
      BY <2>4
    <2>6. /\ left' = left \ {d}
          /\ copy' = Apply(copy, s, rows[d].action)
          /\ asking' = IF pacing = "step" THEN asking \ {s} ELSE asking
          /\ answers' = IF pacing = "step" THEN 0 ELSE answers + 1
          /\ stage' = "asking"
          /\ pacing = "realtime" => answers < Polls
      BY <1>1, <2>3, <2>4, <2>5 DEF ReplayAnswer, Answers
    <2>7. /\ left = k + 1 .. Len(rows) /\ copy = Position(pacing, rows, k, at)
          /\ \A i \in 1 .. k : rows[i].tick <= at
          /\ \A i \in k + 1 .. Len(rows) : rows[i].tick >= at
      BY <2>1 DEF Stands
    <2>8. /\ Len(rows) \in Nat /\ k \in Nat /\ d \in 0 .. Len(rows) /\ k = d - 1
          /\ rows[d].tick = at /\ rows[d].slot = s
      BY <2>4, <2>5, RecordFacts
    <2>9. left' = d + 1 .. Len(rows)
      BY <2>6, <2>7, <2>8
    <2>10. copy' = Position(pacing, rows, d, at)
      BY <2>5, <2>6, <2>7, <2>8, RecordFacts, PositionOfNext
    <2>11. \A i \in 1 .. d : i \in 1 .. k \/ i = d
      BY <2>8
    <2>12. \A i \in d + 1 .. Len(rows) : i \in k + 1 .. Len(rows)
      BY <2>8
    <2>13. /\ \A i \in 1 .. d : rows[i].tick <= at
           /\ \A i \in d + 1 .. Len(rows) : rows[i].tick >= at
      BY <1>1, <2>7, <2>8, <2>11, <2>12
    <2>14. ASSUME pacing = "step"
           PROVE  StepAsks(rows, committed, d, at, asking')
      <3>1. StepAsks(rows, committed, k, at, asking)
        BY <2>1, <2>14 DEF Stands
      <3>2. asking' = asking \ {s}
        BY <2>6, <2>14
      <3>3. \A i \in 1 .. k : i \in 1 .. d
        BY <2>8
      <3>4. \A u : (\E i \in 1 .. d : rows[i].tick = at /\ rows[i].slot = u)
                     <=> (\E i \in 1 .. k : rows[i].tick = at /\ rows[i].slot = u) \/ u = s
        BY <2>8, <2>11, <3>3
      <3>5. QED
        BY <3>1, <3>2, <3>4 DEF StepAsks
    <2>15. ASSUME pacing = "realtime"
           PROVE  RealtimeAsks(intake, rows, d, at, asking', answers')
      <3>1. RealtimeAsks(intake, rows, k, at, asking, answers)
        BY <2>1, <2>15 DEF Stands
      <3>2. asking' = asking /\ answers' = answers + 1 /\ answers < Cap(intake)
        BY <2>6, <2>15 DEF Polls, Cap
      <3>3. Cap(intake) \in Nat
        BY SessionAssumption DEF Cap
      <3>4. answers' <= Cap(intake) /\ answers' <= d
        BY <1>1, <2>8, <3>1, <3>2, <3>3 DEF RealtimeAsks
      <3>5. rows[d - answers' + 1].tick = at /\ rows[d - answers' + 1].slot = s
        <4>1. CASE answers = 0
          <5>1. d - answers' + 1 = d
            BY <2>8, <3>2, <4>1
          <5>2. QED
            BY <2>8, <5>1
        <4>2. CASE answers > 0
          <5>1. d - answers' + 1 = k - answers + 1
            BY <1>1, <2>8, <3>2
          <5>2. QED
            BY <2>3, <3>1, <4>2, <5>1 DEF RealtimeAsks
        <4>3. QED
          BY <1>1, <4>1, <4>2
      <3>6. /\ asking' \subseteq Slots
            /\ \A i \in d + 1 .. Len(rows) : rows[i].tick = at => rows[i].slot \in asking'
        BY <2>12, <3>1, <3>2 DEF RealtimeAsks
      <3>7. asking' # {} /\ s = First(asking')
        BY <1>1, <2>3, <3>2
      <3>8. QED
        BY <3>4, <3>5, <3>6, <3>7 DEF RealtimeAsks
    <2>16. Stands(pacing, intake, rows, committed, d, stage', copy', at, asking', answers', left')
      BY <2>6, <2>9, <2>10, <2>13, <2>14, <2>15 DEF Stands
    <2>17. QED
      BY <1>1, <1>2, <2>6, <2>8, <2>16 DEF ReplayTells
  <1>5. QED
    BY <1>1, <1>3, <1>4, RecordFacts

LEMMA SilenceFollows ==
  ASSUME RuleSetActsInSlots, IInv, RecordTells, ReplayTells, ReplaySilence, UNCHANGED vars
  PROVE  ReplayTells'
  <1>1. /\ stage = "asking" /\ asking # {} /\ ~ Answers(First(asking))
        /\ at \in Nat /\ answers \in Nat
        /\ UNCHANGED << pacing, intake, rows, committed, tick, copy, at, left >>
    BY DEF ReplaySilence, ReplayTells, vars, record
  <1>2. answers' \in Nat /\ stage' \in { "asking", "over" }
    BY <1>1 DEF ReplaySilence
  <1>3. CASE at > tick
    <2>1. ~ (at <= tick) /\ at >= tick
      BY <1>1, <1>3, RecordFacts
    <2>2. QED
      BY <1>1, <1>2, <2>1 DEF ReplayTells
  <1>4. CASE at <= tick
    <2>1. PICK k \in 0 .. Len(rows) :
            Stands(pacing, intake, rows, committed, k, "asking", copy, at, asking, answers, left)
      BY <1>1, <1>4 DEF ReplayTells
    <2>2. at \in 0 .. tick /\ k \in Nat /\ Len(rows) \in Nat
      BY <1>1, <1>4, RecordFacts
    <2>3. PICK s \in Slots : s = First(asking) /\ s \in asking
      BY <1>1, <2>1, <2>2, AskedTyped, FirstIsMember
    <2>4. /\ left = k + 1 .. Len(rows)
          /\ \A i \in k + 1 .. Len(rows) : rows[i].tick >= at
      BY <2>1 DEF Stands
    <2>5. CASE pacing = "step"
      <3>1. stage' = "over" /\ Due(s) = {}
        BY <1>1, <2>3, <2>5 DEF ReplaySilence, Answers
      <3>2. StepAsks(rows, committed, k, at, asking)
        BY <1>1, <2>1, <2>5 DEF Stands
      <3>3. ASSUME at < tick PROVE FALSE
        <4>1. at \in 0 .. tick - 1
          BY <2>2, <3>3, RecordFacts
        <4>2. Passed(pacing, rows, committed, at)
          BY <4>1, RecordFacts DEF History
        <4>3. /\ s \in Acting(Opening(committed, at))
              /\ ~ \E i \in 1 .. k : rows[i].tick = at /\ rows[i].slot = s
          BY <2>3, <3>2 DEF StepAsks
        <4>4. HasRow(rows, at, s)
          BY <2>5, <4>2, <4>3 DEF Passed
        <4>5. PICK i \in 1 .. Len(rows) : rows[i].tick = at /\ rows[i].slot = s
          BY <4>4 DEF HasRow
        <4>6. i \in k + 1 .. Len(rows)
          BY <2>2, <4>3, <4>5
        <4>7. i \in Due(s)
          BY <2>4, <4>5, <4>6 DEF Due
        <4>8. QED
          BY <3>1, <4>7
      <3>4. at >= tick
        BY <1>1, <3>3, RecordFacts
      <3>5. QED
        BY <1>1, <1>2, <3>1, <3>4 DEF ReplayTells
    <2>6. CASE pacing = "realtime"
      <3>1. stage' = stage /\ asking' = asking \ {s} /\ answers' = 0
        BY <1>1, <2>3, <2>6 DEF ReplaySilence
      <3>2. RealtimeAsks(intake, rows, k, at, asking, answers)
        BY <1>1, <2>1, <2>6 DEF Stands
      <3>3. Cap(intake) \in Nat /\ Polls = Cap(intake)
        BY SessionAssumption DEF Cap, Polls
      <3>4. ASSUME NEW i \in k + 1 .. Len(rows), rows[i].tick = at, rows[i].slot = s
            PROVE  FALSE
        <4>1. i \in Due(s)
          BY <2>4, <3>4 DEF Due
        <4>2. answers >= Cap(intake) /\ answers > 0
          BY <1>1, <2>3, <2>6, <3>3, <4>1, SessionAssumption DEF Answers, Cap
        <4>3. PICK h \in 1 .. Len(rows) : h = k - answers + 1
          BY <1>1, <2>2, <3>2, <4>2 DEF RealtimeAsks
        <4>4. rows[h].tick = at /\ rows[h].slot = s
          BY <2>3, <3>2, <4>2, <4>3 DEF RealtimeAsks
        <4>5. i \in 1 .. Len(rows) /\ h < i
          BY <1>1, <2>2, <4>2, <4>3
        <4>6. i - h < Cap(intake)
          BY <3>4, <4>4, <4>5, RecordFacts DEF RowOrder
        <4>7. QED
          BY <1>1, <2>2, <3>3, <4>2, <4>3, <4>5, <4>6
      <3>5. RealtimeAsks(intake, rows, k, at, asking', answers')
        BY <3>1, <3>2, <3>3, <3>4 DEF RealtimeAsks
      <3>6. Stands(pacing, intake, rows, committed, k, stage', copy', at, asking', answers', left')
        BY <1>1, <2>1, <2>6, <3>1, <3>5 DEF Stands
      <3>7. QED
        BY <1>1, <1>2, <3>1, <3>6 DEF ReplayTells
    <2>7. QED
      BY <2>5, <2>6, RecordFacts
  <1>5. QED
    BY <1>1, <1>3, <1>4, RecordFacts

LEMMA CommitFollows ==
  ASSUME RuleSetActsInSlots, IInv, RecordTells, ReplayTells, ReplayCommit, UNCHANGED vars
  PROVE  ReplayTells'
  <1>1. /\ stage = "asking" /\ asking = {} /\ stage' = "top"
        /\ at \in Nat /\ answers \in Nat
        /\ copy' = IF pacing = "realtime" THEN Advance(copy) ELSE copy
        /\ at' = at + 1
        /\ UNCHANGED << pacing, intake, rows, committed, tick, asking, answers, left >>
    BY DEF ReplayCommit, ReplayTells, vars, record
  <1>2. CASE at >= tick
    <2>1. ~ (at' <= tick)
      BY <1>1, <1>2, RecordFacts
    <2>2. QED
      BY <1>1, <2>1 DEF ReplayTells
  <1>3. CASE at < tick
    <2>1. at <= tick
      BY <1>1, <1>3, RecordFacts
    <2>2. PICK k \in 0 .. Len(rows) :
            Stands(pacing, intake, rows, committed, k, "asking", copy, at, asking, answers, left)
      BY <1>1, <2>1 DEF ReplayTells
    <2>3. at \in 0 .. tick /\ k \in Nat
      BY <1>1, <2>1, RecordFacts
    <2>4. /\ left = k + 1 .. Len(rows) /\ copy = Position(pacing, rows, k, at)
          /\ \A i \in 1 .. k : rows[i].tick <= at
          /\ \A i \in k + 1 .. Len(rows) : rows[i].tick >= at
      BY <2>2 DEF Stands
    <2>5. \A i \in k + 1 .. Len(rows) : rows[i].tick # at
      <3>1. CASE pacing = "step"
        <4>1. StepAsks(rows, committed, k, at, {})
          BY <1>1, <2>2, <3>1 DEF Stands
        <4>2. ASSUME NEW j \in k + 1 .. Len(rows), rows[j].tick = at
              PROVE  rows[j].slot \in {}
          <5>1. History("step", intake, rows, committed, tick) /\ rows \in Seq(RowsOf)
            BY <3>1, RecordFacts
          <5>2. tick \in Nat
            BY RecordFacts
          <5>3. QED
            BY <2>3, <4>1, <4>2, <5>1, <5>2, LeftIsAsked
        <4>3. QED
          BY <4>2
      <3>2. CASE pacing = "realtime"
        BY <1>1, <2>2, <3>2 DEF Stands, RealtimeAsks
      <3>3. QED
        BY <3>1, <3>2, RecordFacts
    <2>6. pacing = "realtime" => answers = 0
      BY <1>1, <2>2 DEF Stands, RealtimeAsks
    <2>7. copy' = Position(pacing, rows, k, at + 1)
      BY <1>1, <2>4, PositionAdvances
    <2>8. \A i \in 1 .. Len(rows) : rows[i].tick \in Nat
      BY RecordFacts, RowTyped
    <2>9. \A i \in 1 .. k : rows[i].tick <= at + 1 /\ rows[i].tick < at + 1
      <3>1. \A i \in 1 .. k : i \in 1 .. Len(rows)
        BY RecordFacts
      <3>2. QED
        BY <1>1, <2>4, <2>8, <3>1
    <2>10. \A i \in k + 1 .. Len(rows) : rows[i].tick >= at + 1
      <3>1. \A i \in k + 1 .. Len(rows) : i \in 1 .. Len(rows)
        BY <2>3, RecordFacts
      <3>2. QED
        BY <1>1, <2>4, <2>5, <2>8, <3>1
    <2>11. Stands(pacing, intake, rows, committed, k, "top", copy', at + 1, asking, answers, left)
      BY <2>4, <2>6, <2>7, <2>9, <2>10 DEF Stands
    <2>12. QED
      BY <1>1, <2>11 DEF ReplayTells
  <1>4. QED
    BY <1>1, <1>2, <1>3, RecordFacts

\* The invariant of a session and the replay of its record.
ReplayInv == IInv /\ RecordTells /\ ReplayTells

LEMMA ReplayInvOpens == RecordedInit => ReplayInv
  BY InitHolds, RecordOpens DEF RecordedInit, ReplayInit, ReplayInv, ReplayTells

LEMMA ReplayInvStep ==
  ASSUME RuleSetActsInSlots, ReplayInv, [RecordedNext]_<< vars, replay >>
  PROVE  ReplayInv'
  <1>1. IInv /\ RecordTells /\ ReplayTells
    BY DEF ReplayInv
  <1>2. [Next]_vars
    BY DEF RecordedNext
  <1>3. IInv' /\ RecordTells'
    BY <1>1, <1>2, StepHolds, RecordStep
  <1>4. ReplayTells'
    <2>1. CASE stage = "unread" /\ Next /\ UNCHANGED replay
      BY <1>1, <2>1 DEF ReplayTells, replay
    <2>2. CASE Replay /\ UNCHANGED vars
      BY <1>1, <2>2, ReadFollows, TopFollows, AnswerFollows, SilenceFollows, CommitFollows
         DEF Replay
    <2>3. CASE UNCHANGED << vars, replay >>
      BY <1>1, <2>3 DEF ReplayTells, Stands, vars, replay, record
    <2>4. QED
      BY <2>1, <2>2, <2>3 DEF RecordedNext
  <1>5. QED
    BY <1>3, <1>4 DEF ReplayInv

LEMMA ReplayInvReproduces == ReplayInv => ReplayReproduces
  <1> SUFFICES ASSUME ReplayInv PROVE ReplayReproduces
    OBVIOUS
  <1>1. IInv /\ RecordTells /\ ReplayTells
    BY DEF ReplayInv
  <1>2. ASSUME stage = "top", at \in 1 .. tick
        PROVE  copy = committed[at]
    <2>1. tick \in Nat /\ at \in 0 .. tick /\ at # 0 /\ at <= tick
      BY <1>1, <1>2, RecordFacts
    <2>2. PICK k \in 0 .. Len(rows) :
            Stands(pacing, intake, rows, committed, k, "top", copy, at, asking, answers, left)
      BY <1>1, <1>2, <2>1 DEF ReplayTells
    <2>3. copy = Opening(committed, at)
      BY <1>1, <2>1, <2>2, ReplayOpens
    <2>4. QED
      BY <2>1, <2>3 DEF Opening
  <1>3. stage = "over" => at >= tick
    BY <1>1 DEF ReplayTells
  <1>4. QED
    BY <1>2, <1>3 DEF ReplayReproduces

-----------------------------------------------------------------------------
(* Theorems, for a rule set whose acting slots are slots of the session.   *)

\* The inductive invariant: every step of the host, of the session's loops and
\* of the submitters preserves it.
THEOREM Invariance == ASSUME RuleSetActsInSlots PROVE Spec => []IInv
  <1>1. Init => IInv
    BY InitHolds
  <1>2. RuleSetActsInSlots
    OBVIOUS
  <1>3. IInv /\ [Next]_vars => IInv'
    BY <1>2, StepHolds
  <1>4. QED
    BY <1>1, <1>3, PTL DEF Spec

\* The types of the session, and no inbox beyond its capacity (Inbox.Submit).
THEOREM TypeCorrect == ASSUME RuleSetActsInSlots PROVE Spec => []TypeOK
  BY Invariance, IInvTypes, PTL

\* Every agent is told the end once: never before it, and by one of drain,
\* a failed drain or abort (session.go drain, abort).
THEOREM EndedOnceHolds == ASSUME RuleSetActsInSlots PROVE Spec => []EndedOnce
  <1>1. IInv => EndedOnce
    BY DEF IInv
  <1>2. QED
    BY <1>1, Invariance, PTL

\* A session that ends has shown and evaluated its last position, even if it
\* stopped half-way through a tick (session.go drain, evaluateAll).
THEOREM EndedOnFinalPositionHolds ==
  ASSUME RuleSetActsInSlots PROVE Spec => []EndedOnFinalPosition
  <1>1. IInv => EndedOnFinalPosition
    BY DEF IInv
  <1>2. QED
    BY <1>1, Invariance, PTL

\* The host hears of a slot once, at the refusal that reaches the threshold, for
\* every threshold and in both loops: each action judged is refused or recorded,
\* and no retry or tick repeats or swallows the call (session.go decideLegal,
\* rejected; realtime.go).
THEOREM SuspectedOnceHolds ==
  ASSUME RuleSetActsInSlots PROVE Spec => []SuspectedOnce
  <1>1. IInv => SuspectedOnce
    BY LadderTellsOnce DEF IInv
  <1>2. QED
    BY <1>1, Invariance, PTL

\* No input is judged twice or after a newer one of its slot, for any number of
\* inputs, any capacity and either intake (realtime.go takeNewest, takeAll).
THEOREM InputsInOrderHolds == ASSUME RuleSetActsInSlots PROVE Spec => []InputsInOrder
  BY Invariance, IInvOrders, PTL

\* The newest input of a slot is judged or waiting, and a command stream loses
\* none that the inbox has not counted as dropped (realtime.go Submit, takeAll).
THEOREM InputsAccountedHolds == ASSUME RuleSetActsInSlots PROVE Spec => []InputsAccounted
  BY Invariance, IInvAccounts, PTL

\* The inductive invariant of a session and the replay of its record: every step
\* of the one keeps the record telling, every step of the other follows it.
THEOREM RecordedInvariance ==
  ASSUME RuleSetActsInSlots PROVE RecordedSpec => []ReplayInv
  <1>1. RecordedInit => ReplayInv
    BY ReplayInvOpens
  <1>2. RuleSetActsInSlots
    OBVIOUS
  <1>3. ReplayInv /\ [RecordedNext]_<< vars, replay >> => ReplayInv'
    BY <1>2, ReplayInvStep
  <1>4. QED
    BY <1>1, <1>3, PTL DEF RecordedSpec

\* replay_complete (session/record.go): the recorded decisions alone pass through
\* every committed world and miss none, in both loops and under both intakes.
THEOREM ReplayReproducesHolds ==
  ASSUME RuleSetActsInSlots PROVE RecordedSpec => []ReplayReproduces
  BY RecordedInvariance, ReplayInvReproduces, PTL
=============================================================================
