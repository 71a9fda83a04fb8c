--------------------------- MODULE NetplayProofs ---------------------------
(***************************************************************************)
(* What the server guarantees for any number of connections, any budget    *)
(* and any threshold: the capacity, the single use of tickets, the books   *)
(* on departures and the input rate.                                       *)
(***************************************************************************)
EXTENDS Netplay, FiniteSetTheorems, TLAPS

-----------------------------------------------------------------------------
(* The inductive invariant.                                                *)

Admissions == { c \in Conn : Admitting(c) }

\* pending counts the reservations.
PendingCounts == pending = Cardinality(Admissions)

\* A ticket in use is spent.
TicketSpent == \A c \in Conn : ticket[c] # NoTicket => ticket[c] \in redeemed

\* The threshold closes the transport.
AbuserShutOut == \A c \in Conn : violations[c] >= AbuseThreshold => c \notin open

\* Who is a peer, who may be lost, and who was ever heard.
StagesTell ==
  /\ \A c \in Conn : stage[c] \in { "dialed", "handshake", "accepted" } => c \notin Registered
  /\ \A c \in Conn : stage[c] \in { "listed", "run" } => c \in Registered
  /\ \A c \in Conn : heard[c] # Never => stage[c] \in { "run", "over" }
  /\ \A c \in gone : c \in Registered /\ stage[c] \in { "run", "over" }
  /\ sweep \subseteq Registered

\* Tokens are what the rate has granted and no input has used.
TokensLeft ==
  /\ \A c \in Conn : c \notin Registered => filled[c] = Never /\ accepted[c] = 0
  /\ \A c \in Registered :
       filled[c] = Never => accepted[c] = 0 /\ bucket[c] = InputsPerTick
  /\ \A c \in Registered :
       filled[c] # Never =>
         /\ admitted[c] <= filled[c]
         /\ accepted[c] + bucket[c] <= InputsPerTick * (1 + filled[c] - admitted[c])

IInv ==
  /\ TypeOK
  /\ PendingCounts
  /\ CapacityHeld
  /\ TicketSpent
  /\ TicketOnce
  /\ AbuserShutOut
  /\ StagesTell
  /\ BooksAgree
  /\ TokensLeft

-----------------------------------------------------------------------------
(* Lemmas.                                                                 *)

\* A product grows with its factor.
LEMMA TimesMonotone ==
  ASSUME NEW n \in Nat, NEW a \in Int, NEW b \in Int, a <= b
  PROVE  n * a <= n * b
  <1>1. n * (b - a) >= 0
    OBVIOUS
  <1>2. n * (b - a) = n * b - n * a
    OBVIOUS
  <1>3. QED
    BY <1>1, <1>2

\* What the rate grants adds up over time.
LEMMA TimesAdds ==
  ASSUME NEW n \in Nat, NEW a \in Int, NEW b \in Int, NEW d \in Int
  PROVE  n * (1 + a - d) + (b - a) * n = n * (1 + b - d)
  OBVIOUS

\* The bucket never overflows.
LEMMA TokensBounded ==
  ASSUME TypeOK, NEW c \in Conn
  PROVE  /\ Tokens(c) \in 0 .. 4 * InputsPerTick
         /\ filled[c] = Never => Tokens(c) <= bucket[c]
         /\ filled[c] # Never => Tokens(c) <= bucket[c] + (now - filled[c]) * InputsPerTick
  <1> DEFINE gain == IF filled[c] = Never THEN 0 ELSE (now - filled[c]) * InputsPerTick
  <1>1. gain \in Nat
    <2>1. CASE filled[c] = Never
      BY <2>1
    <2>2. CASE filled[c] # Never
      <3>1. now - filled[c] \in Nat
        BY <2>2 DEF TypeOK, Never
      <3>2. QED
        BY <2>2, <3>1, NetplayAssumption
    <2>3. QED
      BY <2>1, <2>2
  <1>2. bucket[c] \in Nat /\ 4 * InputsPerTick \in Nat
    BY NetplayAssumption DEF TypeOK
  <1> HIDE DEF gain
  <1>3. Tokens(c) = IF bucket[c] + gain > 4 * InputsPerTick THEN 4 * InputsPerTick
                                                         ELSE bucket[c] + gain
    BY DEF Tokens, gain
  <1>4. /\ Tokens(c) \in 0 .. 4 * InputsPerTick
        /\ Tokens(c) <= bucket[c] + gain
    BY <1>1, <1>2, <1>3
  <1>5. QED
    BY <1>2, <1>4 DEF gain

\* The initial state satisfies the invariant.
LEMMA InitInvariant == Init => IInv
  <1> SUFFICES ASSUME Init PROVE IInv
    OBVIOUS
  <1>1. TypeOK
    BY NetplayAssumption DEF Init, TypeOK, Never, NoTicket
  <1>2. Admissions = {} /\ Registered = {}
    BY DEF Init, Admissions, Admitting, Registered
  <1>3. Cardinality({}) = 0
    BY FS_EmptySet
  <1>4. PendingCounts
    BY <1>2, <1>3 DEF Init, PendingCounts
  <1>5. CapacityHeld
    <2>1. peers \cup Admissions = {}
      BY <1>2 DEF Init
    <2>2. QED
      BY <1>3, <2>1, NetplayAssumption DEF CapacityHeld, Admissions
  <1>6. TicketSpent /\ TicketOnce /\ AbuserShutOut
    BY NetplayAssumption DEF Init, TicketSpent, TicketOnce, AbuserShutOut
  <1>7. StagesTell
    BY <1>2 DEF Init, StagesTell
  <1>8. BooksAgree
    <2>1. { c \in Registered \ gone : ~Admitting(c) } = {}
      BY <1>2
    <2>2. QED
      BY <1>2, <1>3, <2>1 DEF Init, BooksAgree
  <1>9. TokensLeft
    BY <1>2 DEF Init, TokensLeft
  <1>10. QED
    BY <1>1, <1>4, <1>5, <1>6, <1>7, <1>8, <1>9 DEF IInv

-----------------------------------------------------------------------------
(* Every step keeps every part.                                            *)

\* A ticket changes hands in Accept only.
LEMMA TicketStep ==
  ASSUME IInv, [Next]_vars
  PROVE  TicketSpent' /\ TicketOnce'
  <1>1. CASE UNCHANGED << ticket, redeemed >>
    BY <1>1 DEF IInv, TicketSpent, TicketOnce
  <1>2. ASSUME NEW c \in Conn, Accept(c)
        PROVE  TicketSpent' /\ TicketOnce'
    <2>1. PICK t \in Tickets : /\ t \notin redeemed
                               /\ ticket' = [ ticket EXCEPT ![c] = t ]
                               /\ redeemed' = redeemed \cup {t}
      BY <1>2 DEF Accept, Verified, Redeem
    <2>2. ticket \in [ Conn -> Tickets \cup { NoTicket } ]
      BY DEF IInv, TypeOK
    <2>3. QED
      BY <2>1, <2>2 DEF IInv, TicketSpent, TicketOnce
  <1>3. QED
    BY <1>1, <1>2
    DEF Next, vars, books, Admission, Reserve, Refuse, Register, RefuseSeat, Settle, Hangup,
        Close, Receive, HearAck, HearSpectator, HearExcess, HearInput, Hear, Broadcast,
        Visit, Tick

\* The transport closes with the violation that reaches the threshold, and
\* never opens again.
LEMMA AbuserStep ==
  ASSUME IInv, [Next]_vars
  PROVE  AbuserShutOut'
  <1>1. CASE UNCHANGED violations /\ open' \subseteq open
    BY <1>1 DEF IInv, AbuserShutOut
  <1>2. ASSUME NEW c \in Conn, Violate(c)
        PROVE  AbuserShutOut'
    BY <1>2 DEF IInv, TypeOK, AbuserShutOut, Violate, Abusive
  <1>3. QED
    BY <1>1, <1>2
    DEF Next, vars, books, Admission, Reserve, Refuse, Accept, Register, RefuseSeat, Settle,
        Hangup, Close, Receive, HearAck, HearSpectator, HearExcess, HearInput, Hear,
        Broadcast, Visit, Tick

\* What a message needs of the peer it comes from.
LEMMA HearingPeer ==
  ASSUME IInv, NEW c \in Conn, Receive(c)
  PROVE  /\ c \in Registered /\ stage[c] = "run" /\ c \in open
         /\ violations[c] \in 0 .. AbuseThreshold - 1
  <1>1. stage[c] = "run" /\ c \in open
    BY DEF Receive, HearAck, HearSpectator, HearExcess, HearInput, Hear, Running
  <1>2. c \in Registered
    BY <1>1 DEF IInv, StagesTell
  <1>3. violations[c] \in 0 .. AbuseThreshold - 1
    BY <1>1, NetplayAssumption DEF IInv, TypeOK, AbuserShutOut
  <1>4. QED
    BY <1>1, <1>2, <1>3

\* The types of what a message changes.
LEMMA ReceiveTypes ==
  ASSUME IInv, NEW c \in Conn, Receive(c)
  PROVE  TypeOK'
  <1>1. violations[c] + 1 \in 0 .. AbuseThreshold /\ AbuseThreshold \in Nat
    BY HearingPeer, NetplayAssumption
  <1>2. Tokens(c) \in 0 .. 4 * InputsPerTick
    BY TokensBounded DEF IInv
  <1>3. /\ stage' = stage /\ now' = now /\ ticket' = ticket /\ redeemed' = redeemed
        /\ peers' = peers /\ pending' = pending /\ active' = active /\ gone' = gone
        /\ sweep' = sweep /\ admitted' = admitted /\ departures' = departures
        /\ heard' = [ heard EXCEPT ![c] = now ]
        /\ open' \subseteq open
    BY DEF Receive, HearAck, HearSpectator, HearExcess, HearInput, Hear, Violate
  <1>4. heard' \in [ Conn -> Never .. now' ]
    BY <1>3 DEF IInv, TypeOK, Never
  <1>5. violations' \in [ Conn -> 0 .. AbuseThreshold ]
    BY <1>1 DEF IInv, TypeOK, Receive, HearAck, HearSpectator, HearExcess, HearInput, Violate
  <1>6. filled' \in [ Conn -> Never .. now' ]
    BY <1>3 DEF IInv, TypeOK, Never, Receive, HearAck, HearSpectator, HearExcess, HearInput
  <1>7. bucket' \in [ Conn -> 0 .. 4 * InputsPerTick ]
    <2>1. Tokens(c) >= 1 => Tokens(c) - 1 \in 0 .. 4 * InputsPerTick
      BY <1>2, NetplayAssumption
    <2>2. \/ bucket' = bucket
          \/ bucket' = [ bucket EXCEPT ![c] = Tokens(c) ]
          \/ /\ Tokens(c) >= 1
             /\ bucket' = [ bucket EXCEPT ![c] = Tokens(c) - 1 ]
      BY DEF Receive, HearAck, HearSpectator, HearExcess, HearInput
    <2>3. QED
      BY <1>2, <2>1, <2>2 DEF IInv, TypeOK
  <1>8. accepted' \in [ Conn -> Nat ] /\ late' \subseteq Conn
    BY DEF IInv, TypeOK, Receive, HearAck, HearSpectator, HearExcess, HearInput
  <1>9. QED
    BY <1>3, <1>4, <1>5, <1>6, <1>7, <1>8 DEF IInv, TypeOK

\* Type correctness.
LEMMA TypeStep ==
  ASSUME IInv, [Next]_vars
  PROVE  TypeOK'
  <1> USE DEF IInv, TypeOK
  <1>1. CASE UNCHANGED vars
    BY <1>1 DEF vars, books
  <1>2. ASSUME NEW c \in Conn, Reserve(c) \/ Refuse(c) \/ RefuseSeat(c) \/ Settle(c)
        PROVE  TypeOK'
    <2>1. stage[c] \in { "handshake", "accepted", "listed" } => pending - 1 \in Nat
      <3>1. stage[c] \in { "handshake", "accepted", "listed" } => c \in Admissions
        BY DEF Admissions, Admitting
      <3>2. IsFiniteSet(Admissions)
        BY NetplayAssumption, FS_Subset DEF Admissions
      <3>3. c \in Admissions => Cardinality(Admissions) - 1 \in Nat
        <4>1. c \in Admissions =>
                Cardinality(Admissions \ {c}) = Cardinality(Admissions) - 1
          BY <3>2, FS_RemoveElement
        <4>2. Cardinality(Admissions \ {c}) \in Nat
          BY <3>2, FS_RemoveElement, FS_CardinalityType
        <4>3. QED
          BY <4>1, <4>2
      <3>4. QED
        BY <3>1, <3>3 DEF PendingCounts
    <2>2. QED
      BY <1>2, <2>1 DEF Reserve, Refuse, RefuseSeat, Settle, Enter, books
  <1>3. ASSUME NEW c \in Conn, Accept(c)
        PROVE  TypeOK'
    <2>1. pending - 1 \in Nat
      <3>1. c \in Admissions
        BY <1>3 DEF Accept, Admissions, Admitting
      <3>2. IsFiniteSet(Admissions)
        BY NetplayAssumption, FS_Subset DEF Admissions
      <3>3. /\ Cardinality(Admissions \ {c}) = Cardinality(Admissions) - 1
            /\ Cardinality(Admissions \ {c}) \in Nat
        BY <3>1, <3>2, FS_RemoveElement, FS_CardinalityType
      <3>4. QED
        BY <3>3 DEF PendingCounts
    <2>2. QED
      BY <1>3, <2>1 DEF Accept, Verified, Redeem, Enter, books
  <1>4. ASSUME NEW c \in Conn, Register(c)
        PROVE  TypeOK'
    BY <1>4, NetplayAssumption DEF Register, Enter, Never
  <1>5. ASSUME NEW c \in Conn, Hangup(c) \/ Close(c) \/ Visit(c)
        PROVE  TypeOK'
    BY <1>5 DEF Hangup, Close, Visit, Depart, Enter, books
  <1>6. ASSUME NEW c \in Conn, Receive(c)
        PROVE  TypeOK'
    BY <1>6, ReceiveTypes
  <1>7. CASE Broadcast
    BY <1>7 DEF Broadcast, books
  <1>8. CASE Tick
    <2>1. now' \in 0 .. MaxTime /\ (Never .. now) \subseteq (Never .. now')
      BY <1>8, NetplayAssumption DEF Tick, Never
    <2>2. QED
      BY <1>8, <2>1 DEF Tick, books
  <1>9. QED
    BY <1>1, <1>2, <1>3, <1>4, <1>5, <1>6, <1>7, <1>8 DEF Next, Admission

\* The steps that reserve a place, release one, and leave them alone.
LEMMA AdmissionsStep ==
  ASSUME IInv, [Next]_vars
  PROVE  \/ /\ Admissions' = Admissions /\ pending' = pending
            /\ peers' \cup Admissions' \subseteq peers \cup Admissions
         \/ \E c \in Conn : /\ c \notin Admissions /\ ~Over
                            /\ Admissions' = Admissions \cup {c} /\ pending' = pending + 1
                            /\ peers' = peers
         \/ \E c \in Admissions : /\ Admissions' = Admissions \ {c} /\ pending' = pending - 1
                                  /\ peers' = peers
  <1> DEFINE Goal ==
        \/ /\ Admissions' = Admissions /\ pending' = pending
           /\ peers' \cup Admissions' \subseteq peers \cup Admissions
        \/ \E c \in Conn : /\ c \notin Admissions /\ ~Over
                           /\ Admissions' = Admissions \cup {c} /\ pending' = pending + 1
                           /\ peers' = peers
        \/ \E c \in Admissions : /\ Admissions' = Admissions \ {c} /\ pending' = pending - 1
                                 /\ peers' = peers
  <1> USE DEF IInv, TypeOK, Admissions, Admitting
  <1>1. CASE UNCHANGED << stage, pending >> /\ peers' \subseteq peers
    BY <1>1
  <1>2. ASSUME NEW c \in Conn, Reserve(c)
        PROVE  Goal
    BY <1>2 DEF Reserve, Enter
  <1>3. ASSUME NEW c \in Conn, Refuse(c) \/ RefuseSeat(c) \/ Settle(c)
        PROVE  Goal
    BY <1>3 DEF Refuse, RefuseSeat, Settle, Enter
  <1>4. ASSUME NEW c \in Conn, Accept(c)
        PROVE  Goal
    BY <1>4 DEF Accept, Enter
  <1>5. ASSUME NEW c \in Conn, Register(c)
        PROVE  Goal
    BY <1>5 DEF Register, Enter
  <1>6. ASSUME NEW c \in Conn, Hangup(c)
        PROVE  Goal
    BY <1>6 DEF Hangup, Enter, Running, Depart
  <1>7. QED
    BY <1>1, <1>2, <1>3, <1>4, <1>5, <1>6
    DEF Next, vars, books, Admission, Close, Receive, HearAck, HearSpectator, HearExcess,
        HearInput, Hear, Broadcast, Visit, Depart, Tick

\* Sets of connections are finite.
LEMMA Finite ==
  ASSUME NEW S \in SUBSET Conn
  PROVE  IsFiniteSet(S) /\ Cardinality(S) \in Nat
  BY NetplayAssumption, FS_Subset, FS_CardinalityType

\* The reservations are counted.
LEMMA PendingStep ==
  ASSUME IInv, [Next]_vars
  PROVE  PendingCounts'
  <1>1. Admissions \subseteq Conn /\ IsFiniteSet(Admissions) /\ Cardinality(Admissions) \in Nat
    BY Finite DEF Admissions
  <1>2. pending = Cardinality(Admissions)
    BY DEF IInv, PendingCounts
  <1>3. ASSUME NEW c
        PROVE  /\ c \notin Admissions =>
                    Cardinality(Admissions \cup {c}) = Cardinality(Admissions) + 1
               /\ c \in Admissions =>
                    Cardinality(Admissions \ {c}) = Cardinality(Admissions) - 1
    BY <1>1, FS_AddElement, FS_RemoveElement
  <1>4. pending' = Cardinality(Admissions')
    BY <1>2, <1>3, AdmissionsStep
  <1>5. QED
    BY <1>4 DEF PendingCounts

\* A place is reserved only when the peers and the reservations leave one.
LEMMA CapacityStep ==
  ASSUME IInv, [Next]_vars
  PROVE  CapacityHeld'
  <1> DEFINE Held == peers \cup Admissions
  <1>1. Held \in SUBSET Conn /\ Cardinality(Held) <= MaxConnections
    BY DEF IInv, TypeOK, CapacityHeld, Admissions
  <1>2. CASE Held' \subseteq Held
    <2>1. Cardinality(Held') <= Cardinality(Held)
      BY <1>1, <1>2, Finite, FS_Subset
    <2>2. Held' \in SUBSET Conn
      BY <1>1, <1>2
    <2>3. Cardinality(Held') <= MaxConnections
      BY <1>1, <2>1, <2>2, Finite, NetplayAssumption
    <2>4. QED
      BY <2>3 DEF CapacityHeld, Admissions
  <1>3. ASSUME NEW c \in Conn, c \notin Admissions, ~Over,
               Admissions' = Admissions \cup {c}, peers' = peers
        PROVE  CapacityHeld'
    <2>1. peers \in SUBSET Conn /\ Admissions \in SUBSET Conn
      BY DEF IInv, TypeOK, Admissions
    <2>2. Cardinality(Held) = Cardinality(peers) + Cardinality(Admissions)
                                - Cardinality(peers \cap Admissions)
      BY <2>1, Finite, FS_Union
    <2>3. /\ Cardinality(peers) \in Nat /\ Cardinality(Admissions) \in Nat
          /\ Cardinality(peers \cap Admissions) \in Nat /\ Cardinality(Held) \in Nat
      BY <2>1, Finite
    <2>4. ~(Cardinality(peers) + Cardinality(Admissions) >= MaxConnections)
      BY <1>3 DEF Over, IInv, PendingCounts
    <2>5. Cardinality(Held) + 1 <= MaxConnections
      BY <2>2, <2>3, <2>4, NetplayAssumption
    <2>6. Held' = Held \cup {c}
      BY <1>3
    <2>7. /\ Cardinality(Held \cup {c}) \in Nat
          /\ Cardinality(Held \cup {c}) <= Cardinality(Held) + 1
      <3>1. IsFiniteSet(Held) /\ Held \cup {c} \in SUBSET Conn
        BY <1>1, Finite
      <3>2. Cardinality(Held \cup {c}) \in Nat
        BY <3>1, Finite
      <3> HIDE DEF Held
      <3>3. Cardinality(Held \cup {c}) = IF c \in Held THEN Cardinality(Held)
                                                     ELSE Cardinality(Held) + 1
        BY <3>1, FS_AddElement
      <3>4. QED
        BY <2>3, <3>2, <3>3
    <2> HIDE DEF Held
    <2>8. Cardinality(Held') = Cardinality(Held \cup {c})
      BY <2>6
    <2>9. Cardinality(Held') <= MaxConnections
      BY <2>3, <2>5, <2>7, <2>8, NetplayAssumption
    <2>10. QED
      BY <2>9 DEF CapacityHeld, Admissions, Held
  <1>4. QED
    BY <1>2, <1>3, AdmissionsStep

\* A connection moves on, and is lost only after it was a peer.
LEMMA StagesStep ==
  ASSUME IInv, [Next]_vars
  PROVE  StagesTell'
  <1> USE DEF IInv, TypeOK, StagesTell, Registered
  <1>1. CASE UNCHANGED << stage, admitted, heard, gone, sweep >>
    BY <1>1
  <1>2. ASSUME NEW c \in Conn, Reserve(c) \/ Refuse(c) \/ RefuseSeat(c) \/ Settle(c)
        PROVE  StagesTell'
    BY <1>2 DEF Reserve, Refuse, RefuseSeat, Settle, Enter, books
  <1>3. ASSUME NEW c \in Conn, Accept(c)
        PROVE  StagesTell'
    BY <1>3 DEF Accept, Enter, books
  <1>4. ASSUME NEW c \in Conn, Register(c)
        PROVE  StagesTell'
    BY <1>4 DEF Register, Enter, Never
  <1>5. ASSUME NEW c \in Conn, Receive(c)
        PROVE  StagesTell'
    <2>1. /\ stage' = stage /\ admitted' = admitted /\ gone' = gone /\ sweep' = sweep
          /\ heard' = [ heard EXCEPT ![c] = now ] /\ stage[c] = "run"
      BY <1>5, HearingPeer DEF Receive, HearAck, HearSpectator, HearExcess, HearInput, Hear
    <2>2. QED
      BY <2>1
  <1>6. ASSUME NEW c \in Conn, Hangup(c)
        PROVE  StagesTell'
    BY <1>6 DEF Hangup, Running, Enter, Depart, books
  <1>7. ASSUME NEW c \in Conn, Visit(c)
        PROVE  StagesTell'
    BY <1>7 DEF Visit, Silent, Depart, books
  <1>8. CASE Broadcast
    BY <1>8 DEF Broadcast, BooksAgree, books
  <1>9. QED
    BY <1>1, <1>2, <1>3, <1>4, <1>5, <1>6, <1>7, <1>8
    DEF Next, vars, books, Admission, Close, Tick

-----------------------------------------------------------------------------
(* The books.                                                              *)

\* What the metric counts.
Live == { c \in Registered \ gone : ~Admitting(c) }

\* A loss is booked once.
LEMMA DepartBooks ==
  ASSUME IInv, NEW c \in Conn, Depart(c), c \in gone \/ c \in Live,
         admitted' = admitted, \A d \in Conn : Admitting(d)' = Admitting(d)
  PROVE  BooksAgree'
  <1> USE DEF IInv, TypeOK, BooksAgree, Live
  <1>1. Registered' = Registered
    BY DEF Registered
  <1>2. CASE c \in gone
    <2>1. UNCHANGED << gone, active, peers, departures >>
      BY <1>2 DEF Depart
    <2>2. Live' = Live
      BY <1>1, <2>1 DEF Registered
    <2>3. QED
      BY <1>1, <2>1, <2>2
  <1>3. CASE c \notin gone
    <2>1. /\ gone' = gone \cup {c} /\ active' = active - 1 /\ peers' = peers \ {c}
          /\ departures' = [ departures EXCEPT ![c] = @ + 1 ]
      BY <1>3 DEF Depart
    <2>2. \A d \in Conn : departures'[d] = IF d \in gone' THEN 1 ELSE 0
      BY <1>3, <2>1
    <2>3. peers' = Registered' \ gone'
      BY <1>1, <2>1
    <2>4. c \in Live /\ Live' = Live \ {c}
      BY <1>1, <1>3, <2>1 DEF Registered
    <2>5. Cardinality(Live \ {c}) = Cardinality(Live) - 1
      <3>1. IsFiniteSet(Live)
        BY Finite DEF Registered
      <3> HIDE DEF Live
      <3>2. QED
        BY <2>4, <3>1, FS_RemoveElement
    <2>6. active' = Cardinality(Live')
      BY <2>1, <2>4, <2>5
    <2>7. QED
      BY <2>2, <2>3, <2>6
  <1>4. QED
    BY <1>2, <1>3

\* List, metric and reports agree after every step.
LEMMA BooksStep ==
  ASSUME IInv, [Next]_vars
  PROVE  BooksAgree'
  <1> USE DEF IInv, TypeOK
  <1>1. ASSUME UNCHANGED << admitted, gone, active, peers, departures >>,
               \A d \in Registered : Admitting(d)' = Admitting(d)
        PROVE  BooksAgree'
    <2>1. Registered' = Registered
      BY <1>1 DEF Registered
    <2>2. Live' = Live
      BY <1>1, <2>1 DEF Live
    <2>3. QED
      BY <1>1, <2>1, <2>2 DEF BooksAgree, Live
  <1>2. ASSUME NEW c \in Conn, Reserve(c) \/ Refuse(c) \/ RefuseSeat(c) \/ Accept(c)
        PROVE  BooksAgree'
    <2>1. UNCHANGED << admitted, gone, active, peers, departures >>
      BY <1>2 DEF Reserve, Refuse, RefuseSeat, Accept
    <2>2. /\ c \notin Registered
          /\ \A d \in Conn \ {c} : stage'[d] = stage[d]
      BY <1>2 DEF Reserve, Refuse, RefuseSeat, Accept, Enter, StagesTell
    <2>3. \A d \in Registered : Admitting(d)' = Admitting(d)
      BY <2>2 DEF Admitting, Registered
    <2>4. QED
      BY <1>1, <2>1, <2>3
  <1>3. ASSUME NEW c \in Conn, Register(c)
        PROVE  BooksAgree'
    <2>1. c \notin Registered /\ c \notin gone
      BY <1>3 DEF Register, StagesTell
    <2>2. Registered' = Registered \cup {c}
      BY <1>3 DEF Register, Registered, Never
    <2>3. \A d \in Conn : Admitting(d)' = Admitting(d)
      BY <1>3 DEF Register, Enter, Admitting
    <2>4. Admitting(c)
      BY <1>3 DEF Register, Admitting
    <2>5. gone' = gone /\ active' = active /\ departures' = departures /\ peers' = peers \cup {c}
      BY <1>3 DEF Register
    <2>6. Registered \subseteq Conn
      BY DEF Registered
    <2>7. Live' = Live
      BY <2>2, <2>3, <2>4, <2>5, <2>6 DEF Live
    <2>8. peers' = Registered' \ gone'
      BY <2>1, <2>2, <2>5 DEF BooksAgree
    <2>9. QED
      BY <2>5, <2>7, <2>8 DEF BooksAgree, Live
  <1>4. ASSUME NEW c \in Conn, Settle(c)
        PROVE  BooksAgree'
    <2>1. c \in Registered /\ c \notin gone /\ Admitting(c) /\ ~Admitting(c)'
      BY <1>4 DEF Settle, Enter, StagesTell, Admitting
    <2>2. \A d \in Conn \ {c} : Admitting(d)' = Admitting(d)
      BY <1>4 DEF Settle, Enter, Admitting
    <2>3. Registered' = Registered /\ Registered \subseteq Conn
      BY <1>4 DEF Settle, Registered
    <2>4. gone' = gone /\ active' = active + 1 /\ departures' = departures /\ peers' = peers
      BY <1>4 DEF Settle
    <2>5. c \notin Live /\ Live' = Live \cup {c}
      BY <2>1, <2>2, <2>3, <2>4 DEF Live
    <2>6. Cardinality(Live \cup {c}) = Cardinality(Live) + 1
      <3>1. IsFiniteSet(Live)
        BY <2>3, Finite DEF Live
      <3>2. QED
        BY <2>5, <3>1, FS_AddElement
    <2>7. active' = Cardinality(Live')
      BY <2>4, <2>5, <2>6 DEF BooksAgree, Live
    <2>8. QED
      BY <2>3, <2>4, <2>7 DEF BooksAgree, Live
  <1>5. ASSUME NEW c \in Conn, Hangup(c)
        PROVE  BooksAgree'
    <2>1. Depart(c) /\ admitted' = admitted /\ stage[c] = "run"
      BY <1>5 DEF Hangup, Running
    <2>2. \A d \in Conn : Admitting(d)' = Admitting(d)
      BY <1>5 DEF Hangup, Running, Enter, Admitting
    <2>3. c \in gone \/ c \in Live
      BY <2>1 DEF Live, StagesTell, Admitting
    <2>4. QED
      BY <2>1, <2>2, <2>3, DepartBooks
  <1>6. ASSUME NEW c \in Conn, Visit(c)
        PROVE  BooksAgree'
    <2>1. admitted' = admitted /\ stage' = stage
      BY <1>6 DEF Visit
    <2>2. \A d \in Conn : Admitting(d)' = Admitting(d)
      BY <2>1 DEF Admitting
    <2>3. CASE c \notin gone /\ Silent(c)
      <3>1. Depart(c)
        BY <1>6, <2>3 DEF Visit
      <3>2. c \in Live
        BY <1>6, <2>3 DEF Visit, Silent, StagesTell, Live, Admitting
      <3>3. QED
        BY <2>1, <2>2, <3>1, <3>2, DepartBooks
    <2>4. CASE ~(c \notin gone /\ Silent(c))
      <3>1. UNCHANGED << gone, active, peers, departures >>
        BY <1>6, <2>4 DEF Visit
      <3>2. QED
        BY <1>1, <2>1, <2>2, <3>1 DEF Registered
    <2>5. QED
      BY <2>3, <2>4
  <1>7. CASE UNCHANGED << stage, admitted, gone, active, peers, departures >>
    BY <1>1, <1>7 DEF Admitting
  <1>8. QED
    BY <1>2, <1>3, <1>4, <1>5, <1>6, <1>7
    DEF Next, vars, books, Admission, Close, Receive, HearAck, HearSpectator, HearExcess,
        HearInput, Hear, Broadcast, Tick

-----------------------------------------------------------------------------
(* The input rate.                                                         *)

\* A refill adds what the rate grants since the last one.
LEMMA TokensGranted ==
  ASSUME IInv, NEW c \in Registered
  PROVE  accepted[c] + Tokens(c) <= InputsPerTick * (1 + now - admitted[c])
  <1>1. /\ c \in Conn /\ admitted[c] \in Int /\ admitted[c] <= now /\ now \in Int
        /\ admitted[c] >= 0 /\ accepted[c] \in Nat /\ bucket[c] \in Nat /\ InputsPerTick \in Nat
    BY NetplayAssumption DEF IInv, TypeOK, Registered, Never
  <1>2. Tokens(c) \in Nat
    BY <1>1, TokensBounded, NetplayAssumption DEF IInv
  <1>3. CASE filled[c] = Never
    <2>1. accepted[c] = 0 /\ bucket[c] = InputsPerTick
      BY <1>3 DEF IInv, TokensLeft
    <2>2. Tokens(c) <= InputsPerTick
      BY <1>1, <1>3, <2>1, TokensBounded DEF IInv
    <2>3. InputsPerTick * 1 <= InputsPerTick * (1 + now - admitted[c])
      BY <1>1, TimesMonotone
    <2>4. InputsPerTick * (1 + now - admitted[c]) \in Int /\ InputsPerTick * 1 = InputsPerTick
      BY <1>1
    <2>5. QED
      BY <1>1, <1>2, <2>1, <2>2, <2>3, <2>4
  <1>4. CASE filled[c] # Never
    <2> DEFINE had == InputsPerTick * (1 + filled[c] - admitted[c])
               more == (now - filled[c]) * InputsPerTick
               all == InputsPerTick * (1 + now - admitted[c])
    <2>1. filled[c] \in Int
      BY <1>1 DEF IInv, TypeOK, Never
    <2>2. accepted[c] + bucket[c] <= had
      BY <1>4 DEF IInv, TokensLeft
    <2>3. Tokens(c) <= bucket[c] + more
      BY <1>1, <1>4, TokensBounded DEF IInv
    <2>4. had + more = all
      BY <1>1, <2>1, TimesAdds
    <2>5. had \in Int /\ more \in Int /\ all \in Int
      BY <1>1, <2>1
    <2> HIDE DEF had, more, all
    <2>6. accepted[c] + Tokens(c) <= all
      BY <1>1, <1>2, <2>2, <2>3, <2>4, <2>5
    <2>7. QED
      BY <2>6 DEF all
  <1>5. QED
    BY <1>3, <1>4

\* An accepted input uses up a token.
LEMMA TokensStep ==
  ASSUME IInv, [Next]_vars
  PROVE  TokensLeft'
  <1> USE DEF TokensLeft
  <1>1. CASE UNCHANGED << filled, accepted, bucket, admitted >>
    BY <1>1 DEF IInv, Registered
  <1>2. ASSUME NEW c \in Conn, Register(c)
        PROVE  TokensLeft'
    <2>1. c \notin Registered
      BY <1>2 DEF Register, IInv, StagesTell
    <2>2. filled[c] = Never /\ accepted[c] = 0
      BY <2>1 DEF IInv
    <2>3. /\ filled' = filled /\ accepted' = accepted
          /\ bucket' = [ bucket EXCEPT ![c] = InputsPerTick ]
          /\ admitted' = [ admitted EXCEPT ![c] = now ]
      BY <1>2 DEF Register
    <2>4. bucket'[c] = InputsPerTick /\ c \in Registered'
      BY <2>3 DEF IInv, TypeOK, Registered, Never
    <2>5. \A d \in Conn \ {c} : /\ bucket'[d] = bucket[d] /\ admitted'[d] = admitted[d]
                                /\ d \in Registered' <=> d \in Registered
      BY <2>3 DEF IInv, TypeOK, Registered
    <2>6. Registered' \subseteq Conn
      BY DEF Registered
    <2>7. QED
      BY <2>2, <2>3, <2>4, <2>5, <2>6 DEF IInv
  <1>3. ASSUME NEW c \in Conn, HearExcess(c) \/ HearInput(c)
        PROVE  TokensLeft'
    <2>1. c \in Registered
      BY <1>3, HearingPeer DEF Receive
    <2>2. accepted[c] + Tokens(c) <= InputsPerTick * (1 + now - admitted[c])
      BY <2>1, TokensGranted
    <2>3. /\ now \in Nat /\ admitted[c] <= now /\ accepted[c] \in Nat /\ Tokens(c) \in Nat
          /\ admitted[c] \in Int /\ InputsPerTick \in Nat
      BY TokensBounded, NetplayAssumption DEF IInv, TypeOK, Never
    <2>4. admitted' = admitted /\ filled' = [ filled EXCEPT ![c] = now ]
      BY <1>3 DEF HearExcess, HearInput, Hear
    <2>5. \A d \in Conn \ {c} :
            filled'[d] = filled[d] /\ accepted'[d] = accepted[d] /\ bucket'[d] = bucket[d]
      BY <1>3, <2>4 DEF HearExcess, HearInput, IInv, TypeOK
    <2>6. filled'[c] = now /\ accepted'[c] + bucket'[c] <= accepted[c] + Tokens(c)
      BY <1>3, <2>3, <2>4 DEF HearExcess, HearInput, IInv, TypeOK
    <2>7. accepted'[c] \in Int /\ bucket'[c] \in Int
      BY <1>3, <2>3 DEF HearExcess, HearInput, IInv, TypeOK
    <2>8. InputsPerTick * (1 + now - admitted[c]) \in Int
      BY <2>3
    <2>9. accepted'[c] + bucket'[c] <= InputsPerTick * (1 + now - admitted[c])
      BY <2>2, <2>3, <2>6, <2>7, <2>8
    <2>10. Registered' = Registered /\ Registered \subseteq Conn
      BY <2>4 DEF Registered
    <2>11. now # Never
      BY <2>3 DEF Never
    <2>12. QED
      BY <2>1, <2>3, <2>4, <2>5, <2>6, <2>9, <2>10, <2>11 DEF IInv
  <1>4. QED
    BY <1>1, <1>2, <1>3
    DEF Next, vars, books, Admission, Reserve, Refuse, Accept, RefuseSeat, Settle, Hangup,
        Close, Receive, HearAck, HearSpectator, Hear, Broadcast, Visit, Tick

-----------------------------------------------------------------------------
(* The theorems.                                                           *)

\* The invariant holds in every reachable state.
THEOREM Invariance == Spec => []IInv
  <1>1. IInv /\ [Next]_vars => IInv'
    BY TypeStep, PendingStep, CapacityStep, TicketStep, AbuserStep, StagesStep, BooksStep,
       TokensStep
    DEF IInv
  <1>2. QED
    BY <1>1, InitInvariant, PTL DEF Spec

\* Whatever the interleaving of goroutines, every variable keeps its type: no
\* counter of the server underflows, and no peer goes beyond the threshold.
THEOREM TypeCorrect == Spec => []TypeOK
  <1>1. IInv => TypeOK
    BY DEF IInv
  <1>2. QED
    BY <1>1, Invariance, PTL

\* Peers and handshakes in flight together stay within the budget.
THEOREM CapacityHeldHolds == Spec => []CapacityHeld
  <1>1. IInv => CapacityHeld
    BY DEF IInv
  <1>2. QED
    BY <1>1, Invariance, PTL

\* No two connections are ever admitted on the same ticket.
THEOREM TicketOnceHolds == Spec => []TicketOnce
  <1>1. IInv => TicketOnce
    BY DEF IInv
  <1>2. QED
    BY <1>1, Invariance, PTL

\* List of peers, metric and departures reported agree in every state.
THEOREM BooksAgreeHolds == Spec => []BooksAgree
  <1>1. IInv => BooksAgree
    BY DEF IInv
  <1>2. QED
    BY <1>1, Invariance, PTL

\* No connection gets more inputs accepted than the rate grants.
THEOREM InputRateHolds == Spec => []InputRate
  <1>1. ASSUME IInv
        PROVE  InputRate
    <2>1. SUFFICES ASSUME NEW c \in Registered
                   PROVE  accepted[c] <= InputsPerTick * (1 + now - admitted[c])
      BY DEF InputRate
    <2>2. accepted[c] + Tokens(c) <= InputsPerTick * (1 + now - admitted[c])
      BY <1>1, TokensGranted
    <2>3. /\ accepted[c] \in Nat /\ Tokens(c) \in Nat
          /\ InputsPerTick * (1 + now - admitted[c]) \in Int
      <3>1. /\ accepted[c] \in Nat /\ Tokens(c) \in Nat
            /\ now \in Int /\ admitted[c] \in Int /\ InputsPerTick \in Int
        BY <1>1, TokensBounded, NetplayAssumption DEF IInv, TypeOK, Registered, Never
      <3>2. QED
        BY <3>1
    <2>4. QED
      BY <2>2, <2>3
  <1>2. QED
    BY <1>1, Invariance, PTL
=============================================================================
