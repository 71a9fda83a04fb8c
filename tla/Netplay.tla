------------------------------ MODULE Netplay ------------------------------
(***************************************************************************)
(* The server side of networked play: admission of connections by ticket   *)
(* (admission/handshake.go, ticket.go; netplay/server.go, Admit), the loop *)
(* of an admitted peer with its abuse accounting (netplay/peer.go), and    *)
(* the sweep for silent peers that rides on every broadcast.               *)
(*                                                                         *)
(* Admit runs on a goroutine per connection, Peer.Run on another, and      *)
(* Broadcast on the session's; an action is one critical section, or one   *)
(* received message.  What a peer is sent is the business of StateStream.  *)
(***************************************************************************)
EXTENDS Integers, FiniteSets

CONSTANTS
  Conn,             \* connections
  Tickets,          \* well-formed tickets: what jti, seat and role they name
  Spectators,       \* the tickets of spectators
  Seated,           \* the tickets whose seat the session has
  MaxConnections,   \* budget: connections at a time
  AbuseThreshold,   \* violations that close a connection: 32
  InputsPerTick,    \* budget: inputs per tick
  SilenceDeadline,  \* tuning: in ticks, 0 for none
  MaxTime           \* bound: clock, in ticks

ASSUME NetplayAssumption ==
  /\ IsFiniteSet(Conn)
  /\ Spectators \subseteq Tickets /\ Seated \subseteq Tickets
  /\ MaxConnections \in Nat \ {0}
  /\ AbuseThreshold \in Nat \ {0}
  /\ InputsPerTick \in Nat \ {0}
  /\ SilenceDeadline \in Nat
  /\ MaxTime \in Nat

VARIABLES
  now,         \* the clock
  stage,       \* stage[c]: where the server is with c
  open,        \* connections whose transport is open
  ticket,      \* ticket[c]: the one c redeemed
  redeemed,    \* the verifier's redeemed jtis
  peers,       \* the server's peers
  pending,     \* handshakes in flight
  active,      \* Metrics.ActiveConnections
  bucket,      \* bucket[c]: inputBucket
  filled,      \* filled[c]: bucketFilled
  violations,  \* violations[c]: protocol violations
  heard,       \* heard[c]: when the layer last received anything
  gone,        \* peers declared lost
  sweep,       \* peers the broadcast in progress has still to visit
  admitted,    \* history: when c became a peer
  accepted,    \* history: inputs of c submitted to its inbox
  departures,  \* history: calls to OnDeparture for c
  late         \* history: connections that submitted an input after that

books == << bucket, filled, violations, heard, accepted, late >>
vars == << now, stage, open, ticket, redeemed, peers, pending, active, books,
           gone, sweep, admitted, departures >>

Never == -1
NoTicket == "none"

\* Between the reservation of a place and its release.
Admitting(c) == stage[c] \in { "handshake", "accepted", "listed" }

\* In Peer.Run.
Running(c) == stage[c] = "run"

\* Made a peer at some time.
Registered == { c \in Conn : admitted[c] # Never }

TypeOK ==
  /\ now \in 0 .. MaxTime
  /\ stage \in [ Conn -> { "dialed", "handshake", "accepted", "listed", "run", "over" } ]
  /\ open \subseteq Conn /\ peers \subseteq Conn /\ gone \subseteq Conn /\ sweep \subseteq Conn
  /\ ticket \in [ Conn -> Tickets \cup { NoTicket } ] /\ redeemed \subseteq Tickets
  /\ pending \in Nat /\ active \in Int
  /\ bucket \in [ Conn -> 0 .. 4 * InputsPerTick ]
  /\ violations \in [ Conn -> 0 .. AbuseThreshold ]
  /\ filled \in [ Conn -> Never .. now ] /\ heard \in [ Conn -> Never .. now ]
  /\ admitted \in [ Conn -> Never .. now ]
  /\ accepted \in [ Conn -> Nat ] /\ departures \in [ Conn -> Nat ]
  /\ late \subseteq Conn

Init ==
  /\ now = 0
  /\ stage = [ c \in Conn |-> "dialed" ] /\ open = Conn
  /\ ticket = [ c \in Conn |-> NoTicket ] /\ redeemed = {}
  /\ peers = {} /\ pending = 0 /\ active = 0
  /\ bucket = [ c \in Conn |-> 0 ] /\ filled = [ c \in Conn |-> Never ]
  /\ violations = [ c \in Conn |-> 0 ] /\ heard = [ c \in Conn |-> Never ]
  /\ gone = {} /\ sweep = {}
  /\ admitted = [ c \in Conn |-> Never ] /\ accepted = [ c \in Conn |-> 0 ]
  /\ departures = [ c \in Conn |-> 0 ] /\ late = {}

-----------------------------------------------------------------------------
(* Server.Admit.                                                           *)

Enter(c, s) == stage' = [ stage EXCEPT ![c] = s ]

\* Mutant of Over: handshakes in flight hold no capacity.
OverPeers == Cardinality(peers) >= MaxConnections

Over == Cardinality(peers) + pending >= MaxConnections

\* The capacity check, before anything is allocated.
Reserve(c) ==
  /\ stage[c] = "dialed"
  /\ \/ /\ Over
        /\ Enter(c, "over")
        /\ open' = open \ {c}
        /\ UNCHANGED pending
     \/ /\ ~Over
        /\ Enter(c, "handshake")
        /\ pending' = pending + 1
        /\ UNCHANGED open
  /\ UNCHANGED << now, ticket, redeemed, peers, active, books, gone, sweep, admitted,
                  departures >>

\* Mutant of Redeem: a ticket is checked against those redeemed, not noted.
RedeemNothing(t) == redeemed

Redeem(t) == redeemed \cup {t}

\* Verifier.Verify accepts t.
Verified(c, t) ==
  /\ t \notin redeemed
  /\ ticket' = [ ticket EXCEPT ![c] = t ]
  /\ redeemed' = Redeem(t)

\* The hello does not come, or is malformed, of another protocol version,
\* expired or replayed: the place is released, the transport left as it is.
Refuse(c) ==
  /\ stage[c] = "handshake"
  /\ Enter(c, "over")
  /\ pending' = pending - 1
  /\ UNCHANGED << now, open, ticket, redeemed, peers, active, books, gone, sweep, admitted,
                  departures >>

\* The hello holds a good ticket; the welcome goes out, or the client is gone
\* by then and the ticket is spent.
Accept(c) ==
  /\ stage[c] = "handshake"
  /\ \E t \in Tickets : Verified(c, t)
  /\ \/ /\ c \in open
        /\ Enter(c, "accepted")
        /\ UNCHANGED pending
     \/ /\ c \notin open
        /\ Enter(c, "over")
        /\ pending' = pending - 1
  /\ UNCHANGED << now, open, peers, active, books, gone, sweep, admitted, departures >>

\* The seat's inbox, the sender and the bucket are set up and c is a peer.
Register(c) ==
  /\ stage[c] = "accepted"
  /\ ticket[c] \in Seated \cup Spectators
  /\ Enter(c, "listed")
  /\ peers' = peers \cup {c}
  /\ bucket' = [ bucket EXCEPT ![c] = InputsPerTick ]
  /\ admitted' = [ admitted EXCEPT ![c] = now ]
  /\ UNCHANGED << now, open, ticket, redeemed, pending, active, filled, violations, heard,
                  accepted, late, gone, sweep, departures >>

\* The ticket names a seat the session does not have.
RefuseSeat(c) ==
  /\ stage[c] = "accepted"
  /\ ticket[c] \notin Seated \cup Spectators
  /\ Enter(c, "over")
  /\ open' = open \ {c}
  /\ pending' = pending - 1
  /\ UNCHANGED << now, ticket, redeemed, peers, active, books, gone, sweep, admitted,
                  departures >>

\* Admit counts the peer and releases the place; its caller starts Peer.Run.
Settle(c) ==
  /\ stage[c] = "listed"
  /\ Enter(c, "run")
  /\ active' = active + 1
  /\ pending' = pending - 1
  /\ UNCHANGED << now, open, ticket, redeemed, peers, books, gone, sweep, admitted,
                  departures >>

-----------------------------------------------------------------------------
(* Departures.                                                             *)

\* Mutant of Depart: not only once.
DepartAgain(c) ==
  /\ gone' = gone \cup {c}
  /\ active' = active - 1
  /\ peers' = peers \ {c}
  /\ departures' = [ departures EXCEPT ![c] = @ + 1 ]

\* Peer.depart, whoever calls it first.
Depart(c) ==
  IF c \in gone
    THEN UNCHANGED << gone, active, peers, departures >>
    ELSE /\ gone' = gone \cup {c}
         /\ active' = active - 1
         /\ peers' = peers \ {c}
         /\ departures' = [ departures EXCEPT ![c] = @ + 1 ]

\* Peer.Run returns: its transport is closed, from whichever side.
Hangup(c) ==
  /\ Running(c) /\ c \notin open
  /\ Enter(c, "over")
  /\ Depart(c)
  /\ UNCHANGED << now, open, ticket, redeemed, pending, books, sweep, admitted >>

\* The client, or the network, closes the transport.
Close(c) ==
  /\ c \in open
  /\ open' = open \ {c}
  /\ UNCHANGED << now, stage, ticket, redeemed, peers, pending, active, books, gone, sweep,
                  admitted, departures >>

-----------------------------------------------------------------------------
(* Peer.Run: one received message.                                         *)

\* Mutant of Tokens: the refill counts from the admission each time.
TokensSinceAdmission(c) ==
  LET cap == 4 * InputsPerTick
      level == bucket[c] + (now - admitted[c]) * InputsPerTick
  IN  IF level > cap THEN cap ELSE level

\* takeToken, before it takes one: the bucket refills at InputsPerTick a tick,
\* from the first input on.
Tokens(c) ==
  LET cap == 4 * InputsPerTick
      level == bucket[c] + (IF filled[c] = Never THEN 0
                                                 ELSE (now - filled[c]) * InputsPerTick)
  IN  IF level > cap THEN cap ELSE level

\* The escalation ends in a closed connection.
Abusive(n) == n >= AbuseThreshold

Violate(c) ==
  /\ violations' = [ violations EXCEPT ![c] = @ + 1 ]
  /\ open' = IF Abusive(violations'[c]) THEN open \ {c} ELSE open

Hear(c) ==
  /\ Running(c) /\ c \in open
  /\ heard' = [ heard EXCEPT ![c] = now ]
  /\ UNCHANGED << now, stage, ticket, redeemed, peers, pending, active, gone, sweep,
                  admitted, departures >>

\* A standalone ack, or a datagram overtaken by a newer one.
HearAck(c) ==
  /\ Hear(c)
  /\ UNCHANGED << open, bucket, filled, violations, accepted, late >>

\* Anything a spectator sends is a violation.
HearSpectator(c) ==
  /\ Hear(c)
  /\ ticket[c] \in Spectators
  /\ Violate(c)
  /\ UNCHANGED << bucket, filled, accepted, late >>

\* An input beyond the rate.
HearExcess(c) ==
  /\ Hear(c)
  /\ ticket[c] \notin Spectators /\ Tokens(c) < 1
  /\ bucket' = [ bucket EXCEPT ![c] = Tokens(c) ]
  /\ filled' = [ filled EXCEPT ![c] = now ]
  /\ Violate(c)
  /\ UNCHANGED << accepted, late >>

\* An input within the rate is submitted, unless it does not decode.
HearInput(c) ==
  /\ Hear(c)
  /\ ticket[c] \notin Spectators /\ Tokens(c) >= 1
  /\ bucket' = [ bucket EXCEPT ![c] = Tokens(c) - 1 ]
  /\ filled' = [ filled EXCEPT ![c] = now ]
  /\ \/ /\ accepted' = [ accepted EXCEPT ![c] = @ + 1 ]
        /\ late' = IF departures[c] > 0 THEN late \cup {c} ELSE late
        /\ UNCHANGED << open, violations >>
     \/ /\ Violate(c)
        /\ UNCHANGED << accepted, late >>

Receive(c) == HearAck(c) \/ HearSpectator(c) \/ HearExcess(c) \/ HearInput(c)

-----------------------------------------------------------------------------
(* Server.Broadcast, on the session's goroutine.                           *)

\* Mutant of Silent: the two times are swapped.
SilentSwapped(c) ==
  /\ SilenceDeadline > 0
  /\ heard[c] # Never
  /\ heard[c] - now > SilenceDeadline

\* Stats().LastReceived is set, and too long ago.
Silent(c) ==
  /\ SilenceDeadline > 0
  /\ heard[c] # Never
  /\ now - heard[c] > SilenceDeadline

Broadcast ==
  /\ sweep = {} /\ peers # {}
  /\ sweep' = peers
  /\ UNCHANGED << now, stage, open, ticket, redeemed, peers, pending, active, books, gone,
                  admitted, departures >>

\* The next peer of the snapshot gets its state and, silent, is declared lost.
Visit(c) ==
  /\ c \in sweep
  /\ sweep' = sweep \ {c}
  /\ IF c \notin gone /\ Silent(c)
       THEN Depart(c)
       ELSE UNCHANGED << gone, active, peers, departures >>
  /\ UNCHANGED << now, stage, open, ticket, redeemed, pending, books, admitted >>

Tick ==
  /\ now < MaxTime
  /\ now' = now + 1
  /\ UNCHANGED << stage, open, ticket, redeemed, peers, pending, active, books, gone,
                  sweep, admitted, departures >>

Admission(c) ==
  Reserve(c) \/ Refuse(c) \/ Accept(c) \/ Register(c) \/ RefuseSeat(c) \/ Settle(c)

Next ==
  \/ \E c \in Conn : Admission(c) \/ Receive(c) \/ Hangup(c) \/ Close(c) \/ Visit(c)
  \/ Broadcast \/ Tick

\* Admit goes on once the hello is there, Peer.Run returns once the transport
\* is closed, the session goes on broadcasting.
Fairness ==
  /\ \A c \in Conn : /\ WF_vars(Register(c) \/ RefuseSeat(c) \/ Settle(c))
                     /\ WF_vars(Hangup(c)) /\ WF_vars(Visit(c))
  /\ WF_vars(Broadcast)

Spec == Init /\ [][Next]_vars /\ Fairness

-----------------------------------------------------------------------------

\* Server.Admit, "a handshake in flight holds capacity, so a burst of half-open
\* connections cannot exceed the declared ceiling": peers and handshakes
\* together stay within it, however admissions and departures interleave.
CapacityHeld ==
  Cardinality(peers \cup { c \in Conn : Admitting(c) }) <= MaxConnections

\* Verifier.Verify redeems a jti once: of any number of connections presenting
\* the same ticket at the same time, one is admitted.
TicketOnce ==
  \A c, d \in Conn : ticket[c] = ticket[d] /\ ticket[c] # NoTicket => c = d

\* Peer.depart reports a loss exactly once, whether the sweep or the closing
\* transport comes first; what the server lists, what the metric counts and
\* what the game was told always agree.
BooksAgree ==
  /\ \A c \in Conn : departures[c] = IF c \in gone THEN 1 ELSE 0
  /\ peers = Registered \ gone
  /\ active = Cardinality({ c \in Registered \ gone : ~Admitting(c) })

\* Peer.takeToken enforces the declared rate: over its whole life a connection
\* has no more inputs accepted than InputsPerTick for each tick begun.
InputRate ==
  \A c \in Registered : accepted[c] <= InputsPerTick * (1 + now - admitted[c])

\* Heard once, and not since the deadline.
Overdue(c) == SilenceDeadline > 0 /\ heard[c] \in 0 .. now - SilenceDeadline - 1

\* Agent departure policy, "silence deadline of api:sequence-ack-layer, or
\* transport close": a peer whose transport closes is reported, and so is one
\* that was heard and then stays silent (one never heard has no LastReceived,
\* and is not swept).
LossIsReported ==
  \A c \in Conn : /\ Running(c) /\ c \notin open ~> c \in gone
                 /\ Running(c) /\ Overdue(c) ~> c \in gone \/ ~Overdue(c)

\* peer.go:135, "depart declares the connection lost exactly once and hands the
\* seat to the game's departure policy": from then on nothing from that
\* connection reaches the seat, which may be another agent's by now.
SeatHandedOver == late = {}
=============================================================================
