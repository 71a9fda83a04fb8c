------------------------------- MODULE Roster -------------------------------
(***************************************************************************)
(* The seats of one match (run/roster.go).  A roster is a function from    *)
(* the slots to who holds them; every operator here is one critical        *)
(* section of the roster's lock.  Nothing empties a seat: Leave is called  *)
(* only when a ticket cannot be signed, which no claim of the host causes. *)
(***************************************************************************)
EXTENDS Integers

CONSTANT Slots  \* the declared slots

ASSUME SlotsAssumption == Slots \subseteq Nat \ {0} /\ Slots # {}

Empty == "empty"
Player == "player"  \* a person at this machine
Bot == "bot"

NewRoster == [ s \in Slots |-> Empty ]

Filled(r, s) == r[s] # Empty

Free(r) == { s \in Slots : ~Filled(r, s) }

Complete(r) == Free(r) = {}

Lowest(S) == CHOOSE s \in S : \A u \in S : s <= u

\* Sit: the check and the claim are one critical section; a seat that somebody
\* holds is refused with ErrSeatTaken.
Sits(r, s) == ~Filled(r, s)
AfterSit(r, s, who) == IF Sits(r, s) THEN [ r EXCEPT ![s] = who ] ELSE r

\* A person at this machine holds a seat.
Hosted(r) == \E s \in Slots : r[s] = Player
=============================================================================
