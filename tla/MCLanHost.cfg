\* Two guests, three slots, two matches.
CONSTANTS
  Slots = {1, 2, 3}
  Guests = {g1, g2}
  MaxRoom = 2
SPECIFICATION Spec
CHECK_DEADLOCK FALSE
INVARIANTS
  GrantIsHeld
  GuestsPlay
  ClosedHoldsNothing
PROPERTY LinksEnd
