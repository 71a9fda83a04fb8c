CONSTANTS
  Slots = {1, 2}
  Guests = {g1}
  MaxRoom = 1
SPECIFICATION Spec
CHECK_DEADLOCK FALSE
INVARIANT NoneLeftParked
