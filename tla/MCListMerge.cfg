\* One reserved range, and blocks given back around it.
SPECIFICATION Spec
CONSTANTS
  Start = 4
  Size = 26
  Header = 2
  Word = 64
  Request = {1, 2, 5}
  Align = {0}
  Reservable <- Middle
INVARIANT ReservedIsKept
CHECK_DEADLOCK FALSE
