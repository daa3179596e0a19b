\* The zone holds up to seven blocks, so that blocks are given back between used
\* and free neighbours, and a reserved range has room on both sides.
SPECIFICATION CarefulSpec
CONSTANTS
  Start = 4
  Size = 26
  Header = 2
  Word = 64
  Request = {1, 2, 5}
  Align = {0}
  Reservable <- Two
INVARIANTS TilesZone Coalesced
PROPERTY ImplementsHeap
