\* Eleven units: the largest block has eight, and the last three are not usable.
SPECIFICATION Spec
CONSTANTS
  Start = 5
  Units = 11
  Request = {1, 2, 3}
  Align = {0, 1}
  Reservable <- Halves
INVARIANTS UnitsCoveredOnce FreeRegionIsAllocatable GrantsAreBlocks
PROPERTY ImplementsHeap
