SPECIFICATION Spec
CONSTANTS
  Word = 256
  PageSize = 4
  MinMemory = 44
  InitStart = 4
  KernelEnd = 20
  HeadSize = 2
  ModuleSize = 1
  Maps <- MCMaps
  Modules <- MCModules
  Thread = {t1, t2}
  PerTable = 8
  StackPages = 2
  UserPages <- MCUserPages
  Touched <- MCTouched
  Stale <- MCStale
INVARIANTS ZonesAreDisjoint ModulesAreIntact KernelIsIdentity
  UserFramesArePrivate CopyFollowsPages DeleteFindsOwner
CHECK_DEADLOCK FALSE
SYMMETRY MCSymmetry
