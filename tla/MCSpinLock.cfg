\* Three CPUs, nested twice: a holder, a CPU that wins the byte it leaves, and
\* a third that overtakes or loses in between.
SPECIFICATION FairLockSpec
CONSTANTS
  CPU = {c1, c2, c3}
  NoCPU = NoCPU
  MaxDepth = 2
  BasicMode = FALSE
INVARIANTS MutualExclusion DepthIsNesting
PROPERTIES ImplementsReentrantLock LockProgress
