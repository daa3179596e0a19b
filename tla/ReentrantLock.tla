--------------------------- MODULE ReentrantLock ---------------------------
(***************************************************************************)
(* What a FreeCROS SpinLock promises to the code that calls it: a lock     *)
(* owned by at most one CPU, which may take it again (up to MaxDepth times *)
(* here) and which gives it up when it has released it as often as it took *)
(* it.  SpinLock.tla is shown to implement this specification.             *)
(***************************************************************************)
EXTENDS Integers

CONSTANTS CPU,       \* the CPUs that share the lock
          NoCPU,     \* the owner of a free lock
          MaxDepth   \* how deeply one CPU nests its acquisitions

VARIABLES owner,     \* the CPU inside its critical section, or NoCPU
          level      \* how often the owner has acquired and not yet released

absVars == <<owner, level>>

AbsInit == owner = NoCPU /\ level = 0

Acquire(c) ==
  /\ owner \in {NoCPU, c}
  /\ level < MaxDepth
  /\ owner' = c
  /\ level' = level + 1

Release(c) ==
  /\ owner = c
  /\ level > 0
  /\ level' = level - 1
  /\ owner' = IF level = 1 THEN NoCPU ELSE c

AbsNext == \E c \in CPU : Acquire(c) \/ Release(c)

AbsSpec == AbsInit /\ [][AbsNext]_absVars
=============================================================================
