------------------------------ MODULE SpinLock ------------------------------
(***************************************************************************)
(* The spin lock of src/kernel/x86/SpinLock.cpp, one action per memory     *)
(* access that another CPU can observe, under sequential consistency.      *)
(*                                                                         *)
(* The lock is owned by a CPU and not by a thread: Lock and Try first look *)
(* whether currCPU is the caller's id, under the guard byte tmplock, and   *)
(* only then contend for the byte lock.  Each CPU runs one client, which   *)
(* calls Lock or Try, possibly nested up to MaxDepth times, and Unlock as  *)
(* often as it acquired.  Interrupt handlers that lock what the code they  *)
(* interrupted is locking are not part of this module.                     *)
(***************************************************************************)
EXTENDS Integers, FiniteSets

CONSTANTS CPU,        \* the CPUs that share the lock
          NoCPU,      \* UNLOCKED_NUM, the id of no CPU
          MaxDepth,   \* bound: how deeply a CPU nests its acquisitions
          BasicMode   \* the constructor's _BasicMode: a plain test-and-set lock

ASSUME NoCPUAssumption == NoCPU \notin CPU
ASSUME MaxDepthAssumption == MaxDepth \in Nat \ {0}
\* A lock in basic mode is not reentrant: its clients must not nest.
ASSUME BasicModeAssumption == BasicMode \in BOOLEAN /\ (BasicMode => MaxDepth = 1)

VARIABLES tmplock,  \* the guard byte of the owner test: TRUE for 1
          lock,     \* the lock byte: TRUE for 1
          currCPU,  \* the CPU recorded as the owner, or NoCPU
          depth,    \* the recorded nesting depth
          pc,       \* [CPU -> Label], what each CPU does next
          call,     \* [CPU -> {"Lock", "Try"}], the acquisition in progress
          held      \* [CPU -> Nat], acquisitions its client has not given back

lockVars == <<tmplock, lock, currCPU, depth, pc, call, held>>

Label == {"client", "guard", "compare", "deepen", "unguardOwner", "unguard",
          "contend", "own", "count", "test", "disown", "free"}

LockInit ==
  /\ tmplock = FALSE
  /\ lock = FALSE
  /\ currCPU = NoCPU
  /\ depth = 0
  /\ pc = [c \in CPU |-> "client"]
  /\ call = [c \in CPU |-> "Lock"]
  /\ held = [c \in CPU |-> 0]

Goto(c, from, to) == pc[c] = from /\ pc' = [pc EXCEPT ![c] = to]

-----------------------------------------------------------------------------
(* Faulty variants of some actions below.  They are no part of the         *)
(* specification: PROJECT.json names the property that notices each one.   *)

\* The nested return path forgets tmplock, which stays set.
ReenterLeavesGuard(c) ==
  /\ Goto(c, "unguardOwner", "client")
  /\ held' = [held EXCEPT ![c] = held[c] + 1]
  /\ UNCHANGED <<tmplock, lock, currCPU, depth, call>>

\* Try ignores the value its xchg returned.
TryIgnoresResult(c) ==
  /\ call[c] = "Try"
  /\ lock
  /\ Goto(c, "contend", "own")
  /\ UNCHANGED <<tmplock, lock, currCPU, depth, call, held>>

\* Unlock releases without looking at the depth.
TestIgnoresDepth(c) ==
  /\ Goto(c, "test", "disown")
  /\ UNCHANGED <<tmplock, lock, currCPU, depth, call, held>>

\* Unlock leaves its id behind.
DisownForgotten(c) ==
  /\ Goto(c, "disown", "free")
  /\ UNCHANGED <<tmplock, lock, currCPU, depth, call, held>>

-----------------------------------------------------------------------------
(* Lock and Try.  They differ only in what they do when the lock byte is   *)
(* taken: Lock spins, Try gives up.                                        *)

Begin(c, op) ==
  /\ held[c] < MaxDepth
  /\ Goto(c, "client", IF BasicMode THEN "contend" ELSE "guard")
  /\ call' = [call EXCEPT ![c] = op]
  /\ UNCHANGED <<tmplock, lock, currCPU, depth, held>>

AcquireGuard(c) ==                        \* BASIC_LOCK(tmplock)
  /\ ~tmplock
  /\ tmplock' = TRUE
  /\ Goto(c, "guard", "compare")
  /\ UNCHANGED <<lock, currCPU, depth, call, held>>

CompareOwner(c) ==                        \* if (currCPU == id)
  /\ Goto(c, "compare", IF currCPU = c THEN "deepen" ELSE "unguard")
  /\ UNCHANGED <<tmplock, lock, currCPU, depth, call, held>>

Deepen(c) ==                              \* depth++ by the owner
  /\ depth' = depth + 1
  /\ Goto(c, "deepen", "unguardOwner")
  /\ UNCHANGED <<tmplock, lock, currCPU, call, held>>

ReenterAndReturn(c) ==                    \* BASIC_UNLOCK(tmplock); return
  /\ tmplock' = FALSE
  /\ Goto(c, "unguardOwner", "client")
  /\ held' = [held EXCEPT ![c] = held[c] + 1]
  /\ UNCHANGED <<lock, currCPU, depth, call>>

ReleaseGuard(c) ==                        \* BASIC_UNLOCK(tmplock)
  /\ tmplock' = FALSE
  /\ Goto(c, "unguard", "contend")
  /\ UNCHANGED <<lock, currCPU, depth, call, held>>

\* The xchg that finds the lock byte clear.  In basic mode the call returns.
TakeLock(c) ==
  /\ ~lock
  /\ lock' = TRUE
  /\ Goto(c, "contend", IF BasicMode THEN "client" ELSE "own")
  /\ held' = IF BasicMode THEN [held EXCEPT ![c] = held[c] + 1] ELSE held
  /\ UNCHANGED <<tmplock, currCPU, depth, call>>

\* The xchg of Try that finds it set (BASIC_TRY, res false).
TryFails(c) ==
  /\ call[c] = "Try"
  /\ lock
  /\ Goto(c, "contend", "client")
  /\ UNCHANGED <<tmplock, lock, currCPU, depth, call, held>>

RecordOwner(c) ==                         \* currCPU = id
  /\ currCPU' = c
  /\ Goto(c, "own", "count")
  /\ UNCHANGED <<tmplock, lock, depth, call, held>>

CountAndReturn(c) ==                      \* depth++; return
  /\ depth' = depth + 1
  /\ Goto(c, "count", "client")
  /\ held' = [held EXCEPT ![c] = held[c] + 1]
  /\ UNCHANGED <<tmplock, lock, currCPU, call>>

-----------------------------------------------------------------------------
(* Unlock.  The client leaves its critical section when it makes the call. *)

BeginUnlock(c) ==                         \* depth--, unless in basic mode
  /\ held[c] > 0
  /\ held' = [held EXCEPT ![c] = held[c] - 1]
  /\ Goto(c, "client", IF BasicMode THEN "free" ELSE "test")
  /\ depth' = IF BasicMode THEN depth ELSE depth - 1
  /\ UNCHANGED <<tmplock, lock, currCPU, call>>

TestDepth(c) ==                           \* if (depth == 0)
  /\ Goto(c, "test", IF depth = 0 THEN "disown" ELSE "client")
  /\ UNCHANGED <<tmplock, lock, currCPU, depth, call, held>>

Disown(c) ==                              \* currCPU = UNLOCKED_NUM
  /\ currCPU' = NoCPU
  /\ Goto(c, "disown", "free")
  /\ UNCHANGED <<tmplock, lock, depth, call, held>>

FreeLock(c) ==                            \* BASIC_UNLOCK(lock)
  /\ lock' = FALSE
  /\ Goto(c, "free", "client")
  /\ UNCHANGED <<tmplock, currCPU, depth, call, held>>

-----------------------------------------------------------------------------
\* The steps a CPU takes inside a call.
Step(c) ==
  \/ AcquireGuard(c) \/ CompareOwner(c) \/ Deepen(c) \/ ReenterAndReturn(c)
  \/ ReleaseGuard(c) \/ TakeLock(c) \/ TryFails(c) \/ RecordOwner(c)
  \/ CountAndReturn(c) \/ TestDepth(c) \/ Disown(c) \/ FreeLock(c)

LockNext ==
  \E c \in CPU : Begin(c, "Lock") \/ Begin(c, "Try") \/ BeginUnlock(c) \/ Step(c)

LockSpec == LockInit /\ [][LockNext]_lockVars

(* A CPU keeps executing the instructions of a call it has made, and a     *)
(* critical section ends.  A client need not call again.  Weak fairness    *)
(* says nothing about which of several contenders an xchg serves.          *)
LockFairness == \A c \in CPU : WF_lockVars(Step(c)) /\ WF_lockVars(BeginUnlock(c))

FairLockSpec == LockSpec /\ LockFairness

-----------------------------------------------------------------------------
\* Types, and where each CPU stands.
LockTypeOK ==
  /\ tmplock \in BOOLEAN
  /\ lock \in BOOLEAN
  /\ currCPU \in CPU \cup {NoCPU}
  /\ depth \in Int
  /\ pc \in [CPU -> Label]
  /\ call \in [CPU -> {"Lock", "Try"}]
  /\ held \in [CPU -> Nat]

Acquiring(c) ==
  pc[c] \in {"guard", "compare", "deepen", "unguardOwner", "unguard",
             "contend", "own", "count"}

\* Two CPUs are never both between an acquisition and its release, in
\* whatever order they ran Lock, Try and Unlock (SpinLock.cpp 28-92).
MutualExclusion ==
  \A c, d \in CPU : held[c] > 0 /\ held[d] > 0 => c = d

\* While a client is in its critical section the lock records it as the
\* owner, at the depth the client has nested: the count that Unlock tests
\* cannot release the lock early, nor keep it when the client has left.
DepthIsNesting ==
  ~BasicMode => \A c \in CPU : held[c] > 0 /\ pc[c] = "client" =>
                     lock /\ currCPU = c /\ depth = held[c]

\* A clear lock byte goes with no recorded owner and depth 0: the next CPU
\* to win the byte starts counting from nothing, and no CPU that lost it
\* can still pass the owner test.
FreeIsClean == ~lock => currCPU = NoCPU /\ depth = 0

(* Why the lock is safe: the inductive invariant of SpinLockProofs.  A CPU  *)
(* has the lock byte from the xchg that won it to the store that clears it. *)
HasByte(c) == held[c] > 0 \/ pc[c] \in {"own", "count", "test", "disown", "free"}

OneByte ==
  /\ \A c \in CPU : HasByte(c) => lock
  /\ \A c, d \in CPU : HasByte(c) /\ HasByte(d) => c = d

NestingBounded ==
  \A c \in CPU : held[c] <= MaxDepth /\ (Acquiring(c) => held[c] < MaxDepth)

OwnerIsRecorded ==
  IF BasicMode
  THEN /\ currCPU = NoCPU
       /\ \A c \in CPU : /\ pc[c] \in {"client", "contend", "free"}
                         /\ pc[c] = "free" => held[c] = 0
  ELSE \A c \in CPU :
         /\ currCPU = c <=> HasByte(c) /\ pc[c] \notin {"own", "free"}
         /\ pc[c] \in {"deepen", "unguardOwner"} => held[c] > 0
         /\ pc[c] \in {"unguard", "contend", "own", "count", "disown", "free"}
              => held[c] = 0

DepthIsCounted ==
  /\ ~lock => depth = 0
  /\ BasicMode => depth = 0
  /\ ~BasicMode =>
       \A c \in CPU : HasByte(c) =>
         depth = held[c] + (IF pc[c] = "unguardOwner" THEN 1 ELSE 0)

\* Only a CPU with the lock byte is recorded as the owner, and the recorded
\* depth is its nesting at every instruction of Lock, Try and Unlock.
LockInvariant == OneByte /\ NestingBounded /\ OwnerIsRecorded /\ DepthIsCounted

\* If some CPU is waiting in Lock, then some CPU gets the lock: contenders
\* may overtake each other for ever, but they never block each other all.
LockProgress ==
  (\E c \in CPU : Acquiring(c) /\ call[c] = "Lock") ~> (\E c \in CPU : held[c] > 0)

\* The lock implements the reentrant lock its callers rely on.
Holder == IF \E c \in CPU : held[c] > 0
          THEN CHOOSE c \in CPU : held[c] > 0
          ELSE NoCPU

Abs == INSTANCE ReentrantLock
         WITH owner <- Holder,
              level <- IF Holder = NoCPU THEN 0 ELSE held[Holder]

ImplementsReentrantLock == Abs!AbsSpec
=============================================================================
