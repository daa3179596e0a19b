----------------------------- MODULE Scheduling -----------------------------
(***************************************************************************)
(* The kernel's threads from boot on: bspmain (Main.cpp) sets up the first *)
(* thread with the clock already ticking; from then on the running thread  *)
(* creates children, blocks on and wakes waitable objects, and every tick  *)
(* may switch threads.  What a thread computes is left out; which system   *)
(* call it makes next is a free choice.                                    *)
(*                                                                         *)
(* One action is one stretch of code that nothing interrupts: a system     *)
(* call runs with interrupts off (SystemCallEntry.cpp 22) until it returns *)
(* or WaitableObj::Wait switches away, and a clock handler is taken to end *)
(* before the next tick.                                                   *)
(***************************************************************************)
EXTENDS Threads

CONSTANTS First,      \* the thread bspmain creates
          MaxThread   \* MAX_THREAD, the stacks a family of threads shares

ASSUME FirstAssumption == First \in Thread
ASSUME MaxThreadAssumption == MaxThread \in Nat

VARIABLES k,       \* the kernel record of Threads
          boot,    \* the statement bspmain executes next
          stacks,  \* how many entries of the family's childBitMap are set
          frame    \* [Thread -> <<object, prev>>], a thread inside Wait or Sleep

vars == <<k, boot, stacks, frame>>

Init ==
  /\ k = InitialKernel
  /\ boot = "StartService"
  /\ stacks = 0
  /\ frame = [t \in Thread |-> None]

-----------------------------------------------------------------------------
(* bspmain.  It is no thread: once a tick has dispatched one, nothing      *)
(* switches back and the rest of bspmain never runs.                       *)

BspMain(from, to) == k.curr = None /\ boot = from /\ boot' = to

StartService ==
  /\ BspMain("StartService", "CreateThread")
  /\ k' = [k EXCEPT !.serving = TRUE]
  /\ UNCHANGED <<stacks, frame>>

CreateFirst ==
  /\ BspMain("CreateThread", "ToReady")
  /\ k' = Enter(k, First, "UNINTERRUPTABLE")
  /\ UNCHANGED <<stacks, frame>>

FirstToReady ==
  /\ BspMain("ToReady", "SetIdleThread")
  /\ k' = ToReady(k, First)
  /\ UNCHANGED <<stacks, frame>>

SetIdleThread ==
  /\ BspMain("SetIdleThread", "done")
  /\ k' = [k EXCEPT !.idle = First]
  /\ UNCHANGED <<stacks, frame>>

-----------------------------------------------------------------------------
\* A tick, unless the running thread is inside a system call.
Tick ==
  /\ k.curr # None => frame[k.curr] = None
  /\ k' = ClockHandler(k)
  /\ UNCHANGED <<boot, stacks, frame>>

\* The thread that runs makes system calls, unless it is inside one.
InUserCode(t) == k.curr = t /\ frame[t] = None

\* Faulty variant: the search for a free stack runs one entry too far.
CreateThreadOffByOne(t, u) ==
  /\ InUserCode(t)
  /\ k.state[u] = "UNCREATED"
  /\ IF stacks <= MaxThread
     THEN /\ k' = ToReady(Enter(k, u, "UNINTERRUPTABLE"), u)
          /\ stacks' = stacks + 1
     ELSE /\ k' = Enter(k, u, "ZOMBIE")
          /\ UNCHANGED stacks
  /\ UNCHANGED <<boot, frame>>

\* A child gets the next free stack of the family; without one it is a zombie.
CreateThread(t, u) ==
  /\ InUserCode(t)
  /\ k.state[u] = "UNCREATED"
  /\ IF stacks < MaxThread
     THEN /\ k' = ToReady(Enter(k, u, "UNINTERRUPTABLE"), u)
          /\ stacks' = stacks + 1
     ELSE /\ k' = Enter(k, u, "ZOMBIE")
          /\ UNCHANGED stacks
  /\ UNCHANGED <<boot, frame>>

Wait(t, o) ==
  /\ InUserCode(t)
  /\ k' = WaitOn(k, o)
  /\ frame' = [frame EXCEPT ![t] = <<o, k.wait[o]>>]
  /\ UNCHANGED <<boot, stacks>>

Sleep(t, o) ==
  /\ InUserCode(t)
  /\ k' = SleepOn(k, o)
  /\ frame' = [frame EXCEPT ![t] = <<o, k.wait[o]>>]
  /\ UNCHANGED <<boot, stacks>>

\* The rest of Wait or Sleep, once the thread is dispatched again.
Return(t) ==
  /\ k.curr = t
  /\ frame[t] # None
  /\ k' = WaitReturn(k, frame[t][1], frame[t][2])
  /\ frame' = [frame EXCEPT ![t] = None]
  /\ UNCHANGED <<boot, stacks>>

WakeUp(t, o) ==
  /\ InUserCode(t)
  /\ k' = Wake(k, o)
  /\ UNCHANGED <<boot, stacks, frame>>

Next ==
  \/ StartService \/ CreateFirst \/ FirstToReady \/ SetIdleThread
  \/ Tick
  \/ \E t \in Thread :
       \/ Return(t)
       \/ \E u \in Thread : CreateThread(t, u)
       \/ \E o \in Obj : Wait(t, o) \/ Sleep(t, o) \/ WakeUp(t, o)

Spec == Init /\ [][Next]_vars

(* The clock keeps ticking, and code with interrupts off runs to its end.  *)
(* Which system calls a thread makes, and whether it makes any, is open.   *)
Fairness == WF_vars(Tick) /\ \A t \in Thread : WF_vars(Return(t))

FairSpec == Spec /\ Fairness

-----------------------------------------------------------------------------
TypeOK ==
  /\ k \in Kernel
  /\ boot \in {"StartService", "CreateThread", "ToReady", "SetIdleThread", "done"}
  /\ stacks \in 0 .. MaxThread
  /\ frame \in [Thread -> {None} \cup (Obj \X (Thread \cup {None}))]

\* The lists and the states agree, whatever ticks, children, waits, stale
\* wakes and idle runs did (SchedulerDefault.cpp 12-38, ThreadState.cpp).
QueuesAreExact == QueuesMatchStates(k)

\* No thread but the current one is RUNNING: a thread that is switched away
\* from is READY or blocked (CPUx86.cpp 71-75).
OnlyCurrentRuns == \A t \in Thread : k.state[t] = "RUNNING" => k.curr = t

\* A thread that blocks keeps the CPU, in its call and in its own code, only while
\* there is nobody else to give it to: no idle thread, which is so for ever if a
\* tick dispatches the first thread before bspmain names it, and no READY one when
\* it blocks.  Its slice is over, so the next tick gives the CPU to any thread made
\* ready since.  A zombie never has the CPU (CPUx86.cpp 33-85, WaitableObj.cpp
\* 12-37, x86/Thread.cpp 43-62).
CurrentIsNotBlocked ==
  k.curr # None /\ k.state[k.curr] \notin {"RUNNING", "READY"} =>
    /\ k.state[k.curr] \in {"INTERRUPTABLE", "UNINTERRUPTABLE"}
    /\ k.idle = None /\ k.budget = -1
    /\ frame[k.curr] # None => ReadyThreads(k) = {}

\* A switch is to a thread of the highest level that has a READY one, and to
\* the idle thread only if there is none (SchedulerDefault.cpp 40-54).
SwitchesToHighest ==
  [][k.curr' # k.curr =>
       \A t \in Thread \ {k.curr} :
         k.state[t] = "READY" => LevelOf(k'.curr) >= LevelOf(t)]_vars

\* Nobody starves on the highest level: a READY thread of it gets the CPU, in
\* its turn, whatever the lower levels hold and although every switch forgets
\* how long a thread has waited (CPUx86.cpp 33-85, SchedulerDefault.cpp 12-54).
ReadyGetsCPU ==
  \A t \in Thread :
    (\A u \in Thread : LevelOf(u) <= LevelOf(t))
      => (k.state[t] = "READY" ~> k.curr = t)
=============================================================================
