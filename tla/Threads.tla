------------------------------ MODULE Threads ------------------------------
(***************************************************************************)
(* The thread layer of the FreeCROS kernel on its one CPU, as functions of *)
(* a kernel record: the states of a thread (ThreadState.cpp), the default  *)
(* scheduler (SchedulerDefault.cpp), the CPU's dispatcher (CPUx86.cpp) and *)
(* the objects threads block on (WaitableObj.cpp).  Scheduling and IPC     *)
(* build their actions from these operators: a system call that changes a  *)
(* thread's state, exhausts its slice and dispatches is a composition of   *)
(* them.  A kernel record k has the fields                                 *)
(*                                                                         *)
(*   state    [Thread -> State]          Thread::state                     *)
(*   ready    [Level -> Seq(Thread)]     SchedulerDefault::lists           *)
(*   curr     Thread or None             CPUx86::currThread                *)
(*   idle     Thread or None             CPUx86::idleThread                *)
(*   serving  BOOLEAN                    CPUx86::allDone                   *)
(*   budget   endCounter minus the clock, any overrun being -1             *)
(*   wait     [Obj -> Thread or None]    WaitableObj::wait                 *)
(***************************************************************************)
EXTENDS Integers, Sequences, FiniteSetsExt, SequencesExt

CONSTANTS Thread,    \* the threads, created ones and ones yet to be created
          None,      \* nullptr
          Obj,       \* the waitable objects
          Priority,  \* [Thread -> Int], Thread::priority
          MaxListSize, \* MAX_LIST_SIZE, the number of the scheduler's lists
          Period,    \* microseconds between two ticks of the clock
          Slice      \* Thread::cpuCounter, the microseconds of a time slice

ASSUME NoneAssumption == None \notin Thread
ASSUME PriorityAssumption == Priority \in [Thread -> Int]
ASSUME ListsAssumption == MaxListSize \in 1 .. 100
ASSUME TimeAssumption == Period \in Nat \ {0} /\ Slice \in Nat

Level == 0 .. (MaxListSize - 1)

State == {"RUNNING", "READY", "INTERRUPTABLE", "UNINTERRUPTABLE", "ZOMBIE",
          "UNCREATED"}  \* the last one is the model's, for threads yet to come

-----------------------------------------------------------------------------
(* SchedulerDefault *)

\* An empty list of threads per level, nothing created, the CPU not serving.
\* The constructor of CPUx86 gives currThread no value (CPUx86.h 36). The model
\* starts it as nullptr, what it is if its heap memory was never written: the
\* first switch saves the registers of any other value as those of a thread.
InitialKernel ==
  [state |-> [t \in Thread |-> "UNCREATED"], ready |-> [l \in Level |-> <<>>],
   curr |-> None, idle |-> None, serving |-> FALSE, budget |-> 0,
   wait |-> [o \in Obj |-> None]]

\* C's division rounds towards zero and TLA+'s down, but every negative
\* quotient ends in the list 0 with both.
LevelOf(t) ==
  LET l == Priority[t] \div (100 \div MaxListSize)
  IN  IF l >= MaxListSize THEN MaxListSize - 1 ELSE IF l < 0 THEN 0 ELSE l

\* Faulty variant: the thread goes to the front of its list.
ThreadAddedAtFront(lists, t) == [lists EXCEPT ![LevelOf(t)] = <<t>> \o @]

ThreadAdded(lists, t) == [lists EXCEPT ![LevelOf(t)] = Append(@, t)]

\* The first occurrence in the first list that holds the thread, if any does.
ThreadRemoved(lists, t) ==
  [l \in Level |-> IF \E m \in 0 .. (l - 1) : Contains(lists[m], t)
                   THEN lists[l]
                   ELSE RemoveFirst(lists[l], t)]

\* Faulty variant: the lists are searched from the lowest level.
NextThreadFromLowest(lists) ==
  LET waiting == {l \in Level : lists[l] # <<>>}
  IN  IF waiting = {} THEN None ELSE Head(lists[Min(waiting)])

\* The head of the highest list that is not empty.  It stays in its list.
NextThread(lists) ==
  LET waiting == {l \in Level : lists[l] # <<>>}
  IN  IF waiting = {} THEN None ELSE Head(lists[Max(waiting)])

-----------------------------------------------------------------------------
(* ThreadState: a transition the state does not define returns false and   *)
(* changes nothing.                                                        *)

Enter(k, t, s) == [k EXCEPT !.state[t] = s]

Enqueue(k, t) == [k EXCEPT !.state[t] = "READY", !.ready = ThreadAdded(@, t)]

Dequeue(k, t, s) == [k EXCEPT !.state[t] = s, !.ready = ThreadRemoved(@, t)]

\* Faulty variant: a READY thread is queued once more.
ToReadyTwice(k, t) ==
  IF k.state[t] \in {"READY", "RUNNING", "INTERRUPTABLE", "UNINTERRUPTABLE"}
  THEN Enqueue(k, t)
  ELSE k

ToReady(k, t) ==
  IF k.state[t] \in {"RUNNING", "INTERRUPTABLE", "UNINTERRUPTABLE"}
  THEN Enqueue(k, t)
  ELSE k

ToRun(k, t) == IF k.state[t] = "READY" THEN Dequeue(k, t, "RUNNING") ELSE k

ToPause(k, t) ==
  CASE k.state[t] = "READY" -> Dequeue(k, t, "INTERRUPTABLE")
    [] k.state[t] = "RUNNING" -> Enter(k, t, "INTERRUPTABLE")
    [] OTHER -> k

ToIOBlocked(k, t) ==
  IF k.state[t] = "RUNNING" THEN Enter(k, t, "UNINTERRUPTABLE") ELSE k

-----------------------------------------------------------------------------
(* CPUx86 *)

\* Faulty variant: a thread that blocks keeps its slice.
ExhaustForgotten(k) == k

ExhaustCurrThread(k) == [k EXCEPT !.budget = -1]

\* Faulty variant: the thread that is switched away from stays RUNNING.
SwitchWithoutYield(k, new) == [ToRun(k, new) EXCEPT !.curr = new, !.budget = Slice]

\* The switch itself: the thread that still runs goes to the back of its list.
Switch(k, new) ==
  LET yielded == IF k.curr # None /\ k.state[k.curr] = "RUNNING"
                 THEN ToReady(k, k.curr) ELSE k
  IN  [ToRun(yielded, new) EXCEPT !.curr = new, !.budget = Slice]

\* GetNextThreadToExecute already makes the next thread RUNNING.  Without one
\* the idle thread is made ready; choosing the current thread switches nothing.
Run(k) ==
  LET next  == NextThread(k.ready)
      new   == IF next # None THEN next ELSE k.idle
      ready == IF next # None THEN ToRun(k, next) ELSE ToReady(k, new)
  IN  IF ~k.serving \/ k.budget >= 0 \/ new = None THEN k
      ELSE IF new = k.curr THEN ready
      ELSE Switch(ready, new)

\* Clock::ClockHandler on the BSP: the clock advances, then the CPU runs.
ClockHandler(k) ==
  LET left == k.budget - Period
  IN  Run([k EXCEPT !.budget = IF left < 0 THEN -1 ELSE left])

-----------------------------------------------------------------------------
(* WaitableObj.  Its spin lock never makes the one CPU wait, because the   *)
(* system calls that use it run with interrupts off.  Wait and Sleep stop  *)
(* in the middle, when Run switches to another thread; prev lives on the   *)
(* blocked thread's stack until WaitReturn.                                *)

WaitOn(k, o) ==
  LET blocked == ToPause([k EXCEPT !.wait[o] = k.curr], k.curr)
  IN  Run(ExhaustCurrThread(blocked))

SleepOn(k, o) ==
  LET blocked == ToIOBlocked([k EXCEPT !.wait[o] = k.curr], k.curr)
  IN  Run(ExhaustCurrThread(blocked))

WaitReturn(k, o, prev) ==
  LET popped == [k EXCEPT !.wait[o] = prev]
  IN  IF prev # None THEN ToReady(popped, prev) ELSE popped

Wake(k, o) == IF k.wait[o] # None THEN ToReady(k, k.wait[o]) ELSE k

-----------------------------------------------------------------------------
(* What every sequence of these operators keeps. *)

Kernel ==
  [state : [Thread -> State], ready : [Level -> Seq(Thread)],
   curr : Thread \cup {None}, idle : Thread \cup {None}, serving : BOOLEAN,
   budget : -1 .. Slice, wait : [Obj -> Thread \cup {None}]]

ReadyThreads(k) == {t \in Thread : k.state[t] = "READY"}

\* Each of the threads is once in the list of its level, no other is in any.
ListsHoldExactly(lists, threads) ==
  /\ \A l \in Level : IsInjective(lists[l])
  /\ \A l \in Level : \A t \in Thread :
       Contains(lists[l], t) <=> t \in threads /\ LevelOf(t) = l

\* The scheduler's lists hold exactly the READY threads, each once and in the
\* list of its level: no thread is dispatched that should not run, none that
\* should run is forgotten, and none is queued twice.
QueuesMatchStates(k) == ListsHoldExactly(k.ready, ReadyThreads(k))
=============================================================================
