-------------------------- MODULE SchedulingProofs --------------------------
(***************************************************************************)
(* Proofs about Scheduling, for any threads, priorities, number of lists   *)
(* and time slice.  The invariants of the kernel record come from the      *)
(* lemmas of ThreadsProofs, one per operator; what Scheduling adds is the  *)
(* boot sequence, the stacks and the frames of blocked threads.  The last  *)
(* part is about the SpinLock.                                             *)
(***************************************************************************)
EXTENDS Scheduling, SpinLock, ThreadsProofs

\* Until bspmain creates the first thread there is nothing to dispatch.
NothingYet ==
  boot \in {"StartService", "CreateThread"} =>
    k.curr = None /\ k.idle = None /\ \A t \in Thread : k.state[t] = "UNCREATED"

Invariant == TypeOK /\ Good(k) /\ NothingYet

\* A tick that finds no READY and no idle thread only advances the clock.
LEMMA NothingToDispatch ==
  ASSUME NEW j, Good(j), j.idle = None, ReadyThreads(j) = {}
  PROVE  ClockHandler(j).curr = j.curr /\ ClockHandler(j).state = j.state
<1> DEFINE left == j.budget - Period
           b == IF left < 0 THEN -1 ELSE left
           d == [j EXCEPT !.budget = b]
<1>1. j \in Kernel /\ ListsHoldExactly(j.ready, {})
  BY DEF Good, Exact, QueuesMatchStates
<1>2. NextThread(j.ready) = None
  <2>1. \A l \in Level : \A t \in Thread : ~Contains(j.ready[l], t)
    BY <1>1 DEF ListsHoldExactly
  <2>2. j.ready \in [Level -> Seq(Thread)]
    BY <1>1 DEF Kernel
  <2> QED
    BY <2>1, <2>2, NextThreadProperties
<1>3. /\ d.ready = j.ready /\ d.idle = j.idle
      /\ d.curr = j.curr /\ d.state = j.state
  BY <1>1 DEF Kernel
<1>4. ClockHandler(j) = Run(d)
  BY DEF ClockHandler
<1> HIDE DEF d
<1>5. Run(d) = d
  BY <1>2, <1>3 DEF Run
<1> QED
  BY <1>3, <1>4, <1>5

\* Before boot creates a thread no list holds any.
LEMMA InitGood == ASSUME Init PROVE Invariant
<1>1. k \in Kernel
  <2>1. <<>> \in Seq(Thread)
    OBVIOUS
  <2>2. 0 \in -1 .. Slice
    BY TimeAssumption
  <2> QED
    BY <2>1, <2>2 DEF Init, InitialKernel, Kernel, State
<1>2. TypeOK
  BY <1>1, MaxThreadAssumption DEF Init, TypeOK
<1>3. ListsHoldExactly(k.ready, {})
  <2>1. \A l \in Level : k.ready[l] = <<>>
    BY DEF Init, InitialKernel
  <2>2. IsInjective(<<>>) /\ \A t : ~Contains(<<>>, t)
    BY DEF IsInjective, Contains
  <2> QED
    BY <2>1, <2>2 DEF ListsHoldExactly
<1>4. /\ \A t \in Thread : k.state[t] = "UNCREATED"
      /\ k.curr = None /\ k.idle = None
  BY DEF Init, InitialKernel
<1>5. ReadyThreads(k) = {}
  BY <1>4 DEF ReadyThreads
<1>6. Good(k)
  BY <1>1, <1>3, <1>4, <1>5 DEF Good, Exact, OneRuns, QueuesMatchStates
<1>7. NothingYet
  BY <1>4 DEF NothingYet
<1> QED
  BY <1>2, <1>6, <1>7 DEF Invariant

-----------------------------------------------------------------------------
(* One lemma per action *)

\* Serving threads and having an idle thread change no state and no list.
LEMMA FlagsKeep ==
  ASSUME NEW j, Good(j), NEW d \in Kernel,
         d.state = j.state, d.ready = j.ready, d.curr = j.curr
  PROVE  Good(d)
  BY DEF Good, Exact, OneRuns, QueuesMatchStates, ReadyThreads

\* Creating a thread that does not exist yet changes its state only.
LEMMA EnteringKeeps ==
  ASSUME NEW j, Good(j), NEW t \in Thread, j.state[t] = "UNCREATED",
         NEW s \in {"UNINTERRUPTABLE", "ZOMBIE"}
  PROVE  Good(Enter(j, t, s))
<1> DEFINE d == Enter(j, t, s)
<1>1. s \in State /\ s # "READY" /\ s # "RUNNING" /\ j.state[t] # "READY"
  BY DEF State
<1>2. Exact(j) /\ j.state \in [Thread -> State]
  BY DEF Good, Exact, Kernel
<1>3. Exact(d) /\ SameCPU(j, d) /\ d.state = [j.state EXCEPT ![t] = s]
  BY <1>1, <1>2, EnterKeeps
<1> HIDE DEF d
<1>4. \A u \in Thread : d.state[u] = "RUNNING" => j.state[u] = "RUNNING"
  BY <1>1, <1>2, <1>3
<1>5. Good(d)
  BY <1>3, <1>4, NothingStarts
<1> QED
  BY <1>5 DEF d

\* bspmain keeps the invariant.
LEMMA BspMainKeeps ==
  ASSUME Invariant, StartService \/ CreateFirst \/ FirstToReady \/ SetIdleThread
  PROVE  Invariant'
<1>1. k \in Kernel /\ First \in Thread
  BY FirstAssumption DEF Invariant, TypeOK
<1>2. CASE StartService
  <2>1. /\ k' \in Kernel /\ k'.state = k.state /\ k'.ready = k.ready
        /\ k'.curr = k.curr /\ k'.idle = k.idle
    BY <1>1, <1>2 DEF StartService, Kernel
  <2>2. Good(k')
    BY <2>1, FlagsKeep DEF Invariant
  <2>3. TypeOK' /\ NothingYet'
    BY <1>2, <2>1 DEF Invariant, TypeOK, NothingYet, StartService, BspMain
  <2> QED
    BY <2>2, <2>3 DEF Invariant
<1>3. CASE CreateFirst
  <2>1. k.state[First] = "UNCREATED"
    BY <1>1, <1>3 DEF CreateFirst, BspMain, Invariant, NothingYet
  <2>2. Good(k')
    BY <1>1, <1>3, <2>1, EnteringKeeps DEF CreateFirst, Invariant
  <2>3. TypeOK' /\ NothingYet'
    BY <1>3, <2>2 DEF Invariant, TypeOK, NothingYet, CreateFirst, BspMain, Good, Exact
  <2> QED
    BY <2>2, <2>3 DEF Invariant
<1>4. CASE FirstToReady
  <2>1. Good(k')
    BY <1>1, <1>4, ReadyingKeeps DEF FirstToReady, Invariant
  <2>2. TypeOK' /\ NothingYet'
    BY <1>4, <2>1 DEF Invariant, TypeOK, NothingYet, FirstToReady, BspMain, Good, Exact
  <2> QED
    BY <2>1, <2>2 DEF Invariant
<1>5. CASE SetIdleThread
  <2>1. /\ k' \in Kernel /\ k'.state = k.state /\ k'.ready = k.ready
        /\ k'.curr = k.curr
    BY <1>1, <1>5 DEF SetIdleThread, Kernel
  <2>2. Good(k')
    BY <2>1, FlagsKeep DEF Invariant
  <2>3. TypeOK' /\ NothingYet'
    BY <1>5, <2>1 DEF Invariant, TypeOK, NothingYet, SetIdleThread, BspMain
  <2> QED
    BY <2>2, <2>3 DEF Invariant
<1> QED
  BY <1>2, <1>3, <1>4, <1>5

\* A tick keeps the invariant.
LEMMA TickKeeps == ASSUME Invariant, Tick PROVE Invariant'
<1>1. Good(k) /\ Good(ClockHandler(k)) /\ SameIdle(k, ClockHandler(k))
  BY ClockHandlerKeeps DEF Invariant
<1>2. Good(k') /\ k'.idle = k.idle
  BY <1>1 DEF Tick, SameIdle
<1>3. TypeOK'
  BY <1>2 DEF Invariant, TypeOK, Tick, Good, Exact
<1>4. NothingYet'
  <2>1. CASE boot \in {"StartService", "CreateThread"}
    <3>1. /\ k.curr = None /\ k.idle = None
          /\ \A t \in Thread : k.state[t] = "UNCREATED"
      BY <2>1 DEF Invariant, NothingYet
    <3>2. ReadyThreads(k) = {}
      BY <3>1 DEF ReadyThreads
    <3>3. ClockHandler(k).curr = k.curr /\ ClockHandler(k).state = k.state
      BY <1>1, <3>1, <3>2, NothingToDispatch
    <3>4. k'.curr = k.curr /\ k'.state = k.state
      BY <3>3 DEF Tick
    <3> QED
      BY <1>2, <3>1, <3>4 DEF NothingYet
  <2>2. CASE boot \notin {"StartService", "CreateThread"}
    BY <2>2 DEF Tick, NothingYet
  <2> QED
    BY <2>1, <2>2
<1> QED
  BY <1>2, <1>3, <1>4 DEF Invariant

\* Every system call of the running thread keeps the invariant.
LEMMA CallsKeep ==
  ASSUME Invariant, NEW t \in Thread,
         \/ Return(t)
         \/ \E u \in Thread : CreateThread(t, u)
         \/ \E o \in Obj : Wait(t, o) \/ Sleep(t, o) \/ WakeUp(t, o)
  PROVE  Invariant'
<1>1. Good(k) /\ k \in Kernel /\ TypeOK
  BY DEF Invariant, TypeOK
<1>2. k.curr = t /\ boot' = boot
  BY DEF Return, CreateThread, Wait, Sleep, WakeUp, InUserCode
<1>3. NothingYet'
  BY <1>2, NoneAssumption DEF Invariant, NothingYet
<1>4. \A o \in Obj : k.wait[o] \in Thread \cup {None}
  BY <1>1 DEF Kernel
<1>5. CASE Return(t)
  <2>1. frame[t] \in Obj \X (Thread \cup {None})
    BY <1>1, <1>5 DEF TypeOK, Return
  <2>2. frame[t][1] \in Obj /\ frame[t][2] \in Thread \cup {None}
    BY <2>1
  <2>3. Good(WaitReturn(k, frame[t][1], frame[t][2]))
    BY <1>1, <2>2, WaitReturnKeeps
  <2>4. Good(k')
    BY <1>5, <2>3 DEF Return
  <2>5. TypeOK'
    BY <1>1, <1>5, <2>4 DEF TypeOK, Return, Good, Exact
  <2> QED
    BY <1>3, <2>4, <2>5 DEF Invariant
<1>6. ASSUME NEW u \in Thread, CreateThread(t, u) PROVE Invariant'
  <2>1. k.state[u] = "UNCREATED"
    BY <1>6 DEF CreateThread
  <2>2. /\ Good(Enter(k, u, "UNINTERRUPTABLE")) /\ Good(Enter(k, u, "ZOMBIE"))
    BY <1>1, <2>1, EnteringKeeps
  <2>3. Good(ToReady(Enter(k, u, "UNINTERRUPTABLE"), u))
    BY <2>2, ReadyingKeeps
  <2>4. Good(k')
    BY <1>6, <2>2, <2>3 DEF CreateThread
  <2>5. stacks' \in 0 .. MaxThread
    BY <1>1, <1>6, MaxThreadAssumption DEF TypeOK, CreateThread
  <2>6. TypeOK'
    BY <1>1, <1>6, <2>4, <2>5 DEF TypeOK, CreateThread, Good, Exact
  <2> QED
    BY <1>3, <2>4, <2>6 DEF Invariant
<1>7. ASSUME NEW o \in Obj, Wait(t, o) PROVE Invariant'
  <2>1. Good(WaitOn(k, o))
    BY <1>1, <1>2, WaitOnKeeps
  <2>2. Good(k')
    BY <1>7, <2>1 DEF Wait
  <2>3. TypeOK'
    BY <1>1, <1>4, <1>7, <2>2 DEF TypeOK, Wait, Good, Exact
  <2> QED
    BY <1>3, <2>2, <2>3 DEF Invariant
<1>8. ASSUME NEW o \in Obj, Sleep(t, o) PROVE Invariant'
  <2>1. Good(SleepOn(k, o))
    BY <1>1, <1>2, SleepOnKeeps
  <2>2. Good(k')
    BY <1>8, <2>1 DEF Sleep
  <2>3. TypeOK'
    BY <1>1, <1>4, <1>8, <2>2 DEF TypeOK, Sleep, Good, Exact
  <2> QED
    BY <1>3, <2>2, <2>3 DEF Invariant
<1>9. ASSUME NEW o \in Obj, WakeUp(t, o) PROVE Invariant'
  <2>1. Good(Wake(k, o))
    BY <1>1, WakeKeeps
  <2>2. Good(k')
    BY <1>9, <2>1 DEF WakeUp
  <2>3. TypeOK'
    BY <1>1, <1>9, <2>2 DEF TypeOK, WakeUp, Good, Exact
  <2> QED
    BY <1>3, <2>2, <2>3 DEF Invariant
<1> QED
  BY <1>5, <1>6, <1>7, <1>8, <1>9

-----------------------------------------------------------------------------
\* The invariant is inductive: boot, ticks and system calls keep it.
THEOREM InvariantCorrect == Spec => []Invariant
<1>1. Init => Invariant
  BY InitGood
<1>2. Invariant /\ [Next]_vars => Invariant'
  <2> SUFFICES ASSUME Invariant, [Next]_vars PROVE Invariant'
    OBVIOUS
  <2>1. CASE StartService \/ CreateFirst \/ FirstToReady \/ SetIdleThread
    BY <2>1, BspMainKeeps
  <2>2. CASE Tick
    BY <2>2, TickKeeps
  <2>3. ASSUME NEW t \in Thread,
               \/ Return(t)
               \/ \E u \in Thread : CreateThread(t, u)
               \/ \E o \in Obj : Wait(t, o) \/ Sleep(t, o) \/ WakeUp(t, o)
        PROVE  Invariant'
    BY <2>3, CallsKeep
  <2>4. CASE UNCHANGED vars
    BY <2>4 DEF vars, Invariant, TypeOK, NothingYet
  <2> QED
    BY <2>1, <2>2, <2>3, <2>4 DEF Next
<1> QED
  BY <1>1, <1>2, PTL DEF Spec

\* The kernel record, the boot sequence, the stacks and the frames of blocked
\* threads have their types; a family never has more than MAX_THREAD stacks.
THEOREM TypeCorrect == Spec => []TypeOK
<1>1. Invariant => TypeOK
  BY DEF Invariant
<1> QED
  BY <1>1, InvariantCorrect, PTL

\* Whatever the order of ticks and calls, the scheduler's lists hold exactly
\* the READY threads, each once and in the list of its level.
THEOREM QueuesAreExactCorrect == Spec => []QueuesAreExact
<1>1. Invariant => QueuesAreExact
  BY DEF Invariant, Good, Exact, QueuesAreExact
<1> QED
  BY <1>1, InvariantCorrect, PTL

\* No thread but the current one is ever RUNNING.
THEOREM OnlyCurrentRunsCorrect == Spec => []OnlyCurrentRuns
<1>1. Invariant => OnlyCurrentRuns
  BY DEF Invariant, Good, OneRuns, OnlyCurrentRuns
<1> QED
  BY <1>1, InvariantCorrect, PTL

-----------------------------------------------------------------------------
(* The dispatcher's promises.                                              *)

Statements == StartService \/ CreateFirst \/ FirstToReady \/ SetIdleThread

\* A child is a thread of its own: the states of all others stay.
LEMMA CreatingProceeds ==
  ASSUME Invariant, NEW t \in Thread, NEW u \in Thread, CreateThread(t, u),
         NEW s \in {"UNINTERRUPTABLE", "ZOMBIE"}
  PROVE  /\ Fallback(k) /\ CurrentRuns(k) => CurrentRuns(Enter(k, u, s))
         /\ Good(Enter(k, u, s)) /\ SameCPU(k, Enter(k, u, s))
         /\ \A v \in Thread : k.state[v] \in Alive => Enter(k, u, s).state[v] \in Alive
<1> DEFINE j == Enter(k, u, s)
<1>1. /\ Good(k) /\ Exact(k) /\ k.state \in [Thread -> State] /\ k.curr \in Thread \cup {None}
      /\ k.state[u] = "UNCREATED"
  BY DEF Invariant, Good, Exact, Kernel, CreateThread
<1>2. s \in State /\ s # "READY" /\ k.state[u] # "READY"
  BY <1>1 DEF State
<1>3. SameCPU(k, j) /\ j.state = [k.state EXCEPT ![u] = s]
  BY <1>1, <1>2, EnterKeeps
<1>4. Good(j)
  BY <1>1, EnteringKeeps
<1> HIDE DEF j
<1>5. \A v \in Thread : k.state[v] \in Alive => j.state[v] = k.state[v]
  BY <1>1, <1>3 DEF Alive, Runnable, Blocked
<1>6. CurrentRuns(k) => CurrentRuns(j)
  BY <1>1, <1>3, <1>5 DEF CurrentRuns, SameCPU, Alive
<1> QED
  BY <1>3, <1>4, <1>5, <1>6 DEF j

\* Every step but those of bspmain goes on with the threads there are.
LEMMA StepProceeds ==
  ASSUME Invariant, Next, ~Statements
  PROVE  Proceeds(k, k')
<1>1. Good(k) /\ TypeOK
  BY DEF Invariant
<1>2. CASE Tick
  BY <1>1, <1>2, ClockHandlerProceeds DEF Tick
<1>3. ASSUME NEW t \in Thread, Return(t) PROVE Proceeds(k, k')
  <2>1. frame[t] \in Obj \X (Thread \cup {None})
    BY <1>1, <1>3 DEF TypeOK, Return
  <2>2. frame[t][1] \in Obj /\ frame[t][2] \in Thread \cup {None}
    BY <2>1
  <2>3. Proceeds(k, WaitReturn(k, frame[t][1], frame[t][2]))
    BY <1>1, <2>2, WakingProceeds
  <2> QED
    BY <1>3, <2>3 DEF Return
<1>4. ASSUME NEW t \in Thread, NEW u \in Thread, CreateThread(t, u)
      PROVE  Proceeds(k, k')
  <2> DEFINE j == Enter(k, u, "UNINTERRUPTABLE")
  <2>1. /\ Fallback(k) /\ CurrentRuns(k) => CurrentRuns(j)
        /\ Good(j) /\ SameCPU(k, j)
        /\ \A v \in Thread : k.state[v] \in Alive => j.state[v] \in Alive
    BY <1>4, CreatingProceeds
  <2>2. Proceeds(j, ToReady(j, u))
    BY <2>1, ReadyingProceeds
  <2>3. SameCPU(j, ToReady(j, u))
    BY <2>1, ToReadyKeeps DEF Good
  <2> HIDE DEF j
  <2>4. Fallback(k) => Fallback(j)
    BY <1>1, <2>1, NoneAssumption DEF Fallback, SameCPU, TypeOK, Kernel
  <2>5. Proceeds(k, ToReady(j, u))
    BY <2>1, <2>2, <2>3, <2>4 DEF Proceeds, SameCPU
  <2> DEFINE z == Enter(k, u, "ZOMBIE")
  <2>6. /\ Fallback(k) /\ CurrentRuns(k) => CurrentRuns(z)
        /\ Good(z) /\ SameCPU(k, z)
        /\ \A v \in Thread : k.state[v] \in Alive => z.state[v] \in Alive
    BY <1>4, CreatingProceeds
  <2> HIDE DEF z
  <2>7. Proceeds(k, z)
    BY <2>6 DEF Proceeds, SameCPU
  <2> QED
    BY <1>4, <2>5, <2>7 DEF CreateThread, j, z
<1>5. ASSUME NEW t \in Thread, NEW o \in Obj, Wait(t, o) \/ Sleep(t, o) \/ WakeUp(t, o)
      PROVE  Proceeds(k, k')
  <2>1. k.curr \in Thread
    BY <1>5 DEF Wait, Sleep, WakeUp, InUserCode
  <2>2. Proceeds(k, WaitOn(k, o)) /\ Proceeds(k, SleepOn(k, o))
    BY <1>1, <2>1, BlockingProceeds
  <2>3. Proceeds(k, Wake(k, o))
    BY <1>1, WakingProceeds
  <2> QED
    BY <1>5, <2>2, <2>3 DEF Wait, Sleep, WakeUp
<1> QED
  BY <1>2, <1>3, <1>4, <1>5 DEF Next, Statements

\* A switch is to a thread of the highest level that has a READY one, for any
\* number of lists and any priorities (SchedulerDefault.cpp 40-54, CPUx86.cpp 33-85).
THEOREM SwitchesToHighestCorrect == Spec => SwitchesToHighest
<1>1. Invariant /\ [Next]_vars =>
        [k.curr' # k.curr =>
           \A t \in Thread \ {k.curr} :
             k.state[t] = "READY" => LevelOf(k'.curr) >= LevelOf(t)]_vars
  <2> SUFFICES ASSUME Invariant, [Next]_vars, k'.curr # k.curr,
                      NEW t \in Thread \ {k.curr}, k.state[t] = "READY"
               PROVE  LevelOf(k'.curr) >= LevelOf(t)
    OBVIOUS
  <2>1. Next
    BY DEF vars
  <2>2. ~Statements
    <3>1. k \in Kernel /\ First \in Thread /\ Exact(k)
      BY FirstAssumption DEF Invariant, Good, Exact
    <3>2. ToReady(k, First).curr = k.curr
      BY <3>1, ToReadyKeeps DEF SameCPU
    <3> QED
      BY <3>1, <3>2
      DEF Statements, StartService, CreateFirst, FirstToReady, SetIdleThread, Enter,
          Kernel
  <2>3. Proceeds(k, k')
    BY <2>1, <2>2, StepProceeds
  <2> QED
    BY <2>3 DEF Proceeds
<1> QED
  BY <1>1, InvariantCorrect, PTL DEF Spec, SwitchesToHighest

\* From SetIdleThread on there is a thread to fall back to, and whoever runs may.
Served ==
  /\ boot # "StartService" => k.serving
  /\ boot \notin {"StartService", "CreateThread"} => k.state[First] \in Alive
  /\ k.idle # None => k.idle = First /\ boot = "done"
  /\ k.idle # None => CurrentRuns(k)

\* Every step leaves the CPU with a thread to run.
LEMMA ServedStep ==
  ASSUME Invariant, Served, [Next]_vars
  PROVE  Served'
<1>1. /\ k \in Kernel /\ k.state \in [Thread -> State] /\ First \in Thread
      /\ k.idle \in Thread \cup {None} /\ Exact(k)
  BY FirstAssumption DEF Invariant, TypeOK, Kernel, Good
<1>2. CASE UNCHANGED vars
  BY <1>2 DEF vars, Served, CurrentRuns
<1>3. CASE StartService
  BY <1>1, <1>3 DEF Served, StartService, BspMain, Kernel, CurrentRuns
<1>4. CASE CreateFirst
  BY <1>1, <1>4 DEF Served, CreateFirst, BspMain, Kernel, CurrentRuns, Enter, Alive, Blocked
<1>5. CASE FirstToReady
  <2>1. ToReady(k, First).state = [k.state EXCEPT ![First] =
          IF k.state[First] \in {"RUNNING"} \cup Blocked THEN "READY" ELSE k.state[First]]
    BY <1>1, ToReadyState
  <2>2. SameCPU(k, ToReady(k, First))
    BY <1>1, ToReadyKeeps
  <2> QED
    BY <1>1, <1>5, <2>1, <2>2
    DEF Served, FirstToReady, BspMain, CurrentRuns, SameCPU, Alive, Runnable, Blocked
<1>6. CASE SetIdleThread
  BY <1>1, <1>6 DEF Served, SetIdleThread, BspMain, Kernel, CurrentRuns
<1>7. CASE Next /\ ~Statements
  <2>1. Proceeds(k, k')
    BY <1>7, StepProceeds
  <2>2. boot' = boot
    BY <1>7 DEF Next, Statements, Tick, Return, CreateThread, Wait, Sleep, WakeUp
  <2>3. k.idle # None => Fallback(k)
    BY DEF Served, Fallback
  <2> QED
    BY <1>1, <2>1, <2>2, <2>3 DEF Served, Proceeds
<1> QED
  BY <1>2, <1>3, <1>4, <1>5, <1>6, <1>7 DEF Statements

\* The idle thread can be made ready.
IdleLives(j) == j.idle # None => j.state[j.idle] \in Alive

\* Where no thread that may run gets the CPU, the current one stays as it is.
Stays(j, n) ==
  \/ CurrentRuns(n)
  \/ n.curr = j.curr /\ n.state[j.curr] = j.state[j.curr] /\ n.budget = j.budget

\* Run leaves the CPU to a thread that may run, or there is nothing to do.
LEMMA RunLeaves ==
  ASSUME NEW d, Exact(d), IdleLives(d)
  PROVE  \/ CurrentRuns(Run(d))
         \/ /\ Run(d) = d
            /\ \/ ~d.serving \/ d.budget >= 0
               \/ d.idle = None /\ ReadyThreads(d) = {}
<1> DEFINE j == Run(d)
<1> HIDE DEF j
<1>1. \/ /\ j = d
         /\ \/ ~d.serving \/ d.budget >= 0
            \/ d.idle = None /\ ReadyThreads(d) = {}
      \/ /\ j.curr \in Thread
         /\ j.curr \in ReadyThreads(d) \/ j.curr = d.idle
         /\ d.state[j.curr] \in Alive => j.state[j.curr] \in Runnable
  BY RunDispatches DEF j
<1>2. ASSUME j.curr \in Thread, j.curr \in ReadyThreads(d) \/ j.curr = d.idle,
             d.state[j.curr] \in Alive => j.state[j.curr] \in Runnable
      PROVE  CurrentRuns(j)
  <2>1. CASE j.curr \in ReadyThreads(d)
    BY <1>2, <2>1 DEF ReadyThreads, CurrentRuns, Alive, Runnable
  <2>2. CASE j.curr = d.idle
    BY <1>2, <2>2, NoneAssumption DEF IdleLives, CurrentRuns
  <2> QED
    BY <1>2, <2>1, <2>2
<1> QED
  BY <1>1, <1>2 DEF j

\* A tick counts down, and a slice that is over stays so.
LEMMA TickLeaves ==
  ASSUME NEW j, Good(j), IdleLives(j)
  PROVE  \/ CurrentRuns(ClockHandler(j))
         \/ /\ ClockHandler(j).curr = j.curr /\ ClockHandler(j).state = j.state
            /\ j.budget = -1 => ClockHandler(j).budget = -1
<1> DEFINE left == j.budget - Period
           b == IF left < 0 THEN -1 ELSE left
           d == [j EXCEPT !.budget = b]
<1>1. Exact(j) /\ j \in Kernel /\ (j.budget = -1 => b = -1)
  BY TimeAssumption DEF Good, Exact, Kernel
<1>2. b \in -1 .. Slice
  BY <1>1, TimeAssumption DEF Kernel
<1>3. /\ d \in Kernel /\ d.state = j.state /\ d.ready = j.ready /\ d.idle = j.idle
      /\ d.curr = j.curr /\ d.budget = b
  BY <1>1, <1>2 DEF Kernel
<1>4. ClockHandler(j) = Run(d)
  BY DEF ClockHandler
<1> HIDE DEF d, b
<1>5. Exact(d) /\ IdleLives(d)
  BY <1>1, <1>3 DEF Exact, QueuesMatchStates, ReadyThreads, IdleLives
<1> QED
  BY <1>1, <1>3, <1>4, <1>5, RunLeaves

\* A thread made ready does not lose the CPU, nor does it change whose slice is over.
LEMMA ReadyingStays ==
  ASSUME NEW j, Good(j), NEW t \in Thread
  PROVE  Stays(j, ToReady(j, t))
<1> DEFINE n == ToReady(j, t)
<1>1. j \in Kernel /\ Exact(j) /\ j.state \in [Thread -> State] /\ j.curr \in Thread \cup {None}
  BY DEF Good, Exact, Kernel
<1>2. n.curr = j.curr /\ n.budget = j.budget
  BY <1>1, ToReadyKeeps DEF SameCPU
<1>3. n.state = [j.state EXCEPT ![t] =
        IF j.state[t] \in {"RUNNING"} \cup Blocked THEN "READY" ELSE j.state[t]]
  BY <1>1, ToReadyState
<1> HIDE DEF n
<1>4. ASSUME t = j.curr PROVE Stays(j, n)
  BY <1>1, <1>2, <1>3, <1>4 DEF Stays, CurrentRuns, Runnable
<1>5. ASSUME t # j.curr, j.curr # None PROVE Stays(j, n)
  <2>1. n.state[j.curr] = j.state[j.curr]
    BY <1>1, <1>3, <1>5
  <2> QED
    BY <1>2, <2>1 DEF Stays
<1>6. ASSUME j.curr = None PROVE Stays(j, n)
  BY <1>2, <1>6 DEF Stays, CurrentRuns
<1> QED
  BY <1>4, <1>5, <1>6 DEF n

\* Wait's return and a wake-up make at most one thread ready.
LEMMA WakingStays ==
  ASSUME NEW j, Good(j), NEW o \in Obj, NEW prev \in Thread \cup {None}
  PROVE  Stays(j, WaitReturn(j, o, prev)) /\ Stays(j, Wake(j, o))
<1> DEFINE n == SetWait(j, o, prev)
<1>1. /\ Good(n) /\ n.curr = j.curr /\ n.state = j.state /\ n.budget = j.budget
      /\ j.wait[o] \in Thread \cup {None}
  BY SetWaitKeeps DEF SetWait, Good, Exact, Kernel
<1>2. WaitReturn(j, o, prev) = IF prev # None THEN ToReady(n, prev) ELSE n
  BY DEF WaitReturn, SetWait
<1> HIDE DEF n
<1>3. Stays(j, WaitReturn(j, o, prev))
  <2>1. CASE prev = None
    BY <1>1, <1>2, <2>1 DEF Stays
  <2>2. CASE prev # None
    <3>1. Stays(n, ToReady(n, prev))
      BY <1>1, <2>2, ReadyingStays
    <3> QED
      BY <1>1, <1>2, <2>2, <3>1 DEF Stays
  <2> QED
    BY <2>1, <2>2
<1>4. Stays(j, Wake(j, o))
  <2>1. CASE j.wait[o] = None
    BY <2>1 DEF Wake, Stays
  <2>2. CASE j.wait[o] # None
    <3>1. j.wait[o] \in Thread /\ Wake(j, o) = ToReady(j, j.wait[o])
      BY <1>1, <2>2 DEF Wake
    <3> QED
      BY <3>1, ReadyingStays
  <2> QED
    BY <2>1, <2>2
<1> QED
  BY <1>3, <1>4

\* Who blocks keeps the CPU only where there is nobody else.
Alone(j, n) ==
  \/ CurrentRuns(n)
  \/ /\ n.curr = j.curr /\ n.state[j.curr] \in {j.state[j.curr]} \cup Blocked
     /\ n.budget = -1 /\ ReadyThreads(n) = {}

LEMMA BlockingLeaves ==
  ASSUME NEW j, Good(j), NEW o \in Obj, j.curr \in Thread, j.serving, IdleLives(j)
  PROVE  Alone(j, WaitOn(j, o)) /\ Alone(j, SleepOn(j, o))
<1>1. ASSUME NEW s \in Blocked, NEW d, GivesUp(j, d, o, s)
      PROVE  Alone(j, Run(d))
  <2>1. /\ Exact(d) /\ d.curr = j.curr /\ d.idle = j.idle /\ d.serving /\ d.budget = -1
        /\ d.state[j.curr] \in {j.state[j.curr], s}
        /\ \A u \in Thread \ {j.curr} : d.state[u] = j.state[u]
    BY <1>1 DEF GivesUp
  <2>2. IdleLives(d)
    <3>1. d.idle \in Thread \cup {None}
      BY <2>1 DEF Exact, Kernel
    <3> QED
      BY <1>1, <2>1, <3>1 DEF IdleLives, Alive
  <2>3. \/ CurrentRuns(Run(d))
        \/ Run(d) = d /\ ReadyThreads(d) = {}
    <3>1. ~(d.budget >= 0)
      BY <2>1
    <3> QED
      BY <2>1, <2>2, <3>1, RunLeaves
  <2> QED
    BY <2>1, <2>3 DEF Alone
<1>2. Alone(j, WaitOn(j, o))
  BY <1>1, WaitOnRuns DEF Blocked
<1>3. Alone(j, SleepOn(j, o))
  BY <1>1, SleepOnRuns DEF Blocked
<1> QED
  BY <1>2, <1>3

\* Who has the CPU, and that only a thread alone keeps it when it blocks.
Lasting ==
  k.curr # None =>
    /\ k.state[k.curr] \in Alive
    /\ k.state[k.curr] \in Blocked =>
         k.budget = -1 /\ (frame[k.curr] # None => ReadyThreads(k) = {})

LEMMA LastingStep ==
  ASSUME Invariant, Served, Lasting, [Next]_vars
  PROVE  Lasting'
<1>1. /\ Good(k) /\ k \in Kernel /\ k.curr \in Thread \cup {None}
      /\ frame \in [Thread -> {None} \cup (Obj \X (Thread \cup {None}))]
  BY DEF Invariant, TypeOK, Kernel
<1>2. IdleLives(k) /\ (k.curr # None => k.serving)
  BY DEF IdleLives, Served, Invariant, NothingYet
<1>3. ASSUME CurrentRuns(k') PROVE Lasting'
  BY <1>3 DEF CurrentRuns, Lasting, Alive, Runnable, Blocked
<1>4. ASSUME Stays(k, k'), k.curr # None => frame'[k.curr] = None PROVE Lasting'
  BY <1>3, <1>4 DEF Stays, Lasting
<1>5. CASE UNCHANGED vars
  BY <1>5 DEF vars, Lasting
<1>6. CASE Statements
  <2>1. k.curr = None
    BY <1>6 DEF Statements, StartService, CreateFirst, FirstToReady, SetIdleThread, BspMain
  <2>2. ToReady(k, First).curr = k.curr
    BY <1>1, FirstAssumption, ToReadyKeeps DEF SameCPU, Good
  <2>3. k'.curr = None
    BY <1>1, <1>6, <2>1, <2>2
    DEF Statements, StartService, CreateFirst, FirstToReady, SetIdleThread, Enter, Kernel
  <2> QED
    BY <2>3 DEF Lasting
<1>7. CASE Tick
  <2>1. /\ k' = ClockHandler(k) /\ frame' = frame
        /\ k.curr # None => frame[k.curr] = None
    BY <1>7 DEF Tick
  <2>2. \/ CurrentRuns(k')
        \/ k'.curr = k.curr /\ k'.state = k.state /\ (k.budget = -1 => k'.budget = -1)
    BY <1>1, <1>2, <2>1, TickLeaves
  <2> QED
    BY <1>3, <2>1, <2>2 DEF Lasting
<1>8. ASSUME NEW t \in Thread, Return(t) PROVE Lasting'
  <2>1. /\ k.curr = t /\ frame[t] \in Obj \X (Thread \cup {None}) /\ frame'[t] = None
        /\ k' = WaitReturn(k, frame[t][1], frame[t][2])
    BY <1>1, <1>8 DEF Return
  <2>2. frame[t][1] \in Obj /\ frame[t][2] \in Thread \cup {None}
    BY <2>1
  <2>3. Stays(k, k')
    BY <1>1, <2>1, <2>2, WakingStays
  <2> QED
    BY <1>4, <2>1, <2>3
<1>9. ASSUME NEW t \in Thread, NEW u \in Thread, CreateThread(t, u) PROVE Lasting'
  <2>1. k.curr = t /\ frame[t] = None /\ frame' = frame /\ k.state[u] = "UNCREATED"
    BY <1>9 DEF CreateThread, InUserCode
  <2>2. k.curr # u /\ k.state \in [Thread -> State] /\ k.state[k.curr] \in Alive
    BY <1>1, <2>1, NoneAssumption DEF Lasting, Kernel, Alive, Runnable, Blocked
  <2>3. ASSUME NEW s \in {"UNINTERRUPTABLE", "ZOMBIE"}
        PROVE  Good(Enter(k, u, s)) /\ Stays(k, Enter(k, u, s))
    <3>1. Good(Enter(k, u, s)) /\ SameCPU(k, Enter(k, u, s))
      BY <1>9, CreatingProceeds
    <3>2. Enter(k, u, s).state[k.curr] = k.state[k.curr]
      BY <1>1, <2>2 DEF Enter, Kernel
    <3> QED
      BY <3>1, <3>2 DEF Stays, SameCPU
  <2> DEFINE j == Enter(k, u, "UNINTERRUPTABLE")
  <2>4. Good(j) /\ Stays(k, j) /\ j.curr = k.curr /\ j.state[k.curr] = k.state[k.curr]
        /\ j.budget = k.budget
    BY <1>1, <2>2, <2>3 DEF Enter, Kernel
  <2> HIDE DEF j
  <2>5. Stays(k, ToReady(j, u))
    <3>1. Stays(j, ToReady(j, u))
      BY <2>4, ReadyingStays
    <3> QED
      BY <2>4, <3>1 DEF Stays
  <2>6. Stays(k, k')
    BY <1>9, <2>3, <2>5 DEF CreateThread, j
  <2> QED
    BY <1>4, <2>1, <2>6
<1>10. ASSUME NEW t \in Thread, NEW o \in Obj, Wait(t, o) \/ Sleep(t, o) PROVE Lasting'
  <2>1. k.curr = t /\ (k' = WaitOn(k, o) \/ k' = SleepOn(k, o))
    BY <1>10 DEF Wait, Sleep, InUserCode
  <2>2. Alone(k, k') /\ k.curr # None
    BY <1>1, <1>2, <2>1, NoneAssumption, BlockingLeaves
  <2> QED
    BY <1>3, <2>2 DEF Alone, Lasting, Alive
<1>11. ASSUME NEW t \in Thread, NEW o \in Obj, WakeUp(t, o) PROVE Lasting'
  <2>1. k.curr = t /\ frame[t] = None /\ frame' = frame /\ k' = Wake(k, o)
    BY <1>11 DEF WakeUp, InUserCode
  <2>2. Stays(k, k')
    <3>1. None \in Thread \cup {None}
      OBVIOUS
    <3> QED
      BY <1>1, <2>1, <3>1, WakingStays
  <2> QED
    BY <1>4, <2>1, <2>2
<1> QED
  BY <1>5, <1>6, <1>7, <1>8, <1>9, <1>10, <1>11 DEF Next, Statements

\* A thread that blocks keeps the CPU only while there is nobody else: no idle
\* thread, which is so for ever if a tick dispatches the first thread before bspmain
\* names it, and no READY one when it blocks.  Its slice is over then, and a zombie
\* never has the CPU (CPUx86.cpp 33-85, WaitableObj.cpp 12-37).
THEOREM CurrentIsNotBlockedCorrect == Spec => []CurrentIsNotBlocked
<1>1. Init => Served /\ Lasting
  BY DEF Init, InitialKernel, Served, Lasting
<1>2. Invariant /\ Served /\ Lasting /\ [Next]_vars => Served' /\ Lasting'
  BY ServedStep, LastingStep
<1>3. Served /\ Lasting => CurrentIsNotBlocked
  BY DEF Served, Lasting, CurrentIsNotBlocked, CurrentRuns, Alive, Runnable, Blocked
<1> QED
  BY <1>1, <1>2, <1>3, InvariantCorrect, PTL DEF Spec

-----------------------------------------------------------------------------
(* The spin lock that threads and waitable objects are kept with, for any  *)
(* set of CPUs, any nesting bound and both modes, and its refinement of    *)
(* ReentrantLock.  The argument rests on LockInvariant: the CPU that has   *)
(* the lock byte is unique, it is the one the lock records, and the        *)
(* recorded depth is how deeply it has nested.                             *)

LockTruth == LockTypeOK /\ LockInvariant

\* Every variable has its type in the initial state.
LEMMA LockInitTyped == LockInit => LockTypeOK
<1> SUFFICES ASSUME LockInit PROVE LockTypeOK
  OBVIOUS
<1>1. pc \in [CPU -> Label] /\ call \in [CPU -> {"Lock", "Try"}]
  BY DEF LockInit, Label
<1>2. held \in [CPU -> Nat] /\ depth \in Int
  BY DEF LockInit
<1>3. tmplock \in BOOLEAN /\ lock \in BOOLEAN /\ currCPU \in CPU \cup {NoCPU}
  BY DEF LockInit
<1> QED
  BY <1>1, <1>2, <1>3 DEF LockTypeOK

\* Every step of every CPU keeps the types.
LEMMA LockStepTyped == LockTypeOK /\ [LockNext]_lockVars => LockTypeOK'
<1> SUFFICES ASSUME LockTypeOK, [LockNext]_lockVars PROVE LockTypeOK'
  OBVIOUS
<1> USE DEF LockTypeOK, Goto, Label
<1>1. ASSUME NEW c \in CPU, NEW op \in {"Lock", "Try"}, Begin(c, op) PROVE LockTypeOK'
  BY <1>1 DEF Begin
<1>2. ASSUME NEW c \in CPU, BeginUnlock(c) PROVE LockTypeOK'
  BY <1>2 DEF BeginUnlock
<1>3. ASSUME NEW c \in CPU, Step(c) PROVE LockTypeOK'
  <2>1. CASE AcquireGuard(c) BY <2>1 DEF AcquireGuard
  <2>2. CASE CompareOwner(c) BY <2>2 DEF CompareOwner
  <2>3. CASE Deepen(c) BY <2>3 DEF Deepen
  <2>4. CASE ReenterAndReturn(c)
    <3>1. held' \in [CPU -> Nat] /\ pc' \in [CPU -> Label]
      BY <2>4 DEF ReenterAndReturn
    <3> QED
      BY <2>4, <3>1 DEF ReenterAndReturn
  <2>5. CASE ReleaseGuard(c) BY <2>5 DEF ReleaseGuard
  <2>6. CASE TakeLock(c)
    <3>1. held' \in [CPU -> Nat] /\ pc' \in [CPU -> Label]
      BY <2>6 DEF TakeLock
    <3> QED
      BY <2>6, <3>1 DEF TakeLock
  <2>7. CASE TryFails(c) BY <2>7 DEF TryFails
  <2>8. CASE RecordOwner(c) BY <2>8 DEF RecordOwner
  <2>9. CASE CountAndReturn(c) BY <2>9 DEF CountAndReturn
  <2>10. CASE TestDepth(c) BY <2>10 DEF TestDepth
  <2>11. CASE Disown(c) BY <2>11 DEF Disown
  <2>12. CASE FreeLock(c) BY <2>12 DEF FreeLock
  <2> QED
    BY <1>3, <2>1, <2>2, <2>3, <2>4, <2>5, <2>6, <2>7, <2>8, <2>9, <2>10,
       <2>11, <2>12 DEF Step
<1>4. CASE UNCHANGED lockVars
  BY <1>4 DEF lockVars
<1> QED
  BY <1>1, <1>2, <1>3, <1>4 DEF LockNext

\* The fields of the lock and the control state of its clients stay within
\* their types (SpinLock.cpp 28-101).
THEOREM LockTypeCorrect == LockSpec => []LockTypeOK
  BY LockInitTyped, LockStepTyped, PTL DEF LockSpec

-----------------------------------------------------------------------------
\* The constructor establishes the invariant.
LEMMA InitLockInvariant == LockInit => LockInvariant
  BY NoCPUAssumption, MaxDepthAssumption
     DEF LockInit, LockInvariant, OneByte, NestingBounded, OwnerIsRecorded,
         DepthIsCounted, HasByte, Acquiring

\* Every step keeps it.
LEMMA StepLockInvariant == LockTruth /\ [LockNext]_lockVars => LockInvariant'
<1> SUFFICES ASSUME LockTruth, [LockNext]_lockVars PROVE LockInvariant'
  OBVIOUS
<1> USE NoCPUAssumption, MaxDepthAssumption, BasicModeAssumption
    DEF LockTruth, LockTypeOK, LockInvariant, OneByte, NestingBounded,
        OwnerIsRecorded, DepthIsCounted, HasByte, Acquiring, Goto
<1>1. ASSUME NEW c \in CPU, NEW op \in {"Lock", "Try"}, Begin(c, op)
      PROVE  LockInvariant'
  BY <1>1 DEF Begin
<1>2. ASSUME NEW c \in CPU, BeginUnlock(c) PROVE LockInvariant'
  BY <1>2 DEF BeginUnlock
<1>3. ASSUME NEW c \in CPU, Step(c) PROVE LockInvariant'
  <2>1. CASE AcquireGuard(c) BY <2>1 DEF AcquireGuard
  <2>2. CASE CompareOwner(c) BY <2>2 DEF CompareOwner
  <2>3. CASE Deepen(c) BY <2>3 DEF Deepen
  <2>4. CASE ReenterAndReturn(c) BY <2>4 DEF ReenterAndReturn
  <2>5. CASE ReleaseGuard(c) BY <2>5 DEF ReleaseGuard
  <2>6. CASE TakeLock(c) BY <2>6 DEF TakeLock
  <2>7. CASE TryFails(c) BY <2>7 DEF TryFails
  <2>8. CASE RecordOwner(c) BY <2>8 DEF RecordOwner
  <2>9. CASE CountAndReturn(c) BY <2>9 DEF CountAndReturn
  <2>10. CASE TestDepth(c) BY <2>10 DEF TestDepth
  <2>11. CASE Disown(c) BY <2>11 DEF Disown
  <2>12. CASE FreeLock(c) BY <2>12 DEF FreeLock
  <2> QED
    BY <1>3, <2>1, <2>2, <2>3, <2>4, <2>5, <2>6, <2>7, <2>8, <2>9, <2>10,
       <2>11, <2>12 DEF Step
<1>4. CASE UNCHANGED lockVars
  BY <1>4 DEF lockVars
<1> QED
  BY <1>1, <1>2, <1>3, <1>4 DEF LockNext

\* For every set of CPUs and every nesting bound, the byte has one holder, the
\* lock records it, and the depth is its nesting.
THEOREM LockInvariantCorrect == LockSpec => []LockInvariant
<1>1. LockInit => LockTruth
  BY LockInitTyped, InitLockInvariant DEF LockTruth
<1>2. LockTruth /\ [LockNext]_lockVars => LockTruth'
  BY LockStepTyped, StepLockInvariant DEF LockTruth
<1>3. LockTruth => LockInvariant
  BY DEF LockTruth
<1> QED
  BY <1>1, <1>2, <1>3, PTL DEF LockSpec

\* Two CPUs never have the lock at once (SpinLock.cpp 28-92).
THEOREM MutualExclusionCorrect == LockSpec => []MutualExclusion
<1>1. LockInvariant => MutualExclusion
  BY DEF LockInvariant, OneByte, HasByte, MutualExclusion
<1> QED
  BY <1>1, LockInvariantCorrect, PTL

\* The depth that Unlock tests is the client's nesting (SpinLock.cpp 56-57).
THEOREM DepthIsNestingCorrect == LockSpec => []DepthIsNesting
<1>1. LockTypeOK /\ LockInvariant => DepthIsNesting
  BY DEF LockTypeOK, Label, LockInvariant, OneByte, OwnerIsRecorded, DepthIsCounted,
         HasByte, DepthIsNesting
<1> QED
  BY <1>1, LockTypeCorrect, LockInvariantCorrect, PTL

\* A free lock has no recorded owner and depth 0 (SpinLock.cpp 59-60).
THEOREM FreeIsCleanCorrect == LockSpec => []FreeIsClean
<1>1. LockTypeOK /\ LockInvariant => FreeIsClean
  BY DEF LockTypeOK, LockInvariant, OneByte, OwnerIsRecorded, DepthIsCounted,
         HasByte, FreeIsClean
<1> QED
  BY <1>1, LockTypeCorrect, LockInvariantCorrect, PTL

-----------------------------------------------------------------------------
(* The refinement.  A step that changes some held[c] is an Acquire or a    *)
(* Release of the abstract lock, every other step is a stutter.            *)

\* At most one client is in its critical section, so the abstract owner is it.
LEMMA HolderIsTheOne ==
  ASSUME LockInvariant, NEW c \in CPU, held[c] > 0
  PROVE  Holder = c
  BY DEF LockInvariant, OneByte, HasByte, Holder

\* When no client is in its critical section the abstract lock is free.
LEMMA HolderIsNobody ==
  ASSUME \A c \in CPU : ~(held[c] > 0)
  PROVE  Holder = NoCPU
  BY DEF Holder

\* Neither the holder nor its level changes while held stays as it is.
LEMMA StutterStep ==
  ASSUME UNCHANGED held
  PROVE  UNCHANGED Abs!absVars
<1>1. Holder' = Holder
  BY DEF Holder
<1> QED
  BY <1>1 DEF Abs!absVars

\* A call that returns with the lock is an Acquire of the abstract lock.
LEMMA AcquireStep ==
  ASSUME LockTruth, LockTruth', NEW c \in CPU, Acquiring(c),
         held' = [held EXCEPT ![c] = held[c] + 1]
  PROVE  Abs!Acquire(c)
<1>1. held[c] \in Nat /\ held[c] < MaxDepth /\ held'[c] = held[c] + 1
  BY DEF LockTruth, LockTypeOK, LockInvariant, NestingBounded
<1>2. Holder' = c
  <2>1. \A d \in CPU : held'[d] > 0 => d = c
    BY <1>1 DEF LockTruth, LockInvariant, OneByte, HasByte
  <2>2. held'[c] > 0
    BY <1>1
  <2> QED
    BY <2>1, <2>2 DEF Holder
<1>3. CASE held[c] > 0
  <2>1. Holder = c
    BY <1>3, HolderIsTheOne DEF LockTruth
  <2> QED
    BY <1>1, <1>2, <2>1, NoCPUAssumption DEF Abs!Acquire
<1>4. CASE ~(held[c] > 0)
  <2>1. \A d \in CPU : d # c => held'[d] = held[d]
    BY DEF LockTruth, LockTypeOK
  <2>2. \A d \in CPU : ~(held[d] > 0)
    BY <1>1, <1>4, <2>1 DEF LockTruth, LockInvariant, OneByte, HasByte
  <2>3. Holder = NoCPU
    BY <2>2, HolderIsNobody
  <2> QED
    BY <1>1, <1>2, <1>4, <2>3, NoCPUAssumption, MaxDepthAssumption
       DEF Abs!Acquire
<1> QED
  BY <1>3, <1>4

\* The call of Unlock is a Release of the abstract lock.
LEMMA ReleaseStep ==
  ASSUME LockTruth, LockTruth', NEW c \in CPU, held[c] > 0,
         held' = [held EXCEPT ![c] = held[c] - 1]
  PROVE  Abs!Release(c)
<1>1. held[c] \in Nat /\ held'[c] = held[c] - 1
  BY DEF LockTruth, LockTypeOK
<1>2. Holder = c
  BY HolderIsTheOne DEF LockTruth
<1>3. \A d \in CPU : d # c => held'[d] = held[d] /\ ~(held[d] > 0)
  BY DEF LockTruth, LockTypeOK, LockInvariant, OneByte, HasByte
<1>4. CASE held[c] = 1
  <2>1. \A d \in CPU : ~(held'[d] > 0)
    BY <1>1, <1>3, <1>4
  <2>2. Holder' = NoCPU
    BY <2>1 DEF Holder
  <2> QED
    BY <1>2, <1>4, <2>2, NoCPUAssumption DEF Abs!Release
<1>5. CASE held[c] # 1
  <2>1. held'[c] > 0 /\ \A d \in CPU : held'[d] > 0 => d = c
    BY <1>1, <1>3, <1>5
  <2>2. Holder' = c
    BY <2>1 DEF Holder
  <2> QED
    BY <1>1, <1>2, <1>5, <2>2, NoCPUAssumption DEF Abs!Release
<1> QED
  BY <1>4, <1>5

\* Every step of the lock is a step of the abstract lock or leaves it alone.
LEMMA StepRefines == LockTruth /\ LockTruth' /\ [LockNext]_lockVars => [Abs!AbsNext]_(Abs!absVars)
<1> SUFFICES ASSUME LockTruth, LockTruth', [LockNext]_lockVars
             PROVE  [Abs!AbsNext]_(Abs!absVars)
  OBVIOUS
<1>1. CASE UNCHANGED held
  BY <1>1, StutterStep
<1>2. ASSUME NEW c \in CPU, Acquiring(c), held' = [held EXCEPT ![c] = held[c] + 1]
      PROVE  Abs!AbsNext
  BY <1>2, AcquireStep DEF Abs!AbsNext
<1>3. ASSUME NEW c \in CPU, BeginUnlock(c) PROVE Abs!AbsNext
  <2>1. held[c] > 0 /\ held' = [held EXCEPT ![c] = held[c] - 1]
    BY <1>3 DEF BeginUnlock
  <2> QED
    BY <2>1, ReleaseStep DEF Abs!AbsNext
<1>4. ASSUME NEW c \in CPU, Step(c)
      PROVE  \/ UNCHANGED held
             \/ Acquiring(c) /\ held' = [held EXCEPT ![c] = held[c] + 1]
  BY <1>4 DEF Step, Goto, Acquiring, AcquireGuard, CompareOwner, Deepen,
     ReenterAndReturn, ReleaseGuard, TakeLock, TryFails, RecordOwner,
     CountAndReturn, TestDepth, Disown, FreeLock
<1>5. ASSUME NEW c \in CPU, NEW op \in {"Lock", "Try"}, Begin(c, op)
      PROVE  UNCHANGED held
  BY <1>5 DEF Begin
<1>6. UNCHANGED lockVars => UNCHANGED held
  BY DEF lockVars
<1> QED
  BY <1>1, <1>2, <1>3, <1>4, <1>5, <1>6 DEF LockNext

\* The spin lock implements the reentrant lock its callers rely on, for every
\* set of CPUs and every nesting bound.
THEOREM RefinementCorrect == LockSpec => ImplementsReentrantLock
<1>1. LockInit => Abs!AbsInit
  <2> SUFFICES ASSUME LockInit PROVE Abs!AbsInit
    OBVIOUS
  <2>1. Holder = NoCPU
    BY HolderIsNobody DEF LockInit
  <2> QED
    BY <2>1 DEF Abs!AbsInit
<1>2. LockSpec => []LockTruth
  BY LockTypeCorrect, LockInvariantCorrect, PTL DEF LockTruth
<1> QED
  BY <1>1, <1>2, StepRefines, PTL DEF LockSpec, ImplementsReentrantLock, Abs!AbsSpec
=============================================================================
