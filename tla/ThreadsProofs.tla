---------------------------- MODULE ThreadsProofs ----------------------------
(***************************************************************************)
(* What the operators of Threads keep: the kernel record stays of its type *)
(* and the scheduler's lists stay exact; whom each operator starts, stops, *)
(* blocks or wakes; and that a dispatch goes on with a READY thread of the *)
(* highest level.  The lemmas go from sequences to lists, from lists to    *)
(* thread states, and from those to Run and Wait.                          *)
(***************************************************************************)
EXTENDS Threads, SequenceTheorems, WellFoundedInduction, TLAPS

-----------------------------------------------------------------------------
(* Sequences *)

\* Appending a new element keeps a sequence injective and adds just it.
LEMMA AppendNew ==
  ASSUME NEW S, NEW s \in Seq(S), NEW e \in S, IsInjective(s), ~Contains(s, e)
  PROVE  /\ Append(s, e) \in Seq(S)
         /\ IsInjective(Append(s, e))
         /\ \A x : Contains(Append(s, e), x) <=> Contains(s, x) \/ x = e
<1>1. /\ Append(s, e) \in Seq(S)
      /\ Len(Append(s, e)) = Len(s) + 1
      /\ \A i \in 1 .. Len(s) : Append(s, e)[i] = s[i]
      /\ Append(s, e)[Len(s) + 1] = e
      /\ Len(s) \in Nat
  BY AppendProperties
<1>2. IsInjective(Append(s, e))
  BY <1>1 DEF IsInjective, Contains
<1>3. ASSUME NEW x PROVE Contains(Append(s, e), x) <=> Contains(s, x) \/ x = e
  BY <1>1 DEF Contains
<1> QED
  BY <1>1, <1>2, <1>3

\* Removing at a position closes the gap.
LEMMA RemoveAtProperties ==
  ASSUME NEW S, NEW s \in Seq(S), NEW n \in 1 .. Len(s)
  PROVE  /\ RemoveAt(s, n) \in Seq(S)
         /\ Len(RemoveAt(s, n)) = Len(s) - 1
         /\ \A i \in 1 .. (Len(s) - 1) :
              RemoveAt(s, n)[i] = IF i < n THEN s[i] ELSE s[i + 1]
<1> DEFINE a == SubSeq(s, 1, n - 1)
           b == SubSeq(s, n + 1, Len(s))
<1>1. /\ a \in Seq(S)
      /\ Len(a) = n - 1
      /\ \A i \in 1 .. (n - 1) : a[i] = s[i]
  BY SubSeqProperties
<1>2. /\ b \in Seq(S)
      /\ Len(b) = Len(s) - n
      /\ \A i \in 1 .. (Len(s) - n) : b[i] = s[n + i]
  BY SubSeqProperties
<1>3. /\ a \o b \in Seq(S)
      /\ Len(a \o b) = Len(a) + Len(b)
      /\ \A i \in 1 .. Len(a) + Len(b) :
           (a \o b)[i] = IF i <= Len(a) THEN a[i] ELSE b[i - Len(a)]
  BY <1>1, <1>2, ConcatProperties
<1>4. RemoveAt(s, n) = a \o b
  BY DEF RemoveAt
<1>5. Len(s) \in Nat
  BY LenProperties
<1> HIDE DEF a, b
<1>6. Len(a \o b) = Len(s) - 1
  BY <1>1, <1>2, <1>3, <1>5
<1>7. ASSUME NEW i \in 1 .. (Len(s) - 1)
      PROVE  (a \o b)[i] = IF i < n THEN s[i] ELSE s[i + 1]
  <2>1. CASE i < n
    BY <1>1, <1>2, <1>3, <1>5, <2>1
  <2>2. CASE ~(i < n)
    <3>1. (a \o b)[i] = b[i - (n - 1)]
      BY <1>1, <1>2, <1>3, <1>5, <2>2
    <3>2. i - (n - 1) \in 1 .. (Len(s) - n) /\ n + (i - (n - 1)) = i + 1
      BY <1>5, <2>2
    <3> QED
      BY <1>2, <2>2, <3>1, <3>2
  <2> QED
    BY <2>1, <2>2
<1> QED
  BY <1>3, <1>4, <1>6, <1>7

\* In an injective sequence RemoveFirst removes the element altogether.
LEMMA RemoveFirstProperties ==
  ASSUME NEW S, NEW s \in Seq(S), NEW e, IsInjective(s)
  PROVE  /\ RemoveFirst(s, e) \in Seq(S)
         /\ IsInjective(RemoveFirst(s, e))
         /\ \A x : Contains(RemoveFirst(s, e), x) <=> Contains(s, x) /\ x # e
<1>1. CASE ~Contains(s, e)
  <2>1. RemoveFirst(s, e) = s
    BY <1>1 DEF Contains, RemoveFirst
  <2>2. ASSUME NEW x PROVE Contains(s, x) <=> Contains(s, x) /\ x # e
    BY <1>1
  <2> QED
    BY <2>1, <2>2
<1>2. ASSUME NEW n \in 1 .. Len(s), s[n] = e
      PROVE  /\ RemoveFirst(s, e) \in Seq(S)
             /\ IsInjective(RemoveFirst(s, e))
             /\ \A x : Contains(RemoveFirst(s, e), x) <=> Contains(s, x) /\ x # e
  <2>1. RemoveFirst(s, e) = RemoveAt(s, n)
    <3>1. {i \in 1 .. Len(s) : s[i] = e} = {n}
      BY <1>2 DEF IsInjective
    <3>2. SelectInSeq(s, LAMBDA v : v = e) = Min({n})
      BY <3>1 DEF SelectInSeq
    <3>3. Min({n}) = n
      BY DEF Min
    <3> QED
      BY <1>2, <3>2, <3>3 DEF RemoveFirst
  <2> DEFINE r == RemoveAt(s, n)
  <2>2. /\ r \in Seq(S)
        /\ Len(r) = Len(s) - 1
        /\ \A i \in 1 .. (Len(s) - 1) : r[i] = IF i < n THEN s[i] ELSE s[i + 1]
        /\ Len(s) \in Nat
    <3>1. Len(s) \in Nat
      BY LenProperties
    <3> QED
      BY <3>1, RemoveAtProperties
  <2> HIDE DEF r
  <2>3. IsInjective(r)
    <3>1. \A i, j \in 1 .. Len(s) : s[i] = s[j] => i = j
      BY DEF IsInjective
    <3> DEFINE at(i) == IF i < n THEN i ELSE i + 1
    <3>2. \A i \in 1 .. Len(r) : at(i) \in 1 .. Len(s) /\ r[i] = s[at(i)]
      BY <2>2
    <3>3. \A i, j \in 1 .. Len(r) : at(i) = at(j) => i = j
      BY <2>2
    <3>4. DOMAIN r = 1 .. Len(r)
      BY <2>2
    <3> HIDE DEF at
    <3>5. \A i, j \in 1 .. Len(r) : r[i] = r[j] => i = j
      BY <3>1, <3>2, <3>3
    <3> QED
      BY <3>4, <3>5 DEF IsInjective
  <2>4. ASSUME NEW x PROVE Contains(r, x) <=> Contains(s, x) /\ x # e
    <3>1. ASSUME Contains(r, x) PROVE Contains(s, x) /\ x # e
      <4>1. PICK i \in 1 .. Len(r) : r[i] = x
        BY <3>1 DEF Contains
      <4>2. PICK j \in 1 .. Len(s) : j # n /\ s[j] = x
        <5>1. CASE i < n
          BY <2>2, <4>1, <5>1
        <5>2. CASE i >= n
          <6>1. i + 1 \in 1 .. Len(s) /\ i + 1 # n /\ s[i + 1] = x
            BY <2>2, <4>1, <5>2
          <6> QED
            BY <6>1
        <5> QED
          BY <2>2, <4>1, <5>1, <5>2
      <4>3. s[j] # s[n]
        BY <4>2 DEF IsInjective
      <4> QED
        BY <1>2, <4>2, <4>3 DEF Contains
    <3>2. ASSUME Contains(s, x), x # e PROVE Contains(r, x)
      <4>1. PICK i \in 1 .. Len(s) : s[i] = x
        BY <3>2 DEF Contains
      <4>2. CASE i < n
        <5>1. i \in 1 .. Len(r) /\ r[i] = s[i]
          BY <2>2, <4>1, <4>2
        <5> QED
          BY <4>1, <5>1 DEF Contains
      <4>3. CASE i > n
        <5>1. i - 1 \in 1 .. Len(r) /\ r[i - 1] = s[i]
          BY <2>2, <4>1, <4>3
        <5> QED
          BY <4>1, <5>1 DEF Contains
      <4> QED
        BY <1>2, <3>2, <4>1, <4>2, <4>3
    <3> QED
      BY <3>1, <3>2
  <2> QED
    BY <2>1, <2>2, <2>3, <2>4 DEF r
<1> QED
  BY <1>1, <1>2 DEF Contains

-----------------------------------------------------------------------------
(* The scheduler's lists *)

\* Every thread has a level: priorities below and above the range are clamped.
LEMMA LevelOfType == ASSUME NEW t \in Thread PROVE LevelOf(t) \in Level
<1>1. 100 \div MaxListSize \in Nat \ {0}
  BY ListsAssumption, Z3
<1>2. Priority[t] \div (100 \div MaxListSize) \in Int
  BY <1>1, PriorityAssumption
<1> QED
  BY <1>2, ListsAssumption DEF LevelOf, Level

\* A set of levels that is not empty has a highest one.
LEMMA HighestLevel ==
  ASSUME NEW L, L \subseteq Level, L # {}
  PROVE  Max(L) \in L /\ \A l \in L : Max(L) >= l
<1> DEFINE D == {MaxListSize - 1 - l : l \in L}
<1>1. D \subseteq Nat /\ D # {}
  <2>1. \A l \in L : MaxListSize - 1 - l \in Nat
    BY ListsAssumption DEF Level
  <2>2. PICK l \in L : TRUE
    OBVIOUS
  <2>3. MaxListSize - 1 - l \in D
    BY <2>2
  <2> QED
    BY <2>1, <2>3
<1> DEFINE less == {p \in Nat \X Nat : p[1] < p[2]}
<1>2. IsWellFoundedOn(less, Nat)
  <2>1. less = OpToRel(<, Nat)
    BY DEF OpToRel
  <2> QED
    BY <2>1, NatLessThanWellFounded
<1>3. PICK d \in D : \A e \in D : <<e, d>> \notin less
  <2> HIDE DEF less, D
  <2> QED
    BY <1>1, <1>2, WFMin
<1>4. PICK m \in L : d = MaxListSize - 1 - m
  BY <1>3
<1>5. ASSUME NEW l \in L PROVE m >= l
  <2>1. MaxListSize - 1 - l \in D
    OBVIOUS
  <2>2. ~(MaxListSize - 1 - l < d)
    BY <1>1, <1>3, <2>1
  <2> QED
    BY <1>4, <2>2, ListsAssumption DEF Level
<1> QED
  BY <1>5 DEF Max

\* The next thread is one of the highest level that has one, and is ready.
LEMMA NextThreadProperties ==
  ASSUME NEW lists \in [Level -> Seq(Thread)]
  PROVE  \/ NextThread(lists) = None /\ \A l \in Level : lists[l] = <<>>
         \/ /\ NextThread(lists) \in Thread
            /\ \E l \in Level : /\ Contains(lists[l], NextThread(lists))
                               /\ \A m \in Level : lists[m] # <<>> => l >= m
<1> DEFINE waiting == {l \in Level : lists[l] # <<>>}
<1>1. CASE waiting = {}
  BY <1>1 DEF NextThread
<1>2. CASE waiting # {}
  <2>1. Max(waiting) \in waiting /\ \A l \in waiting : Max(waiting) >= l
    BY <1>2, HighestLevel
  <2> DEFINE s == lists[Max(waiting)]
  <2>2. s \in Seq(Thread) /\ s # <<>>
    BY <2>1
  <2>3. Head(s) \in Thread /\ 1 \in 1 .. Len(s) /\ s[1] = Head(s)
    BY <2>2
  <2>4. NextThread(lists) = Head(s)
    BY <1>2 DEF NextThread
  <2>5. Contains(s, Head(s))
    BY <2>3 DEF Contains
  <2> QED
    BY <2>1, <2>3, <2>4, <2>5
<1> QED
  BY <1>1, <1>2

\* Adding a thread that is not queued adds it to the set the lists hold.
LEMMA ThreadAddedKeeps ==
  ASSUME NEW lists \in [Level -> Seq(Thread)], NEW R, NEW t \in Thread,
         ListsHoldExactly(lists, R), t \notin R
  PROVE  /\ ThreadAdded(lists, t) \in [Level -> Seq(Thread)]
         /\ ListsHoldExactly(ThreadAdded(lists, t), R \cup {t})
<1> DEFINE l0 == LevelOf(t)
           s == lists[l0]
<1>1. l0 \in Level /\ s \in Seq(Thread) /\ IsInjective(s) /\ ~Contains(s, t)
  BY LevelOfType DEF ListsHoldExactly
<1>2. /\ Append(s, t) \in Seq(Thread)
      /\ IsInjective(Append(s, t))
      /\ \A x : Contains(Append(s, t), x) <=> Contains(s, x) \/ x = t
  BY <1>1, AppendNew
<1>3. ThreadAdded(lists, t) = [lists EXCEPT ![l0] = Append(s, t)]
  BY DEF ThreadAdded
<1> HIDE DEF l0
<1>4. l0 = LevelOf(t)
  BY DEF l0
<1> QED
  BY <1>1, <1>2, <1>3, <1>4 DEF ListsHoldExactly

\* Removing a thread, queued or not, takes it out of the set the lists hold.
LEMMA ThreadRemovedKeeps ==
  ASSUME NEW lists \in [Level -> Seq(Thread)], NEW R, NEW t \in Thread,
         ListsHoldExactly(lists, R)
  PROVE  /\ ThreadRemoved(lists, t) \in [Level -> Seq(Thread)]
         /\ ListsHoldExactly(ThreadRemoved(lists, t), R \ {t})
<1> DEFINE after == ThreadRemoved(lists, t)
<1>1. ASSUME NEW l \in Level
      PROVE  /\ after[l] \in Seq(Thread)
             /\ IsInjective(after[l])
             /\ \A x : Contains(after[l], x) <=> Contains(lists[l], x) /\ x # t
  <2>1. lists[l] \in Seq(Thread) /\ IsInjective(lists[l])
    BY DEF ListsHoldExactly
  <2>2. /\ RemoveFirst(lists[l], t) \in Seq(Thread)
        /\ IsInjective(RemoveFirst(lists[l], t))
        /\ \A x : Contains(RemoveFirst(lists[l], t), x)
                  <=> Contains(lists[l], x) /\ x # t
    BY <2>1, RemoveFirstProperties
  <2>3. CASE \E m \in 0 .. (l - 1) : Contains(lists[m], t)
    <3>1. PICK m \in 0 .. (l - 1) : Contains(lists[m], t)
      BY <2>3
    <3>2. m \in Level /\ m # l
      BY ListsAssumption DEF Level
    <3>3. ~Contains(lists[l], t)
      BY <3>1, <3>2 DEF ListsHoldExactly
    <3>4. after[l] = lists[l]
      BY <2>3 DEF ThreadRemoved
    <3> QED
      BY <2>1, <3>3, <3>4
  <2>4. CASE ~(\E m \in 0 .. (l - 1) : Contains(lists[m], t))
    <3>1. after[l] = RemoveFirst(lists[l], t)
      BY <2>4 DEF ThreadRemoved
    <3> QED
      BY <2>2, <3>1
  <2> QED
    BY <2>3, <2>4
<1>2. after = [l \in Level |-> after[l]]
  BY DEF ThreadRemoved
<1> HIDE DEF after
<1>3. after \in [Level -> Seq(Thread)]
  BY <1>1, <1>2
<1>4. ListsHoldExactly(after, R \ {t})
  BY <1>1 DEF ListsHoldExactly
<1> QED
  BY <1>3, <1>4 DEF after

-----------------------------------------------------------------------------
(* Thread states *)

Exact(k) == k \in Kernel /\ QueuesMatchStates(k)

\* The part of the kernel record a thread's transition does not touch.
SameCPU(k, j) ==
  /\ j.curr = k.curr /\ j.idle = k.idle /\ j.serving = k.serving
  /\ j.budget = k.budget /\ j.wait = k.wait

\* Changing a state that is not READY to another one leaves the lists exact.
LEMMA EnterKeeps ==
  ASSUME NEW k, Exact(k), NEW t \in Thread, k.state[t] # "READY",
         NEW s \in State, s # "READY"
  PROVE  /\ Exact(Enter(k, t, s)) /\ SameCPU(k, Enter(k, t, s))
         /\ Enter(k, t, s).state = [k.state EXCEPT ![t] = s]
<1> DEFINE j == Enter(k, t, s)
<1>1. /\ j \in Kernel /\ SameCPU(k, j) /\ j.ready = k.ready
      /\ j.state = [k.state EXCEPT ![t] = s]
  BY DEF Exact, Kernel, SameCPU, Enter
<1>2. ReadyThreads(j) = ReadyThreads(k)
  BY <1>1 DEF ReadyThreads, Exact, Kernel
<1> HIDE DEF j
<1> QED
  BY <1>1, <1>2 DEF Exact, QueuesMatchStates, j

\* Leaving READY for another state takes the thread out of its list.
LEMMA DequeueKeeps ==
  ASSUME NEW k, Exact(k), NEW t \in Thread, NEW s \in State, s # "READY"
  PROVE  /\ Exact(Dequeue(k, t, s)) /\ SameCPU(k, Dequeue(k, t, s))
         /\ Dequeue(k, t, s).state = [k.state EXCEPT ![t] = s]
<1> DEFINE j == Dequeue(k, t, s)
<1>1. k.ready \in [Level -> Seq(Thread)] /\ ListsHoldExactly(k.ready, ReadyThreads(k))
  BY DEF Exact, Kernel, QueuesMatchStates
<1>2. /\ ThreadRemoved(k.ready, t) \in [Level -> Seq(Thread)]
      /\ ListsHoldExactly(ThreadRemoved(k.ready, t), ReadyThreads(k) \ {t})
  BY <1>1, ThreadRemovedKeeps
<1>3. /\ j \in Kernel /\ SameCPU(k, j) /\ j.ready = ThreadRemoved(k.ready, t)
      /\ j.state = [k.state EXCEPT ![t] = s]
  BY <1>2 DEF Exact, Kernel, SameCPU, Dequeue
<1> HIDE DEF j
<1>4. ReadyThreads(j) = ReadyThreads(k) \ {t}
  BY <1>3 DEF ReadyThreads, Exact, Kernel
<1>5. Exact(j)
  BY <1>2, <1>3, <1>4 DEF Exact, QueuesMatchStates
<1> QED
  BY <1>3, <1>5 DEF j

\* Entering READY from another state queues the thread once.
LEMMA EnqueueKeeps ==
  ASSUME NEW k, Exact(k), NEW t \in Thread, k.state[t] # "READY"
  PROVE  /\ Exact(Enqueue(k, t)) /\ SameCPU(k, Enqueue(k, t))
         /\ Enqueue(k, t).state = [k.state EXCEPT ![t] = "READY"]
<1> DEFINE j == Enqueue(k, t)
<1>1. k.ready \in [Level -> Seq(Thread)] /\ ListsHoldExactly(k.ready, ReadyThreads(k))
  BY DEF Exact, Kernel, QueuesMatchStates
<1>2. /\ ThreadAdded(k.ready, t) \in [Level -> Seq(Thread)]
      /\ ListsHoldExactly(ThreadAdded(k.ready, t), ReadyThreads(k) \cup {t})
  <2>1. t \notin ReadyThreads(k)
    BY DEF ReadyThreads
  <2> QED
    BY <1>1, <2>1, ThreadAddedKeeps
<1>3. /\ j \in Kernel /\ SameCPU(k, j) /\ j.ready = ThreadAdded(k.ready, t)
      /\ j.state = [k.state EXCEPT ![t] = "READY"]
  BY <1>2 DEF Exact, Kernel, SameCPU, State, Enqueue
<1> HIDE DEF j
<1>4. ReadyThreads(j) = ReadyThreads(k) \cup {t}
  BY <1>3 DEF ReadyThreads, Exact, Kernel
<1>5. Exact(j)
  BY <1>2, <1>3, <1>4 DEF Exact, QueuesMatchStates
<1> QED
  BY <1>3, <1>5 DEF j

\* Each transition keeps the lists exact and changes one thread's state only.
LEMMA ToReadyKeeps ==
  ASSUME NEW k, Exact(k), NEW t \in Thread
  PROVE  /\ Exact(ToReady(k, t)) /\ SameCPU(k, ToReady(k, t))
         /\ \A u \in Thread \ {t} : ToReady(k, t).state[u] = k.state[u]
         /\ ToReady(k, t).state[t] # "RUNNING"
         /\ k.state[t] \in {"READY", "RUNNING"} => ToReady(k, t).state[t] = "READY"
<1>1. CASE k.state[t] \in {"RUNNING", "INTERRUPTABLE", "UNINTERRUPTABLE"}
  <2> DEFINE j == Enqueue(k, t)
  <2>1. Exact(j) /\ SameCPU(k, j) /\ j.state = [k.state EXCEPT ![t] = "READY"]
    BY <1>1, EnqueueKeeps
  <2>2. ToReady(k, t) = j
    BY <1>1 DEF ToReady
  <2>3. k.state \in [Thread -> State]
    BY DEF Exact, Kernel
  <2> HIDE DEF j
  <2> QED
    BY <2>1, <2>2, <2>3
<1>2. CASE k.state[t] \notin {"RUNNING", "INTERRUPTABLE", "UNINTERRUPTABLE"}
  BY <1>2 DEF ToReady, SameCPU
<1> QED
  BY <1>1, <1>2

\* The thread that is dispatched is READY before and RUNNING after.
LEMMA ToRunKeeps ==
  ASSUME NEW k, Exact(k), NEW t \in Thread
  PROVE  /\ Exact(ToRun(k, t)) /\ SameCPU(k, ToRun(k, t))
         /\ \A u \in Thread \ {t} : ToRun(k, t).state[u] = k.state[u]
         /\ k.state[t] \in {"READY", "RUNNING"} => ToRun(k, t).state[t] = "RUNNING"
<1>1. CASE k.state[t] = "READY"
  <2> DEFINE j == Dequeue(k, t, "RUNNING")
  <2>1. Exact(j) /\ SameCPU(k, j) /\ j.state = [k.state EXCEPT ![t] = "RUNNING"]
    <3>1. "RUNNING" \in State /\ "RUNNING" # "READY"
      BY DEF State
    <3> QED
      BY <3>1, DequeueKeeps
  <2>2. ToRun(k, t) = j
    BY <1>1 DEF ToRun
  <2>3. k.state \in [Thread -> State]
    BY DEF Exact, Kernel
  <2> HIDE DEF j
  <2> QED
    BY <2>1, <2>2, <2>3
<1>2. CASE k.state[t] # "READY"
  BY <1>2 DEF ToRun, SameCPU
<1> QED
  BY <1>1, <1>2

\* A thread that pauses is queued no longer; pausing starts no thread.
LEMMA ToPauseKeeps ==
  ASSUME NEW k, Exact(k), NEW t \in Thread
  PROVE  /\ Exact(ToPause(k, t)) /\ SameCPU(k, ToPause(k, t))
         /\ \A u \in Thread : ToPause(k, t).state[u] = "RUNNING" => k.state[u] = "RUNNING"
<1>1. "INTERRUPTABLE" \in State /\ "INTERRUPTABLE" # "READY"
  BY DEF State
<1>2. k.state \in [Thread -> State]
  BY DEF Exact, Kernel
<1>3. CASE k.state[t] = "READY"
  <2> DEFINE j == Dequeue(k, t, "INTERRUPTABLE")
  <2>1. Exact(j) /\ SameCPU(k, j) /\ j.state = [k.state EXCEPT ![t] = "INTERRUPTABLE"]
    BY <1>1, DequeueKeeps
  <2>2. ToPause(k, t) = j
    BY <1>3 DEF ToPause
  <2> HIDE DEF j
  <2> QED
    BY <1>2, <2>1, <2>2
<1>4. CASE k.state[t] = "RUNNING"
  <2>1. ToPause(k, t) = Enter(k, t, "INTERRUPTABLE")
    BY <1>4 DEF ToPause
  <2>2. /\ Exact(Enter(k, t, "INTERRUPTABLE")) /\ SameCPU(k, Enter(k, t, "INTERRUPTABLE"))
        /\ Enter(k, t, "INTERRUPTABLE").state = [k.state EXCEPT ![t] = "INTERRUPTABLE"]
    BY <1>1, <1>4, EnterKeeps
  <2> QED
    BY <1>2, <2>1, <2>2
<1>5. CASE k.state[t] \notin {"READY", "RUNNING"}
  BY <1>5 DEF ToPause, SameCPU
<1> QED
  BY <1>3, <1>4, <1>5

\* The same for a thread that blocks on a device.
LEMMA ToIOBlockedKeeps ==
  ASSUME NEW k, Exact(k), NEW t \in Thread
  PROVE  /\ Exact(ToIOBlocked(k, t)) /\ SameCPU(k, ToIOBlocked(k, t))
         /\ \A u \in Thread : ToIOBlocked(k, t).state[u] = "RUNNING" => k.state[u] = "RUNNING"
<1>1. "UNINTERRUPTABLE" \in State /\ "UNINTERRUPTABLE" # "READY"
  BY DEF State
<1>2. k.state \in [Thread -> State]
  BY DEF Exact, Kernel
<1>3. CASE k.state[t] = "RUNNING"
  <2>1. ToIOBlocked(k, t) = Enter(k, t, "UNINTERRUPTABLE")
    BY <1>3 DEF ToIOBlocked
  <2>2. /\ Exact(Enter(k, t, "UNINTERRUPTABLE")) /\ SameCPU(k, Enter(k, t, "UNINTERRUPTABLE"))
        /\ Enter(k, t, "UNINTERRUPTABLE").state = [k.state EXCEPT ![t] = "UNINTERRUPTABLE"]
    BY <1>1, <1>3, EnterKeeps
  <2> QED
    BY <1>2, <2>1, <2>2
<1>4. CASE k.state[t] # "RUNNING"
  BY <1>4 DEF ToIOBlocked, SameCPU
<1> QED
  BY <1>3, <1>4

-----------------------------------------------------------------------------
(* The dispatcher.  Good is the invariant of the kernel record: exact      *)
(* lists, and no RUNNING thread but the current one.                       *)

OneRuns(k) == \A t \in Thread : k.state[t] = "RUNNING" => t = k.curr

Good(k) == Exact(k) /\ OneRuns(k)

\* The fields that dispatching leaves alone.
SameIdle(k, j) == j.idle = k.idle /\ j.serving = k.serving /\ j.wait = k.wait

Assign(k, c, b) == [k EXCEPT !.curr = c, !.budget = b]

\* Assigning the fields of the CPU leaves states and lists as they are.
LEMMA AssignKeeps ==
  ASSUME NEW k, Exact(k), NEW c \in Thread \cup {None}, NEW b \in -1 .. Slice
  PROVE  /\ Exact(Assign(k, c, b)) /\ SameIdle(k, Assign(k, c, b))
         /\ Assign(k, c, b).curr = c /\ Assign(k, c, b).state = k.state
         /\ Assign(k, c, b).ready = k.ready
<1> DEFINE j == Assign(k, c, b)
<1>1. /\ j \in Kernel /\ SameIdle(k, j) /\ j.curr = c
      /\ j.state = k.state /\ j.ready = k.ready
  BY DEF Exact, Kernel, SameIdle, Assign
<1> HIDE DEF j
<1>2. Exact(j)
  BY <1>1 DEF Exact, QueuesMatchStates, ReadyThreads
<1> QED
  BY <1>1, <1>2 DEF j

\* The switch leaves the new thread the only one that may be RUNNING.
LEMMA SwitchKeeps ==
  ASSUME NEW k, Exact(k), NEW new \in Thread,
         \A t \in Thread : k.state[t] = "RUNNING" => t \in {new, k.curr}
  PROVE  Good(Switch(k, new)) /\ SameIdle(k, Switch(k, new))
<1> DEFINE yielded == IF k.curr # None /\ k.state[k.curr] = "RUNNING"
                      THEN ToReady(k, k.curr) ELSE k
<1>1. /\ Exact(yielded) /\ SameCPU(k, yielded)
      /\ \A t \in Thread : yielded.state[t] = "RUNNING" => t = new \/ t = k.curr
      /\ k.curr \in Thread /\ k.curr # new => yielded.state[k.curr] # "RUNNING"
  <2>1. CASE k.curr # None /\ k.state[k.curr] = "RUNNING"
    <3>1. k.curr \in Thread
      BY <2>1 DEF Exact, Kernel
    <3>2. yielded = ToReady(k, k.curr)
      BY <2>1
    <3>3. /\ Exact(yielded) /\ SameCPU(k, yielded)
          /\ \A u \in Thread \ {k.curr} : yielded.state[u] = k.state[u]
          /\ yielded.state[k.curr] # "RUNNING"
      BY <3>1, <3>2, ToReadyKeeps
    <3> HIDE DEF yielded
    <3> QED
      BY <3>3
  <2>2. CASE ~(k.curr # None /\ k.state[k.curr] = "RUNNING")
    <3>1. yielded = k
      BY <2>2
    <3> HIDE DEF yielded
    <3> QED
      BY <2>2, <3>1, NoneAssumption DEF SameCPU
  <2> QED
    BY <2>1, <2>2
<1> DEFINE ran == ToRun(yielded, new)
<1>2. /\ Exact(ran) /\ SameCPU(yielded, ran)
      /\ \A u \in Thread \ {new} : ran.state[u] = yielded.state[u]
  <2> HIDE DEF yielded
  <2> QED
    BY <1>1, ToRunKeeps
<1> DEFINE j == Assign(ran, new, Slice)
<1>3. Switch(k, new) = j
  BY DEF Switch, Assign
<1> HIDE DEF yielded, ran
<1>4. Exact(j) /\ SameIdle(ran, j) /\ j.curr = new /\ j.state = ran.state
  <2>1. Slice \in -1 .. Slice /\ new \in Thread \cup {None}
    BY TimeAssumption
  <2> QED
    BY <1>2, <2>1, AssignKeeps
<1> HIDE DEF j
<1>5. OneRuns(j)
  BY <1>1, <1>2, <1>4 DEF OneRuns
<1> QED
  BY <1>1, <1>2, <1>3, <1>4, <1>5 DEF Good, SameIdle, SameCPU

\* Run keeps the invariant, whichever of its returns it takes.
LEMMA RunKeeps ==
  ASSUME NEW k, Good(k)
  PROVE  Good(Run(k)) /\ SameIdle(k, Run(k))
<1> DEFINE next == NextThread(k.ready)
           new == IF next # None THEN next ELSE k.idle
           ready == IF next # None THEN ToRun(k, next) ELSE ToReady(k, new)
<1>1. Exact(k) /\ OneRuns(k) /\ k \in Kernel
  BY DEF Good, Exact
<1>2. next \in Thread \cup {None} /\ new \in Thread \cup {None}
  BY <1>1, NextThreadProperties DEF Kernel
<1>3. CASE ~k.serving \/ k.budget >= 0 \/ new = None
  <2>1. Run(k) = k
    BY <1>3 DEF Run
  <2> QED
    BY <2>1 DEF SameIdle
<1>4. CASE ~(~k.serving \/ k.budget >= 0 \/ new = None)
  <2>1. new \in Thread
    BY <1>2, <1>4
  <2>2. Run(k) = IF new = k.curr THEN ready ELSE Switch(ready, new)
    BY <1>4 DEF Run
  <2>3. /\ Exact(ready) /\ SameCPU(k, ready)
        /\ \A t \in Thread : ready.state[t] = "RUNNING" => t \in {new, k.curr}
    <3>1. CASE next # None
      <4>1. new = next /\ ready = ToRun(k, new)
        BY <3>1
      <4> HIDE DEF next, new, ready
      <4> QED
        BY <1>1, <2>1, <4>1, ToRunKeeps DEF OneRuns
    <3>2. CASE next = None
      <4>1. ready = ToReady(k, new)
        BY <3>2
      <4> HIDE DEF next, new, ready
      <4> QED
        BY <1>1, <2>1, <4>1, ToReadyKeeps DEF OneRuns
    <3> QED
      BY <3>1, <3>2
  <2> HIDE DEF next, new, ready
  <2>4. CASE new = k.curr
    BY <2>2, <2>3, <2>4 DEF Good, OneRuns, SameCPU, SameIdle
  <2>5. CASE new # k.curr
    <3>1. \A t \in Thread : ready.state[t] = "RUNNING" => t \in {new, ready.curr}
      BY <2>3 DEF SameCPU
    <3>2. Good(Switch(ready, new)) /\ SameIdle(ready, Switch(ready, new))
      BY <2>1, <2>3, <3>1, SwitchKeeps
    <3> QED
      BY <2>2, <2>3, <2>5, <3>2 DEF SameCPU, SameIdle
  <2> QED
    BY <2>4, <2>5
<1> QED
  BY <1>3, <1>4

\* A tick keeps the invariant.
LEMMA ClockHandlerKeeps ==
  ASSUME NEW k, Good(k)
  PROVE  Good(ClockHandler(k)) /\ SameIdle(k, ClockHandler(k))
<1> DEFINE left == k.budget - Period
           b == IF left < 0 THEN -1 ELSE left
           j == Assign(k, k.curr, b)
<1>1. k \in Kernel /\ b \in -1 .. Slice
  BY TimeAssumption DEF Good, Exact, Kernel
<1>2. ClockHandler(k) = Run(j)
  <2>1. [k EXCEPT !.budget = b] = j
    BY <1>1 DEF Kernel, Assign
  <2> QED
    BY <2>1 DEF ClockHandler
<1> HIDE DEF b
<1>3. k.curr \in Thread \cup {None}
  BY <1>1 DEF Kernel
<1>4. Exact(j) /\ SameIdle(k, j) /\ j.curr = k.curr /\ j.state = k.state
  BY <1>1, <1>3, AssignKeeps DEF Good
<1> HIDE DEF j
<1>5. Good(j)
  BY <1>4 DEF Good, OneRuns
<1> QED
  BY <1>2, <1>4, <1>5, RunKeeps DEF SameIdle

-----------------------------------------------------------------------------
(* Blocking and waking *)

SetWait(k, o, t) == [k EXCEPT !.wait[o] = t]

\* A waitable object can name any thread or none.
LEMMA SetWaitKeeps ==
  ASSUME NEW k, Good(k), NEW o \in Obj, NEW t \in Thread \cup {None}
  PROVE  Good(SetWait(k, o, t)) /\ SetWait(k, o, t).curr = k.curr
<1> DEFINE j == SetWait(k, o, t)
<1>1. k \in Kernel
  BY DEF Good, Exact
<1>2. /\ j \in Kernel /\ j.curr = k.curr
      /\ j.state = k.state /\ j.ready = k.ready
  BY <1>1 DEF Kernel, SetWait
<1> HIDE DEF j
<1>3. Good(j)
  BY <1>2 DEF Good, Exact, OneRuns, QueuesMatchStates, ReadyThreads
<1> QED
  BY <1>2, <1>3 DEF j

\* A transition that starts no thread keeps the invariant.
LEMMA NothingStarts ==
  ASSUME NEW k, Good(k), NEW j, Exact(j), SameCPU(k, j),
         \A t \in Thread : j.state[t] = "RUNNING" => k.state[t] = "RUNNING"
  PROVE  Good(j)
  BY DEF Good, OneRuns, SameCPU

\* Making a thread ready keeps the invariant.
LEMMA ReadyingKeeps ==
  ASSUME NEW k, Good(k), NEW t \in Thread
  PROVE  Good(ToReady(k, t))
<1> DEFINE j == ToReady(k, t)
<1>1. Exact(k)
  BY DEF Good
<1>2. /\ Exact(j) /\ SameCPU(k, j)
      /\ \A u \in Thread \ {t} : j.state[u] = k.state[u]
      /\ j.state[t] # "RUNNING"
  BY <1>1, ToReadyKeeps
<1> HIDE DEF j
<1>3. \A u \in Thread : j.state[u] = "RUNNING" => k.state[u] = "RUNNING"
  BY <1>2
<1>4. Good(j)
  BY <1>2, <1>3, NothingStarts
<1> QED
  BY <1>4 DEF j

\* Giving up the slice and dispatching keeps the invariant.
LEMMA YieldKeeps ==
  ASSUME NEW k, Good(k)
  PROVE  Good(Run(ExhaustCurrThread(k)))
<1> DEFINE j == Assign(k, k.curr, -1)
<1>1. Exact(k) /\ k \in Kernel
  BY DEF Good, Exact
<1>2. k.curr \in Thread \cup {None} /\ -1 \in -1 .. Slice
  BY <1>1, TimeAssumption DEF Kernel
<1>3. Exact(j) /\ j.curr = k.curr /\ j.state = k.state
  BY <1>1, <1>2, AssignKeeps
<1>4. j = ExhaustCurrThread(k)
  BY <1>1 DEF Kernel, Assign, ExhaustCurrThread
<1> HIDE DEF j
<1>5. Good(j)
  BY <1>3 DEF Good, OneRuns
<1> QED
  BY <1>4, <1>5, RunKeeps

\* The part of WaitableObj::Wait up to the switch keeps the invariant.
LEMMA WaitOnKeeps ==
  ASSUME NEW k, Good(k), NEW o \in Obj, k.curr \in Thread
  PROVE  Good(WaitOn(k, o))
<1> DEFINE j == SetWait(k, o, k.curr)
<1>1. Good(j) /\ j.curr = k.curr
  BY SetWaitKeeps
<1>2. WaitOn(k, o) = Run(ExhaustCurrThread(ToPause(j, k.curr)))
  BY DEF WaitOn, SetWait
<1> HIDE DEF j
<1> DEFINE b == ToPause(j, k.curr)
<1>3. /\ Exact(b) /\ SameCPU(j, b)
      /\ \A t \in Thread : b.state[t] = "RUNNING" => j.state[t] = "RUNNING"
  BY <1>1, ToPauseKeeps DEF Good
<1> HIDE DEF b
<1>4. Good(b)
  BY <1>1, <1>3, NothingStarts
<1>5. Good(Run(ExhaustCurrThread(b)))
  BY <1>4, YieldKeeps
<1> QED
  BY <1>2, <1>5 DEF b

\* The part of WaitableObj::Sleep up to the switch keeps the invariant.
LEMMA SleepOnKeeps ==
  ASSUME NEW k, Good(k), NEW o \in Obj, k.curr \in Thread
  PROVE  Good(SleepOn(k, o))
<1> DEFINE j == SetWait(k, o, k.curr)
<1>1. Good(j) /\ j.curr = k.curr
  BY SetWaitKeeps
<1>2. SleepOn(k, o) = Run(ExhaustCurrThread(ToIOBlocked(j, k.curr)))
  BY DEF SleepOn, SetWait
<1> HIDE DEF j
<1> DEFINE b == ToIOBlocked(j, k.curr)
<1>3. /\ Exact(b) /\ SameCPU(j, b)
      /\ \A t \in Thread : b.state[t] = "RUNNING" => j.state[t] = "RUNNING"
  BY <1>1, ToIOBlockedKeeps DEF Good
<1> HIDE DEF b
<1>4. Good(b)
  BY <1>1, <1>3, NothingStarts
<1>5. Good(Run(ExhaustCurrThread(b)))
  BY <1>4, YieldKeeps
<1> QED
  BY <1>2, <1>5 DEF b

\* The part after the switch keeps the invariant, whatever prev was saved.
LEMMA WaitReturnKeeps ==
  ASSUME NEW k, Good(k), NEW o \in Obj, NEW prev \in Thread \cup {None}
  PROVE  Good(WaitReturn(k, o, prev))
<1> DEFINE j == SetWait(k, o, prev)
<1>1. Good(j)
  BY SetWaitKeeps
<1>2. WaitReturn(k, o, prev) = IF prev # None THEN ToReady(j, prev) ELSE j
  BY DEF WaitReturn, SetWait
<1> HIDE DEF j
<1>3. CASE prev # None
  BY <1>1, <1>2, <1>3, ReadyingKeeps
<1>4. CASE prev = None
  BY <1>1, <1>2, <1>4
<1> QED
  BY <1>3, <1>4

\* Wake keeps the invariant, even when the thread it names waits no longer.
LEMMA WakeKeeps ==
  ASSUME NEW k, Good(k), NEW o \in Obj
  PROVE  Good(Wake(k, o))
<1>1. k.wait[o] \in Thread \cup {None}
  BY DEF Good, Exact, Kernel
<1>2. CASE k.wait[o] # None
  BY <1>1, <1>2, ReadyingKeeps DEF Wake
<1>3. CASE k.wait[o] = None
  BY <1>3 DEF Wake
<1> QED
  BY <1>2, <1>3

-----------------------------------------------------------------------------
(* What the transitions and the dispatcher do with the states of threads.  *)

Runnable == {"RUNNING", "READY"}
Blocked  == {"INTERRUPTABLE", "UNINTERRUPTABLE"}
Alive    == Runnable \cup Blocked

\* A transition changes the state of its thread and of no other one.
LEMMA ToReadyState ==
  ASSUME NEW k \in Kernel, NEW t \in Thread
  PROVE  ToReady(k, t).state =
           [k.state EXCEPT ![t] =
              IF k.state[t] \in {"RUNNING"} \cup Blocked THEN "READY" ELSE k.state[t]]
<1>1. CASE k.state[t] \in {"RUNNING"} \cup Blocked
  BY <1>1 DEF ToReady, Enqueue, Kernel, Blocked
<1>2. CASE k.state[t] \notin {"RUNNING"} \cup Blocked
  BY <1>2 DEF ToReady, Kernel, Blocked
<1> QED
  BY <1>1, <1>2

\* Only a READY thread starts to run.
LEMMA ToRunState ==
  ASSUME NEW k \in Kernel, NEW t \in Thread
  PROVE  ToRun(k, t).state =
           [k.state EXCEPT ![t] =
              IF k.state[t] = "READY" THEN "RUNNING" ELSE k.state[t]]
<1>1. CASE k.state[t] = "READY"
  BY <1>1 DEF ToRun, Dequeue, Kernel
<1>2. CASE k.state[t] # "READY"
  BY <1>2 DEF ToRun, Kernel
<1> QED
  BY <1>1, <1>2

\* A thread that can run is blocked, a blocked one stays so.
LEMMA ToPauseState ==
  ASSUME NEW k \in Kernel, NEW t \in Thread
  PROVE  ToPause(k, t).state =
           [k.state EXCEPT ![t] =
              IF k.state[t] \in Runnable THEN "INTERRUPTABLE" ELSE k.state[t]]
<1>1. CASE k.state[t] = "READY"
  BY <1>1 DEF ToPause, Dequeue, Kernel, Runnable
<1>2. CASE k.state[t] = "RUNNING"
  BY <1>2 DEF ToPause, Enter, Kernel, Runnable
<1>3. CASE k.state[t] \notin Runnable
  BY <1>3 DEF ToPause, Kernel, Runnable
<1> QED
  BY <1>1, <1>2, <1>3 DEF Runnable

\* Only the running thread waits for a device.
LEMMA ToIOBlockedState ==
  ASSUME NEW k \in Kernel, NEW t \in Thread
  PROVE  ToIOBlocked(k, t).state =
           [k.state EXCEPT ![t] =
              IF k.state[t] = "RUNNING" THEN "UNINTERRUPTABLE" ELSE k.state[t]]
<1>1. CASE k.state[t] = "RUNNING"
  BY <1>1 DEF ToIOBlocked, Enter, Kernel
<1>2. CASE k.state[t] # "RUNNING"
  BY <1>2 DEF ToIOBlocked, Kernel
<1> QED
  BY <1>1, <1>2

\* A switch to another thread starts that one, if it is READY, and stops the
\* one that ran; nobody else's state changes.
LEMMA SwitchStates ==
  ASSUME NEW k, Exact(k), NEW new \in Thread, new # k.curr
  PROVE  LET j == Switch(k, new)
         IN  /\ j.curr = new
             /\ j.state[new] = IF k.state[new] = "READY" THEN "RUNNING" ELSE k.state[new]
             /\ \A u \in Thread \ {new} :
                  \/ j.state[u] = k.state[u]
                  \/ j.state[u] = "READY" /\ k.state[u] = "RUNNING"
<1> DEFINE yielded == IF k.curr # None /\ k.state[k.curr] = "RUNNING"
                      THEN ToReady(k, k.curr) ELSE k
           ran == ToRun(yielded, new)
<1>1. k \in Kernel /\ k.curr \in Thread \cup {None} /\ k.state \in [Thread -> State]
  BY DEF Exact, Kernel
<1>2. /\ Exact(yielded)
      /\ yielded.state[new] = k.state[new]
      /\ \A u \in Thread \ {new} :
           \/ yielded.state[u] = k.state[u]
           \/ yielded.state[u] = "READY" /\ k.state[u] = "RUNNING"
  <2>1. CASE k.curr # None /\ k.state[k.curr] = "RUNNING"
    <3>1. k.curr \in Thread /\ yielded = ToReady(k, k.curr)
      BY <1>1, <2>1
    <3>2. Exact(yielded) /\ yielded.state = [k.state EXCEPT ![k.curr] = "READY"]
      BY <1>1, <2>1, <3>1, ToReadyKeeps, ToReadyState
    <3> HIDE DEF yielded
    <3> QED
      BY <1>1, <2>1, <3>1, <3>2
  <2>2. CASE ~(k.curr # None /\ k.state[k.curr] = "RUNNING")
    BY <2>2
  <2> QED
    BY <2>1, <2>2
<1> HIDE DEF yielded
<1>3. yielded \in Kernel /\ yielded.state \in [Thread -> State]
  BY <1>2 DEF Exact, Kernel
<1>4. ran.state = [yielded.state EXCEPT ![new] =
                     IF yielded.state[new] = "READY" THEN "RUNNING" ELSE yielded.state[new]]
  BY <1>3, ToRunState
<1>5. Exact(ran)
  BY <1>2, ToRunKeeps
<1>6. Switch(k, new) = Assign(ran, new, Slice)
  BY DEF Switch, Assign, yielded
<1> HIDE DEF ran
<1>7. Switch(k, new).curr = new /\ Switch(k, new).state = ran.state
  <2>1. Slice \in -1 .. Slice /\ new \in Thread \cup {None}
    BY TimeAssumption
  <2> QED
    BY <1>5, <1>6, <2>1, AssignKeeps
<1>8. /\ ran.state[new] = IF k.state[new] = "READY" THEN "RUNNING" ELSE k.state[new]
      /\ \A u \in Thread \ {new} : ran.state[u] = yielded.state[u]
  BY <1>2, <1>3, <1>4
<1> QED
  BY <1>2, <1>7, <1>8

\* What NextThread finds is READY and of the highest level that has a READY one.
LEMMA NextIsHighest ==
  ASSUME NEW k, Exact(k)
  PROVE  \/ NextThread(k.ready) = None /\ ReadyThreads(k) = {}
         \/ /\ NextThread(k.ready) \in ReadyThreads(k)
            /\ \A t \in ReadyThreads(k) : LevelOf(NextThread(k.ready)) >= LevelOf(t)
<1>1. /\ k.ready \in [Level -> Seq(Thread)]
      /\ ListsHoldExactly(k.ready, ReadyThreads(k))
  BY DEF Exact, Kernel, QueuesMatchStates
<1>2. \A t \in ReadyThreads(k) : LevelOf(t) \in Level /\ k.ready[LevelOf(t)] # <<>>
  <2> SUFFICES ASSUME NEW t \in ReadyThreads(k)
               PROVE  LevelOf(t) \in Level /\ k.ready[LevelOf(t)] # <<>>
    OBVIOUS
  <2>1. t \in Thread /\ LevelOf(t) \in Level
    BY LevelOfType DEF ReadyThreads
  <2>2. Contains(k.ready[LevelOf(t)], t)
    BY <1>1, <2>1 DEF ListsHoldExactly
  <2>3. ~Contains(<<>>, t)
    BY DEF Contains
  <2> QED
    BY <2>1, <2>2, <2>3
<1>3. CASE NextThread(k.ready) = None /\ \A l \in Level : k.ready[l] = <<>>
  BY <1>2, <1>3
<1>4. ASSUME NextThread(k.ready) \in Thread,
             NEW l \in Level, Contains(k.ready[l], NextThread(k.ready)),
             \A m \in Level : k.ready[m] # <<>> => l >= m
      PROVE  /\ NextThread(k.ready) \in ReadyThreads(k)
             /\ \A t \in ReadyThreads(k) : LevelOf(NextThread(k.ready)) >= LevelOf(t)
  <2>1. NextThread(k.ready) \in ReadyThreads(k) /\ LevelOf(NextThread(k.ready)) = l
    BY <1>1, <1>4 DEF ListsHoldExactly
  <2> QED
    BY <1>2, <1>4, <2>1
<1> QED
  BY <1>1, <1>3, <1>4, NextThreadProperties

\* Run does nothing, or ends with a thread that was READY, of the highest level
\* that has any, or with the idle thread if none was.  It blocks nobody.
LEMMA RunDispatches ==
  ASSUME NEW k, Exact(k)
  PROVE  LET j == Run(k)
         IN  \/ /\ j = k
                /\ \/ ~k.serving \/ k.budget >= 0
                   \/ k.idle = None /\ ReadyThreads(k) = {}
             \/ /\ j.curr \in Thread
                /\ \/ /\ j.curr \in ReadyThreads(k)
                      /\ \A t \in ReadyThreads(k) : LevelOf(j.curr) >= LevelOf(t)
                   \/ j.curr = k.idle /\ ReadyThreads(k) = {}
                /\ k.state[j.curr] \in Alive => j.state[j.curr] \in Runnable
                /\ \A u \in Thread :
                     \/ j.state[u] = k.state[u]
                     \/ j.state[u] \in Runnable /\ k.state[u] \in Alive
<1> DEFINE next == NextThread(k.ready)
           new == IF next # None THEN next ELSE k.idle
           ready == IF next # None THEN ToRun(k, next) ELSE ToReady(k, new)
<1> USE DEF Alive, Runnable, Blocked
<1>1. k \in Kernel /\ k.state \in [Thread -> State] /\ k.idle \in Thread \cup {None}
  BY DEF Exact, Kernel
<1>2. \/ next = None /\ ReadyThreads(k) = {} /\ new = k.idle
      \/ /\ next \in Thread /\ next = new /\ next \in ReadyThreads(k)
         /\ \A t \in ReadyThreads(k) : LevelOf(next) >= LevelOf(t)
  BY NextIsHighest, NoneAssumption DEF ReadyThreads
<1>3. CASE ~k.serving \/ k.budget >= 0 \/ new = None
  <2>1. Run(k) = k
    BY <1>3 DEF Run
  <2> QED
    BY <1>2, <1>3, <2>1, NoneAssumption
<1>4. CASE ~(~k.serving \/ k.budget >= 0 \/ new = None)
  <2>1. new \in Thread
    BY <1>1, <1>2, <1>4
  <2>2. Run(k) = IF new = k.curr THEN ready ELSE Switch(ready, new)
    BY <1>4 DEF Run
  <2>3. /\ Exact(ready) /\ SameCPU(k, ready)
        /\ \A u \in Thread \ {new} : ready.state[u] = k.state[u]
        /\ k.state[new] \in Alive => ready.state[new] \in Runnable
        /\ \/ ready.state[new] = k.state[new]
           \/ ready.state[new] \in Runnable /\ k.state[new] \in Alive
    <3>1. CASE next # None
      <4>1. ready = ToRun(k, new) /\ k.state[new] = "READY"
        BY <1>2, <3>1 DEF ReadyThreads
      <4>2. ToRun(k, new).state = [k.state EXCEPT ![new] = "RUNNING"]
        BY <1>1, <2>1, <4>1, ToRunState
      <4>3. Exact(ToRun(k, new)) /\ SameCPU(k, ToRun(k, new))
        BY <2>1, ToRunKeeps
      <4> HIDE DEF next, new, ready
      <4> QED
        BY <1>1, <2>1, <4>1, <4>2, <4>3
    <3>2. CASE next = None
      <4>1. ready = ToReady(k, new)
        BY <3>2
      <4>2. ToReady(k, new).state =
              [k.state EXCEPT ![new] =
                 IF k.state[new] \in {"RUNNING"} \cup Blocked THEN "READY" ELSE k.state[new]]
        BY <1>1, <2>1, ToReadyState
      <4>3. Exact(ToReady(k, new)) /\ SameCPU(k, ToReady(k, new))
        BY <2>1, ToReadyKeeps
      <4> HIDE DEF next, new, ready
      <4>4. /\ \A u \in Thread \ {new} : ready.state[u] = k.state[u]
            /\ ready.state[new] =
                 IF k.state[new] \in {"RUNNING"} \cup Blocked THEN "READY" ELSE k.state[new]
        BY <1>1, <2>1, <4>1, <4>2
      <4> QED
        BY <4>1, <4>3, <4>4
    <3> QED
      BY <3>1, <3>2
  <2>4. \/ /\ new \in ReadyThreads(k)
           /\ \A t \in ReadyThreads(k) : LevelOf(new) >= LevelOf(t)
        \/ new = k.idle /\ ReadyThreads(k) = {}
    BY <1>2
  <2> HIDE DEF next, new, ready
  <2>5. CASE new = k.curr
    BY <2>1, <2>2, <2>3, <2>4, <2>5 DEF SameCPU
  <2>6. CASE new # k.curr
    <3>1. new # ready.curr
      BY <2>3, <2>6 DEF SameCPU
    <3>2. /\ Switch(ready, new).curr = new
          /\ Switch(ready, new).state[new] =
               IF ready.state[new] = "READY" THEN "RUNNING" ELSE ready.state[new]
          /\ \A u \in Thread \ {new} :
               \/ Switch(ready, new).state[u] = ready.state[u]
               \/ Switch(ready, new).state[u] = "READY" /\ ready.state[u] = "RUNNING"
      BY <2>1, <2>3, <3>1, SwitchStates
    <3>3. Run(k) = Switch(ready, new)
      BY <2>2, <2>6
    <3> QED
      BY <2>1, <2>3, <2>4, <3>2, <3>3
  <2> QED
    BY <2>5, <2>6
<1> QED
  BY <1>3, <1>4

-----------------------------------------------------------------------------
(* What a step of the kernel does besides keeping its record good.         *)

\* There is an idle thread to fall back to, and the current thread may run.
Fallback(k) == k.idle # None /\ k.serving /\ k.state[k.idle] \in Alive

CurrentRuns(k) == k.curr # None => k.state[k.curr] \in Runnable

\* Threads stay alive; a kernel with an idle thread that runs one that may run
\* does so afterwards; a switch is to the highest level.
Proceeds(k, j) ==
  /\ j.idle = k.idle /\ j.serving = k.serving
  /\ \A u \in Thread : k.state[u] \in Alive => j.state[u] \in Alive
  /\ Fallback(k) /\ CurrentRuns(k) => CurrentRuns(j)
  /\ j.curr # k.curr =>
       \A t \in Thread \ {k.curr} : k.state[t] = "READY" => LevelOf(j.curr) >= LevelOf(t)

\* Run goes on like this from any record d that differs from k in what the
\* current thread gave up.
LEMMA RunProceeds ==
  ASSUME NEW k, Good(k), NEW d, Exact(d),
         d.curr = k.curr, d.idle = k.idle, d.serving = k.serving,
         \A u \in Thread \ {k.curr} : d.state[u] = k.state[u],
         \A u \in Thread : k.state[u] \in Alive => d.state[u] \in Alive,
         d.budget = -1 \/ d.state = k.state
  PROVE  Proceeds(k, Run(d))
<1> DEFINE j == Run(d)
<1>1. /\ k.state \in [Thread -> State] /\ d.state \in [Thread -> State]
      /\ k.idle \in Thread \cup {None} /\ k.curr \in Thread \cup {None}
  BY DEF Good, Exact, Kernel
<1>2. \A t \in Thread \ {k.curr} : k.state[t] = "READY" => t \in ReadyThreads(d)
  BY DEF ReadyThreads
<1>3. Good(d)
  BY DEF Good, OneRuns
<1>4. CASE /\ j = d
           /\ \/ ~d.serving \/ d.budget >= 0
              \/ d.idle = None /\ ReadyThreads(d) = {}
  <2>1. Fallback(k) => d.state = k.state
    BY <1>4, SMT DEF Fallback
  <2>2. Fallback(k) /\ CurrentRuns(k) => CurrentRuns(j)
    BY <1>4, <2>1 DEF CurrentRuns
  <2> QED
    BY <1>4, <2>2 DEF Proceeds
<1>5. CASE /\ j.curr \in Thread
           /\ \/ /\ j.curr \in ReadyThreads(d)
                 /\ \A t \in ReadyThreads(d) : LevelOf(j.curr) >= LevelOf(t)
              \/ j.curr = d.idle /\ ReadyThreads(d) = {}
           /\ d.state[j.curr] \in Alive => j.state[j.curr] \in Runnable
           /\ \A u \in Thread :
                \/ j.state[u] = d.state[u]
                \/ j.state[u] \in Runnable /\ d.state[u] \in Alive
  <2>1. j.idle = k.idle /\ j.serving = k.serving
    BY <1>3, RunKeeps DEF SameIdle
  <2>2. \A u \in Thread : k.state[u] \in Alive => j.state[u] \in Alive
    BY <1>5 DEF Alive
  <2>3. Fallback(k) => d.state[j.curr] \in Alive
    BY <1>5 DEF Fallback, ReadyThreads, Alive, Runnable
  <2>4. Fallback(k) => CurrentRuns(j)
    BY <1>5, <2>3 DEF CurrentRuns
  <2>5. \A t \in Thread \ {k.curr} : k.state[t] = "READY" => LevelOf(j.curr) >= LevelOf(t)
    BY <1>2, <1>5
  <2> HIDE DEF j
  <2>6. Proceeds(k, j)
    BY <2>1, <2>2, <2>4, <2>5 DEF Proceeds
  <2> QED
    BY <2>6 DEF j
<1> HIDE DEF j
<1> QED
  BY <1>4, <1>5, RunDispatches DEF j

\* A tick does.
LEMMA ClockHandlerProceeds ==
  ASSUME NEW k, Good(k)
  PROVE  Proceeds(k, ClockHandler(k))
<1> DEFINE left == k.budget - Period
           b == IF left < 0 THEN -1 ELSE left
           d == [k EXCEPT !.budget = b]
<1>1. Exact(k) /\ k \in Kernel /\ b \in -1 .. Slice
  BY TimeAssumption DEF Good, Exact, Kernel
<1>2. /\ d \in Kernel /\ d.state = k.state /\ d.ready = k.ready
      /\ d.curr = k.curr /\ d.idle = k.idle /\ d.serving = k.serving
  BY <1>1 DEF Kernel
<1>3. ClockHandler(k) = Run(d)
  BY DEF ClockHandler
<1> HIDE DEF d
<1>4. Exact(d)
  BY <1>1, <1>2 DEF Exact, QueuesMatchStates, ReadyThreads
<1> QED
  BY <1>2, <1>3, <1>4, RunProceeds

\* What a thread that blocks has done when it calls Run: it is named by the
\* object, may not run, and has no slice left.
GivesUp(k, d, o, s) ==
  /\ Exact(d) /\ d.curr = k.curr /\ d.idle = k.idle /\ d.serving = k.serving
  /\ d.budget = -1 /\ d.wait = [k.wait EXCEPT ![o] = k.curr]
  /\ \A u \in Thread \ {k.curr} : d.state[u] = k.state[u]
  /\ d.state[k.curr] \in {k.state[k.curr], s}
  /\ k.state[k.curr] = "RUNNING" => d.state[k.curr] = s

\* Blocking the current thread and ending its slice is all the two waits do before
\* they dispatch.
LEMMA GivingUp ==
  ASSUME NEW k, Exact(k), NEW o \in Obj, k.curr \in Thread, NEW s,
         NEW p, Exact(p), SameCPU(SetWait(k, o, k.curr), p),
         \A u \in Thread \ {k.curr} : p.state[u] = k.state[u],
         p.state[k.curr] \in {k.state[k.curr], s},
         k.state[k.curr] = "RUNNING" => p.state[k.curr] = s
  PROVE  GivesUp(k, ExhaustCurrThread(p), o, s)
<1> DEFINE d == ExhaustCurrThread(p)
<1>1. p \in Kernel /\ k \in Kernel /\ -1 \in -1 .. Slice
  BY TimeAssumption DEF Exact
<1>2. /\ d \in Kernel /\ d.state = p.state /\ d.ready = p.ready /\ d.budget = -1
      /\ d.curr = p.curr /\ d.idle = p.idle /\ d.serving = p.serving /\ d.wait = p.wait
  BY <1>1 DEF Kernel, ExhaustCurrThread
<1>3. /\ p.curr = k.curr /\ p.idle = k.idle /\ p.serving = k.serving
      /\ p.wait = [k.wait EXCEPT ![o] = k.curr]
  BY <1>1 DEF SameCPU, SetWait, Kernel
<1> HIDE DEF d
<1>4. Exact(d)
  BY <1>2 DEF Exact, QueuesMatchStates, ReadyThreads
<1>5. GivesUp(k, d, o, s)
  BY <1>2, <1>3, <1>4 DEF GivesUp
<1> QED
  BY <1>5 DEF d

\* Wait is Run after its thread gave up the CPU, and so is Sleep.
LEMMA WaitOnRuns ==
  ASSUME NEW k, Good(k), NEW o \in Obj, k.curr \in Thread
  PROVE  \E d : GivesUp(k, d, o, "INTERRUPTABLE") /\ WaitOn(k, o) = Run(d)
<1> DEFINE j == SetWait(k, o, k.curr)
           p == ToPause(j, k.curr)
<1>1. Good(j) /\ Exact(j) /\ j \in Kernel /\ Exact(k) /\ k \in Kernel
  BY SetWaitKeeps DEF Good, Exact
<1>2. j.state = k.state /\ k.state \in [Thread -> State]
  BY <1>1 DEF SetWait, Kernel
<1>3. WaitOn(k, o) = Run(ExhaustCurrThread(p))
  BY DEF WaitOn, SetWait
<1> HIDE DEF j
<1>4. Exact(p) /\ SameCPU(j, p)
  BY <1>1, ToPauseKeeps
<1>5. p.state = [j.state EXCEPT ![k.curr] =
        IF j.state[k.curr] \in Runnable THEN "INTERRUPTABLE" ELSE j.state[k.curr]]
  BY <1>1, ToPauseState
<1> HIDE DEF p
<1>6. /\ \A u \in Thread \ {k.curr} : p.state[u] = k.state[u]
      /\ p.state[k.curr] \in {k.state[k.curr], "INTERRUPTABLE"}
      /\ k.state[k.curr] = "RUNNING" => p.state[k.curr] = "INTERRUPTABLE"
  BY <1>2, <1>5 DEF Runnable
<1>7. GivesUp(k, ExhaustCurrThread(p), o, "INTERRUPTABLE")
  BY <1>1, <1>4, <1>6, GivingUp DEF j
<1> QED
  BY <1>3, <1>7

\* Sleep is a dispatch from such a record, as Wait is.
LEMMA SleepOnRuns ==
  ASSUME NEW k, Good(k), NEW o \in Obj, k.curr \in Thread
  PROVE  \E d : GivesUp(k, d, o, "UNINTERRUPTABLE") /\ SleepOn(k, o) = Run(d)
<1> DEFINE j == SetWait(k, o, k.curr)
           p == ToIOBlocked(j, k.curr)
<1>1. Good(j) /\ Exact(j) /\ j \in Kernel /\ Exact(k) /\ k \in Kernel
  BY SetWaitKeeps DEF Good, Exact
<1>2. j.state = k.state /\ k.state \in [Thread -> State]
  BY <1>1 DEF SetWait, Kernel
<1>3. SleepOn(k, o) = Run(ExhaustCurrThread(p))
  BY DEF SleepOn, SetWait
<1> HIDE DEF j
<1>4. Exact(p) /\ SameCPU(j, p)
  BY <1>1, ToIOBlockedKeeps
<1>5. p.state = [j.state EXCEPT ![k.curr] =
        IF j.state[k.curr] = "RUNNING" THEN "UNINTERRUPTABLE" ELSE j.state[k.curr]]
  BY <1>1, ToIOBlockedState
<1> HIDE DEF p
<1>6. /\ \A u \in Thread \ {k.curr} : p.state[u] = k.state[u]
      /\ p.state[k.curr] \in {k.state[k.curr], "UNINTERRUPTABLE"}
      /\ k.state[k.curr] = "RUNNING" => p.state[k.curr] = "UNINTERRUPTABLE"
  BY <1>2, <1>5
<1>7. GivesUp(k, ExhaustCurrThread(p), o, "UNINTERRUPTABLE")
  BY <1>1, <1>4, <1>6, GivingUp DEF j
<1> QED
  BY <1>3, <1>7

\* Blocking goes on with a thread of the highest level.
LEMMA BlockingProceeds ==
  ASSUME NEW k, Good(k), NEW o \in Obj, k.curr \in Thread
  PROVE  Proceeds(k, WaitOn(k, o)) /\ Proceeds(k, SleepOn(k, o))
<1>1. ASSUME NEW s \in Blocked, NEW d, GivesUp(k, d, o, s)
      PROVE  Proceeds(k, Run(d))
  <2>1. \A u \in Thread : k.state[u] \in Alive => d.state[u] \in Alive
    BY <1>1 DEF GivesUp, Alive
  <2> QED
    BY <1>1, <2>1, RunProceeds DEF GivesUp
<1> QED
  BY <1>1, WaitOnRuns, SleepOnRuns DEF Blocked

\* Making a thread ready switches to nobody.
LEMMA ReadyingProceeds ==
  ASSUME NEW k, Good(k), NEW t \in Thread
  PROVE  Proceeds(k, ToReady(k, t))
<1>1. Exact(k) /\ k \in Kernel /\ k.state \in [Thread -> State] /\ k.curr \in Thread \cup {None}
  BY DEF Good, Exact, Kernel
<1>2. SameCPU(k, ToReady(k, t))
  BY <1>1, ToReadyKeeps
<1>3. \A u \in Thread :
        \/ ToReady(k, t).state[u] = k.state[u]
        \/ k.state[u] \in Alive /\ ToReady(k, t).state[u] = "READY"
  <2>1. ToReady(k, t).state = [k.state EXCEPT ![t] =
          IF k.state[t] \in {"RUNNING"} \cup Blocked THEN "READY" ELSE k.state[t]]
    BY <1>1, ToReadyState
  <2> QED
    BY <1>1, <2>1 DEF Alive, Runnable
<1> QED
  BY <1>1, <1>2, <1>3 DEF Proceeds, SameCPU, CurrentRuns, Alive, Runnable

\* Returning from Wait and waking switch to nobody either.
LEMMA WakingProceeds ==
  ASSUME NEW k, Good(k), NEW o \in Obj, NEW prev \in Thread \cup {None}
  PROVE  Proceeds(k, WaitReturn(k, o, prev)) /\ Proceeds(k, Wake(k, o))
<1> DEFINE j == SetWait(k, o, prev)
<1>1. k \in Kernel
  BY DEF Good, Exact
<1>2. Good(j) /\ j.curr = k.curr
  BY SetWaitKeeps
<1>3. j.state = k.state /\ j.idle = k.idle /\ j.serving = k.serving
  BY <1>1 DEF SetWait, Kernel
<1>4. WaitReturn(k, o, prev) = IF prev # None THEN ToReady(j, prev) ELSE j
  BY DEF WaitReturn, SetWait
<1> HIDE DEF j
<1>5. Proceeds(k, WaitReturn(k, o, prev))
  <2>1. CASE prev # None
    <3>1. Proceeds(j, ToReady(j, prev))
      BY <1>2, <2>1, ReadyingProceeds
    <3> QED
      BY <1>2, <1>3, <1>4, <2>1, <3>1 DEF Proceeds, Fallback, CurrentRuns
  <2>2. CASE prev = None
    BY <1>2, <1>3, <1>4, <2>2 DEF Proceeds, CurrentRuns
  <2> QED
    BY <2>1, <2>2
<1>6. Proceeds(k, Wake(k, o))
  <2>1. k.wait[o] \in Thread \cup {None}
    BY <1>1 DEF Kernel
  <2>2. CASE k.wait[o] # None
    BY <2>1, <2>2, ReadyingProceeds DEF Wake
  <2>3. CASE k.wait[o] = None
    BY <2>3 DEF Wake, Proceeds
  <2> QED
    BY <2>2, <2>3
<1> QED
  BY <1>5, <1>6

-----------------------------------------------------------------------------
(* Nobody but the thread that blocks falls asleep, and who is woken is not. *)

\* From k to j no thread but those in B changed its state to a blocked one.
NobodyBlocks(k, j, B) ==
  \A u \in Thread \ B : j.state[u] = k.state[u] \/ j.state[u] \in Runnable

\* A tick blocks nobody and leaves the objects as they are.
LEMMA ClockBlocksNobody ==
  ASSUME NEW k, Good(k)
  PROVE  NobodyBlocks(k, ClockHandler(k), {}) /\ ClockHandler(k).wait = k.wait
<1> DEFINE left == k.budget - Period
           b == IF left < 0 THEN -1 ELSE left
           d == [k EXCEPT !.budget = b]
<1>1. Exact(k) /\ k \in Kernel /\ b \in -1 .. Slice
  BY TimeAssumption DEF Good, Exact, Kernel
<1>2. d \in Kernel /\ d.state = k.state /\ d.ready = k.ready
  BY <1>1 DEF Kernel
<1>3. ClockHandler(k) = Run(d)
  BY DEF ClockHandler
<1> HIDE DEF d
<1>4. Exact(d)
  BY <1>1, <1>2 DEF Exact, QueuesMatchStates, ReadyThreads
<1>5. \A u \in Thread : Run(d).state[u] = d.state[u] \/ Run(d).state[u] \in Runnable
  BY <1>4, RunDispatches
<1>6. SameIdle(k, ClockHandler(k))
  BY ClockHandlerKeeps
<1> QED
  BY <1>2, <1>3, <1>5, <1>6 DEF NobodyBlocks, SameIdle

\* Wait blocks the thread that calls it and writes its name to the object.
LEMMA WaitOnBlocksOne ==
  ASSUME NEW k, Good(k), NEW o \in Obj, k.curr \in Thread
  PROVE  /\ NobodyBlocks(k, WaitOn(k, o), {k.curr})
         /\ WaitOn(k, o).wait = [k.wait EXCEPT ![o] = k.curr]
<1>1. PICK d : GivesUp(k, d, o, "INTERRUPTABLE") /\ WaitOn(k, o) = Run(d)
  BY WaitOnRuns
<1>2. Good(d)
  <2>1. \A u \in Thread : d.state[u] = "RUNNING" => u = d.curr
    BY <1>1 DEF GivesUp, Good, OneRuns
  <2> QED
    BY <1>1, <2>1 DEF GivesUp, Good, OneRuns
<1>3. SameIdle(d, Run(d))
  BY <1>2, RunKeeps
<1>4. \A u \in Thread : Run(d).state[u] = d.state[u] \/ Run(d).state[u] \in Runnable
  BY <1>1, RunDispatches DEF GivesUp
<1> QED
  BY <1>1, <1>3, <1>4 DEF GivesUp, NobodyBlocks, SameIdle

\* A thread made ready is not blocked, and nobody becomes so.
LEMMA ReadyingBlocksNobody ==
  ASSUME NEW k, Good(k), NEW t \in Thread
  PROVE  /\ NobodyBlocks(k, ToReady(k, t), {})
         /\ ToReady(k, t).state[t] \notin Blocked
         /\ SameCPU(k, ToReady(k, t))
<1>1. Exact(k) /\ k \in Kernel /\ k.state \in [Thread -> State]
  BY DEF Good, Exact, Kernel
<1>2. ToReady(k, t).state = [k.state EXCEPT ![t] =
        IF k.state[t] \in {"RUNNING"} \cup Blocked THEN "READY" ELSE k.state[t]]
  BY <1>1, ToReadyState
<1>3. SameCPU(k, ToReady(k, t))
  BY <1>1, ToReadyKeeps
<1> QED
  BY <1>1, <1>2, <1>3 DEF NobodyBlocks, Runnable, Blocked

\* Returning from Wait restores what the object held, and blocks nobody.
LEMMA WaitReturnBlocksNobody ==
  ASSUME NEW k, Good(k), NEW o \in Obj, NEW prev \in Thread \cup {None}
  PROVE  /\ NobodyBlocks(k, WaitReturn(k, o, prev), {})
         /\ WaitReturn(k, o, prev).wait = [k.wait EXCEPT ![o] = prev]
         /\ WaitReturn(k, o, prev).curr = k.curr
<1> DEFINE j == SetWait(k, o, prev)
<1>1. Good(j) /\ j.curr = k.curr
  BY SetWaitKeeps
<1>2. j.state = k.state /\ j.wait = [k.wait EXCEPT ![o] = prev]
  BY DEF SetWait, Good, Exact, Kernel
<1>3. WaitReturn(k, o, prev) = IF prev # None THEN ToReady(j, prev) ELSE j
  BY DEF WaitReturn, SetWait
<1> HIDE DEF j
<1>4. CASE prev # None
  <2>1. NobodyBlocks(j, ToReady(j, prev), {}) /\ SameCPU(j, ToReady(j, prev))
    BY <1>1, <1>4, ReadyingBlocksNobody
  <2> QED
    BY <1>1, <1>2, <1>3, <1>4, <2>1 DEF NobodyBlocks, SameCPU
<1>5. CASE prev = None
  BY <1>1, <1>2, <1>3, <1>5 DEF NobodyBlocks
<1> QED
  BY <1>4, <1>5

\* Waking blocks nobody, and the thread the object names is not blocked after it.
LEMMA WakeBlocksNobody ==
  ASSUME NEW k, Good(k), NEW o \in Obj
  PROVE  /\ NobodyBlocks(k, Wake(k, o), {})
         /\ \A t \in Thread : k.wait[o] = t => Wake(k, o).state[t] \notin Blocked
         /\ Wake(k, o).wait = k.wait
<1>1. k.wait[o] \in Thread \cup {None}
  BY DEF Good, Exact, Kernel
<1>2. CASE k.wait[o] # None
  <2>1. Wake(k, o) = ToReady(k, k.wait[o]) /\ k.wait[o] \in Thread
    BY <1>1, <1>2 DEF Wake
  <2> QED
    BY <2>1, ReadyingBlocksNobody DEF SameCPU
<1>3. CASE k.wait[o] = None
  BY <1>3, NoneAssumption DEF Wake, NobodyBlocks
<1> QED
  BY <1>2, <1>3
=============================================================================
