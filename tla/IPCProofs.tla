----------------------------- MODULE IPCProofs -----------------------------
(***************************************************************************)
(* Proofs about message passing, for any threads, priorities, payloads and *)
(* pairs of threads that talk to each other: messages are passed as        *)
(* Channels promises, and no wake-up is lost.  What the thread layer does  *)
(* comes from the lemmas of ThreadsProofs.                                 *)
(***************************************************************************)
EXTENDS IPC, ThreadsProofs

-----------------------------------------------------------------------------
(* Calls *)

IsSend(call) == call.op = "SendMessageTo"

IsReceive(call) == call.op \in {"ReceiveFrom", "ReceiveAll"}

\* What kinds of calls there are.
LEMMA CallShapes ==
  ASSUME NEW t \in Thread, NEW call \in Calls(t)
  PROVE  \/ /\ IsSend(call) /\ ~IsReceive(call)
            /\ call.peer \in Thread /\ call.msg \in Payload
            /\ \E x \in Sends : x[1] = t /\ x[2] = call.peer
         \/ /\ IsReceive(call) /\ ~IsSend(call)
            /\ call.op = "ReceiveFrom" => call.peer \in Thread
<1>1. CASE \E s \in Sends : /\ s[1] = t
                            /\ call = [op |-> "SendMessageTo", peer |-> s[2], msg |-> s[3]]
  <2>1. PICK s \in Sends : /\ s[1] = t
                           /\ call = [op |-> "SendMessageTo", peer |-> s[2], msg |-> s[3]]
    BY <1>1
  <2>2. s[2] \in Thread /\ s[3] \in Payload
    BY SendsAssumption
  <2> QED
    BY <2>1, <2>2 DEF IsSend, IsReceive
<1>2. CASE \E s \in Sends : call = [op |-> "ReceiveFrom", peer |-> s[1]]
  <2>1. PICK s \in Sends : call = [op |-> "ReceiveFrom", peer |-> s[1]]
    BY <1>2
  <2>2. s[1] \in Thread
    BY SendsAssumption
  <2> QED
    BY <2>1, <2>2 DEF IsSend, IsReceive
<1>3. CASE call \in [op : {"ReceiveAll"}]
  BY <1>3 DEF IsSend, IsReceive
<1> QED
  BY <1>1, <1>2, <1>3 DEF Calls

\* A set of threads that is not empty has a least pid.
LEMMA LeastPid ==
  ASSUME NEW S, S \subseteq Thread, S # {}
  PROVE  Min(S) \in S
<1> DEFINE less == {p \in Nat \X Nat : p[1] < p[2]}
<1>1. IsWellFoundedOn(less, Nat)
  <2>1. less = OpToRel(<, Nat)
    BY DEF OpToRel
  <2> QED
    BY <2>1, NatLessThanWellFounded
<1>2. S \subseteq Nat
  BY ThreadAssumption
<1>3. PICK m \in S : \A e \in S : <<e, m>> \notin less
  <2> HIDE DEF less
  <2> QED
    BY <1>1, <1>2, WFMin
<1>4. ASSUME NEW e \in S PROVE m <= e
  <2>1. e \in Nat /\ m \in Nat
    BY <1>2
  <2>2. <<e, m>> \in less <=> e < m
    BY <2>1
  <2>3. ~(e < m)
    BY <1>3, <2>2
  <2> QED
    BY <2>1, <2>3
<1> QED
  BY <1>4 DEF Min

-----------------------------------------------------------------------------
(* The types, and what an attempt of a call does.                          *)

Queues ==
  /\ msgMap \in [Thread -> [Thread -> Seq(Payload)]]
  /\ \A d, s \in Thread : Len(msgMap[d][s]) <= 2

Frames ==
  /\ frame \in [Thread -> {None} \cup Frame]
  /\ \A t \in Thread : frame[t] # None => frame[t].call \in Calls(t)

Types == Good(k) /\ Queues /\ Frames /\ received \in [Thread -> {None} \cup Message]

\* Thread t, in a kernel that is as its call or its return from Wait left it.
Attempt(t, call, kernel) ==
  /\ t \in Thread /\ call \in Calls(t)
  /\ Good(kernel) /\ kernel.curr = t
  /\ \/ frame[t] = None /\ kernel = k
     \/ /\ frame[t] # None /\ call = frame[t].call
        /\ kernel = WaitReturn(k, frame[t].obj, frame[t].prev)
  /\ Continue(t, call, kernel)

\* It blocks because the queue is full, or because there is no message for it,
Blocks(t, call, kernel) ==
  \/ /\ IsSend(call) /\ Len(msgMap[call.peer][t]) = 2
     /\ Block(t, WaitSend(call.peer), call, kernel)
  \/ /\ IsReceive(call)
     /\ \A s \in Thread : msgMap[t][s] # <<>> => call.op = "ReceiveFrom" /\ call.peer # s
     /\ Block(t, WaitReceive(t), call, kernel)

\* or it sends,
Delivers(t, call, kernel) ==
  /\ IsSend(call) /\ Len(msgMap[call.peer][t]) <= 1
  /\ msgMap' = [msgMap EXCEPT ![call.peer][t] = Append(@, call.msg)]
  /\ k' = Wake(kernel, WaitReceive(call.peer))
  /\ frame' = [frame EXCEPT ![t] = None]
  /\ received' = received

\* or it receives from s.
Receives(t, call, kernel, s) ==
  /\ IsReceive(call) /\ s \in Thread /\ msgMap[t][s] # <<>>
  /\ \E b \in {"first", "second"} :
       received' = [received EXCEPT ![t] =
         [from |-> s, msg |-> Head(msgMap[t][s]), at |-> "first", buffer |-> b]]
  /\ msgMap' = [msgMap EXCEPT ![t][s] = Tail(@)]
  /\ k' = Wake(kernel, WaitSend(t))
  /\ frame' = [frame EXCEPT ![t] = None]

\* An attempt blocks, sends or receives.
LEMMA AttemptCases ==
  ASSUME Types, NEW t \in Thread, NEW call, NEW kernel, Attempt(t, call, kernel)
  PROVE  \/ Blocks(t, call, kernel)
         \/ Delivers(t, call, kernel)
         \/ \E s \in Thread : Receives(t, call, kernel, s)
<1>1. call \in Calls(t) /\ Continue(t, call, kernel)
  BY DEF Attempt
<1>2. CASE IsSend(call) /\ SendMessageTo(t, call, kernel)
  <2>1. call.peer \in Thread
    BY <1>1, <1>2, CallShapes DEF IsSend, IsReceive
  <2>2. Len(msgMap[call.peer][t]) \in Nat /\ Len(msgMap[call.peer][t]) <= 2
    <3>1. PICK d \in Thread : d = call.peer
      BY <2>1
    <3>2. msgMap[d][t] \in Seq(Payload) /\ Len(msgMap[d][t]) <= 2
      BY DEF Types, Queues
    <3>3. Len(msgMap[d][t]) \in Nat
      BY <3>2, LenProperties
    <3> QED
      BY <3>1, <3>2, <3>3
  <2>3. CASE ~ReceiveMessage(t, call.peer)
    <3>1. Len(msgMap[call.peer][t]) = 2
      <4> DEFINE n == Len(msgMap[call.peer][t])
      <4>1. n \in Nat /\ n <= 2
        BY <2>2
      <4>2. ~(n <= 1)
        BY <2>3 DEF ReceiveMessage
      <4> HIDE DEF n
      <4>3. n = 2
        BY <4>1, <4>2
      <4> QED
        BY <4>3 DEF n
    <3>2. Block(t, WaitSend(call.peer), call, kernel)
      BY <1>2, <2>3 DEF SendMessageTo
    <3> QED
      BY <1>2, <3>1, <3>2 DEF Blocks
  <2>4. CASE ReceiveMessage(t, call.peer)
    BY <1>2, <2>4 DEF SendMessageTo, ReceiveMessage, Delivers, Finish
  <2> QED
    BY <2>3, <2>4
<1>3. CASE call.op = "ReceiveFrom" /\ ReceiveFrom(t, call, kernel)
  <2>1. call.peer \in Thread /\ IsReceive(call)
    BY <1>1, <1>3, CallShapes DEF IsSend, IsReceive
  <2> QED
    BY <1>3, <2>1 DEF ReceiveFrom, Blocks, Receives, Extract, Finish
<1>4. CASE call.op = "ReceiveAll" /\ ReceiveAll(t, call, kernel)
  <2> DEFINE sources == {s \in Thread : msgMap[t][s] # <<>>}
  <2>1. IsReceive(call)
    BY <1>4 DEF IsReceive
  <2>2. CASE sources = {}
    <3>1. Block(t, WaitReceive(t), call, kernel)
      BY <1>4, <2>2 DEF ReceiveAll
    <3> QED
      BY <2>1, <2>2, <3>1 DEF Blocks
  <2>3. CASE sources # {}
    <3>1. Min(sources) \in Thread /\ msgMap[t][Min(sources)] # <<>>
      <4>1. sources \subseteq Thread
        OBVIOUS
      <4>2. Min(sources) \in sources
        <5> HIDE DEF sources
        <5> QED
          BY <2>3, <4>1, LeastPid
      <4> QED
        BY <4>2
    <3>2. Extract(t, Min(sources), "first", kernel)
      BY <1>4, <2>3 DEF ReceiveAll
    <3> HIDE DEF sources
    <3> QED
      BY <2>1, <3>1, <3>2 DEF Extract, Finish, Receives
  <2> QED
    BY <2>2, <2>3
<1> QED
  BY <1>1, <1>2, <1>3, <1>4 DEF Continue, IsSend

\* A step is a tick or an attempt.
LEMMA Steps ==
  ASSUME Types, Next
  PROVE  \/ Tick
         \/ \E t \in Thread : \E call, kernel : Attempt(t, call, kernel)
<1>1. ASSUME NEW t \in Thread, Call(t)
      PROVE  \E call, kernel : Attempt(t, call, kernel)
  BY <1>1 DEF Call, Attempt, Types
<1>2. ASSUME NEW t \in Thread, Return(t)
      PROVE  \E call, kernel : Attempt(t, call, kernel)
  <2> DEFINE kernel == WaitReturn(k, frame[t].obj, frame[t].prev)
  <2>1. frame[t] # None /\ k.curr = t /\ Continue(t, frame[t].call, kernel)
    BY <1>2 DEF Return
  <2>2. frame[t] \in Frame /\ frame[t].call \in Calls(t)
    BY <2>1 DEF Types, Frames
  <2>3. frame[t].obj \in Obj /\ frame[t].prev \in Thread \cup {None}
    BY <2>2 DEF Frame
  <2>4. Good(kernel) /\ kernel.curr = t
    BY <2>1, <2>3, WaitReturnKeeps, WaitReturnBlocksNobody DEF Types
  <2> QED
    BY <2>1, <2>2, <2>4 DEF Attempt
<1> QED
  BY <1>1, <1>2 DEF Next

-----------------------------------------------------------------------------
(* The types are kept.                                                     *)

\* A bounded sequence is a sequence.
LEMMA BoundedIsSeq ==
  ASSUME NEW S, NEW n, NEW q \in BoundedSeq(S, n)
  PROVE  q \in Seq(S)
<1>1. PICK m \in 0 .. n : q \in [1 .. m -> S]
  BY DEF BoundedSeq, SeqOf
<1>2. m \in Nat
  BY <1>1
<1> QED
  BY <1>1, <1>2

\* After boot the state has its types.
LEMMA InitTypes == ASSUME Init PROVE Types
<1>1. PICK lists \in [Level -> BoundedSeq(Thread, Cardinality(Thread))] :
        /\ ListsHoldExactly(lists, Thread \ {Idle})
        /\ k = [InitialKernel EXCEPT
                  !.state = [t \in Thread |-> IF t = Idle THEN "RUNNING" ELSE "READY"],
                  !.ready = lists,
                  !.curr = Idle, !.idle = Idle, !.serving = TRUE, !.budget = Slice]
  BY DEF Init
<1>2. lists \in [Level -> Seq(Thread)]
  BY BoundedIsSeq
<1>3. /\ k.state = [t \in Thread |-> IF t = Idle THEN "RUNNING" ELSE "READY"]
      /\ k.ready = lists /\ k.curr = Idle
  BY <1>1 DEF InitialKernel
<1>4. k \in Kernel
  <2>1. Slice \in -1 .. Slice /\ Idle \in Thread
    BY TimeAssumption, ThreadAssumption
  <2>2. [t \in Thread |-> IF t = Idle THEN "RUNNING" ELSE "READY"] \in [Thread -> State]
    BY DEF State
  <2>3. [o \in Obj |-> None] \in [Obj -> Thread \cup {None}]
    OBVIOUS
  <2> QED
    BY <1>1, <1>2, <2>1, <2>2, <2>3 DEF InitialKernel, Kernel
<1>5. ReadyThreads(k) = Thread \ {Idle}
  BY <1>3 DEF ReadyThreads
<1>6. Good(k)
  <2>1. QueuesMatchStates(k)
    BY <1>1, <1>3, <1>5 DEF QueuesMatchStates
  <2>2. OneRuns(k)
    BY <1>3 DEF OneRuns
  <2> QED
    BY <1>4, <2>1, <2>2 DEF Good, Exact
<1>7. Queues
  <2>1. <<>> \in Seq(Payload) /\ Len(<<>>) = 0
    OBVIOUS
  <2> QED
    BY <2>1 DEF Init, Queues
<1>8. Frames /\ received \in [Thread -> {None} \cup Message]
  BY DEF Init, Frames
<1> QED
  BY <1>6, <1>7, <1>8 DEF Types

\* An attempt that blocks leaves a frame with the call and what Wait saved.
LEMMA BlockTypes ==
  ASSUME Types, NEW t \in Thread, NEW call, NEW kernel, NEW o \in Obj,
         Attempt(t, call, kernel), Block(t, o, call, kernel)
  PROVE  /\ Types'
         /\ frame' = [frame EXCEPT ![t] = [obj |-> o, prev |-> kernel.wait[o], call |-> call]]
         /\ frame'[t] # None
<1>1. Good(kernel) /\ kernel.curr = t /\ call \in Calls(t)
  BY DEF Attempt
<1>2. Good(k')
  BY <1>1, WaitOnKeeps DEF Block
<1>3. kernel.wait[o] \in Thread \cup {None}
  BY <1>1 DEF Good, Exact, Kernel
<1> DEFINE f == [obj |-> o, prev |-> kernel.wait[o], call |-> call]
<1>4. f \in Frame
  BY <1>1, <1>3 DEF Frame
<1>5. f # None
  BY <1>4, NullAssumption
<1>6. frame' = [frame EXCEPT ![t] = f]
  BY DEF Block
<1>7. Frames'
  <2>1. f.call = call
    OBVIOUS
  <2> HIDE DEF f
  <2> QED
    BY <1>1, <1>4, <1>6, <2>1 DEF Types, Frames
<1>8. Queues' /\ received' \in [Thread -> {None} \cup Message]
  BY DEF Block, Types, Queues
<1> QED
  BY <1>2, <1>5, <1>6, <1>7, <1>8 DEF Types, Frames

\* A call that returns leaves no frame.
LEMMA FinishTypes ==
  ASSUME Types, NEW t \in Thread, frame' = [frame EXCEPT ![t] = None]
  PROVE  Frames'
BY DEF Types, Frames

\* A step of the queues that changes one cell.
LEMMA CellTypes ==
  ASSUME Types, NEW d \in Thread, NEW s \in Thread, NEW q \in Seq(Payload), Len(q) <= 2,
         msgMap' = [msgMap EXCEPT ![d][s] = q]
  PROVE  /\ Queues'
         /\ \A e, r \in Thread : msgMap'[e][r] = IF e = d /\ r = s THEN q ELSE msgMap[e][r]
<1>1. msgMap \in [Thread -> [Thread -> Seq(Payload)]]
  BY DEF Types, Queues
<1>2. \A e, r \in Thread : msgMap'[e][r] = IF e = d /\ r = s THEN q ELSE msgMap[e][r]
  BY <1>1
<1>3. msgMap' \in [Thread -> [Thread -> Seq(Payload)]]
  BY <1>1
<1>4. ASSUME NEW e \in Thread, NEW r \in Thread PROVE Len(msgMap'[e][r]) <= 2
  BY <1>2 DEF Types, Queues
<1> QED
  BY <1>2, <1>3, <1>4 DEF Queues

\* A message sent joins the end of its queue.
LEMMA DeliversTypes ==
  ASSUME Types, NEW t \in Thread, NEW call, NEW kernel,
         Attempt(t, call, kernel), Delivers(t, call, kernel)
  PROVE  /\ Types'
         /\ call.peer \in Thread /\ call.msg \in Payload
         /\ \A e, r \in Thread : msgMap'[e][r] =
              IF e = call.peer /\ r = t THEN Append(msgMap[e][r], call.msg) ELSE msgMap[e][r]
<1>1. Good(kernel) /\ call \in Calls(t) /\ IsSend(call)
  BY DEF Attempt, Delivers
<1>2. call.peer \in Thread /\ call.msg \in Payload
  BY <1>1, CallShapes
<1>3. PICK d \in Thread : d = call.peer
  BY <1>2
<1> DEFINE q == Append(msgMap[d][t], call.msg)
<1>4. msgMap[d][t] \in Seq(Payload) /\ Len(msgMap[d][t]) <= 1
  BY <1>3 DEF Delivers, Types, Queues
<1>5. q \in Seq(Payload) /\ Len(q) <= 2
  <2>1. q \in Seq(Payload) /\ Len(q) = Len(msgMap[d][t]) + 1
    BY <1>2, <1>4, AppendProperties
  <2>2. Len(msgMap[d][t]) \in Nat
    BY <1>4, LenProperties
  <2> DEFINE n == Len(msgMap[d][t])
  <2> QED
    <3>1. n \in Nat /\ n <= 1 /\ Len(q) = n + 1
      BY <1>4, <2>1, <2>2
    <3> HIDE DEF n
    <3>2. Len(q) <= 2
      BY <3>1
    <3> QED
      BY <2>1, <3>2
<1>6. msgMap' = [msgMap EXCEPT ![d][t] = q]
  BY <1>3 DEF Delivers
<1>7. Queues' /\ \A e, r \in Thread : msgMap'[e][r] = IF e = d /\ r = t THEN q ELSE msgMap[e][r]
  <2> HIDE DEF q
  <2> QED
    BY <1>5, <1>6, CellTypes
<1>8. WaitReceive(d) \in Obj
  BY ObjAssumption
<1>9. Good(k')
  BY <1>1, <1>3, <1>8, WakeKeeps DEF Delivers
<1>10. Frames' /\ received' \in [Thread -> {None} \cup Message]
  BY FinishTypes DEF Delivers, Types
<1> QED
  BY <1>2, <1>3, <1>7, <1>9, <1>10 DEF Types

\* A message received is the head of its queue, and leaves it.
LEMMA ReceivesTypes ==
  ASSUME Types, NEW t \in Thread, NEW call, NEW kernel, NEW s \in Thread,
         Attempt(t, call, kernel), Receives(t, call, kernel, s)
  PROVE  /\ Types'
         /\ \A e, r \in Thread : msgMap'[e][r] =
              IF e = t /\ r = s THEN Tail(msgMap[e][r]) ELSE msgMap[e][r]
         /\ received'[t] # None
         /\ received'[t].from = s /\ received'[t].msg = Head(msgMap[t][s])
         /\ \A d \in Thread \ {t} : received'[d] = received[d]
<1>1. Good(kernel)
  BY DEF Attempt
<1>2. msgMap[t][s] \in Seq(Payload) /\ msgMap[t][s] # <<>> /\ Len(msgMap[t][s]) <= 2
  BY DEF Receives, Types, Queues
<1> DEFINE q == Tail(msgMap[t][s])
<1>3. /\ Head(msgMap[t][s]) \in Payload /\ q \in Seq(Payload)
      /\ Len(q) = Len(msgMap[t][s]) - 1
  BY <1>2, HeadTailProperties
<1>4. Len(q) <= 2
  <2> DEFINE n == Len(msgMap[t][s])
  <2>1. n \in Nat /\ n <= 2 /\ Len(q) = n - 1
    BY <1>2, <1>3, LenProperties
  <2> HIDE DEF n
  <2> QED
    BY <2>1
<1>5. msgMap' = [msgMap EXCEPT ![t][s] = q]
  BY DEF Receives
<1>6. Queues' /\ \A e, r \in Thread : msgMap'[e][r] = IF e = t /\ r = s THEN q ELSE msgMap[e][r]
  <2> HIDE DEF q
  <2> QED
    BY <1>3, <1>4, <1>5, CellTypes
<1>7. WaitSend(t) \in Obj
  BY ObjAssumption
<1>8. Good(k')
  BY <1>1, <1>7, WakeKeeps DEF Receives
<1>9. Frames'
  BY FinishTypes DEF Receives
<1>10. PICK b \in {"first", "second"} :
         received' = [received EXCEPT ![t] =
           [from |-> s, msg |-> Head(msgMap[t][s]), at |-> "first", buffer |-> b]]
  BY DEF Receives
<1> DEFINE m == [from |-> s, msg |-> Head(msgMap[t][s]), at |-> "first", buffer |-> b]
<1>11. m \in Message
  BY <1>3 DEF Message
<1>12. m # None
  BY <1>11, NullAssumption
<1>13. m.from = s /\ m.msg = Head(msgMap[t][s])
  OBVIOUS
<1>14. received' = [received EXCEPT ![t] = m] /\ received \in [Thread -> {None} \cup Message]
  BY <1>10 DEF Types
<1>15. /\ received' \in [Thread -> {None} \cup Message] /\ received'[t] = m
       /\ \A d \in Thread \ {t} : received'[d] = received[d]
  <2> HIDE DEF m
  <2> QED
    BY <1>11, <1>14
<1> QED
  BY <1>6, <1>8, <1>9, <1>12, <1>13, <1>15 DEF Types

\* Blocking is on an object that exists.
LEMMA BlocksOn ==
  ASSUME Types, NEW t \in Thread, NEW call, NEW kernel,
         Attempt(t, call, kernel), Blocks(t, call, kernel)
  PROVE  \E o \in Obj :
           /\ Block(t, o, call, kernel)
           /\ o = IF IsSend(call) THEN WaitSend(call.peer) ELSE WaitReceive(t)
<1>1. call \in Calls(t)
  BY DEF Attempt
<1>2. CASE IsSend(call)
  <2>1. call.peer \in Thread /\ ~IsReceive(call)
    BY <1>1, <1>2, CallShapes
  <2>2. WaitSend(call.peer) \in Obj
    BY <2>1, ObjAssumption
  <2> QED
    BY <1>2, <2>1, <2>2 DEF Blocks
<1>3. CASE ~IsSend(call)
  <2>1. WaitReceive(t) \in Obj
    BY ObjAssumption
  <2> QED
    BY <1>3, <2>1 DEF Blocks
<1> QED
  BY <1>2, <1>3

\* Whatever a call does, the state keeps its types.
LEMMA AttemptTypes ==
  ASSUME Types, NEW t \in Thread, NEW call, NEW kernel, Attempt(t, call, kernel)
  PROVE  Types'
<1>1. CASE Blocks(t, call, kernel)
  BY <1>1, BlocksOn, BlockTypes
<1>2. CASE Delivers(t, call, kernel)
  BY <1>2, DeliversTypes
<1>3. CASE \E s \in Thread : Receives(t, call, kernel, s)
  BY <1>3, ReceivesTypes
<1> QED
  BY <1>1, <1>2, <1>3, AttemptCases

\* Every step keeps the types.
LEMMA TypesStep == Types /\ [Next]_vars => Types'
<1> SUFFICES ASSUME Types, [Next]_vars PROVE Types'
  OBVIOUS
<1>1. CASE UNCHANGED vars
  BY <1>1 DEF vars, Types, Queues, Frames
<1>2. CASE Tick
  <2>1. Good(k')
    BY <1>2, ClockHandlerKeeps DEF Tick, Types
  <2> QED
    BY <1>2, <2>1 DEF Tick, Types, Queues, Frames
<1>3. CASE \E t \in Thread : \E call, kernel : Attempt(t, call, kernel)
  BY <1>3, AttemptTypes
<1> QED
  BY <1>1, <1>2, <1>3, Steps

\* The state has its types, for any threads, payloads and pairs of threads that
\* talk: no queue ever holds more than two messages (Thread.cpp 173).
THEOREM TypeCorrect == Spec => []TypeOK
<1>1. Init => Types
  BY InitTypes
<1>2. Types /\ [Next]_vars => Types'
  BY TypesStep
<1>3. Types => TypeOK
  BY DEF Types, TypeOK, Good, Exact, Queues, Frames
<1> QED
  BY <1>1, <1>2, <1>3, PTL DEF Spec

-----------------------------------------------------------------------------
(* Messages are passed as Channels promises: a channel is a queue with the *)
(* message a blocked sender has still to put there behind it.              *)

Pending(d, s) == IF Sending(s, d) THEN <<frame[s].call.msg>> ELSE <<>>

Cell(d, s) == msgMap[d][s] \o Pending(d, s)

\* Queues, pending messages and channels are sequences of payloads.
LEMMA CellType ==
  ASSUME Types, NEW d \in Thread, NEW s \in Thread
  PROVE  /\ msgMap[d][s] \in Seq(Payload) /\ Pending(d, s) \in Seq(Payload)
         /\ Cell(d, s) \in Seq(Payload)
<1>1. msgMap[d][s] \in Seq(Payload)
  BY DEF Types, Queues
<1>2. Pending(d, s) \in Seq(Payload)
  <2>1. CASE Sending(s, d)
    <3>1. frame[s].call \in Calls(s) /\ IsSend(frame[s].call)
      BY <2>1 DEF Sending, Types, Frames, IsSend
    <3>2. frame[s].call.msg \in Payload
      BY <3>1, CallShapes
    <3> QED
      BY <2>1, <3>2 DEF Pending
  <2>2. CASE ~Sending(s, d)
    BY <2>2 DEF Pending
  <2> QED
    BY <2>1, <2>2
<1> QED
  BY <1>1, <1>2, ConcatProperties DEF Cell

\* What the calling thread has pending before its attempt.
LEMMA PendingBefore ==
  ASSUME Types, NEW t \in Thread, NEW call, NEW kernel, Attempt(t, call, kernel),
         NEW d \in Thread
  PROVE  Pending(d, t) = IF frame[t] # None /\ IsSend(call) /\ call.peer = d
                         THEN <<call.msg>> ELSE <<>>
BY DEF Pending, Sending, Attempt, IsSend

\* The threads that do not run have pending what they had.
LEMMA PendingOfOthers ==
  ASSUME Types, NEW t \in Thread, NEW f, frame' = [frame EXCEPT ![t] = f],
         NEW d \in Thread, NEW s \in Thread \ {t}
  PROVE  Pending(d, s)' = Pending(d, s)
<1>1. frame'[s] = frame[s]
  BY DEF Types, Frames
<1> QED
  BY <1>1 DEF Pending, Sending

\* A call that has returned has nothing pending.
LEMMA PendingOfFinished ==
  ASSUME Types, NEW t \in Thread, frame' = [frame EXCEPT ![t] = None], NEW d \in Thread
  PROVE  Pending(d, t)' = <<>>
<1>1. frame'[t] = None
  BY DEF Types, Frames
<1> QED
  BY <1>1 DEF Pending, Sending

\* What changes nothing in a channel and hands nothing over is no step.
LEMMA StutterMaps ==
  ASSUME \A d, s \in Thread : Cell(d, s)' = Cell(d, s), received' = received
  PROVE  UNCHANGED Chan!chanVars
BY DEF Chan!chanVars, Cell, Pending

\* A matrix of threads, and one with another entry at one place.
Matrix(f) == f = [d \in Thread |-> [s \in Thread |-> f[d][s]]]

WithEntry(f, d, s, v) == [f EXCEPT ![d][s] = v]

Differ(f, g, d, s, v) ==
  \A e, r \in Thread : g[e][r] = IF e = d /\ r = s THEN v ELSE f[e][r]

\* Matrices that differ in one entry are the same but for that entry.
LEMMA OneCellChanges ==
  ASSUME NEW f, NEW g, Matrix(f), Matrix(g),
         NEW d \in Thread, NEW s \in Thread, NEW v, Differ(f, g, d, s, v)
  PROVE  g = WithEntry(f, d, s, v)
<1> USE DEF Matrix, WithEntry, Differ
<1> DEFINE h == [f EXCEPT ![d][s] = v]
<1>1. DOMAIN f = Thread /\ DOMAIN g = Thread
  OBVIOUS
<1>2. \A e \in Thread : /\ DOMAIN f[e] = Thread /\ DOMAIN g[e] = Thread
                   /\ f[e] = [r \in Thread |-> f[e][r]] /\ g[e] = [r \in Thread |-> g[e][r]]
  OBVIOUS
<1>3. h = [e \in Thread |-> IF e = d THEN [f[d] EXCEPT ![s] = v] ELSE f[e]]
  BY <1>1
<1>4. ASSUME NEW e \in Thread PROVE g[e] = h[e]
  <2>1. CASE e = d
    <3>1. h[e] = [f[d] EXCEPT ![s] = v]
      BY <1>3, <2>1
    <3>2. [f[d] EXCEPT ![s] = v] = [r \in Thread |-> IF r = s THEN v ELSE f[d][r]]
      BY <1>2
    <3>3. g[e] = [r \in Thread |-> IF r = s THEN v ELSE f[d][r]]
      BY <1>2, <2>1
    <3> QED
      BY <3>1, <3>2, <3>3
  <2>2. CASE e # d
    <3>1. h[e] = f[e]
      BY <1>3, <2>2
    <3>2. g[e] = [r \in Thread |-> f[e][r]]
      BY <1>2, <2>2
    <3> QED
      BY <1>2, <3>1, <3>2
  <2> QED
    BY <2>1, <2>2
<1> HIDE DEF h
<1>5. g = h
  BY <1>1, <1>3, <1>4
<1> QED
  BY <1>5 DEF h

\* A message that joins one channel is a step of Channels,
LEMMA SubmitMaps ==
  ASSUME NEW s \in Thread, NEW d \in Thread, NEW m \in Payload,
         Len(Cell(d, s)) < 3,
         \A e, r \in Thread : Cell(e, r)' = IF e = d /\ r = s
                                            THEN Append(Cell(e, r), m) ELSE Cell(e, r),
         received' = received
  PROVE  Chan!ChanNext
<1> DEFINE c == [e \in Thread |-> [r \in Thread |->
                  msgMap[e][r] \o (IF Sending(r, e) THEN <<frame[r].call.msg>> ELSE <<>>)]]
           h == [e \in Thread |->
                  IF received[e] = None THEN None ELSE <<received[e].from, received[e].msg>>]
<1>1. Chan!Submit(s, d, m) <=> /\ Len(c[d][s]) < 3
                               /\ c' = [c EXCEPT ![d][s] = Append(c[d][s], m)]
                               /\ UNCHANGED h
  BY Zenon DEF Chan!Submit
<1>2. \A e, r \in Thread : c[e][r] = Cell(e, r)
  BY DEF Cell, Pending
<1>3. \A e, r \in Thread : c'[e][r] = Cell(e, r)'
  BY DEF Cell, Pending
<1>4. c = [e \in Thread |-> [r \in Thread |-> c[e][r]]]
  BY Zenon
<1>5. c' = [e \in Thread |-> [r \in Thread |-> c'[e][r]]]
  BY Zenon
<1>6. UNCHANGED h
  OBVIOUS
<1> HIDE DEF c, h
<1>7. \A e, r \in Thread : c'[e][r] = IF e = d /\ r = s THEN Append(c[d][s], m) ELSE c[e][r]
  <2> TAKE e, r \in Thread
  <2>1. c'[e][r] = Cell(e, r)' /\ c[e][r] = Cell(e, r) /\ c[d][s] = Cell(d, s)
    BY <1>2, <1>3
  <2>2. Cell(e, r)' = IF e = d /\ r = s THEN Append(Cell(e, r), m) ELSE Cell(e, r)
    OBVIOUS
  <2> QED
    BY <2>1, <2>2
<1>8. c' = [c EXCEPT ![d][s] = Append(c[d][s], m)]
  <2>1. PICK f, g, v : f = c /\ g = c' /\ v = Append(c[d][s], m)
    OBVIOUS
  <2>2. Matrix(f) /\ Matrix(g) /\ Differ(f, g, d, s, v)
    BY <1>4, <1>5, <1>7, <2>1 DEF Matrix, Differ
  <2>3. g = WithEntry(f, d, s, v)
    BY <2>2, OneCellChanges
  <2> QED
    BY <2>1, <2>3 DEF WithEntry
<1>9. Len(c[d][s]) < 3
  BY <1>2
<1>10. Chan!Submit(s, d, m)
  BY <1>1, <1>6, <1>8, <1>9
<1> QED
  BY <1>10 DEF Chan!ChanNext

\* and so is one that leaves a channel for the thread at its end.
LEMMA DeliverMaps ==
  ASSUME NEW s \in Thread, NEW d \in Thread, Cell(d, s) # <<>>,
         \A e, r \in Thread : Cell(e, r)' = IF e = d /\ r = s
                                            THEN Tail(Cell(e, r)) ELSE Cell(e, r),
         received'[d] # None, received'[d].from = s, received'[d].msg = Head(Cell(d, s)),
         \A e \in Thread \ {d} : received'[e] = received[e]
  PROVE  Chan!ChanNext
<1> DEFINE c == [e \in Thread |-> [r \in Thread |->
                  msgMap[e][r] \o (IF Sending(r, e) THEN <<frame[r].call.msg>> ELSE <<>>)]]
           h == [e \in Thread |->
                  IF received[e] = None THEN None ELSE <<received[e].from, received[e].msg>>]
<1>1. Chan!Deliver(s, d) <=> /\ c[d][s] # <<>>
                             /\ h' = [h EXCEPT ![d] = <<s, Head(c[d][s])>>]
                             /\ c' = [c EXCEPT ![d][s] = Tail(c[d][s])]
  BY Zenon DEF Chan!Deliver
<1>2. \A e, r \in Thread : c[e][r] = Cell(e, r)
  BY DEF Cell, Pending
<1>3. \A e, r \in Thread : c'[e][r] = Cell(e, r)'
  BY DEF Cell, Pending
<1>4. c = [e \in Thread |-> [r \in Thread |-> c[e][r]]]
  BY Zenon
<1>5. c' = [e \in Thread |-> [r \in Thread |-> c'[e][r]]]
  BY Zenon
<1>6. h' = [h EXCEPT ![d] = <<s, Head(c[d][s])>>]
  <2> DEFINE v == <<s, Head(c[d][s])>>
  <2>1. h = [e \in Thread |-> h[e]] /\ h' = [e \in Thread |-> h'[e]]
    BY Zenon
  <2>2. h'[d] = <<received'[d].from, received'[d].msg>>
    OBVIOUS
  <2>3. \A e \in Thread \ {d} : h'[e] = h[e]
    OBVIOUS
  <2>4. received'[d].msg = Head(c[d][s])
    BY <1>2
  <2> HIDE DEF c, h
  <2>5. h'[d] = v
    BY <2>2, <2>4
  <2> HIDE DEF v
  <2>6. h' = [h EXCEPT ![d] = v]
    BY <2>1, <2>3, <2>5
  <2> QED
    BY <2>6 DEF v
<1> HIDE DEF c, h
<1>7. \A e, r \in Thread : c'[e][r] = IF e = d /\ r = s THEN Tail(c[d][s]) ELSE c[e][r]
  <2> TAKE e, r \in Thread
  <2>1. c'[e][r] = Cell(e, r)' /\ c[e][r] = Cell(e, r) /\ c[d][s] = Cell(d, s)
    BY <1>2, <1>3
  <2>2. Cell(e, r)' = IF e = d /\ r = s THEN Tail(Cell(e, r)) ELSE Cell(e, r)
    OBVIOUS
  <2> QED
    BY <2>1, <2>2
<1>8. c' = [c EXCEPT ![d][s] = Tail(c[d][s])]
  <2>1. PICK f, g, v : f = c /\ g = c' /\ v = Tail(c[d][s])
    OBVIOUS
  <2>2. Matrix(f) /\ Matrix(g) /\ Differ(f, g, d, s, v)
    BY <1>4, <1>5, <1>7, <2>1 DEF Matrix, Differ
  <2>3. g = WithEntry(f, d, s, v)
    BY <2>2, OneCellChanges
  <2> QED
    BY <2>1, <2>3 DEF WithEntry
<1>9. c[d][s] # <<>>
  BY <1>2
<1>10. Chan!Deliver(s, d)
  BY <1>1, <1>6, <1>8, <1>9
<1> QED
  BY <1>10 DEF Chan!ChanNext

\* A call that blocks for the first time submits its message, one that blocks
\* again and a receive that blocks change no channel.
LEMMA BlocksMaps ==
  ASSUME Types, NEW t \in Thread, NEW call, NEW kernel,
         Attempt(t, call, kernel), Blocks(t, call, kernel)
  PROVE  Chan!ChanNext \/ UNCHANGED Chan!chanVars
<1>1. PICK o \in Obj : Block(t, o, call, kernel)
  BY BlocksOn
<1> DEFINE f == [obj |-> o, prev |-> kernel.wait[o], call |-> call]
<1>2. frame' = [frame EXCEPT ![t] = f] /\ frame'[t] # None /\ f.call = call
  BY <1>1, BlockTypes
<1> HIDE DEF f
<1>3. frame'[t] = f
  BY <1>2 DEF Types, Frames
<1>4. msgMap' = msgMap /\ received' = received
  BY <1>1 DEF Block
<1>5. \A d \in Thread : Pending(d, t)' = IF IsSend(call) /\ call.peer = d
                                         THEN <<call.msg>> ELSE <<>>
  BY <1>2, <1>3 DEF Pending, Sending, IsSend
<1>6. \A d \in Thread : \A s \in Thread \ {t} : Cell(d, s)' = Cell(d, s)
  BY <1>2, <1>4, PendingOfOthers DEF Cell
<1>7. CASE IsSend(call) /\ frame[t] = None
  <2>1. call \in Calls(t)
    BY DEF Attempt
  <2>2. PICK d \in Thread : d = call.peer
    BY <1>7, <2>1, CallShapes
  <2>3. PICK m \in Payload : m = call.msg
    BY <1>7, <2>1, CallShapes
  <2>4. \A e \in Thread : Cell(e, t) = msgMap[e][t]
    BY <1>7, PendingBefore, CellType, ConcatEmptySeq DEF Cell
  <2>5. Len(Cell(d, t)) < 3
    <3>1. ~IsReceive(call)
      BY <1>7, <2>1, CallShapes
    <3>2. Len(msgMap[d][t]) = 2
      BY <3>1, <2>2 DEF Blocks
    <3>3. Len(Cell(d, t)) = 2
      BY <2>4, <3>2
    <3> QED
      BY <3>3
  <2>6. Cell(d, t)' = Append(Cell(d, t), m)
    <3>1. Cell(d, t)' = msgMap[d][t] \o <<m>>
      BY <1>4, <1>5, <1>7, <2>2, <2>3 DEF Cell
    <3> QED
      BY <2>4, <3>1, CellType, AppendIsConcat
  <2>7. \A e \in Thread \ {d} : Cell(e, t)' = Cell(e, t)
    BY <1>4, <1>5, <1>7, <2>2, PendingBefore DEF Cell
  <2>8. \A e, r \in Thread : Cell(e, r)' = IF e = d /\ r = t
                                           THEN Append(Cell(e, r), m) ELSE Cell(e, r)
    BY <1>6, <2>6, <2>7
  <2> QED
    BY <1>4, <2>5, <2>8, SubmitMaps
<1>8. CASE ~(IsSend(call) /\ frame[t] = None)
  <2>1. \A d \in Thread : Cell(d, t)' = Cell(d, t)
    BY <1>4, <1>5, <1>8, PendingBefore DEF Cell
  <2>2. \A d, s \in Thread : Cell(d, s)' = Cell(d, s)
    BY <1>6, <2>1
  <2> QED
    BY <1>4, <2>2, StutterMaps
<1> QED
  BY <1>7, <1>8

\* A call that sends at once submits its message; one that had to wait has
\* submitted it already.
LEMMA DeliversMaps ==
  ASSUME Types, NEW t \in Thread, NEW call, NEW kernel,
         Attempt(t, call, kernel), Delivers(t, call, kernel)
  PROVE  Chan!ChanNext \/ UNCHANGED Chan!chanVars
<1>1. PICK d \in Thread : d = call.peer
  BY DeliversTypes
<1>2. PICK m \in Payload : m = call.msg
  BY DeliversTypes
<1>3. \A e, r \in Thread : msgMap'[e][r] =
        IF e = d /\ r = t THEN Append(msgMap[e][r], m) ELSE msgMap[e][r]
  BY <1>1, <1>2, DeliversTypes
<1>4. frame' = [frame EXCEPT ![t] = None] /\ received' = received /\ IsSend(call)
  BY DEF Delivers
<1>5. \A e \in Thread : \A r \in Thread \ {t} : Cell(e, r)' = Cell(e, r)
  BY <1>3, <1>4, PendingOfOthers DEF Cell
<1>6. \A e \in Thread : msgMap'[e][t] \in Seq(Payload)
  BY DeliversTypes DEF Types, Queues
<1>7. \A e \in Thread : Cell(e, t)' = msgMap'[e][t]
  BY <1>4, <1>6, PendingOfFinished, ConcatEmptySeq DEF Cell
<1>8. \A e \in Thread \ {d} : Cell(e, t)' = Cell(e, t)
  <2> TAKE e \in Thread \ {d}
  <2>1. Pending(e, t) = <<>>
    BY <1>1, PendingBefore
  <2>2. Cell(e, t) = msgMap[e][t]
    BY <2>1, CellType, ConcatEmptySeq DEF Cell
  <2> QED
    BY <1>3, <1>7, <2>2
<1>9. msgMap[d][t] \in Seq(Payload)
  BY CellType
<1>10. CASE frame[t] = None
  <2>1. Cell(d, t) = msgMap[d][t]
    BY <1>9, <1>10, PendingBefore, ConcatEmptySeq DEF Cell
  <2>2. Cell(d, t)' = Append(Cell(d, t), m)
    BY <1>3, <1>7, <2>1
  <2>3. Len(Cell(d, t)) < 3
    <3> DEFINE n == Len(msgMap[d][t])
    <3>1. n \in Nat /\ n <= 1
      BY <1>1, <1>9, LenProperties DEF Delivers
    <3> HIDE DEF n
    <3>2. n < 3
      BY <3>1
    <3> QED
      BY <2>1, <3>2 DEF n
  <2>4. \A e, r \in Thread : Cell(e, r)' = IF e = d /\ r = t
                                           THEN Append(Cell(e, r), m) ELSE Cell(e, r)
    BY <1>5, <1>8, <2>2
  <2> QED
    BY <1>4, <2>3, <2>4, SubmitMaps
<1>11. CASE frame[t] # None
  <2>1. Pending(d, t) = <<m>>
    BY <1>1, <1>2, <1>4, <1>11, PendingBefore
  <2>2. Cell(d, t) = Append(msgMap[d][t], m)
    BY <1>9, <2>1, AppendIsConcat DEF Cell
  <2>3. Cell(d, t)' = Cell(d, t)
    BY <1>3, <1>7, <2>2
  <2>4. \A e, r \in Thread : Cell(e, r)' = Cell(e, r)
    BY <1>5, <1>8, <2>3
  <2> QED
    BY <1>4, <2>4, StutterMaps
<1> QED
  BY <1>10, <1>11

\* Concatenation leaves the head of what is not empty, and its tail in front.
LEMMA HeadTailConcat ==
  ASSUME NEW S, NEW q \in Seq(S), q # <<>>, NEW p, p = <<>> \/ \E m \in S : p = <<m>>
  PROVE  q \o p # <<>> /\ Head(q \o p) = Head(q) /\ Tail(q \o p) = Tail(q) \o p
<1>1. Tail(q) \in Seq(S)
  BY HeadTailProperties
<1>2. CASE p = <<>>
  BY <1>1, <1>2, ConcatEmptySeq
<1>3. CASE \E m \in S : p = <<m>>
  <2>1. PICK m \in S : p = <<m>>
    BY <1>3
  <2>2. q \o p = Append(q, m) /\ Tail(q) \o p = Append(Tail(q), m)
    BY <1>1, <2>1, AppendIsConcat
  <2> QED
    BY <2>2, HeadTailAppend, AppendProperties
<1> QED
  BY <1>2, <1>3

\* A receive hands over the head of a channel.
LEMMA ReceivesMaps ==
  ASSUME Types, NEW t \in Thread, NEW call, NEW kernel, NEW s \in Thread,
         Attempt(t, call, kernel), Receives(t, call, kernel, s)
  PROVE  Chan!ChanNext
<1>1. frame' = [frame EXCEPT ![t] = None] /\ IsReceive(call) /\ msgMap[t][s] # <<>>
  BY DEF Receives
<1>2. ~IsSend(call)
  BY <1>1, CallShapes DEF Attempt
<1>3. \A d, r \in Thread : Pending(d, r)' = Pending(d, r)
  <2>1. \A d \in Thread : Pending(d, t) = <<>>
    BY <1>2, PendingBefore
  <2> QED
    BY <1>1, <2>1, PendingOfOthers, PendingOfFinished
<1>4. /\ msgMap[t][s] \in Seq(Payload)
      /\ \/ Pending(t, s) = <<>>
         \/ \E m \in Payload : Pending(t, s) = <<m>>
  <2>1. CASE Sending(s, t)
    <3>1. frame[s].call \in Calls(s) /\ IsSend(frame[s].call)
      BY <2>1 DEF Sending, Types, Frames, IsSend
    <3>2. frame[s].call.msg \in Payload
      BY <3>1, CallShapes
    <3> QED
      BY <2>1, <3>2, CellType DEF Pending
  <2>2. CASE ~Sending(s, t)
    BY <2>2, CellType DEF Pending
  <2> QED
    BY <2>1, <2>2
<1>5. /\ Cell(t, s) # <<>> /\ Head(Cell(t, s)) = Head(msgMap[t][s])
      /\ Tail(Cell(t, s)) = Tail(msgMap[t][s]) \o Pending(t, s)
  <2> DEFINE p == Pending(t, s)
             q == msgMap[t][s]
  <2>1. q \in Seq(Payload) /\ q # <<>> /\ (p = <<>> \/ \E m \in Payload : p = <<m>>)
    BY <1>1, <1>4
  <2> HIDE DEF p, q
  <2>2. q \o p # <<>> /\ Head(q \o p) = Head(q) /\ Tail(q \o p) = Tail(q) \o p
    BY <2>1, HeadTailConcat
  <2> QED
    BY <2>2 DEF Cell, p, q
<1>6. /\ \A e, r \in Thread : msgMap'[e][r] =
           IF e = t /\ r = s THEN Tail(msgMap[e][r]) ELSE msgMap[e][r]
      /\ received'[t] # None
      /\ received'[t].from = s /\ received'[t].msg = Head(msgMap[t][s])
      /\ \A d \in Thread \ {t} : received'[d] = received[d]
  BY ReceivesTypes
<1>7. \A e, r \in Thread : Cell(e, r)' = IF e = t /\ r = s
                                         THEN Tail(Cell(e, r)) ELSE Cell(e, r)
  <2> TAKE e, r \in Thread
  <2>1. Pending(e, r)' = Pending(e, r)
    BY <1>3
  <2>2. Cell(e, r)' = msgMap'[e][r] \o Pending(e, r)
    BY <2>1 DEF Cell
  <2>3. CASE e = t /\ r = s
    BY <1>5, <1>6, <2>2, <2>3
  <2>4. CASE ~(e = t /\ r = s)
    BY <1>6, <2>2, <2>4 DEF Cell
  <2> QED
    BY <2>3, <2>4
<1> QED
  BY <1>5, <1>6, <1>7, DeliverMaps

\* After boot every channel is empty.
LEMMA InitMaps == ASSUME Init PROVE Chan!ChanInit
<1>1. \A d, s \in Thread : Pending(d, s) = <<>>
  BY DEF Init, Pending, Sending
<1>2. \A d, s \in Thread : Cell(d, s) = <<>>
  <2>1. \A d, s \in Thread : msgMap[d][s] = <<>>
    BY DEF Init
  <2> QED
    BY <1>1, <2>1 DEF Cell
<1>3. \A d \in Thread : received[d] = None
  BY DEF Init
<1> QED
  BY <1>2, <1>3 DEF Chan!ChanInit, Cell, Pending

\* Every step is a step of Channels or changes none of its variables.
LEMMA StepMaps == Types /\ [Next]_vars => [Chan!ChanNext]_(Chan!chanVars)
<1> SUFFICES ASSUME Types, [Next]_vars
             PROVE  Chan!ChanNext \/ UNCHANGED Chan!chanVars
  OBVIOUS
<1>1. CASE UNCHANGED vars
  BY <1>1, StutterMaps DEF vars, Cell, Pending, Sending
<1>2. CASE Tick
  BY <1>2, StutterMaps DEF Tick, Cell, Pending, Sending
<1>3. CASE \E t \in Thread : \E call, kernel : Attempt(t, call, kernel)
  BY <1>3, AttemptCases, BlocksMaps, DeliversMaps, ReceivesMaps
<1> QED
  BY <1>1, <1>2, <1>3, Steps

\* Messages are neither lost, duplicated nor reordered, whoever sends to whom
\* and however often a call has to wait (SystemCalls.cpp 60-110).
THEOREM ChannelsCorrect == Spec => ImplementsChannels
<1>1. Init => Types /\ Chan!ChanInit
  BY InitTypes, InitMaps
<1>2. Types /\ [Next]_vars => Types'
  BY TypesStep
<1>3. Types /\ [Next]_vars => [Chan!ChanNext]_(Chan!chanVars)
  BY StepMaps
<1> QED
  BY <1>1, <1>2, <1>3, PTL DEF Spec, ImplementsChannels, Chan!ChanSpec

-----------------------------------------------------------------------------
(* No wake-up of a receiver is lost: its waitIPCReceive names it for as    *)
(* long as it is blocked there, since nobody else ever waits on that one.  *)

BlockedObj(t) == IF IsSend(frame[t].call) THEN WaitSend(frame[t].call.peer)
                 ELSE WaitReceive(t)

FramesNameObjects == \A t \in Thread : frame[t] # None => frame[t].obj = BlockedObj(t)

ReceiversAreNamed ==
  \A t \in Thread :
    /\ k.wait[WaitReceive(t)] = IF Receiving(t) THEN t ELSE None
    /\ Receiving(t) => frame[t].prev = None

MailInvariant == Types /\ FramesNameObjects /\ ReceiversAreNamed /\ NoSleepWithMail

\* The objects of different threads, and of the two kinds, are different.
LEMMA ObjectsDiffer ==
  ASSUME NEW t, NEW u
  PROVE  /\ WaitSend(t) # WaitReceive(u)
         /\ WaitSend(t) = WaitSend(u) => t = u
         /\ WaitReceive(t) = WaitReceive(u) => t = u
BY DEF WaitSend, WaitReceive

\* What the kernel an attempt starts from has in common with the one before.
LEMMA KernelOfAttempt ==
  ASSUME Types, FramesNameObjects, NEW t \in Thread, NEW call, NEW kernel,
         Attempt(t, call, kernel)
  PROVE  /\ Good(kernel) /\ kernel.curr = t /\ NobodyBlocks(k, kernel, {})
         /\ \/ frame[t] = None /\ kernel.wait = k.wait
            \/ /\ frame[t] # None /\ call = frame[t].call
               /\ kernel.wait = [k.wait EXCEPT ![BlockedObj(t)] = frame[t].prev]
<1>1. Good(kernel) /\ kernel.curr = t
  BY DEF Attempt
<1>2. CASE frame[t] = None /\ kernel = k
  BY <1>1, <1>2 DEF NobodyBlocks
<1>3. CASE /\ frame[t] # None /\ call = frame[t].call
           /\ kernel = WaitReturn(k, frame[t].obj, frame[t].prev)
  <2>1. frame[t].obj \in Obj /\ frame[t].prev \in Thread \cup {None}
    BY <1>3 DEF Types, Frames, Frame
  <2>2. /\ NobodyBlocks(k, kernel, {})
        /\ kernel.wait = [k.wait EXCEPT ![frame[t].obj] = frame[t].prev]
    BY <1>3, <2>1, WaitReturnBlocksNobody DEF Types
  <2> QED
    BY <1>1, <1>3, <2>2 DEF FramesNameObjects
<1> QED
  BY <1>2, <1>3 DEF Attempt

\* Who sleeps after such a step slept before it.
LEMMA SleptBefore ==
  ASSUME NEW j, NEW l, NEW B, NobodyBlocks(j, l, B), NEW u \in Thread \ B,
         l.state[u] = "INTERRUPTABLE"
  PROVE  j.state[u] = "INTERRUPTABLE"
BY DEF NobodyBlocks, Runnable

\* In that kernel the calling thread is not waiting any more.
LEMMA KernelReceivers ==
  ASSUME MailInvariant, NEW t \in Thread, NEW call, NEW kernel,
         Attempt(t, call, kernel), NEW u \in Thread
  PROVE  kernel.wait[WaitReceive(u)] = IF u # t /\ Receiving(u) THEN u ELSE None
<1>1. k.wait \in [Obj -> Thread \cup {None}]
  BY DEF MailInvariant, Types, Good, Exact, Kernel
<1>2. WaitReceive(u) \in Obj
  BY ObjAssumption
<1>3. k.wait[WaitReceive(u)] = IF Receiving(u) THEN u ELSE None
  BY DEF MailInvariant, ReceiversAreNamed
<1>4. CASE frame[t] = None /\ kernel.wait = k.wait
  BY <1>3, <1>4 DEF Receiving
<1>5. CASE /\ frame[t] # None /\ call = frame[t].call
           /\ kernel.wait = [k.wait EXCEPT ![BlockedObj(t)] = frame[t].prev]
  <2>1. frame[t].call \in Calls(t)
    BY <1>5 DEF MailInvariant, Types, Frames
  <2>2. CASE Receiving(t)
    <3>1. IsReceive(frame[t].call)
      BY <2>2 DEF Receiving, IsReceive
    <3>2. ~IsSend(frame[t].call)
      BY <2>1, <3>1, CallShapes
    <3>3. BlockedObj(t) = WaitReceive(t)
      BY <3>2 DEF BlockedObj
    <3>4. frame[t].prev = None
      BY <2>2 DEF MailInvariant, ReceiversAreNamed
    <3>5. CASE u = t
      BY <1>1, <1>2, <1>5, <3>3, <3>4, <3>5
    <3>6. CASE u # t
      <4>1. WaitReceive(u) # BlockedObj(t)
        BY <3>3, <3>6, ObjectsDiffer
      <4>2. kernel.wait[WaitReceive(u)] = k.wait[WaitReceive(u)]
        BY <1>1, <1>2, <1>5, <4>1
      <4> QED
        BY <1>3, <3>6, <4>2
    <3> QED
      BY <3>5, <3>6
  <2>3. CASE ~Receiving(t)
    <3>1. ~IsReceive(frame[t].call)
      BY <1>5, <2>3 DEF Receiving, IsReceive
    <3>2. IsSend(frame[t].call)
      BY <2>1, <3>1, CallShapes
    <3>3. WaitReceive(u) # BlockedObj(t)
      BY <3>2, ObjectsDiffer DEF BlockedObj
    <3>4. kernel.wait[WaitReceive(u)] = k.wait[WaitReceive(u)]
      BY <1>1, <1>2, <1>5, <3>3
    <3> QED
      BY <1>3, <2>3, <3>4
  <2> QED
    BY <2>2, <2>3
<1> QED
  BY <1>4, <1>5, KernelOfAttempt DEF MailInvariant

\* A call that returns leaves the others' frames and the objects as they are.
LEMMA FinishNames ==
  ASSUME MailInvariant, NEW t \in Thread, NEW call, NEW kernel,
         Attempt(t, call, kernel), k'.wait = kernel.wait,
         frame' = [frame EXCEPT ![t] = None]
  PROVE  FramesNameObjects' /\ ReceiversAreNamed'
<1>1. /\ frame'[t] = None
      /\ \A u \in Thread \ {t} : frame'[u] = frame[u]
  BY DEF MailInvariant, Types, Frames
<1>2. FramesNameObjects'
  BY <1>1 DEF MailInvariant, FramesNameObjects, BlockedObj
<1>3. ASSUME NEW u \in Thread
      PROVE  /\ k'.wait[WaitReceive(u)] = IF Receiving(u)' THEN u ELSE None
             /\ Receiving(u)' => frame'[u].prev = None
  <2>1. Receiving(u)' <=> u # t /\ Receiving(u)
    BY <1>1 DEF Receiving
  <2>2. kernel.wait[WaitReceive(u)] = IF u # t /\ Receiving(u) THEN u ELSE None
    BY KernelReceivers
  <2> QED
    BY <1>1, <2>1, <2>2 DEF MailInvariant, ReceiversAreNamed
<1> QED
  BY <1>2, <1>3 DEF ReceiversAreNamed

\* A call that blocks keeps the invariant: it has looked for mail just before.
LEMMA BlocksMail ==
  ASSUME MailInvariant, NEW t \in Thread, NEW call, NEW kernel,
         Attempt(t, call, kernel), Blocks(t, call, kernel)
  PROVE  MailInvariant'
<1>1. Types /\ FramesNameObjects
  BY DEF MailInvariant
<1>2. PICK o \in Obj : /\ Block(t, o, call, kernel)
                       /\ o = IF IsSend(call) THEN WaitSend(call.peer) ELSE WaitReceive(t)
  BY <1>1, BlocksOn
<1> DEFINE f == [obj |-> o, prev |-> kernel.wait[o], call |-> call]
<1>3. /\ Types' /\ frame' = [frame EXCEPT ![t] = f] /\ frame'[t] # None
      /\ f.call = call /\ f.obj = o /\ f.prev = kernel.wait[o]
  BY <1>1, <1>2, BlockTypes
<1> HIDE DEF f
<1>4. frame'[t] = f /\ \A u \in Thread \ {t} : frame'[u] = frame[u]
  BY <1>1, <1>3 DEF Types, Frames
<1>5. /\ Good(kernel) /\ kernel.curr = t /\ NobodyBlocks(k, kernel, {})
  BY <1>1, KernelOfAttempt
<1>6. /\ NobodyBlocks(kernel, k', {t})
      /\ k'.wait = [kernel.wait EXCEPT ![o] = t]
  BY <1>2, <1>5, WaitOnBlocksOne DEF Block
<1>7. kernel.wait \in [Obj -> Thread \cup {None}]
  BY <1>5 DEF Good, Exact, Kernel
<1>8. call \in Calls(t)
  BY DEF Attempt
<1>9. msgMap' = msgMap
  BY <1>2 DEF Block
<1>10. FramesNameObjects'
  BY <1>1, <1>2, <1>3, <1>4 DEF FramesNameObjects, BlockedObj
<1>11. Receiving(t)' <=> IsReceive(call)
  BY <1>3, <1>4 DEF Receiving, IsReceive
<1>12. \A u \in Thread \ {t} : Receiving(u)' <=> Receiving(u)
  BY <1>4 DEF Receiving
<1>13. ReceiversAreNamed'
  <2>1. ASSUME NEW u \in Thread \ {t}
        PROVE  /\ k'.wait[WaitReceive(u)] = IF Receiving(u)' THEN u ELSE None
               /\ Receiving(u)' => frame'[u].prev = None
    <3>1. o # WaitReceive(u)
      BY <1>2, ObjectsDiffer
    <3>2. WaitReceive(u) \in Obj
      BY ObjAssumption
    <3>3. k'.wait[WaitReceive(u)] = kernel.wait[WaitReceive(u)]
      BY <1>6, <1>7, <3>1, <3>2
    <3>4. kernel.wait[WaitReceive(u)] = IF u # t /\ Receiving(u) THEN u ELSE None
      BY KernelReceivers
    <3> QED
      BY <1>4, <1>12, <3>3, <3>4 DEF MailInvariant, ReceiversAreNamed
  <2>2. CASE IsSend(call)
    <3>1. ~IsReceive(call)
      BY <1>8, <2>2, CallShapes
    <3>2. o # WaitReceive(t)
      BY <1>2, <2>2, ObjectsDiffer
    <3>3. WaitReceive(t) \in Obj
      BY ObjAssumption
    <3>4. k'.wait[WaitReceive(t)] = kernel.wait[WaitReceive(t)]
      BY <1>6, <1>7, <3>2, <3>3
    <3>5. kernel.wait[WaitReceive(t)] = None
      BY KernelReceivers
    <3> QED
      BY <1>11, <2>1, <3>1, <3>4, <3>5 DEF ReceiversAreNamed
  <2>3. CASE ~IsSend(call)
    <3>1. IsReceive(call) /\ o = WaitReceive(t)
      BY <1>2, <1>8, <2>3, CallShapes
    <3>2. k'.wait[WaitReceive(t)] = t
      BY <1>6, <1>7, <3>1
    <3>3. kernel.wait[WaitReceive(t)] = None
      BY KernelReceivers
    <3>4. frame'[t].prev = None
      BY <1>3, <1>4, <3>1, <3>3
    <3> QED
      BY <1>11, <2>1, <3>1, <3>2, <3>4 DEF ReceiversAreNamed
  <2> QED
    BY <2>2, <2>3
<1>14. ASSUME NEW u \in Thread, Receiving(u)', Asleep(u)'
       PROVE  ~HasMail(u)'
  <2>1. CASE u = t
    <3>1. IsReceive(call) /\ ~IsSend(call)
      BY <1>8, <1>11, <1>14, <2>1, CallShapes
    <3>2. \A s \in Thread : msgMap[t][s] # <<>> => call.op = "ReceiveFrom" /\ call.peer # s
      BY <3>1 DEF Blocks
    <3> QED
      BY <1>3, <1>4, <1>9, <2>1, <3>2 DEF HasMail
  <2>2. CASE u # t
    <3>1. kernel.state[u] = "INTERRUPTABLE"
      BY <1>6, <1>14, <2>2, SleptBefore DEF Asleep
    <3>2. k.state[u] = "INTERRUPTABLE"
      BY <1>5, <3>1, SleptBefore
    <3>3. ~HasMail(u)
      BY <1>12, <1>14, <2>2, <3>2 DEF MailInvariant, NoSleepWithMail, Asleep
    <3> QED
      BY <1>4, <1>9, <2>2, <3>3 DEF HasMail
  <2> QED
    BY <2>1, <2>2
<1> QED
  BY <1>3, <1>10, <1>13, <1>14 DEF MailInvariant, NoSleepWithMail

\* A call that sends wakes the receiver it sends to.
LEMMA DeliversMail ==
  ASSUME MailInvariant, NEW t \in Thread, NEW call, NEW kernel,
         Attempt(t, call, kernel), Delivers(t, call, kernel)
  PROVE  MailInvariant'
<1>1. Types /\ FramesNameObjects
  BY DEF MailInvariant
<1>2. PICK d \in Thread : d = call.peer
  BY <1>1, DeliversTypes
<1>3. /\ Types'
      /\ \A e, r \in Thread : e # d => msgMap'[e][r] = msgMap[e][r]
  BY <1>1, <1>2, DeliversTypes
<1>4. Good(kernel) /\ NobodyBlocks(k, kernel, {})
  BY <1>1, KernelOfAttempt
<1>5. WaitReceive(d) \in Obj
  BY ObjAssumption
<1>6. k' = Wake(kernel, WaitReceive(d)) /\ frame' = [frame EXCEPT ![t] = None]
  BY <1>2 DEF Delivers
<1>7. /\ NobodyBlocks(kernel, k', {}) /\ k'.wait = kernel.wait
      /\ \A u \in Thread : kernel.wait[WaitReceive(d)] = u => k'.state[u] \notin Blocked
  BY <1>4, <1>5, <1>6, WakeBlocksNobody
<1>8. FramesNameObjects' /\ ReceiversAreNamed'
  BY <1>6, <1>7, FinishNames
<1>9. ASSUME NEW u \in Thread, Receiving(u)', Asleep(u)'
      PROVE  ~HasMail(u)'
  <2>1. u # t /\ frame'[u] = frame[u] /\ Receiving(u)
    BY <1>1, <1>6, <1>9 DEF Types, Frames, Receiving
  <2>2. kernel.wait[WaitReceive(u)] = u
    BY <2>1, KernelReceivers
  <2>3. u # d
    BY <1>7, <1>9, <2>2 DEF Asleep, Blocked
  <2>4. kernel.state[u] = "INTERRUPTABLE"
    BY <1>7, <1>9, SleptBefore DEF Asleep
  <2>5. k.state[u] = "INTERRUPTABLE"
    BY <1>4, <2>4, SleptBefore
  <2>6. ~HasMail(u)
    BY <2>1, <2>5 DEF MailInvariant, NoSleepWithMail, Asleep
  <2> QED
    BY <1>3, <2>1, <2>3, <2>6 DEF HasMail
<1> QED
  BY <1>3, <1>8, <1>9 DEF MailInvariant, NoSleepWithMail

\* A call that receives takes mail from nobody but itself.
LEMMA ReceivesMail ==
  ASSUME MailInvariant, NEW t \in Thread, NEW call, NEW kernel, NEW s \in Thread,
         Attempt(t, call, kernel), Receives(t, call, kernel, s)
  PROVE  MailInvariant'
<1>1. Types /\ FramesNameObjects
  BY DEF MailInvariant
<1>2. /\ Types'
      /\ \A e, r \in Thread : e # t => msgMap'[e][r] = msgMap[e][r]
  BY <1>1, ReceivesTypes
<1>3. Good(kernel) /\ NobodyBlocks(k, kernel, {})
  BY <1>1, KernelOfAttempt
<1>4. WaitSend(t) \in Obj
  BY ObjAssumption
<1>5. k' = Wake(kernel, WaitSend(t)) /\ frame' = [frame EXCEPT ![t] = None]
  BY DEF Receives
<1>6. NobodyBlocks(kernel, k', {}) /\ k'.wait = kernel.wait
  BY <1>3, <1>4, <1>5, WakeBlocksNobody
<1>7. FramesNameObjects' /\ ReceiversAreNamed'
  BY <1>5, <1>6, FinishNames
<1>8. ASSUME NEW u \in Thread, Receiving(u)', Asleep(u)'
      PROVE  ~HasMail(u)'
  <2>1. u # t /\ frame'[u] = frame[u] /\ Receiving(u)
    BY <1>1, <1>5, <1>8 DEF Types, Frames, Receiving
  <2>2. kernel.state[u] = "INTERRUPTABLE"
    BY <1>6, <1>8, SleptBefore DEF Asleep
  <2>3. k.state[u] = "INTERRUPTABLE"
    BY <1>3, <2>2, SleptBefore
  <2>4. ~HasMail(u)
    BY <2>1, <2>3 DEF MailInvariant, NoSleepWithMail, Asleep
  <2> QED
    BY <1>2, <2>1, <2>4 DEF HasMail
<1> QED
  BY <1>2, <1>7, <1>8 DEF MailInvariant, NoSleepWithMail

\* A tick blocks nobody and delivers nothing.
LEMMA TickMail == ASSUME MailInvariant, Tick PROVE MailInvariant'
<1>1. k' = ClockHandler(k) /\ msgMap' = msgMap /\ frame' = frame /\ received' = received
  BY DEF Tick
<1>2. Types'
  <2>1. Good(k')
    BY <1>1, ClockHandlerKeeps DEF MailInvariant, Types
  <2> QED
    BY <1>1, <2>1 DEF MailInvariant, Types, Queues, Frames
<1>3. NobodyBlocks(k, k', {}) /\ k'.wait = k.wait
  BY <1>1, ClockBlocksNobody DEF MailInvariant, Types
<1>4. \A u \in Thread : Asleep(u)' => Asleep(u)
  BY <1>3, SleptBefore DEF Asleep
<1>5. FramesNameObjects' /\ ReceiversAreNamed'
  BY <1>1, <1>3
     DEF MailInvariant, FramesNameObjects, BlockedObj, ReceiversAreNamed, Receiving
<1>6. NoSleepWithMail'
  BY <1>1, <1>4 DEF MailInvariant, NoSleepWithMail, Receiving, HasMail
<1> QED
  BY <1>2, <1>5, <1>6 DEF MailInvariant

\* Every step keeps the invariant.
LEMMA MailStep == MailInvariant /\ [Next]_vars => MailInvariant'
<1> SUFFICES ASSUME MailInvariant, [Next]_vars PROVE MailInvariant'
  OBVIOUS
<1>1. Types
  BY DEF MailInvariant
<1>2. CASE UNCHANGED vars
  BY <1>2 DEF vars, MailInvariant, Types, Queues, Frames, FramesNameObjects, BlockedObj,
              ReceiversAreNamed, NoSleepWithMail, Receiving, Asleep, HasMail
<1>3. CASE Tick
  BY <1>3, TickMail
<1>4. CASE \E t \in Thread : \E call, kernel : Attempt(t, call, kernel)
  BY <1>1, <1>4, AttemptCases, BlocksMail, DeliversMail, ReceivesMail
<1> QED
  BY <1>1, <1>2, <1>3, <1>4, Steps

\* Nobody waits after boot.
LEMMA InitMail == Init => MailInvariant
<1> SUFFICES ASSUME Init PROVE MailInvariant
  OBVIOUS
<1>1. Types
  BY InitTypes
<1>2. \A t \in Thread : frame[t] = None
  BY DEF Init
<1>3. \A o \in Obj : k.wait[o] = None
  BY DEF Init, InitialKernel
<1>4. \A t \in Thread : WaitReceive(t) \in Obj
  BY ObjAssumption
<1> QED
  BY <1>1, <1>2, <1>3, <1>4
     DEF MailInvariant, FramesNameObjects, ReceiversAreNamed, NoSleepWithMail, Receiving

\* No wake-up of a receiver is lost: a receiver never sleeps while a message it
\* waits for is queued, whoever sends to it and however many do
\* (SystemCalls.cpp 78, 86-89, 98-101).
THEOREM ReceiversAreWoken == Spec => []NoSleepWithMail
<1>1. Init => MailInvariant
  BY InitMail
<1>2. MailInvariant /\ [Next]_vars => MailInvariant'
  BY MailStep
<1>3. MailInvariant => NoSleepWithMail
  BY DEF MailInvariant
<1> QED
  BY <1>1, <1>2, <1>3, PTL DEF Spec

-----------------------------------------------------------------------------
(* No wake-up of a sender is lost as long as no two threads send to one    *)
(* receiver: its waitIPCSend then names the one that waits.  With two, the *)
(* second one takes the place of the first (WaitableObj.cpp 12-19).        *)

OneSender == \A x, y \in Sends : x[2] = y[2] => x[1] = y[1]

SendersAreNamed ==
  /\ \A s, d \in Thread : Sending(s, d) =>
       k.wait[WaitSend(d)] = s /\ frame[s].prev = None
  /\ \A d \in Thread : (\A s \in Thread : ~Sending(s, d)) => k.wait[WaitSend(d)] = None

SendersHaveNoRoom ==
  \A t, d \in Thread : Sending(t, d) /\ Asleep(t) => Len(msgMap[d][t]) = 2

RoomInvariant == MailInvariant /\ SendersAreNamed /\ SendersHaveNoRoom

\* In the kernel of an attempt the objects name the other threads' calls.
LEMMA KernelSenders ==
  ASSUME RoomInvariant, NEW t \in Thread, NEW call, NEW kernel,
         Attempt(t, call, kernel), NEW d \in Thread
  PROVE  /\ \A s \in Thread \ {t} : Sending(s, d) => kernel.wait[WaitSend(d)] = s
         /\ (\A s \in Thread \ {t} : ~Sending(s, d)) => kernel.wait[WaitSend(d)] = None
<1>1. k.wait \in [Obj -> Thread \cup {None}]
  BY DEF RoomInvariant, MailInvariant, Types, Good, Exact, Kernel
<1>2. WaitSend(d) \in Obj
  BY ObjAssumption
<1>3. /\ \A s \in Thread : Sending(s, d) => k.wait[WaitSend(d)] = s
      /\ (\A s \in Thread : ~Sending(s, d)) => k.wait[WaitSend(d)] = None
  BY DEF RoomInvariant, SendersAreNamed
<1>4. CASE frame[t] = None /\ kernel.wait = k.wait
  <2>1. ~Sending(t, d)
    BY <1>4 DEF Sending
  <2> QED
    BY <1>3, <1>4, <2>1
<1>5. CASE /\ frame[t] # None /\ call = frame[t].call
           /\ kernel.wait = [k.wait EXCEPT ![BlockedObj(t)] = frame[t].prev]
  <2>1. CASE Sending(t, d)
    <3>1. BlockedObj(t) = WaitSend(d)
      BY <2>1 DEF Sending, BlockedObj, IsSend
    <3>2. frame[t].prev = None /\ k.wait[WaitSend(d)] = t
      BY <2>1 DEF RoomInvariant, SendersAreNamed
    <3>3. kernel.wait[WaitSend(d)] = None
      BY <1>1, <1>2, <1>5, <3>1, <3>2
    <3>4. \A s \in Thread \ {t} : ~Sending(s, d)
      BY <1>3, <3>2
    <3> QED
      BY <3>3, <3>4
  <2>2. CASE ~Sending(t, d)
    <3>1. BlockedObj(t) # WaitSend(d)
      BY <1>5, <2>2, ObjectsDiffer DEF Sending, BlockedObj, IsSend
    <3>2. kernel.wait[WaitSend(d)] = k.wait[WaitSend(d)]
      BY <1>1, <1>2, <1>5, <3>1
    <3> QED
      BY <1>3, <2>2, <3>2
  <2> QED
    BY <2>1, <2>2
<1> QED
  BY <1>4, <1>5, KernelOfAttempt DEF RoomInvariant, MailInvariant

\* A call that returns leaves the others' waits as they are.
LEMMA FinishSenders ==
  ASSUME RoomInvariant, NEW t \in Thread, NEW call, NEW kernel,
         Attempt(t, call, kernel), k'.wait = kernel.wait,
         frame' = [frame EXCEPT ![t] = None]
  PROVE  /\ SendersAreNamed'
         /\ \A s, d \in Thread : Sending(s, d)' <=> s # t /\ Sending(s, d)
<1>1. frame'[t] = None /\ \A u \in Thread \ {t} : frame'[u] = frame[u]
  BY DEF RoomInvariant, MailInvariant, Types, Frames
<1>2. \A s, d \in Thread : Sending(s, d)' <=> s # t /\ Sending(s, d)
  BY <1>1 DEF Sending
<1>3. ASSUME NEW s \in Thread, NEW d \in Thread, Sending(s, d)'
      PROVE  k'.wait[WaitSend(d)] = s /\ frame'[s].prev = None
  <2>1. s # t /\ Sending(s, d)
    BY <1>2, <1>3
  <2>2. kernel.wait[WaitSend(d)] = s
    BY <2>1, KernelSenders
  <2>3. frame[s].prev = None
    BY <2>1 DEF RoomInvariant, SendersAreNamed
  <2> QED
    BY <1>1, <2>1, <2>2, <2>3
<1>4. ASSUME NEW d \in Thread, \A s \in Thread : ~Sending(s, d)'
      PROVE  k'.wait[WaitSend(d)] = None
  <2>1. \A s \in Thread \ {t} : ~Sending(s, d)
    BY <1>2, <1>4
  <2> QED
    BY <2>1, KernelSenders
<1> QED
  BY <1>2, <1>3, <1>4 DEF SendersAreNamed

\* A sender that blocks finds its queue full, and the object free for its name.
LEMMA BlocksRoom ==
  ASSUME OneSender, RoomInvariant, NEW t \in Thread, NEW call, NEW kernel,
         Attempt(t, call, kernel), Blocks(t, call, kernel)
  PROVE  SendersAreNamed' /\ SendersHaveNoRoom'
<1>1. Types /\ FramesNameObjects /\ MailInvariant
  BY DEF RoomInvariant, MailInvariant
<1>2. PICK o \in Obj : /\ Block(t, o, call, kernel)
                       /\ o = IF IsSend(call) THEN WaitSend(call.peer) ELSE WaitReceive(t)
  BY <1>1, BlocksOn
<1> DEFINE f == [obj |-> o, prev |-> kernel.wait[o], call |-> call]
<1>3. /\ frame' = [frame EXCEPT ![t] = f] /\ frame'[t] # None
      /\ f.call = call /\ f.prev = kernel.wait[o]
  BY <1>1, <1>2, BlockTypes
<1> HIDE DEF f
<1>4. frame'[t] = f /\ \A u \in Thread \ {t} : frame'[u] = frame[u]
  BY <1>1, <1>3 DEF Types, Frames
<1>5. Good(kernel) /\ kernel.curr = t /\ NobodyBlocks(k, kernel, {})
  BY <1>1, KernelOfAttempt
<1>6. /\ NobodyBlocks(kernel, k', {t})
      /\ k'.wait = [kernel.wait EXCEPT ![o] = t]
  BY <1>2, <1>5, WaitOnBlocksOne DEF Block
<1>7. kernel.wait \in [Obj -> Thread \cup {None}]
  BY <1>5 DEF Good, Exact, Kernel
<1>8. call \in Calls(t) /\ msgMap' = msgMap
  BY <1>2 DEF Attempt, Block
<1>9. \A d \in Thread : Sending(t, d)' <=> IsSend(call) /\ call.peer = d
  BY <1>3, <1>4 DEF Sending, IsSend
<1>10. \A s \in Thread \ {t} : \A d \in Thread : Sending(s, d)' <=> Sending(s, d)
  BY <1>4 DEF Sending
\* Nobody else sends to the thread this one waits for.
<1>11. ASSUME NEW s \in Thread \ {t}, NEW d \in Thread, Sending(s, d)
       PROVE  ~(IsSend(call) /\ call.peer = d)
  <2>1. frame[s].call \in Calls(s) /\ IsSend(frame[s].call) /\ frame[s].call.peer = d
    BY <1>1, <1>11 DEF Sending, Types, Frames, IsSend
  <2>2. PICK x \in Sends : x[1] = s /\ x[2] = d
    BY <2>1, CallShapes
  <2>3. ASSUME IsSend(call), call.peer = d PROVE FALSE
    <3>1. PICK y \in Sends : y[1] = t /\ y[2] = d
      BY <1>8, <2>3, CallShapes
    <3> QED
      BY <2>2, <3>1 DEF OneSender
  <2> QED
    BY <2>3
<1>12. ASSUME NEW d \in Thread, o # WaitSend(d)
       PROVE  k'.wait[WaitSend(d)] = kernel.wait[WaitSend(d)]
  <2>1. WaitSend(d) \in Obj
    BY ObjAssumption
  <2> QED
    BY <1>6, <1>7, <1>12, <2>1
<1>13. \A d \in Thread : o = WaitSend(d) <=> IsSend(call) /\ call.peer = d
  BY <1>2, ObjectsDiffer
<1>14. ASSUME NEW s \in Thread, NEW d \in Thread, Sending(s, d)'
       PROVE  k'.wait[WaitSend(d)] = s /\ frame'[s].prev = None
  <2>1. CASE s = t
    <3>1. o = WaitSend(d)
      BY <1>9, <1>13, <1>14, <2>1
    <3>2. k'.wait[WaitSend(d)] = t
      BY <1>6, <1>7, <3>1
    <3>3. \A u \in Thread \ {t} : ~Sending(u, d)
      BY <1>9, <1>11, <1>14, <2>1
    <3>4. kernel.wait[WaitSend(d)] = None
      BY <1>1, <3>3, KernelSenders
    <3> QED
      BY <1>3, <1>4, <2>1, <3>1, <3>2, <3>4
  <2>2. CASE s # t
    <3>1. Sending(s, d)
      BY <1>10, <1>14, <2>2
    <3>2. o # WaitSend(d)
      BY <1>11, <1>13, <2>2, <3>1
    <3>3. kernel.wait[WaitSend(d)] = s
      BY <2>2, <3>1, KernelSenders
    <3>4. frame[s].prev = None
      BY <3>1 DEF RoomInvariant, SendersAreNamed
    <3> QED
      BY <1>4, <1>12, <2>2, <3>2, <3>3, <3>4
  <2> QED
    BY <2>1, <2>2
<1>15. ASSUME NEW d \in Thread, \A s \in Thread : ~Sending(s, d)'
       PROVE  k'.wait[WaitSend(d)] = None
  <2>1. o # WaitSend(d)
    BY <1>9, <1>13, <1>15
  <2>2. \A s \in Thread \ {t} : ~Sending(s, d)
    BY <1>10, <1>15
  <2>3. kernel.wait[WaitSend(d)] = None
    BY <2>2, KernelSenders
  <2> QED
    BY <1>12, <2>1, <2>3
<1>16. ASSUME NEW s \in Thread, NEW d \in Thread, Sending(s, d)', Asleep(s)'
       PROVE  Len(msgMap'[d][s]) = 2
  <2>1. CASE s = t
    <3>1. IsSend(call) /\ call.peer = d /\ ~IsReceive(call)
      BY <1>8, <1>9, <1>16, <2>1, CallShapes
    <3>2. Len(msgMap[d][t]) = 2
      BY <3>1 DEF Blocks
    <3> QED
      BY <1>8, <2>1, <3>2
  <2>2. CASE s # t
    <3>1. kernel.state[s] = "INTERRUPTABLE"
      BY <1>6, <1>16, <2>2, SleptBefore DEF Asleep
    <3>2. k.state[s] = "INTERRUPTABLE"
      BY <1>5, <3>1, SleptBefore
    <3>3. Len(msgMap[d][s]) = 2
      BY <1>10, <1>16, <2>2, <3>2 DEF RoomInvariant, SendersHaveNoRoom, Asleep
    <3> QED
      BY <1>8, <3>3
  <2> QED
    BY <2>1, <2>2
<1> QED
  BY <1>14, <1>15, <1>16 DEF SendersAreNamed, SendersHaveNoRoom

\* A call that sends fills no other thread's queue, and empties none.
LEMMA DeliversRoom ==
  ASSUME RoomInvariant, NEW t \in Thread, NEW call, NEW kernel,
         Attempt(t, call, kernel), Delivers(t, call, kernel)
  PROVE  SendersAreNamed' /\ SendersHaveNoRoom'
<1>1. Types /\ FramesNameObjects /\ MailInvariant
  BY DEF RoomInvariant, MailInvariant
<1>2. PICK d \in Thread : d = call.peer
  BY <1>1, DeliversTypes
<1>3. \A e, r \in Thread : r # t => msgMap'[e][r] = msgMap[e][r]
  BY <1>1, <1>2, DeliversTypes
<1>4. Good(kernel) /\ NobodyBlocks(k, kernel, {})
  BY <1>1, KernelOfAttempt
<1>5. WaitReceive(d) \in Obj
  BY ObjAssumption
<1>6. k' = Wake(kernel, WaitReceive(d)) /\ frame' = [frame EXCEPT ![t] = None]
  BY <1>2 DEF Delivers
<1>7. NobodyBlocks(kernel, k', {}) /\ k'.wait = kernel.wait
  BY <1>4, <1>5, <1>6, WakeBlocksNobody
<1>8. /\ SendersAreNamed'
      /\ \A s, e \in Thread : Sending(s, e)' <=> s # t /\ Sending(s, e)
  BY <1>6, <1>7, FinishSenders
<1>9. ASSUME NEW s \in Thread, NEW e \in Thread, Sending(s, e)', Asleep(s)'
      PROVE  Len(msgMap'[e][s]) = 2
  <2>1. s # t /\ Sending(s, e)
    BY <1>8, <1>9
  <2>2. kernel.state[s] = "INTERRUPTABLE"
    BY <1>7, <1>9, SleptBefore DEF Asleep
  <2>3. k.state[s] = "INTERRUPTABLE"
    BY <1>4, <2>2, SleptBefore
  <2>4. Len(msgMap[e][s]) = 2
    BY <2>1, <2>3 DEF RoomInvariant, SendersHaveNoRoom, Asleep
  <2> QED
    BY <1>3, <2>1, <2>4
<1> QED
  BY <1>8, <1>9 DEF SendersHaveNoRoom

\* A call that receives wakes the one sender that waits for it.
LEMMA ReceivesRoom ==
  ASSUME RoomInvariant, NEW t \in Thread, NEW call, NEW kernel, NEW r \in Thread,
         Attempt(t, call, kernel), Receives(t, call, kernel, r)
  PROVE  SendersAreNamed' /\ SendersHaveNoRoom'
<1>1. Types /\ FramesNameObjects /\ MailInvariant
  BY DEF RoomInvariant, MailInvariant
<1>2. \A e, s \in Thread : e # t => msgMap'[e][s] = msgMap[e][s]
  BY <1>1, ReceivesTypes
<1>3. Good(kernel) /\ NobodyBlocks(k, kernel, {})
  BY <1>1, KernelOfAttempt
<1>4. WaitSend(t) \in Obj
  BY ObjAssumption
<1>5. k' = Wake(kernel, WaitSend(t)) /\ frame' = [frame EXCEPT ![t] = None]
  BY DEF Receives
<1>6. /\ NobodyBlocks(kernel, k', {}) /\ k'.wait = kernel.wait
      /\ \A u \in Thread : kernel.wait[WaitSend(t)] = u => k'.state[u] \notin Blocked
  BY <1>3, <1>4, <1>5, WakeBlocksNobody
<1>7. /\ SendersAreNamed'
      /\ \A s, e \in Thread : Sending(s, e)' <=> s # t /\ Sending(s, e)
  BY <1>5, <1>6, FinishSenders
<1>8. ASSUME NEW s \in Thread, NEW e \in Thread, Sending(s, e)', Asleep(s)'
      PROVE  Len(msgMap'[e][s]) = 2
  <2>1. s # t /\ Sending(s, e)
    BY <1>7, <1>8
  <2>2. e # t
    <3>1. ASSUME e = t PROVE FALSE
      <4>1. kernel.wait[WaitSend(t)] = s
        BY <2>1, <3>1, KernelSenders
      <4>2. k'.state[s] \notin Blocked
        BY <1>6, <4>1
      <4> QED
        BY <1>8, <4>2 DEF Asleep, Blocked
    <3> QED
      BY <3>1
  <2>3. kernel.state[s] = "INTERRUPTABLE"
    BY <1>6, <1>8, SleptBefore DEF Asleep
  <2>4. k.state[s] = "INTERRUPTABLE"
    BY <1>3, <2>3, SleptBefore
  <2>5. Len(msgMap[e][s]) = 2
    BY <2>1, <2>4 DEF RoomInvariant, SendersHaveNoRoom, Asleep
  <2> QED
    BY <1>2, <2>2, <2>5
<1> QED
  BY <1>7, <1>8 DEF SendersHaveNoRoom

\* Every step keeps the invariant.
LEMMA RoomStep ==
  ASSUME OneSender
  PROVE  RoomInvariant /\ [Next]_vars => RoomInvariant'
<1> SUFFICES ASSUME RoomInvariant, [Next]_vars PROVE RoomInvariant'
  OBVIOUS
<1>1. Types /\ MailInvariant
  BY DEF RoomInvariant, MailInvariant
<1>2. MailInvariant'
  BY <1>1, MailStep
<1>3. CASE UNCHANGED vars
  <2>1. SendersAreNamed' /\ SendersHaveNoRoom'
    BY <1>3 DEF vars, RoomInvariant, SendersAreNamed, SendersHaveNoRoom, Sending, Asleep
  <2> QED
    BY <1>2, <2>1 DEF RoomInvariant
<1>4. CASE Tick
  <2>1. NobodyBlocks(k, k', {}) /\ k'.wait = k.wait /\ frame' = frame /\ msgMap' = msgMap
    BY <1>1, <1>4, ClockBlocksNobody DEF Tick, Types
  <2>2. \A u \in Thread : Asleep(u)' => Asleep(u)
    BY <2>1, SleptBefore DEF Asleep
  <2>3. SendersAreNamed' /\ SendersHaveNoRoom'
    BY <2>1, <2>2 DEF RoomInvariant, SendersAreNamed, SendersHaveNoRoom, Sending
  <2> QED
    BY <1>2, <2>3 DEF RoomInvariant
<1>5. CASE \E t \in Thread : \E call, kernel : Attempt(t, call, kernel)
  <2>1. SendersAreNamed' /\ SendersHaveNoRoom'
    BY <1>1, <1>5, AttemptCases, BlocksRoom, DeliversRoom, ReceivesRoom
  <2> QED
    BY <1>2, <2>1 DEF RoomInvariant
<1> QED
  BY <1>1, <1>3, <1>4, <1>5, Steps

\* No wake-up of a sender is lost, and its queue never holds more than two
\* messages, as long as no two threads send to one receiver.
THEOREM SendersAreWoken == OneSender => (Spec => []NoSleepWithRoom)
<1> SUFFICES ASSUME OneSender PROVE Spec => []NoSleepWithRoom
  OBVIOUS
<1>1. Init => MailInvariant
  BY InitMail
<1>2. Init => RoomInvariant
  <2> SUFFICES ASSUME Init PROVE RoomInvariant
    OBVIOUS
  <2>1. \A t \in Thread : frame[t] = None
    BY DEF Init
  <2>2. \A o \in Obj : k.wait[o] = None
    BY DEF Init, InitialKernel
  <2>3. \A t \in Thread : WaitSend(t) \in Obj
    BY ObjAssumption
  <2> QED
    BY <1>1, <2>1, <2>2, <2>3
       DEF RoomInvariant, SendersAreNamed, SendersHaveNoRoom, Sending
<1>3. RoomInvariant /\ [Next]_vars => RoomInvariant'
  BY RoomStep
<1>4. RoomInvariant => NoSleepWithRoom
  <2> SUFFICES ASSUME RoomInvariant PROVE NoSleepWithRoom
    OBVIOUS
  <2>1. TypeOK
    BY DEF RoomInvariant, MailInvariant, Types, TypeOK, Good, Exact, Queues, Frames
  <2> QED
    BY <2>1 DEF RoomInvariant, SendersHaveNoRoom, NoSleepWithRoom
<1> QED
  BY <1>2, <1>3, <1>4, PTL DEF Spec
=============================================================================
