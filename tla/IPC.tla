-------------------------------- MODULE IPC --------------------------------
(***************************************************************************)
(* Message passing between threads (SystemCalls.cpp, the message queues of *)
(* Thread.cpp and the WaitableObj of WaitableObj.cpp) on top of the thread *)
(* layer of Threads: a sender that finds the queue full waits on the       *)
(* receiver's waitIPCSend, a receiver that finds none waits on its own     *)
(* waitIPCReceive, and whoever changes a queue wakes the other side.       *)
(*                                                                         *)
(* System calls run with interrupts off, so one action is a call from its  *)
(* start, or from its return out of WaitableObj::Wait, to its end or to    *)
(* the next Wait.  Ticks preempt the threads between their calls.          *)
(***************************************************************************)
EXTENDS Threads

CONSTANTS Idle,      \* the kernel thread bspmain creates; it makes no calls
          Payload,   \* what a message can say
          Sends      \* who sends what to whom: <<source, destination, payload>>

WaitSend(t) == <<"waitIPCSend", t>>
WaitReceive(t) == <<"waitIPCReceive", t>>

\* Threads are known by their pids, in the order of which a Map is iterated.
ASSUME ThreadAssumption == Thread \subseteq Nat /\ Idle \in Thread
ASSUME SendsAssumption ==
  Sends \subseteq (Thread \ {Idle}) \X (Thread \ {Idle}) \X Payload
ASSUME ObjAssumption ==
  Obj = {WaitSend(t) : t \in Thread} \cup {WaitReceive(t) : t \in Thread}

\* The calls a thread can make, given who communicates with it.
Calls(t) ==
  {[op |-> "SendMessageTo", peer |-> s[2], msg |-> s[3]] :
     s \in {x \in Sends : x[1] = t}}
  \cup {[op |-> "ReceiveFrom", peer |-> s[1]] : s \in {x \in Sends : x[2] = t}}
  \cup [op : {"ReceiveAll"}]

\* A call that waits, and the thread that waited before.
Frame == [obj : Obj, prev : Thread \cup {None}, call : UNION {Calls(t) : t \in Thread}]

Message == [from : Thread, msg : Payload, at : {"first", "second"},
            buffer : {"first", "second"}]

ASSUME NullAssumption == None \notin Message \cup Frame

VARIABLES k,         \* the kernel record of Threads
          msgMap,    \* [Thread -> [Thread -> Seq(Payload)]], by receiver, source
          frame,     \* [Thread -> a call blocked in Wait with its saved prev]
          received   \* [Thread -> what the last receive wrote, and where]

vars == <<k, msgMap, frame, received>>

\* After boot: the idle thread runs, the others are in user code and ready, in
\* the order they were made in.
Init ==
  /\ \E lists \in [Level -> BoundedSeq(Thread, Cardinality(Thread))] :
       /\ ListsHoldExactly(lists, Thread \ {Idle})
       /\ k = [InitialKernel EXCEPT
                 !.state = [t \in Thread |-> IF t = Idle THEN "RUNNING" ELSE "READY"],
                 !.ready = lists,
                 !.curr = Idle, !.idle = Idle, !.serving = TRUE, !.budget = Slice]
  /\ msgMap = [d \in Thread |-> [s \in Thread |-> <<>>]]
  /\ frame = [t \in Thread |-> None]
  /\ received = [t \in Thread |-> None]

Block(t, obj, call, kernel) ==
  /\ k' = WaitOn(kernel, obj)
  /\ frame' = [frame EXCEPT ![t] = [obj |-> obj, prev |-> kernel.wait[obj], call |-> call]]
  /\ UNCHANGED <<msgMap, received>>

Finish(t) == frame' = [frame EXCEPT ![t] = None]

-----------------------------------------------------------------------------
(* Each call tries until it succeeds: from the start with the kernel as it *)
(* is, after a Wait with the kernel Wait returns in.                       *)

\* ReceiveMessage accepts a message unless the source has more than one queued.
ReceiveMessage(t, d) == Len(msgMap[d][t]) <= 1

\* Faulty variant: the receiver is not woken.
SendWithoutWake(t, call, kernel) ==
  \/ /\ ~ReceiveMessage(t, call.peer)
     /\ Block(t, WaitSend(call.peer), call, kernel)
  \/ /\ ReceiveMessage(t, call.peer)
     /\ msgMap' = [msgMap EXCEPT ![call.peer][t] = Append(@, call.msg)]
     /\ k' = kernel
     /\ Finish(t)
     /\ UNCHANGED received

\* Faulty variant: a call that was blocked sends its message over again.
SendOverAgain(t, call, kernel) ==
  \/ /\ ~ReceiveMessage(t, call.peer)
     /\ Block(t, WaitSend(call.peer), call, kernel)
  \/ /\ ReceiveMessage(t, call.peer)
     /\ msgMap' = [msgMap EXCEPT ![call.peer][t] = @ \o
                     (IF frame[t] = None THEN <<call.msg>> ELSE <<call.msg, call.msg>>)]
     /\ k' = Wake(kernel, WaitReceive(call.peer))
     /\ Finish(t)
     /\ UNCHANGED received

\* A destination that does not exist returns -1 and changes nothing: left out.
SendMessageTo(t, call, kernel) ==
  \/ /\ ~ReceiveMessage(t, call.peer)
     /\ Block(t, WaitSend(call.peer), call, kernel)
  \/ /\ ReceiveMessage(t, call.peer)
     /\ msgMap' = [msgMap EXCEPT ![call.peer][t] = Append(@, call.msg)]
     /\ k' = Wake(kernel, WaitReceive(call.peer))
     /\ Finish(t)
     /\ UNCHANGED received

\* Faulty variant: the senders are not woken.
ExtractWithoutWake(t, s, buffer, kernel) ==
  /\ received' = [received EXCEPT ![t] =
       [from |-> s, msg |-> Head(msgMap[t][s]), at |-> "first", buffer |-> buffer]]
  /\ msgMap' = [msgMap EXCEPT ![t][s] = Tail(@)]
  /\ k' = kernel
  /\ Finish(t)

\* ExtractMessage takes the oldest message of the source.  Both receiving calls
\* write it where their first argument points; buffer is their Message*.
Extract(t, s, buffer, kernel) ==
  /\ received' = [received EXCEPT ![t] =
       [from |-> s, msg |-> Head(msgMap[t][s]), at |-> "first", buffer |-> buffer]]
  /\ msgMap' = [msgMap EXCEPT ![t][s] = Tail(@)]
  /\ k' = Wake(kernel, WaitSend(t))
  /\ Finish(t)

ReceiveFrom(t, call, kernel) ==
  \/ /\ msgMap[t][call.peer] = <<>>
     /\ Block(t, WaitReceive(t), call, kernel)
  \/ /\ msgMap[t][call.peer] # <<>>
     /\ Extract(t, call.peer, "second", kernel)

\* Any source will do; the Map is searched in the order of the pids.
ReceiveAll(t, call, kernel) ==
  LET sources == {s \in Thread : msgMap[t][s] # <<>>}
  IN  \/ /\ sources = {}
         /\ Block(t, WaitReceive(t), call, kernel)
      \/ /\ sources # {}
         /\ Extract(t, Min(sources), "first", kernel)

Continue(t, call, kernel) ==
  \/ call.op = "SendMessageTo" /\ SendMessageTo(t, call, kernel)
  \/ call.op = "ReceiveFrom" /\ ReceiveFrom(t, call, kernel)
  \/ call.op = "ReceiveAll" /\ ReceiveAll(t, call, kernel)

-----------------------------------------------------------------------------
Call(t) ==
  /\ k.curr = t
  /\ frame[t] = None
  /\ t # Idle
  /\ \E call \in Calls(t) : Continue(t, call, k)

\* The thread is dispatched again, returns from Wait and tries once more.
Return(t) ==
  /\ k.curr = t
  /\ frame[t] # None
  /\ \E returned \in {WaitReturn(k, frame[t].obj, frame[t].prev)} :
       Continue(t, frame[t].call, returned)

Tick ==
  /\ frame[k.curr] = None
  /\ k' = ClockHandler(k)
  /\ UNCHANGED <<msgMap, frame, received>>

Next == Tick \/ \E t \in Thread : Call(t) \/ Return(t)

Spec == Init /\ [][Next]_vars

(* The clock keeps ticking, and code with interrupts off runs to its end.  *)
(* No thread has to make a call.                                           *)
Fairness == WF_vars(Tick) /\ \A t \in Thread : WF_vars(Return(t))

FairSpec == Spec /\ Fairness

-----------------------------------------------------------------------------
TypeOK ==
  /\ k \in Kernel
  /\ \A d, s \in Thread : msgMap[d][s] \in Seq(Payload) /\ Len(msgMap[d][s]) <= 2
  /\ frame \in [Thread -> {None} \cup Frame]
  /\ received \in [Thread -> {None} \cup Message]

Sending(t, d) ==
  frame[t] # None /\ frame[t].call.op = "SendMessageTo" /\ frame[t].call.peer = d

Receiving(t) == frame[t] # None /\ frame[t].call.op \in {"ReceiveFrom", "ReceiveAll"}

\* There is a message the blocked receive of t would return with.
HasMail(t) ==
  \E s \in Thread : /\ msgMap[t][s] # <<>>
                    /\ frame[t].call.op = "ReceiveFrom" => frame[t].call.peer = s

Asleep(t) == k.state[t] = "INTERRUPTABLE"

\* No wake-up of a receiver is lost: it never sleeps on while a message it
\* waits for is queued, whoever sent it and whatever ran between its look at
\* the queue and its Wait (SystemCalls.cpp 78, 86-89, 98-101).
NoSleepWithMail == \A t \in Thread : Receiving(t) /\ Asleep(t) => ~HasMail(t)

\* No wake-up of a sender is lost either, as long as no two threads send to
\* one receiver: it sleeps only while its queue is full, which it is with two
\* messages of one source, not with the ten of the comment (see SleepsOnlyAtMax
\* below; SystemCalls.cpp 73-90, Thread.cpp 173).
NoSleepWithRoom ==
  /\ TypeOK
  /\ \A t, d \in Thread : Sending(t, d) /\ Asleep(t) => Len(msgMap[d][t]) = 2

\* Without competing senders every blocked call whose condition has come true
\* returns, whatever the other threads do (WaitableObj.cpp 12-49).
CallsReturn ==
  \A t, d \in Thread :
    /\ Receiving(t) /\ HasMail(t) ~> ~Receiving(t)
    /\ Sending(t, d) /\ Len(msgMap[d][t]) < 2 ~> ~Sending(t, d)

\* Messages are neither lost, duplicated nor reordered between the call that
\* sends one and the call that receives it, retries and blocked calls included.
Chan == INSTANCE Channels
          WITH Capacity <- 3,
               channel  <- [d \in Thread |-> [s \in Thread |->
                             msgMap[d][s] \o (IF Sending(s, d)
                                              THEN <<frame[s].call.msg>> ELSE <<>>)]],
               received <- [d \in Thread |->
                             IF received[d] = None THEN None
                             ELSE <<received[d].from, received[d].msg>>]

ImplementsChannels == Chan!ChanSpec

-----------------------------------------------------------------------------
(* What the source says of itself and does not do. *)

\* SystemCalls.h 33-34: the arguments of ReceiveFrom are "Source,Message*" and
\* that of ReceiveAll is "Message*", which is where the message belongs.  It fails
\* with the first message of a ReceiveFrom.
DeliversToBuffer ==
  \A t \in Thread : received[t] # None => received[t].at = received[t].buffer

\* Thread.cpp 174: a queue has "Max 10 messages", so a sender waits only while the
\* receiver has ten of it; line 173 refuses the third.
MaxMessages == 10
SleepsOnlyAtMax ==
  \A t, d \in Thread : Sending(t, d) /\ Asleep(t) => Len(msgMap[d][t]) >= MaxMessages
=============================================================================
