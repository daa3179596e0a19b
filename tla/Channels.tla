------------------------------ MODULE Channels ------------------------------
(***************************************************************************)
(* What the message system calls of FreeCROS promise to the threads that   *)
(* use them: one first-in first-out channel from every thread to every     *)
(* other one.  A message is in its channel from the call of SendMessageTo  *)
(* until a receive of its destination hands it over; it is handed over     *)
(* once, and in the order its sender sent.  IPC is shown to implement this *)
(* specification.                                                          *)
(***************************************************************************)
EXTENDS Sequences, Integers

CONSTANTS Thread,    \* the threads
          None,      \* no message
          Payload,   \* what a message can say
          Capacity   \* messages a channel can hold, the one being sent included

VARIABLES channel,   \* [Thread -> [Thread -> Seq(Payload)]], by destination, source
          received   \* [Thread -> <<source, payload>> or None], the last receive

chanVars == <<channel, received>>

ChanInit ==
  /\ channel = [d \in Thread |-> [s \in Thread |-> <<>>]]
  /\ received = [d \in Thread |-> None]

Submit(s, d, m) ==
  /\ Len(channel[d][s]) < Capacity
  /\ channel' = [channel EXCEPT ![d][s] = Append(@, m)]
  /\ UNCHANGED received

Deliver(s, d) ==
  /\ channel[d][s] # <<>>
  /\ received' = [received EXCEPT ![d] = <<s, Head(channel[d][s])>>]
  /\ channel' = [channel EXCEPT ![d][s] = Tail(@)]

ChanNext ==
  \E s, d \in Thread : Deliver(s, d) \/ \E m \in Payload : Submit(s, d, m)

ChanSpec == ChanInit /\ [][ChanNext]_chanVars
=============================================================================
