------------------------------- MODULE MCIPC -------------------------------
(* Instances of IPC for TLC: who sends what to whom.                       *)
EXTENDS IPC

CONSTANTS m1, m2

AllZero == [t \in Thread |-> 0]
WaitObjects == {WaitSend(t) : t \in Thread} \cup {WaitReceive(t) : t \in Thread}
\* Two threads that talk to each other; the order of the first one's messages shows.
Pair == {<<1, 2, m1>>, <<1, 2, m2>>, <<2, 1, m1>>}
=============================================================================
