---------------------------- MODULE MCScheduling ----------------------------
(* Instances of Scheduling for TLC: priorities.                            *)
EXTENDS Scheduling

CONSTANTS t0, t1, t2, t3

\* Three levels: a negative priority, one in the middle, and two of the highest
\* level, one of them above the range.
Mixed ==
  [t \in Thread |-> CASE t = t0 -> -5 [] t = t1 -> 120 [] t = t2 -> 95 [] OTHER -> 25]
=============================================================================
