-------------------------- MODULE MCListAllocator --------------------------
(* Instances of ListAllocator for TLC: reservable ranges.                  *)
EXTENDS ListAllocator

Middle == {[addr |-> 14, size |-> 3]}
\* The shortest range whose release makes a block, and a longer one.
Two == Middle \union {[addr |-> 11, size |-> 2]}
=============================================================================
