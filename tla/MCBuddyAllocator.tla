------------------------- MODULE MCBuddyAllocator -------------------------
(* Instances of BuddyAllocator for TLC: reservable ranges.                 *)
EXTENDS BuddyAllocator

Halves == {[addr |-> 6, size |-> 1], [addr |-> 9, size |-> 2]}
=============================================================================
