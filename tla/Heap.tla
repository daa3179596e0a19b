-------------------------------- MODULE Heap --------------------------------
(***************************************************************************)
(* What a memory allocator of FreeCROS (MemoryAllocator.h) promises to     *)
(* the code that calls it: a zone of memory, from which it grants ranges   *)
(* that do not overlap, and to which each range returns as a whole.        *)
(* ListAllocator and BuddyAllocator are shown to implement this            *)
(* specification.                                                          *)
(***************************************************************************)
EXTENDS Integers

CONSTANTS First,    \* the first address of the zone
          Beyond    \* the address after its last one

VARIABLE held       \* the ranges granted and not yet returned

Ranges == {r \in [addr : First .. Beyond - 1, size : 1 .. Beyond - First] :
             r.addr + r.size <= Beyond}

Overlap(r, s) == r.addr < s.addr + s.size /\ s.addr < r.addr + r.size

HeapInit == held = {}

Grant(r) ==
  /\ \A s \in held : ~Overlap(r, s)
  /\ held' = held \union {r}

GiveBack(r) ==
  /\ r \in held
  /\ held' = held \ {r}

HeapNext == \E r \in Ranges : Grant(r) \/ GiveBack(r)

HeapSpec == HeapInit /\ [][HeapNext]_held
=============================================================================
