--------------------------- MODULE MCAddressSpaces ---------------------------
(***************************************************************************)
(* Two maps of a small machine, one with memory for ten frames and one for *)
(* a few more, whose highest region is not the last one; a module the boot *)
(* loader put right behind the image, and one beyond it.  Two threads, in  *)
(* one space or in two, touch a page behind the kernel's and two users'    *)
(* pages of one table.                                                     *)
(***************************************************************************)
EXTENDS AddressSpaces, TLC

MCRegion(type, base, length) == [type |-> type, base |-> base, length |-> length]

MCMaps ==
  {{MCRegion(1, 0, 12), MCRegion(2, 12, 4), MCRegion(1, 16, 56), MCRegion(2, 250, 6)},
   {MCRegion(1, 0, 80)}}

MCModules == {<<[from |-> 20, size |-> 3], [from |-> 30, size |-> 2]>>}

MCUserPages == <<32, 48>>
MCTouched == {23, 32, 33}

MCStale ==
  {[frame |-> 0, present |-> FALSE, user |-> FALSE, written |-> FALSE],
   [frame |-> 9, present |-> TRUE, user |-> TRUE, written |-> FALSE]}

MCSymmetry == Permutations(Thread)
=============================================================================
