-------------------------------- MODULE ACPI --------------------------------
(***************************************************************************)
(* The search of the firmware's tables (x86/apci/APCI.cpp).  Firmware      *)
(* memory maps the addresses where a table starts to what is there: a root *)
(* pointer in one of two areas, a list of tables in a 32-bit or a 64-bit   *)
(* format, and the table of interrupt controllers, whose structures follow *)
(* each other.  ok says whether a table's bytes add up to zero.            *)
(***************************************************************************)
EXTENDS Integers, Sequences, FiniteSetsExt

Nowhere == -1

\* FindTable: the first address with the name and a good checksum.
FindTable(memory, from, to, name) ==
  LET good == {a \in DOMAIN memory :
                 from <= a /\ a < to /\ memory[a].sig = name /\ memory[a].ok}
  IN  IF good = {} THEN Nowhere ELSE Min(good)

\* FindRSDP looks where the BIOS data area points, then in the BIOS.
FindRSDP(memory, areas) ==
  LET first == FindTable(memory, areas[1][1], areas[1][2], "RSD PTR ")
  IN  IF first # Nowhere THEN first
      ELSE FindTable(memory, areas[2][1], areas[2][2], "RSD PTR ")

\* FindEntry's traversal of a list of tables.
Traversal(memory, entries, sig) ==
  LET good == {i \in DOMAIN entries :
                 memory[entries[i]].sig = sig /\ memory[entries[i]].ok}
  IN  IF good = {} THEN Nowhere ELSE entries[Min(good)]

\* Faulty variant: a list in the 64-bit format is trusted.
FindEntryTrusting(memory, areas, sig) ==
  LET root == FindRSDP(memory, areas)
      xsdt == IF root = Nowhere THEN 0 ELSE memory[root].xsdt
      rsdt == IF root = Nowhere THEN 0 ELSE memory[root].rsdt
  IN  IF xsdt # 0 THEN Traversal(memory, memory[xsdt].entries, sig)
      ELSE IF rsdt # 0 THEN Traversal(memory, memory[rsdt].entries, sig)
      ELSE Nowhere

\* FindEntry, for the first table of a kind: from the list in the 64-bit format
\* if that is intact, else from the other one.
FindEntry(memory, areas, sig) ==
  LET root == FindRSDP(memory, areas)
      xsdt == IF root = Nowhere THEN 0 ELSE memory[root].xsdt
      rsdt == IF root = Nowhere THEN 0 ELSE memory[root].rsdt
  IN  IF xsdt # 0 /\ memory[xsdt].ok THEN Traversal(memory, memory[xsdt].entries, sig)
      ELSE IF rsdt # 0 /\ memory[rsdt].ok
      THEN Traversal(memory, memory[rsdt].entries, sig)
      ELSE Nowhere

\* Where the structures of a table start, as offsets in its list of bytes: each as
\* many bytes after the one before as that one is long, up to the table's length.
StructOffsets(madt) ==
  LET after[o \in DOMAIN madt.structs] ==
        LET next == o + madt.structs[o].len
        IN  {o} \union (IF next < madt.length THEN after[next] ELSE {})
  IN  IF 0 < madt.length THEN after[0] ELSE {}

\* FindIntrCtrlStructInMADT: the structure of a type with n of it before.
FindIntrCtrlStructInMADT(madt, type, n) ==
  LET ofType == {o \in StructOffsets(madt) : madt.structs[o].type = type}
      found  == {o \in ofType : Cardinality({p \in ofType : p < o}) = n}
  IN  IF found = {} THEN Nowhere ELSE Min(found)
=============================================================================
