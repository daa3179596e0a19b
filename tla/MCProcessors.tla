---------------------------- MODULE MCProcessors ----------------------------
(***************************************************************************)
(* Three firmwares: one with a list in the 32-bit format, a damaged root   *)
(* before the good one, and three processors; one whose 64-bit list is     *)
(* damaged and names another table, with two processors; and one without   *)
(* a root.  The clock starts at 0, before, and after the wrap of its low   *)
(* word.                                                                   *)
(***************************************************************************)
EXTENDS Processors, TLC

CONSTANTS p0, p1, p2

Root(ok, rsdt, xsdt) == [sig |-> "RSD PTR ", ok |-> ok, rsdt |-> rsdt, xsdt |-> xsdt]
List(ok, entries) == [sig |-> "list", ok |-> ok, entries |-> entries]
Apic(length, structs) ==
  [sig |-> "APIC", ok |-> TRUE, length |-> length, structs |-> structs]
Power == [sig |-> "FACP", ok |-> TRUE]

Local(id) == [type |-> 0, len |-> 8, id |-> id]
IoApic == [type |-> 1, len |-> 12, id |-> 0]

MCProcessor == {p0, p1, p2}
MCAreas == << <<1, 5>>, <<10, 20>> >>

MCFirmware ==
  { 11 :> Root(FALSE, 0, 0) @@ 12 :> Root(TRUE, 30, 0) @@ 30 :> List(TRUE, <<40, 41>>)
      @@ 40 :> Power
      @@ 41 :> Apic(36, 0 :> Local(p0) @@ 8 :> IoApic @@ 20 :> Local(p1) @@ 28 :> Local(p2)),
    12 :> Root(TRUE, 30, 31) @@ 30 :> List(TRUE, <<41>>) @@ 31 :> List(FALSE, <<40>>)
      @@ 40 :> Power
      @@ 41 :> Apic(28, 0 :> Local(p0) @@ 8 :> Local(p2) @@ 16 :> IoApic),
    30 :> List(FALSE, <<40>>) @@ 40 :> Power }

\* The hypothesis of the theorem about what InitAPs starts.
ASSUME SoundAssumption == \A f \in MCFirmware : Sound(f)

MCCounters == {0, 5, 25, 34}
=============================================================================
