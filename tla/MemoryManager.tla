--------------------------- MODULE MemoryManager ----------------------------
(***************************************************************************)
(* How the kernel divides the memory of the machine when it boots          *)
(* (memory/MemoryManager.cpp): a zone inside its own image for everything  *)
(* operator new allocates, where the boot loader's modules are moved       *)
(* first, and behind the image a zone of objects and a zone of pages.      *)
(*                                                                         *)
(* Addresses are numbers of bytes.  What memory holds is left out, but for *)
(* which bytes were written since the boot loader filled them: the head a  *)
(* list allocator puts at the start of its zone, and the modules' copies.  *)
(***************************************************************************)
EXTENDS Integers, Sequences, FiniteSetsExt

CONSTANTS Word,       \* 2^32, the addresses there are
          PageSize,   \* PAGE_SIZE
          MinMemory,  \* 32 << 20, what the kernel asks for
          InitStart,  \* kernelObjInitZoneStart
          KernelEnd,  \* kernelEnd, which is kernelObjInitZoneEnd as well
          HeadSize,   \* sizeof(MemoryListHead)
          ModuleSize, \* sizeof(Module)
          Maps,       \* memory maps the boot loader may report
          Modules     \* the modules it may have loaded, lists of [from, size]

ASSUME PagesAssumption == PageSize \in Nat \ {0}

\* The image ends at 20 MB, well below the 32 MB it asks for (kernel.ld).
ASSUME ImageAssumption ==
  /\ {InitStart, KernelEnd, MinMemory, ModuleSize} \subseteq Nat
  /\ HeadSize \in Nat \ {0}
  /\ InitStart < KernelEnd /\ KernelEnd + 6 * PageSize <= MinMemory

VARIABLES mmap,     \* what the boot loader reports, a set of [type, base, length]
          mods,     \* the modules where the boot loader put them
          mm,       \* the constructor's next step
          memSize,  \* MemoryManager::memSize
          zone,     \* the zones that have an allocator
          used,     \* the bytes of the zone in the image before its free rest
          written,  \* the bytes behind the image that were written since boot
          modules   \* the moved modules: address, size, and whether intact

memoryVars == <<mmap, mods, mm, memSize, zone, used, written, modules>>

\* PAGE_UPPER_ALIGN
PageUpperAlign(a) == PageSize * ((a + PageSize - 1) \div PageSize)

Bytes(from, size) == from .. from + size - 1

\* The end of the highest available region, as a word.  Regions of other types
\* and holes below that address are not looked at.
MemHighLimit(map) ==
  Max({0} \union {(r.base + r.length) % Word : r \in {s \in map : s.type = 1}})

\* The boot loader reports finitely many regions, and loads modules somewhere.
ASSUME BootAssumption ==
  /\ \A map \in Maps : MemHighLimit(map) \in Nat
  /\ Modules \subseteq Seq([from : Nat, size : Nat])

\* Faulty variant: the pages start where the objects' part ends, unaligned.
ObjEndUnaligned(limit) == (limit - KernelEnd) \div 6 + KernelEnd

\* A sixth of the memory behind the image is for objects, the rest for pages.
ObjEnd(limit) == PageUpperAlign((limit - KernelEnd) \div 6 + KernelEnd)

\* Faulty variant: the modules are moved once all zones are there.
ModulesLast == <<"InitInitAllocator", "ArrangeMemoryLayout", "MoveModulesToSafe">>

\* The constructor.  Each step is an Assert: one that fails ends the boot.
Steps == <<"InitInitAllocator", "MoveModulesToSafe", "ArrangeMemoryLayout">>

InStep(s) == mm <= Len(Steps) /\ Steps[mm] = s

Booted == mm > Len(Steps)

MemoryInit ==
  /\ mmap \in Maps
  /\ mods \in Modules
  /\ mm = 1
  /\ memSize = 0
  /\ zone = <<>>
  /\ used = 0
  /\ written = {}
  /\ modules = <<>>

Zone(from, to) == [start |-> from, size |-> to - from]

InitInitAllocator ==
  /\ InStep("InitInitAllocator")
  /\ mm' = mm + 1
  /\ zone' = [z \in {"init"} |-> Zone(InitStart, KernelEnd)]
  /\ UNCHANGED <<mmap, mods, memSize, used, written, modules>>

\* The table of the modules goes first; then the next module goes behind what
\* is taken, and is copied from where it is.  Each has a head, and so has the
\* free rest behind; without room, or for an empty module, the boot ends.
MoveModulesToSafe ==
  /\ InStep("MoveModulesToSafe")
  /\ IF mods = <<>>
     THEN /\ mm' = mm + 1
          /\ UNCHANGED <<used, modules, mods>>
     ELSE LET m     == Head(mods)
              table == IF modules = <<>> THEN HeadSize + ModuleSize * Len(mods) ELSE 0
              to    == InitStart + used + table + HeadSize
          IN  /\ m.size > 0 /\ to + m.size + HeadSize <= KernelEnd
              /\ used' = used + table + HeadSize + m.size
              /\ modules' = Append(modules,
                   [addr |-> to, size |-> m.size,
                    intact |-> Bytes(m.from, m.size) \intersect written = {}])
              /\ mods' = Tail(mods)
              /\ UNCHANGED mm
  /\ UNCHANGED <<mmap, memSize, zone, written>>

\* Initialize of the objects' list allocator puts a head at the zone's start;
\* the page allocator keeps its state in the zone of the image.
ArrangeMemoryLayout ==
  LET limit == MemHighLimit(mmap)
      end   == ObjEnd(limit)
  IN  /\ InStep("ArrangeMemoryLayout")
      /\ limit > MinMemory
      /\ mm' = mm + 1
      /\ memSize' = limit
      /\ zone' = [z \in {"init", "page", "user"} |->
           CASE z = "init" -> Zone(InitStart, KernelEnd)
             [] z = "page" -> Zone(end, limit)
             [] z = "user" -> Zone(KernelEnd, end)]
      /\ written' = written \union Bytes(KernelEnd, HeadSize)
      /\ UNCHANGED <<mmap, mods, used, modules>>

MemoryBoot == InitInitAllocator \/ MoveModulesToSafe \/ ArrangeMemoryLayout

\* The memory manager for itself; what others do leaves its variables alone.
MemorySpec == MemoryInit /\ [][MemoryBoot]_memoryVars

\* Faulty variant: the zones are asked in the order of their addresses.
SearchByAddress == <<"init", "user", "page">>

SearchOrder == <<"init", "page", "user">>

Holds(z, a, n) == z.start <= a /\ a + n <= z.start + z.size

\* The first allocator whose zone holds the range, or none.  An address at the
\* very end of a zone is in it, because delete asks with a size of 0.
GetProperAlloc(a, n) ==
  LET holding == {i \in DOMAIN SearchOrder : Holds(zone[SearchOrder[i]], a, n)}
  IN  IF holding = {} THEN "none" ELSE SearchOrder[Min(holding)]

-----------------------------------------------------------------------------

\* No zone has a negative size, the three do not overlap, they lie inside the
\* memory of the machine, and the zone of pages starts at a page: the end of
\* the objects' part is rounded up (MemoryManager.cpp 85-102).
ZonesAreDisjoint ==
  Booted =>
    /\ \A z \in DOMAIN zone : zone[z].size \in Nat
    /\ zone["init"].start + zone["init"].size <= zone["user"].start
    /\ zone["user"].start + zone["user"].size <= zone["page"].start
    /\ zone["page"].start % PageSize = 0
    /\ zone["page"].start + zone["page"].size <= memSize

\* A module is moved before anything is written to the memory it was loaded to,
\* and its copy lies in the zone of the image, apart from the other copies
\* (MemoryManager.cpp 124: "moved here so that nothing overwrites them").
ModulesAreIntact ==
  \A i \in DOMAIN modules :
    /\ modules[i].intact
    /\ modules[i].addr + modules[i].size <= KernelEnd
    /\ \A j \in 1 .. i - 1 : modules[j].addr + modules[j].size < modules[i].addr
=============================================================================
