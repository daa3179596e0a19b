---------------------------- MODULE MemoryProofs ----------------------------
(***************************************************************************)
(* Proofs about the memory manager and the address spaces, for any size of *)
(* memory, page, head and table, any modules and any map of memory, any    *)
(* threads, and whatever pages they touch.                                 *)
(*                                                                         *)
(* SpacesGood is the invariant of the spaces: no frame is used twice,      *)
(* those a handler has taken but not yet put anywhere included, nor do two *)
(* entries of directories name one table; the kernel's pages are where     *)
(* they should be, and no handler is about to replace a table of theirs.   *)
(* Mapping a page only adds (Grown, Kept); what a run of the loop in       *)
(* CreateAddressSpace or CopyDataFromAnotherSpace leaves is found by       *)
(* counting its rounds.                                                    *)
(***************************************************************************)
EXTENDS AddressSpaces, FiniteSetTheorems, SequenceTheorems, TLAPS

-----------------------------------------------------------------------------
(* Arithmetic.                                                             *)

\* Multiples of a number leave no rest.  The rest would be a multiple itself.
LEMMA MultipleHasNoRest ==
  ASSUME NEW p \in Nat \ {0}, NEW q \in Nat
  PROVE  (p * q) % p = 0
<1> DEFINE n == p * q
           d == n \div p
           r == n % p
<1>1. n \in Nat BY SMT
<1>2. n = p * d + r /\ r \in 0 .. p - 1 /\ d \in Int BY <1>1, SMT
<1>3. n = p * q OBVIOUS
<1> HIDE DEF n, d, r
<1>4. r = p * (q - d) BY <1>2, <1>3, SMT
<1>5. CASE q - d >= 1
  <2>1. PICK k \in Nat : q - d = k + 1 BY <1>2, <1>5, SMT
  <2>2. p * k \in Nat /\ p * (k + 1) = p * k + p BY SMT
  <2> QED BY <1>2, <1>4, <2>1, <2>2, SMT
<1>6. CASE q - d <= -1
  <2>1. PICK k \in Nat : d - q = k + 1
    <3> d - q - 1 \in Nat /\ d - q = (d - q - 1) + 1 BY <1>2, <1>6, SMT
    <3> QED OBVIOUS
  <2>2. p * k \in Nat /\ p * (k + 1) = p * k + p BY SMT
  <2>3. r = -(p * (k + 1)) BY <1>2, <1>4, <2>1, SMT
  <2> QED BY <1>2, <2>2, <2>3, SMT
<1>7. CASE q - d = 0 BY <1>2, <1>4, <1>7, SMT
<1> QED BY <1>2, <1>5, <1>6, <1>7, SMT DEF r

\* PAGE_UPPER_ALIGN moves an address to the next page, and by less than one.
LEMMA Rounding ==
  ASSUME NEW a \in Nat
  PROVE  /\ PageUpperAlign(a) \in Nat
         /\ a <= PageUpperAlign(a)
         /\ PageUpperAlign(a) < a + PageSize
         /\ PageUpperAlign(a) % PageSize = 0
<1> DEFINE b == a + PageSize - 1
           q == b \div PageSize
           r == b % PageSize
           z == PageSize * q
<1>1. b \in Nat /\ b = a + PageSize - 1 BY PagesAssumption, SMT
<1>2. b = z + r /\ r \in 0 .. PageSize - 1 /\ q \in Nat BY <1>1, PagesAssumption, SMT
<1>3. PageUpperAlign(a) = z BY DEF PageUpperAlign
<1> HIDE DEF b, q, r
<1>4. z \in Nat BY <1>2, PagesAssumption, SMT
<1>5. z % PageSize = 0 BY <1>2, PagesAssumption, MultipleHasNoRest
<1> HIDE DEF z
<1>6. a <= z /\ z < a + PageSize BY <1>1, <1>2, <1>4, PagesAssumption, SMT
<1> QED BY <1>3, <1>4, <1>5, <1>6

\* The objects' part ends at a page, behind the image and inside the memory.
LEMMA ObjEndIsInside ==
  ASSUME NEW limit \in Nat, limit > MinMemory
  PROVE  /\ ObjEnd(limit) \in Nat
         /\ KernelEnd < ObjEnd(limit) /\ ObjEnd(limit) <= limit
         /\ ObjEnd(limit) % PageSize = 0
<1> DEFINE s == (limit - KernelEnd) \div 6
<1>1. /\ KernelEnd \in Nat /\ limit - KernelEnd \in Nat
      /\ limit - KernelEnd > 6 * PageSize
  BY PagesAssumption, ImageAssumption, SMT
<1>2. s \in Nat /\ 6 * s <= limit - KernelEnd /\ limit - KernelEnd < 6 * s + 6
  BY <1>1, SMT
<1> HIDE DEF s
<1>3. s >= PageSize /\ s >= 1 BY <1>1, <1>2, PagesAssumption, SMT
<1>4. s + KernelEnd \in Nat BY <1>1, <1>2, SMT
<1>5. ObjEnd(limit) = PageUpperAlign(s + KernelEnd) BY DEF ObjEnd, s
<1>6. /\ PageUpperAlign(s + KernelEnd) \in Nat
      /\ s + KernelEnd <= PageUpperAlign(s + KernelEnd)
      /\ PageUpperAlign(s + KernelEnd) < s + KernelEnd + PageSize
      /\ PageUpperAlign(s + KernelEnd) % PageSize = 0
  BY <1>4, Rounding
<1> QED BY <1>1, <1>2, <1>3, <1>5, <1>6, PagesAssumption, SMT

\* What is allocated next lies behind what is taken, and is then taken too.
LEMMA Behind ==
  ASSUME NEW start \in Nat, NEW taken \in Nat, NEW table \in Nat,
         NEW head \in Nat, head >= 1, NEW size \in Nat
  PROVE  LET to    == start + taken + table + head
             after == taken + table + head + size
         IN  /\ to \in Nat /\ start + taken < to /\ after \in Nat
             /\ taken <= after /\ to + size = start + after
BY SMT

-----------------------------------------------------------------------------
(* The memory manager while it boots, and afterwards.                      *)

\* Modules where the boot loader put them, and their copies.
Loaded == [from : Nat, size : Nat]
Module == [addr : Nat, size : Nat, intact : BOOLEAN]

\* What the variables of the boot hold.
MemoryTypes ==
  /\ mm \in 1 .. 4
  /\ used \in Nat
  /\ mods \in Seq(Loaded)
  /\ modules \in Seq(Module)
  /\ mmap \in Maps

\* The copies lie between the start of the zone in the image and what is taken.
CopiesAreTaken ==
  \A i \in DOMAIN modules :
    /\ InitStart < modules[i].addr
    /\ modules[i].addr + modules[i].size <= InitStart + used

\* The first step moves no module, only the last one writes behind the image.
NothingWrittenYet == (mm <= 3 => written = {}) /\ (mm = 1 => modules = <<>>)

\* The zones ArrangeMemoryLayout cuts a memory of this size into.
LayoutOf(limit) ==
  [z \in {"init", "page", "user"} |->
     CASE z = "init" -> Zone(InitStart, KernelEnd)
       [] z = "page" -> Zone(ObjEnd(limit), limit)
       [] z = "user" -> Zone(KernelEnd, ObjEnd(limit))]

\* After the last step they are those of the map's memory.
ZonesAreLaidOut ==
  mm = 4 => /\ memSize = MemHighLimit(mmap)
            /\ memSize \in Nat /\ memSize > MinMemory
            /\ zone = LayoutOf(memSize)

\* The invariant of the boot.
MemoryInvariant ==
  /\ MemoryTypes
  /\ NothingWrittenYet
  /\ CopiesAreTaken
  /\ ModulesAreIntact
  /\ ZonesAreLaidOut

\* The steps of the boot, in the order of the source.
LEMMA StepsInOrder ==
  /\ Len(Steps) = 3
  /\ Steps[1] = "InitInitAllocator"
  /\ Steps[2] = "MoveModulesToSafe"
  /\ Steps[3] = "ArrangeMemoryLayout"
BY DEF Steps

\* Where the boot stands, by the number of the step.
LEMMA StepNumbers ==
  ASSUME mm \in 1 .. 4
  PROVE  /\ InStep("InitInitAllocator") <=> mm = 1
         /\ InStep("MoveModulesToSafe") <=> mm = 2
         /\ InStep("ArrangeMemoryLayout") <=> mm = 3
         /\ Booted <=> mm = 4
<1>1. CASE mm = 1 BY <1>1, StepsInOrder, SMT DEF InStep, Booted
<1>2. CASE mm = 2 BY <1>2, StepsInOrder, SMT DEF InStep, Booted
<1>3. CASE mm = 3 BY <1>3, StepsInOrder, SMT DEF InStep, Booted
<1>4. CASE mm = 4 BY <1>4, StepsInOrder, SMT DEF InStep, Booted
<1> QED BY <1>1, <1>2, <1>3, <1>4, SMT

\* Before its first step the boot loader's image and modules are in place.
LEMMA MemoryInitIsGood == MemoryInit => MemoryInvariant
BY BootAssumption, SMT
DEF MemoryInit, MemoryInvariant, MemoryTypes, NothingWrittenYet, CopiesAreTaken,
    ModulesAreIntact, ZonesAreLaidOut, Loaded

\* Making the first allocator takes nothing yet.
LEMMA InitAllocatorKeeps ==
  ASSUME MemoryInvariant, InitInitAllocator
  PROVE  MemoryInvariant'
<1>1. mm = 1 /\ mm' = 2 /\ used' = used
  <2>1. mm \in 1 .. 4 BY DEF MemoryInvariant, MemoryTypes
  <2>2. mm = 1 BY <2>1, StepNumbers DEF InitInitAllocator
  <2> QED BY <2>2, SMT DEF InitInitAllocator
<1>2. /\ mm' <= 3 /\ mm' # 4 /\ mm' # 1 /\ modules = <<>>
      /\ written = {} /\ written' = written
      /\ UNCHANGED <<mmap, mods, modules>>
  BY <1>1, SMT DEF MemoryInvariant, NothingWrittenYet, InitInitAllocator
<1>3. MemoryTypes' /\ ModulesAreIntact'
  BY <1>1, <1>2, ImageAssumption, SMT
  DEF MemoryInvariant, MemoryTypes, ModulesAreIntact
<1>4. CopiesAreTaken'
  BY <1>2, SMT DEF CopiesAreTaken
<1> QED
  BY <1>2, <1>3, <1>4, SMT
  DEF MemoryInvariant, NothingWrittenYet, ZonesAreLaidOut

\* Moving a module takes its room behind what is taken, and away from the others.
LEMMA ModulesKeep ==
  ASSUME MemoryInvariant, MoveModulesToSafe
  PROVE  MemoryInvariant'
<1> DEFINE m     == Head(mods)
           table == IF modules = <<>> THEN HeadSize + ModuleSize * Len(mods) ELSE 0
           to    == InitStart + used + table + HeadSize
           moved == [addr |-> to, size |-> m.size,
                     intact |-> Bytes(m.from, m.size) \intersect written = {}]
<1>1. mm = 2 /\ written = {}
  BY StepNumbers, SMT
  DEF MemoryInvariant, MemoryTypes, NothingWrittenYet, MoveModulesToSafe
<1>2. CASE mods = <<>>
  BY <1>1, <1>2, SMT
  DEF MemoryInvariant, MemoryTypes, NothingWrittenYet, CopiesAreTaken,
      ModulesAreIntact, ZonesAreLaidOut, MoveModulesToSafe
<1>3. CASE mods # <<>>
  <2>1. m \in Loaded /\ Tail(mods) \in Seq(Loaded)
    BY <1>3, SMT DEF MemoryInvariant, MemoryTypes
  <2>2. table \in Nat
    <3>1. Len(mods) \in Nat BY DEF MemoryInvariant, MemoryTypes
    <3>2. ModuleSize * Len(mods) \in Nat BY <3>1, ImageAssumption, SMT
    <3> QED BY <3>2, ImageAssumption, SMT
  <2>3. /\ mods' = Tail(mods) /\ mm' = mm /\ mmap' = mmap /\ memSize' = memSize
        /\ zone' = zone /\ written' = written
        /\ to + m.size + HeadSize <= KernelEnd
        /\ used' = used + table + HeadSize + m.size
        /\ modules' = Append(modules, moved)
    BY <1>3 DEF MoveModulesToSafe
  <2> HIDE DEF table, m
  <2>4. /\ to \in Nat /\ InitStart + used < to /\ used' \in Nat /\ used <= used'
        /\ to + m.size = InitStart + used' /\ m.size \in Nat /\ InitStart \in Nat
        /\ to + m.size <= KernelEnd
    <3>1. m.size \in Nat BY <2>1 DEF Loaded
    <3>2. used \in Nat BY DEF MemoryInvariant, MemoryTypes
    <3>3. HeadSize \in Nat /\ HeadSize >= 1 /\ InitStart \in Nat
      BY ImageAssumption, SMT
    <3>4. used' = used + table + HeadSize + m.size BY <2>3
    <3>5. /\ to \in Nat /\ InitStart + used < to /\ used' \in Nat /\ used <= used'
          /\ to + m.size = InitStart + used'
      BY <2>2, <3>1, <3>2, <3>3, <3>4, Behind
    <3>6. KernelEnd \in Nat BY ImageAssumption
    <3> HIDE DEF to
    <3> QED BY <2>3, <3>1, <3>3, <3>5, <3>6
  <2> HIDE DEF to
  <2>5. moved \in Module /\ moved.intact /\ moved.addr = to /\ moved.size = m.size
    BY <1>1, <2>4 DEF Module
  <2> HIDE DEF moved
  <2>6. MemoryTypes'
    BY <1>1, <2>1, <2>3, <2>4, <2>5, SMT DEF MemoryInvariant, MemoryTypes
  <2>7. /\ modules \in Seq(Module)
        /\ \A i \in DOMAIN modules' :
             \/ i \in DOMAIN modules /\ modules'[i] = modules[i]
             \/ i = Len(modules) + 1 /\ modules'[i] = moved
        /\ \A i \in DOMAIN modules : modules[i] \in Module
        /\ DOMAIN modules = 1 .. Len(modules) /\ Len(modules) \in Nat
    BY <2>3, <2>5, SMT DEF MemoryInvariant, MemoryTypes
  <2>8. CopiesAreTaken'
    <3> SUFFICES ASSUME NEW i \in DOMAIN modules'
                 PROVE  /\ InitStart < modules'[i].addr
                        /\ modules'[i].addr + modules'[i].size <= InitStart + used'
      BY DEF CopiesAreTaken
    <3>1. CASE i \in DOMAIN modules /\ modules'[i] = modules[i]
      <4>1. /\ InitStart < modules[i].addr /\ modules[i] \in Module
            /\ modules[i].addr + modules[i].size <= InitStart + used
        BY <2>7, <3>1 DEF MemoryInvariant, CopiesAreTaken
      <4> QED BY <2>4, <3>1, <4>1, SMT DEF MemoryInvariant, MemoryTypes, Module
    <3>2. CASE i = Len(modules) + 1 /\ modules'[i] = moved
      BY <2>4, <2>5, <3>2, SMT DEF MemoryInvariant, MemoryTypes
    <3> QED BY <2>7, <3>1, <3>2
  <2>9. ModulesAreIntact'
    <3> SUFFICES ASSUME NEW i \in DOMAIN modules'
                 PROVE  /\ modules'[i].intact
                        /\ modules'[i].addr + modules'[i].size <= KernelEnd
                        /\ \A j \in 1 .. i - 1 :
                             modules'[j].addr + modules'[j].size < modules'[i].addr
      BY DEF ModulesAreIntact
    <3>1. CASE i \in DOMAIN modules /\ modules'[i] = modules[i]
      <4>1. \A j \in 1 .. i - 1 : modules'[j] = modules[j]
        BY <2>3, <2>5, <2>7, <3>1, SMT
      <4> QED BY <3>1, <4>1 DEF MemoryInvariant, ModulesAreIntact
    <3>2. CASE i = Len(modules) + 1 /\ modules'[i] = moved
      <4>1. ASSUME NEW j \in 1 .. i - 1
            PROVE  modules'[j].addr + modules'[j].size < to
        <5>1. j \in DOMAIN modules /\ modules'[j] = modules[j] /\ modules[j] \in Module
          BY <2>3, <2>5, <2>7, <3>2, SMT
        <5>2. modules[j].addr + modules[j].size <= InitStart + used
          BY <5>1 DEF MemoryInvariant, CopiesAreTaken
        <5> QED BY <2>4, <5>1, <5>2, SMT DEF MemoryInvariant, MemoryTypes, Module
      <4> QED BY <2>3, <2>4, <2>5, <3>2, <4>1
    <3> QED BY <2>7, <3>1, <3>2
  <2>10. NothingWrittenYet' /\ ZonesAreLaidOut'
    BY <1>1, <2>3, SMT DEF NothingWrittenYet, ZonesAreLaidOut
  <2> QED BY <2>6, <2>8, <2>9, <2>10 DEF MemoryInvariant
<1> QED BY <1>2, <1>3

\* The layout cuts the memory into zones that do not meet.
LEMMA LayoutKeeps ==
  ASSUME MemoryInvariant, ArrangeMemoryLayout
  PROVE  MemoryInvariant'
<1>1. mm = 3 /\ mm' = 4
  BY StepNumbers, SMT DEF MemoryInvariant, MemoryTypes, ArrangeMemoryLayout
<1>2. MemHighLimit(mmap) \in Nat
  BY BootAssumption DEF MemoryInvariant, MemoryTypes
<1>3. /\ memSize' = MemHighLimit(mmap) /\ memSize' > MinMemory
      /\ zone' = LayoutOf(memSize')
  BY DEF ArrangeMemoryLayout, LayoutOf
<1>4. UNCHANGED <<mmap, mods, used, modules>>
  BY DEF ArrangeMemoryLayout
<1>5. MemoryTypes' /\ CopiesAreTaken' /\ ModulesAreIntact'
  BY <1>1, <1>4, SMT
  DEF MemoryInvariant, MemoryTypes, CopiesAreTaken, ModulesAreIntact
<1> QED
  BY <1>1, <1>2, <1>3, <1>4, <1>5, SMT
  DEF MemoryInvariant, NothingWrittenYet, ZonesAreLaidOut

\* Every step of the boot keeps the invariant.
LEMMA MemoryStep ==
  ASSUME MemoryInvariant, [MemoryBoot]_memoryVars
  PROVE  MemoryInvariant'
<1>1. CASE UNCHANGED memoryVars
  BY <1>1
  DEF memoryVars, MemoryInvariant, MemoryTypes, NothingWrittenYet, CopiesAreTaken,
      ModulesAreIntact, ZonesAreLaidOut
<1> QED
  BY <1>1, InitAllocatorKeeps, ModulesKeep, LayoutKeeps DEF MemoryBoot

-----------------------------------------------------------------------------
(* The address spaces leave the memory manager alone, so all of it holds     *)
(* whatever they do.                                                         *)

\* What the address spaces do leaves the layout of the memory as it is.
LEMMA SpacesLeaveMemory == [Next]_vars => [MemoryBoot]_memoryVars
BY DEF Next, vars, Boot, InitKernelAddressSpace, KernelThread, Process, Child,
       FaultRaised, FaultStarts, FaultTests, FaultAllocates, FaultInstalls, FaultWrites

\* While the kernel boots and afterwards the types, what the copies take and the
\* layout of the zones are as MemoryInvariant has them (MemoryManager.cpp 11-158).
THEOREM MemoryInvariantCorrect == Spec => []MemoryInvariant
<1>1. Init => MemoryInvariant BY MemoryInitIsGood DEF Init
<1>2. MemoryInvariant /\ [Next]_vars => MemoryInvariant'
  BY MemoryStep, SpacesLeaveMemory
<1> QED BY <1>1, <1>2, PTL DEF Spec

\* The zones the memory manager lays out are disjoint, inside the memory, and the
\* pages start at a page, whatever map the boot loader reports (MemoryManager.cpp
\* 85-102).
THEOREM ZonesAreDisjointCorrect == Spec => []ZonesAreDisjoint
<1>1. MemoryInvariant => ZonesAreDisjoint
  <2> SUFFICES ASSUME MemoryInvariant, Booted PROVE ZonesAreDisjoint
    BY DEF ZonesAreDisjoint
  <2>1. mm = 4 BY StepNumbers DEF MemoryInvariant, MemoryTypes
  <2>2. /\ memSize \in Nat /\ memSize > MinMemory
        /\ zone = LayoutOf(memSize)
    BY <2>1 DEF MemoryInvariant, ZonesAreLaidOut
  <2> DEFINE end == ObjEnd(memSize)
  <2>3. /\ end \in Nat /\ KernelEnd < end /\ end <= memSize /\ end % PageSize = 0
    BY <2>2, ObjEndIsInside
  <2> HIDE DEF end
  <2>4. /\ DOMAIN zone = {"init", "page", "user"}
        /\ zone["init"].start = InitStart /\ zone["init"].size = KernelEnd - InitStart
        /\ zone["user"].start = KernelEnd /\ zone["user"].size = end - KernelEnd
        /\ zone["page"].start = end /\ zone["page"].size = memSize - end
    BY <2>2 DEF LayoutOf, Zone, end
  <2>5. InitStart \in Nat /\ KernelEnd \in Nat /\ InitStart < KernelEnd
    BY ImageAssumption
  <2>6. \A z \in DOMAIN zone : zone[z].size \in Nat
    <3>1. /\ KernelEnd - InitStart \in Nat /\ end - KernelEnd \in Nat
          /\ memSize - end \in Nat
      BY <2>2, <2>3, <2>5, SMT
    <3> QED BY <2>4, <3>1
  <2>7. /\ InitStart + (KernelEnd - InitStart) = KernelEnd
        /\ KernelEnd + (end - KernelEnd) = end
        /\ end + (memSize - end) = memSize
    BY <2>2, <2>3, <2>5, SMT
  <2> QED BY <2>2, <2>3, <2>4, <2>5, <2>6, <2>7, SMT DEF ZonesAreDisjoint
<1> QED BY <1>1, MemoryInvariantCorrect, PTL

\* No module is overwritten before it is moved, and the copies lie in the image's
\* zone apart from each other, whatever modules are loaded (MemoryManager.cpp
\* 118-150).
THEOREM ModulesAreIntactCorrect == Spec => []ModulesAreIntact
<1>1. MemoryInvariant => ModulesAreIntact BY DEF MemoryInvariant
<1> QED BY <1>1, MemoryInvariantCorrect, PTL

\* The kernel gets its space only when the memory is laid out.
SpacesInvariant == MemoryInvariant /\ (kernel # 0 => Booted)

\* Every step keeps the frames in use inside their zones.
LEMMA SpacesStep ==
  ASSUME SpacesInvariant, [Next]_vars
  PROVE  SpacesInvariant'
<1>1. MemoryInvariant' BY MemoryStep, SpacesLeaveMemory DEF SpacesInvariant
<1>2. Booted => Booted'
  <2> SUFFICES ASSUME Booted PROVE Booted' OBVIOUS
  <2>1. mm = 4 BY StepNumbers DEF SpacesInvariant, MemoryInvariant, MemoryTypes
  <2>2. UNCHANGED memoryVars
    BY <2>1, SpacesLeaveMemory, StepNumbers, SMT
    DEF MemoryBoot, InitInitAllocator, MoveModulesToSafe, ArrangeMemoryLayout
  <2> QED BY <2>2 DEF memoryVars, Booted
<1>3. kernel' = kernel \/ Booted
  BY DEF Next, vars, spaceVars, Boot, InitKernelAddressSpace, KernelThread, Process,
         Child, FaultRaised, FaultStarts, FaultTests, FaultAllocates, FaultInstalls,
         FaultWrites
<1> QED BY <1>1, <1>2, <1>3 DEF SpacesInvariant

\* delete asks three allocators, in this order.
LEMMA ThreeAllocators ==
  /\ DOMAIN SearchOrder = {1, 2, 3}
  /\ SearchOrder[1] = "init" /\ SearchOrder[2] = "page" /\ SearchOrder[3] = "user"
BY SMT DEF SearchOrder

\* A least element is what Min chooses.
LEMMA TheLeast ==
  ASSUME NEW S, S \subseteq Nat, NEW least \in S, \A y \in S : least <= y
  PROVE  Min(S) = least
<1> DEFINE Lower(x) == \A y \in S : x <= y
<1>1. ASSUME NEW x \in S, Lower(x) PROVE x = least
  <2>1. x <= least /\ least <= x BY <1>1
  <2> QED BY <2>1, SMT
<1>2. Lower(least) OBVIOUS
<1>3. Min(S) = CHOOSE x \in S : Lower(x) BY Zenon DEF Min
<1> HIDE DEF Lower
<1> QED BY <1>1, <1>2, <1>3, Zenon

\* An address of the image's zone goes to the first allocator.
LEMMA FirstIsInit ==
  ASSUME NEW a, Holds(zone["init"], a, 0)
  PROVE  GetProperAlloc(a, 0) = "init"
<1> DEFINE holding == {i \in DOMAIN SearchOrder : Holds(zone[SearchOrder[i]], a, 0)}
<1>1. holding \subseteq {1, 2, 3} /\ 1 \in holding BY ThreeAllocators
<1> HIDE DEF holding
<1>2. Min(holding) = 1
  <2> holding \subseteq Nat /\ \A y \in holding : 1 <= y BY <1>1, SMT
  <2> QED BY <1>1, TheLeast
<1>3. holding # {} BY <1>1
<1> QED BY <1>2, <1>3, ThreeAllocators DEF GetProperAlloc, holding

\* A frame that is not there and lies in the page zone goes to the second one.
LEMMA ThenPages ==
  ASSUME NEW a, ~Holds(zone["init"], a, 0), Holds(zone["page"], a, 0)
  PROVE  GetProperAlloc(a, 0) = "page"
<1> DEFINE holding == {i \in DOMAIN SearchOrder : Holds(zone[SearchOrder[i]], a, 0)}
<1>1. holding \subseteq {2, 3} /\ 2 \in holding BY ThreeAllocators
<1> HIDE DEF holding
<1>2. Min(holding) = 2
  <2> holding \subseteq Nat /\ \A y \in holding : 2 <= y BY <1>1, SMT
  <2> QED BY <1>1, TheLeast
<1>3. holding # {} BY <1>1
<1> QED BY <1>2, <1>3, ThreeAllocators DEF GetProperAlloc, holding

\* delete finds the allocator a frame or a module's copy came from, whatever is
\* allocated: no frame lies at the end of the image's zone, whose end belongs to
\* two zones for a request of size 0 (MemoryManager.cpp 163-179).
THEOREM DeleteFindsOwnerCorrect == Spec => []DeleteFindsOwner
<1>1. Init => SpacesInvariant
  BY MemoryInitIsGood DEF Init, SpacesInit, SpacesInvariant
<1>2. SpacesInvariant /\ [Next]_vars => SpacesInvariant' BY SpacesStep
<1>3. SpacesInvariant => DeleteFindsOwner
  <2> SUFFICES ASSUME SpacesInvariant, kernel # 0 PROVE DeleteFindsOwner
    BY DEF DeleteFindsOwner
  <2> USE DEF SpacesInvariant, MemoryInvariant
  <2>1. mm = 4 BY StepNumbers DEF MemoryTypes
  <2>2. memSize \in Nat /\ memSize > MinMemory /\ zone = LayoutOf(memSize)
    BY <2>1 DEF ZonesAreLaidOut
  <2> DEFINE end == ObjEnd(memSize)
  <2>3. end \in Nat /\ KernelEnd < end /\ end <= memSize BY <2>2, ObjEndIsInside
  <2> HIDE DEF end
  <2>4. /\ zone["init"].start = InitStart /\ zone["init"].size = KernelEnd - InitStart
        /\ zone["page"].start = end /\ zone["page"].size = memSize - end
    BY <2>2 DEF LayoutOf, Zone, end
  <2>5. /\ InitStart \in Nat /\ KernelEnd \in Nat /\ InitStart < KernelEnd
        /\ PageSize \in Nat
    BY ImageAssumption, PagesAssumption
  <2>6. ASSUME NEW f \in ZoneFrames
        PROVE  GetProperAlloc(f * PageSize, 0) = "page"
    <3>1. /\ f \in 0 .. memSize \div PageSize
          /\ zone["page"].start <= f * PageSize
          /\ f * PageSize + PageSize <= zone["page"].start + zone["page"].size
      BY DEF ZoneFrames, Holds
    <3> DEFINE a == f * PageSize
    <3>2. a \in Nat BY <2>5, <3>1, SMT
    <3> HIDE DEF a
    <3>3. end <= a /\ a + PageSize <= end + (memSize - end) BY <2>4, <3>1 DEF a
    <3>4. ~Holds(zone["init"], a, 0)
      BY <2>2, <2>3, <2>4, <2>5, <3>2, <3>3, SMT DEF Holds
    <3>5. Holds(zone["page"], a, 0)
      BY <2>2, <2>3, <2>4, <2>5, <3>2, <3>3, SMT DEF Holds
    <3> QED BY <3>4, <3>5, ThenPages DEF a
  <2>7. ASSUME NEW i \in DOMAIN modules
        PROVE  GetProperAlloc(modules[i].addr, 0) = "init"
    <3>1. modules[i] \in Module BY DEF MemoryTypes
    <3>2. /\ InitStart < modules[i].addr
          /\ modules[i].addr + modules[i].size <= KernelEnd
      BY DEF CopiesAreTaken, ModulesAreIntact
    <3>3. Holds(zone["init"], modules[i].addr, 0)
      BY <2>4, <2>5, <3>1, <3>2, SMT DEF Holds, Module
    <3> QED BY <3>3, FirstIsInit
  <2> QED BY <2>6, <2>7 DEF DeleteFindsOwner
<1> QED BY <1>1, <1>2, <1>3, PTL DEF Spec
-----------------------------------------------------------------------------
(* The invariant of the address spaces.                                    *)

\* What the directory and the tables of a space have for a page.
Tabled(m, s, v) == m.dirs[s][DirOffset(v)] # 0
EntryOf(m, s, v) == m.tables[m.dirs[s][DirOffset(v)]][TableOffset(v)]

\* Directories and tables are different frames in use, and no two entries of
\* directories name the same table, but for the one at address 0.
WellFormed(m, frames) ==
  /\ m = [dirs |-> m.dirs, tables |-> m.tables, free |-> m.free]
  /\ frames \subseteq Nat \ {0}
  /\ m.free \subseteq frames
  /\ DOMAIN m.dirs \union (DOMAIN m.tables \ {LowTable}) \subseteq frames \ m.free
  /\ DOMAIN m.dirs \intersect DOMAIN m.tables = {}
  /\ \A s \in DOMAIN m.dirs : m.dirs[s] \in [Index -> {0} \union DOMAIN m.tables]
  /\ \A p \in DOMAIN m.tables : m.tables[p] \in [Index -> Entry]
  /\ \A s, r \in DOMAIN m.dirs : \A d, e \in Index :
       m.dirs[s][d] = m.dirs[r][e] /\ m.dirs[s][d] \notin {0, LowTable} => s = r /\ d = e

\* No entry of the directory names the table at address 0.
Proper(m, s) == \A d \in Index : m.dirs[s][d] # LowTable

\* A space whose tables could all be had has the kernel's pages where they are.
Identity(m, s, root, pages) ==
  \A v \in pages :
    /\ Tabled(m, s, v) /\ m.dirs[s][DirOffset(v)] # LowTable
    /\ EntryOf(m, s, v).present
    /\ EntryOf(m, s, v).frame = v
    /\ EntryOf(m, s, v).user => s = root

\* The pages a fault maps for users.
UserRange == UserPages[1] .. UserPages[2]

\* Frames the page allocator gave away for something else than a table.
GivenAway(m, frames) == frames \ (m.free \union DOMAIN m.dirs \union DOMAIN m.tables)

\* All tables but those of the kernel's own pages.
UserTables(m, root, pages) ==
  DOMAIN m.tables \ ({LowTable} \union {m.dirs[root][DirOffset(v)] : v \in pages})

\* The frames that entries of these tables give to users, entries of tables that
\* no directory names any more among them.
Served(m, root, pages) ==
  [a \in {b \in UserTables(m, root, pages) \X Index :
            LET e == m.tables[b[1]][b[2]] IN e.written /\ e.user /\ e.frame # 0}
     |-> m.tables[a[1]][a[2]].frame]

\* The frames a handler has in its hands.
Held(r) == {r.frame, r.table} \ {0}

\* No frame is used twice: not by two entries, two handlers or one of each.
Apart(given, request, away) ==
  /\ \A a \in DOMAIN given : given[a] \in away
  /\ \A a, b \in DOMAIN given : given[a] = given[b] => a = b
  /\ \A t \in Thread : Held(request[t]) \subseteq away
  /\ \A a \in DOMAIN given, t \in Thread : given[a] \notin Held(request[t])
  /\ \A t, u \in Thread : t # u => Held(request[t]) \intersect Held(request[u]) = {}
  /\ \A t \in Thread : request[t].frame = request[t].table => request[t].table = 0

\* What a handler may be about to do.
Request ==
  [at : {"none", "starts", "tests", "allocates", "installs", "writes"},
   page : Pages, user : BOOLEAN, frame : Nat, table : Nat]

\* Threads are in spaces there are.  Only users' pages outside the kernel's space
\* are mapped for users, no table of the kernel's pages is replaced, and a handler
\* that is about to write an entry has a table for it.
Handlers(m, root, in, request, broken, pages) ==
  /\ in \in [Thread -> {0} \union DOMAIN m.dirs]
  /\ request \in [Thread -> Request]
  /\ \A t \in Thread :
       /\ request[t].at # "none" => in[t] # 0
       /\ request[t].user => in[t] \notin {0, root} /\ request[t].page \in UserRange
       /\ request[t].at \in {"allocates", "installs"} /\ in[t] \notin broken =>
            \A v \in pages : DirOffset(v) # DirOffset(request[t].page)
       /\ request[t].at = "writes" => Tabled(m, in[t], request[t].page)

\* The kernel's space is there, all spaces are what they should be.
Good(m, root, in, last, request, broken, frames, pages) ==
  /\ root \in DOMAIN m.dirs \ broken
  /\ last \in Pages
  /\ WellFormed(m, frames)
  /\ \A s \in DOMAIN m.dirs \ broken : Identity(m, s, root, pages)
  /\ Handlers(m, root, in, request, broken, pages)
  /\ Apart(Served(m, root, pages), request, GivenAway(m, frames))

\* What is true of the memory once the kernel has its space,
SpacesAreGood ==
  Good(Memory, kernel, space, cr2, fault, partial, ZoneFrames, KernelPages)

\* and before.
SpacesGood ==
  /\ SpacesInvariant
  /\ IF kernel = 0 THEN SpacesInit ELSE SpacesAreGood

-----------------------------------------------------------------------------
(* Counting up.                                                            *)

\* A set of numbers that is not empty has a least element.
LEMMA HasLeast ==
  ASSUME NEW S, S \subseteq Nat, S # {}
  PROVE  \E x \in S : \A y \in S : x <= y
<1>1. PICK x \in S : \A y \in S : ~ (<<y, x>> \in OpToRel(<, Nat))
  BY WFMin, NatLessThanWellFounded
<1>2. ASSUME NEW y \in S PROVE x <= y
  <2>1. ~(y < x) BY <1>1 DEF OpToRel
  <2> QED BY <2>1
<1> QED BY <1>2

\* What holds at 0, and after each round if it held before, holds after them all.
LEMMA CountUp ==
  ASSUME NEW n \in Nat, NEW good, 0 \in good,
         \A i \in 0 .. n - 1 : i \in good => i + 1 \in good
  PROVE  \A i \in 0 .. n : i \in good
<1> DEFINE bad == {i \in 0 .. n : i \notin good}
<1> SUFFICES ASSUME bad # {} PROVE FALSE OBVIOUS
<1>1. bad \subseteq Nat OBVIOUS
<1> HIDE DEF bad
<1>2. PICK x \in bad : \A y \in bad : x <= y BY <1>1, HasLeast
<1>3. x \in 0 .. n /\ x \notin good /\ x # 0 BY <1>2 DEF bad
<1>4. x - 1 \in 0 .. n - 1 /\ ~(x <= x - 1) BY <1>3
<1>5. x - 1 \in good BY <1>2, <1>4 DEF bad
<1>6. (x - 1) + 1 = x BY <1>3
<1> QED BY <1>3, <1>4, <1>5, <1>6

\* Min chooses an element, and no other is less.
LEMMA MinIsLeast ==
  ASSUME NEW S, S \subseteq Nat, S # {}
  PROVE  Min(S) \in S /\ \A y \in S : Min(S) <= y
<1>1. PICK x \in S : \A y \in S : x <= y BY HasLeast
<1>2. Min(S) = x BY <1>1, TheLeast
<1> QED BY <1>1, <1>2

-----------------------------------------------------------------------------
(* Pages and their places in a directory and a table.                      *)

\* A page has a place in a directory and one in a table, which tell which it is.
LEMMA Offsets ==
  ASSUME NEW v \in Pages
  PROVE  /\ v \in Nat
         /\ DirOffset(v) = v \div PerTable
         /\ DirOffset(v) \in Index /\ TableOffset(v) \in Index
         /\ v = PerTable * DirOffset(v) + TableOffset(v)
<1> DEFINE d == v \div PerTable
           t == v % PerTable
           z == PerTable * PerTable
<1>1. PerTable \in Nat /\ PerTable >= 1 BY TableAssumption, SMT
<1>2. z \in Nat BY <1>1, SMT
<1>3. v \in Nat /\ v < z BY <1>2, SMT DEF Pages
<1>4. v = PerTable * d + t /\ t \in 0 .. PerTable - 1 /\ d \in Nat BY <1>1, <1>3, SMT
<1> HIDE DEF d, t
<1>5. d < PerTable
  <2> SUFFICES ASSUME d >= PerTable PROVE FALSE BY <1>1, <1>4, SMT
  <2>1. PICK k \in Nat : d = PerTable + k
    <3> d - PerTable \in Nat /\ d = PerTable + (d - PerTable) BY <1>1, <1>4, SMT
    <3> QED OBVIOUS
  <2>2. PerTable * d = z + PerTable * k BY <1>1, <2>1, SMT
  <2>3. PerTable * k \in Nat BY <1>1, SMT
  <2> HIDE DEF z
  <2> QED BY <1>1, <1>2, <1>3, <1>4, <2>2, <2>3, SMT
<1>6. d % PerTable = d BY <1>1, <1>4, <1>5, SMT
<1> QED BY <1>1, <1>3, <1>4, <1>5, <1>6, SMT DEF DirOffset, TableOffset, Index, d, t

\* Two pages at the same place of the same table are one.
LEMMA NoAlias ==
  ASSUME NEW v \in Pages, NEW w \in Pages,
         DirOffset(v) = DirOffset(w), TableOffset(v) = TableOffset(w)
  PROVE  v = w
BY Offsets

\* The allocator gives a free frame, or 0 if there is none.
LEMMA AllocateGives ==
  ASSUME NEW frames, frames \subseteq Nat \ {0}
  PROVE  IF frames = {} THEN Allocate(frames) = 0
                        ELSE Allocate(frames) \in frames /\ Allocate(frames) # 0
<1>1. CASE frames = {} BY <1>1 DEF Allocate
<1>2. CASE frames # {} BY <1>2, MinIsLeast DEF Allocate
<1> QED BY <1>1, <1>2

\* What mapping pages of space s may change: tables are added to s where it had
\* none, and no other entries than those of the changed pages are written.
Grown(m, r, s, changed, frames) ==
  /\ WellFormed(r, frames)
  /\ r.free \subseteq m.free
  /\ DOMAIN r.dirs = DOMAIN m.dirs
  /\ DOMAIN r.tables \subseteq DOMAIN m.tables \union m.free
  /\ \A q \in DOMAIN m.dirs, d \in Index :
       \/ r.dirs[q][d] = m.dirs[q][d]
       \/ q = s /\ m.dirs[q][d] = 0 /\ r.dirs[q][d] \in m.free
  /\ \A q \in DOMAIN m.dirs, v \in Pages :
       Tabled(m, q, v) /\ ~(q = s /\ v \in changed) =>
         Tabled(r, q, v) /\ EntryOf(r, q, v) = EntryOf(m, q, v)

\* The entry a page got, unless there was no table and no memory for one.
Mapped(m, r, s, v, entry) ==
  IF Tabled(r, s, v) THEN EntryOf(r, s, v) = entry ELSE r = m /\ m.free = {}

\* Nothing changes if nothing is finished.
LEMMA GrownNot ==
  ASSUME NEW frames, NEW m, NEW s, NEW changed, WellFormed(m, frames)
  PROVE  Grown(m, m, s, changed, frames)
BY DEF Grown

\* Of more pages more may change.
LEMMA GrownMore ==
  ASSUME NEW frames, NEW m, NEW r, NEW s, NEW a, NEW b,
         Grown(m, r, s, a, frames), a \subseteq b
  PROVE  Grown(m, r, s, b, frames)
BY DEF Grown

\* Two changes to the same space are one.
LEMMA GrownTwice ==
  ASSUME NEW frames, NEW m, NEW r, NEW x, NEW s, NEW a, NEW b,
         Grown(m, r, s, a, frames), Grown(r, x, s, b, frames), a \subseteq b
  PROVE  Grown(m, x, s, b, frames)
<1>1. /\ WellFormed(x, frames) /\ x.free \subseteq m.free
      /\ DOMAIN x.dirs = DOMAIN m.dirs
      /\ DOMAIN x.tables \subseteq DOMAIN m.tables \union m.free
  BY DEF Grown
<1>2. ASSUME NEW q \in DOMAIN m.dirs, NEW d \in Index
      PROVE  \/ x.dirs[q][d] = m.dirs[q][d]
             \/ q = s /\ m.dirs[q][d] = 0 /\ x.dirs[q][d] \in m.free
  <2>1. q \in DOMAIN r.dirs /\ r.free \subseteq m.free BY DEF Grown
  <2>2. \/ r.dirs[q][d] = m.dirs[q][d]
        \/ q = s /\ m.dirs[q][d] = 0 /\ r.dirs[q][d] \in m.free
    BY DEF Grown
  <2>3. \/ x.dirs[q][d] = r.dirs[q][d]
        \/ q = s /\ r.dirs[q][d] = 0 /\ x.dirs[q][d] \in r.free
    BY <2>1 DEF Grown
  <2>4. x.dirs[q][d] \in m.free \/ x.dirs[q][d] = r.dirs[q][d]
    BY <2>1, <2>3
  <2>5. CASE x.dirs[q][d] = r.dirs[q][d] BY <2>2, <2>5
  <2>6. CASE q = s /\ r.dirs[q][d] = 0 /\ x.dirs[q][d] \in r.free
    <3>1. m.dirs[q][d] = 0
      <4>1. r.dirs[q] \in [Index -> {0} \union DOMAIN r.tables] /\ r.free \subseteq frames
        BY <2>1 DEF Grown, WellFormed
      <4>2. m.free \subseteq frames \/ r.dirs[q][d] = m.dirs[q][d] \/ m.dirs[q][d] = 0
        BY <2>2
      <4> QED BY <2>2, <2>6, <4>1, <4>2
    <3> QED BY <2>1, <2>6, <3>1
  <2> QED BY <2>3, <2>5, <2>6
<1>3. ASSUME NEW q \in DOMAIN m.dirs, NEW v \in Pages,
             Tabled(m, q, v), ~(q = s /\ v \in b)
      PROVE  Tabled(x, q, v) /\ EntryOf(x, q, v) = EntryOf(m, q, v)
  <2>1. q \in DOMAIN r.dirs BY DEF Grown
  <2>2. Tabled(r, q, v) /\ EntryOf(r, q, v) = EntryOf(m, q, v) BY <1>3 DEF Grown
  <2>3. Tabled(x, q, v) /\ EntryOf(x, q, v) = EntryOf(r, q, v)
    BY <1>3, <2>1, <2>2 DEF Grown
  <2> QED BY <2>2, <2>3
<1> QED BY <1>1, <1>2, <1>3 DEF Grown

\* MapVirtAddrToPhysAddr changes the entry of its page, unless no table can be had.
LEMMA MapPageMaps ==
  ASSUME NEW frames, NEW m, NEW s, NEW phys, NEW virt, NEW user, NEW stale, NEW r,
         WellFormed(m, frames), s \in DOMAIN m.dirs, Proper(m, s), phys \in Nat,
         virt \in Pages, Mapping(phys, user) \in Entry, stale \in Entry,
         r = MapPage(m, s, phys, virt, user, stale)
  PROVE  /\ \A changed : virt \in changed => Grown(m, r, s, changed, frames)
         /\ Mapped(m, r, s, virt, Mapping(phys, user))
<1> DEFINE d     == DirOffset(virt)
           o     == TableOffset(virt)
           fresh == m.dirs[s][d] = 0
           t     == IF fresh THEN Allocate(m.free) ELSE m.dirs[s][d]
           old   == IF fresh THEN [i \in Index |-> stale] ELSE m.tables[t]
           new   == [old EXCEPT ![o] = Mapping(phys, user)]
<1>1. d \in Index /\ o \in Index BY Offsets
<1>2. m.dirs[s] \in [Index -> {0} \union DOMAIN m.tables] BY DEF WellFormed
<1>3. /\ m.free \subseteq frames /\ frames \subseteq Nat \ {0}
      /\ DOMAIN m.dirs \union (DOMAIN m.tables \ {LowTable}) \subseteq frames \ m.free
      /\ DOMAIN m.dirs \intersect DOMAIN m.tables = {} /\ LowTable \notin frames
  BY DEF WellFormed, LowTable
<1>4. r = IF t = 0 THEN m
          ELSE [dirs   |-> [m.dirs EXCEPT ![s][d] = t],
                tables |-> With(m.tables, t, new),
                free   |-> m.free \ {t}]
  BY DEF MapPage
<1>5. fresh => t = Allocate(m.free) OBVIOUS
<1>6. ~fresh => /\ t \in DOMAIN m.tables /\ t = m.dirs[s][d]
                /\ t # 0 /\ t # LowTable
  BY <1>1, <1>2 DEF Proper
<1>7. IF m.free = {} THEN Allocate(m.free) = 0
      ELSE Allocate(m.free) \in m.free /\ Allocate(m.free) # 0
  BY <1>3, AllocateGives
<1>8. Mapping(phys, user) \in Entry OBVIOUS
<1>9. old \in [Index -> Entry]
  <2>1. CASE fresh BY <2>1
  <2>2. CASE ~fresh BY <1>6, <2>2 DEF WellFormed
  <2> QED BY <2>1, <2>2
<1>10. new \in [Index -> Entry] /\ new[o] = Mapping(phys, user)
       /\ \A i \in Index \ {o} : new[i] = old[i]
  BY <1>1, <1>8, <1>9
<1>11. ~fresh => old = m.tables[t] OBVIOUS
<1>12. fresh <=> m.dirs[s][d] = 0 OBVIOUS
<1> HIDE DEF t, old, new, fresh
<1>13. CASE t = 0
  <2>1. fresh /\ m.free = {} /\ r = m BY <1>4, <1>5, <1>6, <1>7, <1>13
  <2>2. ~Tabled(r, s, virt) BY <1>12, <2>1 DEF Tabled
  <2> QED BY <2>1, <2>2, GrownNot DEF Mapped
<1>14. CASE t # 0
  <2>1. /\ r.dirs = [m.dirs EXCEPT ![s][d] = t]
        /\ r.tables = With(m.tables, t, new)
        /\ r.free = m.free \ {t}
        /\ r = [dirs |-> r.dirs, tables |-> r.tables, free |-> r.free]
    BY <1>4, <1>14
  <2>2. \/ fresh /\ t \in m.free
        \/ ~fresh /\ t \in DOMAIN m.tables /\ t = m.dirs[s][d]
    BY <1>5, <1>6, <1>7, <1>14
  <2>3. t \in frames /\ t \notin DOMAIN m.dirs /\ t # LowTable BY <1>3, <1>6, <2>2
  <2>4. DOMAIN r.tables = DOMAIN m.tables \union {t} /\ r.tables[t] = new
        /\ \A p \in DOMAIN m.tables \ {t} : r.tables[p] = m.tables[p]
    BY <2>1 DEF With
  <2>5. /\ DOMAIN r.dirs = DOMAIN m.dirs
        /\ \A q \in DOMAIN m.dirs \ {s} : r.dirs[q] = m.dirs[q]
        /\ r.dirs[s] = [m.dirs[s] EXCEPT ![d] = t]
    BY <2>1
  <2>6. /\ r.dirs[s][d] = t
        /\ \A e \in Index \ {d} : r.dirs[s][e] = m.dirs[s][e]
        /\ r.dirs[s] \in [Index -> {0} \union DOMAIN r.tables]
    BY <1>1, <1>2, <2>4, <2>5
  <2>7. \A q \in DOMAIN m.dirs : \A e \in Index :
           r.dirs[q][e] = m.dirs[q][e] \/ (q = s /\ e = d /\ r.dirs[q][e] = t)
    BY <2>5, <2>6
  <2>8. ASSUME NEW q \in DOMAIN m.dirs, NEW e \in Index, m.dirs[q][e] = t
        PROVE  q = s /\ e = d /\ ~fresh
    <3>1. m.dirs[q] \in [Index -> {0} \union DOMAIN m.tables] BY DEF WellFormed
    <3>2. t \in DOMAIN m.tables BY <1>14, <2>8, <3>1
    <3>3. ~fresh /\ t = m.dirs[s][d] BY <1>3, <2>2, <2>3, <3>2
    <3> QED BY <1>1, <1>14, <2>3, <2>8, <3>3 DEF WellFormed
  <2>9. WellFormed(r, frames)
    <3>1. r.free \subseteq frames /\ r = [dirs |-> r.dirs, tables |-> r.tables, free |-> r.free]
          /\ frames \subseteq Nat \ {0} BY <1>3, <2>1
    <3>2. DOMAIN r.dirs \union (DOMAIN r.tables \ {LowTable}) \subseteq frames \ r.free
      BY <1>3, <2>1, <2>3, <2>4, <2>5
    <3>3. DOMAIN r.dirs \intersect DOMAIN r.tables = {} BY <1>3, <2>3, <2>4, <2>5
    <3>4. ASSUME NEW q \in DOMAIN r.dirs
          PROVE  r.dirs[q] \in [Index -> {0} \union DOMAIN r.tables]
      <4>1. CASE q = s BY <2>6, <4>1
      <4>2. CASE q # s
        <5>1. q \in DOMAIN m.dirs /\ r.dirs[q] = m.dirs[q] BY <2>5, <4>2
        <5>2. m.dirs[q] \in [Index -> {0} \union DOMAIN m.tables] BY <5>1 DEF WellFormed
        <5> QED BY <2>4, <5>1, <5>2
      <4> QED BY <4>1, <4>2
    <3>5. ASSUME NEW p \in DOMAIN r.tables
          PROVE  r.tables[p] \in [Index -> Entry]
      <4>1. CASE p = t BY <1>10, <2>4, <4>1
      <4>2. CASE p # t BY <2>4, <4>2 DEF WellFormed
      <4> QED BY <4>1, <4>2
    <3>6. ASSUME NEW q \in DOMAIN r.dirs, NEW p \in DOMAIN r.dirs, NEW e \in Index,
                 NEW i \in Index, r.dirs[q][e] = r.dirs[p][i],
                 r.dirs[q][e] \notin {0, LowTable}
          PROVE  q = p /\ e = i
      <4>1. q \in DOMAIN m.dirs /\ p \in DOMAIN m.dirs BY <2>5
      <4>2. CASE q = s /\ e = d /\ r.dirs[q][e] = t
        BY <2>7, <2>8, <3>6, <4>1, <4>2
      <4>3. CASE p = s /\ i = d /\ r.dirs[p][i] = t
        BY <2>7, <2>8, <3>6, <4>1, <4>3
      <4>4. CASE r.dirs[q][e] = m.dirs[q][e] /\ r.dirs[p][i] = m.dirs[p][i]
        <5>1. m.dirs[q][e] = m.dirs[p][i] /\ m.dirs[q][e] \notin {0, LowTable} BY <3>6, <4>4
        <5> HIDE DEF d
        <5> QED BY <4>1, <5>1 DEF WellFormed
      <4> QED BY <2>7, <4>1, <4>2, <4>3, <4>4
    <3> QED BY <3>1, <3>2, <3>3, <3>4, <3>5, <3>6 DEF WellFormed
  <2>10. DOMAIN r.tables \subseteq DOMAIN m.tables \union m.free BY <2>2, <2>4
  <2>11. ASSUME NEW q \in DOMAIN m.dirs, NEW e \in Index
         PROVE  \/ r.dirs[q][e] = m.dirs[q][e]
                \/ q = s /\ m.dirs[q][e] = 0 /\ r.dirs[q][e] \in m.free
    BY <1>12, <2>2, <2>7
  <2>12. ASSUME NEW q \in DOMAIN m.dirs, NEW v \in Pages,
                Tabled(m, q, v), ~(q = s /\ v = virt)
         PROVE  Tabled(r, q, v) /\ EntryOf(r, q, v) = EntryOf(m, q, v)
    <3> DEFINE e == DirOffset(v)
    <3>1. e \in Index /\ TableOffset(v) \in Index BY Offsets
    <3>2. m.dirs[q] \in [Index -> {0} \union DOMAIN m.tables] BY DEF WellFormed
    <3>3. m.dirs[q][e] # 0 /\ m.dirs[q][e] \in DOMAIN m.tables
      BY <2>12, <3>1, <3>2 DEF Tabled
    <3>4. r.dirs[q][e] = m.dirs[q][e]
      <4>1. m.free \subseteq Nat \ {0} BY <1>3
      <4> QED BY <2>11, <3>1, <3>3
    <3>5. CASE m.dirs[q][e] # t
      BY <2>4, <3>3, <3>4, <3>5 DEF EntryOf, Tabled
    <3>6. CASE m.dirs[q][e] = t
      <4>1. q = s /\ e = d /\ ~fresh BY <2>8, <3>1, <3>6
      <4>2. TableOffset(v) # o BY <2>12, <4>1, NoAlias
      <4>3. new[TableOffset(v)] = m.tables[t][TableOffset(v)]
        BY <1>10, <1>11, <3>1, <4>1, <4>2
      <4> QED BY <2>4, <3>3, <3>4, <3>6, <4>3 DEF EntryOf, Tabled
    <3> QED BY <3>5, <3>6
  <2>13. ASSUME NEW changed, virt \in changed PROVE Grown(m, r, s, changed, frames)
    BY <2>1, <2>5, <2>9, <2>10, <2>11, <2>12, <2>13 DEF Grown
  <2>14. Tabled(r, s, virt) /\ EntryOf(r, s, virt) = Mapping(phys, user)
    BY <1>10, <1>14, <2>4, <2>6 DEF Tabled, EntryOf
  <2> QED BY <2>13, <2>14 DEF Mapped
<1> QED BY <1>13, <1>14

\* Tables that are added are not the one at address 0.
LEMMA StaysProper ==
  ASSUME NEW frames, NEW m, NEW r, NEW s, NEW changed, WellFormed(m, frames),
         s \in DOMAIN m.dirs, Proper(m, s), Grown(m, r, s, changed, frames)
  PROVE  Proper(r, s)
<1> SUFFICES ASSUME NEW d \in Index PROVE r.dirs[s][d] # LowTable BY DEF Proper
<1>1. r.dirs[s][d] = m.dirs[s][d] \/ r.dirs[s][d] \in m.free BY DEF Grown
<1>2. LowTable \notin m.free BY DEF WellFormed, LowTable
<1> QED BY <1>1, <1>2 DEF Proper

\* The rounds of MapIdentity, one after the other.
IdentityRounds(after, m, s, n, user, stale) ==
  /\ after[0] = m
  /\ \A i \in 1 .. n :
       after[i] = MapPage(after[i - 1], s, i - 1, i - 1, user, stale)

\* There are such rounds, and MapIdentity is what the last one leaves.
LEMMA MapIdentityRounds ==
  ASSUME NEW m, NEW s, NEW n \in Nat, NEW user, NEW stale
  PROVE  \E after : /\ IdentityRounds(after, m, s, n, user, stale)
                    /\ MapIdentity(m, s, n, user, stale) = after[n]
<1> DEFINE Step(x, i) == MapPage(x, s, i - 1, i - 1, user, stale)
           Rounds(g, k) == g = [i \in 0 .. k |-> IF i = 0 THEN m ELSE Step(g[i - 1], i)]
           good == {k \in 0 .. n : \E g : Rounds(g, k)}
<1>1. 0 \in good
  <2> DEFINE g == [i \in 0 .. 0 |-> m]
  <2>1. Rounds(g, 0)
    <3> HIDE DEF Step
    <3> QED BY SMT
  <2> HIDE DEF g, Rounds
  <2> QED BY <2>1
<1>2. ASSUME NEW k \in 0 .. n - 1, k \in good PROVE k + 1 \in good
  <2>1. PICK g : Rounds(g, k) BY <1>2
  <2> DEFINE h == [i \in 0 .. k + 1 |-> IF i = k + 1 THEN Step(g[k], k + 1) ELSE g[i]]
  <2> HIDE DEF Step
  <2>2. ASSUME NEW i \in 0 .. k + 1
        PROVE  h[i] = IF i = 0 THEN m ELSE Step(h[i - 1], i)
    <3>1. CASE i = k + 1
      <4>1. i # 0 /\ i - 1 = k /\ k \in 0 .. k + 1 /\ k # k + 1 BY <3>1
      <4>2. h[k] = g[k] /\ h[i] = Step(g[k], i) BY <3>1, <4>1
      <4> QED BY <4>1, <4>2
    <3>2. CASE i # k + 1
      <4>1. i \in 0 .. k BY <3>2
      <4>2. h[i] = g[i] /\ g[i] = IF i = 0 THEN m ELSE Step(g[i - 1], i)
        BY <2>1, <3>2, <4>1
      <4>3. CASE i = 0 BY <4>2, <4>3
      <4>4. CASE i # 0
        <5>1. i - 1 \in 0 .. k + 1 /\ i - 1 # k + 1 BY <4>1, <4>4
        <5>2. h[i - 1] = g[i - 1] BY <5>1
        <5> QED BY <4>2, <4>4, <5>2
      <4> QED BY <4>3, <4>4
    <3> QED BY <3>1, <3>2
  <2>3. Rounds(h, k + 1)
    <3>1. h = [i \in 0 .. k + 1 |-> h[i]] OBVIOUS
    <3> HIDE DEF h
    <3>2. [i \in 0 .. k + 1 |-> h[i]]
            = [i \in 0 .. k + 1 |-> IF i = 0 THEN m ELSE Step(h[i - 1], i)]
      BY <2>2
    <3> QED BY <3>1, <3>2
  <2>4. k + 1 \in 0 .. n OBVIOUS
  <2> HIDE DEF h, Rounds
  <2> QED BY <2>3, <2>4
<1>3. n \in good
  <2> HIDE DEF good
  <2>1. \A i \in 0 .. n : i \in good BY <1>1, <1>2, CountUp
  <2> QED BY <2>1
<1> DEFINE after == CHOOSE g : Rounds(g, n)
<1>4. Rounds(after, n)
  <2>1. \E g : Rounds(g, n) BY <1>3
  <2> HIDE DEF Rounds
  <2> QED BY <2>1
<1>5. MapIdentity(m, s, n, user, stale) = after[n] BY DEF MapIdentity
<1> HIDE DEF after, Step
<1>6. after[0] = m /\ \A i \in 1 .. n : after[i] = Step(after[i - 1], i)
  BY <1>4
<1> QED BY <1>5, <1>6 DEF IdentityRounds, Step

\* The pages 0 to n - 1 of s are mapped to themselves, as far as there were frames
\* for tables, and nothing else is changed.
MappedUpTo(m, r, s, n, user, frames) ==
  /\ Grown(m, r, s, 0 .. n - 1, frames)
  /\ \A v \in 0 .. n - 1 :
       IF Tabled(r, s, v) THEN EntryOf(r, s, v) = Mapping(v, user) ELSE r.free = {}

\* Mapping pages to themselves writes their entries only, and those it cannot
\* write are those of tables that could not be had: there is no memory left then.
LEMMA MapIdentityMaps ==
  ASSUME NEW frames, NEW m, NEW s, NEW n, NEW user, NEW stale, NEW r,
         WellFormed(m, frames), s \in DOMAIN m.dirs, Proper(m, s),
         n \in Nat, 0 .. n - 1 \subseteq Pages,
         \A v \in Nat : Mapping(v, user) \in Entry, stale \in Entry,
         r = MapIdentity(m, s, n, user, stale)
  PROVE  MappedUpTo(m, r, s, n, user, frames)
<1>1. PICK after : /\ IdentityRounds(after, m, s, n, user, stale)
                   /\ MapIdentity(m, s, n, user, stale) = after[n]
  BY MapIdentityRounds
<1> DEFINE UpTo(q, i) == MappedUpTo(m, q, s, i, user, frames)
<1> DEFINE good == {i \in 0 .. n : UpTo(after[i], i)}
<1>2. 0 \in good
  <2>1. after[0] = m BY <1>1 DEF IdentityRounds
  <2>2. Grown(m, m, s, 0 .. 0 - 1, frames) BY GrownNot
  <2>3. 0 .. 0 - 1 = {} /\ 0 \in 0 .. n BY SMT
  <2> QED BY <2>1, <2>2, <2>3 DEF MappedUpTo
<1>3. ASSUME NEW i \in 0 .. n - 1, i \in good PROVE i + 1 \in good
  <2> DEFINE q == after[i]
             x == after[i + 1]
             one == {i}
  <2>1. UpTo(q, i) BY <1>3
  <2>2. x = MapPage(q, s, i, i, user, stale)
    <3>1. i + 1 \in 1 .. n /\ (i + 1) - 1 = i OBVIOUS
    <3> QED BY <1>1, <3>1 DEF IdentityRounds
  <2>3. i \in Nat /\ i \in Pages /\ i + 1 \in 0 .. n /\ (i + 1) - 1 = i
        /\ 0 .. i - 1 \subseteq 0 .. i /\ one \subseteq 0 .. i /\ i \in one /\ i \notin 0 .. i - 1
        /\ \A v \in one : v = i
    BY SMT
  <2> HIDE DEF q, x, one
  <2>4. /\ Grown(m, q, s, 0 .. i - 1, frames)
        /\ WellFormed(q, frames) /\ s \in DOMAIN q.dirs
    BY <2>1 DEF Grown, MappedUpTo
  <2>10. Proper(q, s)
    <3> DEFINE below == 0 .. i - 1
    <3>1. Grown(m, q, s, below, frames) BY <2>4
    <3> HIDE DEF below, UpTo, good
    <3> QED BY <3>1, StaysProper
  <2>5. Grown(q, x, s, one, frames) /\ Mapped(q, x, s, i, Mapping(i, user))
    <3> HIDE DEF UpTo, good
    <3>1. i \in one /\ i \in Nat /\ i \in Pages /\ Mapping(i, user) \in Entry BY <2>3
    <3> QED BY <2>2, <2>4, <2>10, <3>1, MapPageMaps
  <2>6. Grown(m, x, s, 0 .. i, frames)
    <3> DEFINE before == 0 .. i - 1
               upto == 0 .. i
    <3>1. before \subseteq upto /\ one \subseteq upto BY <2>3
    <3>2. Grown(m, q, s, before, frames) BY <2>4
    <3> HIDE DEF before, upto, UpTo, good
    <3>3. Grown(q, x, s, upto, frames) BY <2>5, <3>1, GrownMore
    <3>4. Grown(m, x, s, upto, frames) BY <3>1, <3>2, <3>3, GrownTwice
    <3> QED BY <3>4 DEF upto
  <2>7. ASSUME NEW v \in 0 .. i
        PROVE  IF Tabled(x, s, v) THEN EntryOf(x, s, v) = Mapping(v, user)
                                  ELSE x.free = {}
    <3>1. CASE v = i BY <2>5, <3>1 DEF Mapped
    <3>2. CASE v # i
      <4>1. v \in 0 .. i - 1 /\ v \in Pages BY <3>2, SMT
      <4>2. IF Tabled(q, s, v) THEN EntryOf(q, s, v) = Mapping(v, user)
                               ELSE q.free = {}
        BY <2>1, <4>1 DEF MappedUpTo
      <4>3. CASE Tabled(q, s, v)
        <5>1. Tabled(x, s, v) /\ EntryOf(x, s, v) = EntryOf(q, s, v)
          BY <2>4, <2>3, <2>5, <3>2, <4>1, <4>3 DEF Grown
        <5> QED BY <4>2, <4>3, <5>1
      <4>4. CASE ~Tabled(q, s, v)
        <5>1. q.free = {} /\ x.free = {} BY <2>5, <4>2, <4>4 DEF Grown
        <5>2. ~Tabled(x, s, v)
          <6>1. DirOffset(v) \in Index BY <4>1, Offsets
          <6>2. x.dirs[s][DirOffset(v)] = q.dirs[s][DirOffset(v)]
            BY <2>4, <2>5, <5>1, <6>1 DEF Grown
          <6> QED BY <4>4, <6>2 DEF Tabled
        <5> QED BY <5>1, <5>2
      <4> QED BY <4>3, <4>4
    <3> QED BY <3>1, <3>2
  <2>8. UpTo(x, i + 1) BY <2>3, <2>5, <2>6, <2>7 DEF MappedUpTo
  <2> HIDE DEF UpTo
  <2> QED BY <2>3, <2>8 DEF x
<1>4. UpTo(after[n], n)
  <2> HIDE DEF good, UpTo
  <2>1. \A i \in 0 .. n : i \in good BY <1>2, <1>3, CountUp
  <2> QED BY <2>1 DEF good
<1> QED BY <1>1, <1>4

-----------------------------------------------------------------------------
(* What the tables hold that a new space brings.                           *)

\* Old tables are as they were in b.  New ones are those of pages of s, and what
\* is written into them is for users only where that is wanted.
Fresh(b, r, s, pages, users) ==
  /\ DOMAIN b.tables \subseteq DOMAIN r.tables
  /\ \A p \in DOMAIN b.tables : r.tables[p] = b.tables[p]
  /\ \A d \in Index : r.dirs[s][d] \notin DOMAIN b.tables
  /\ \A p \in DOMAIN r.tables \ DOMAIN b.tables :
       /\ \E v \in pages : p = r.dirs[s][DirOffset(v)]
       /\ \A i \in Index : r.tables[p][i].written /\ r.tables[p][i].user => users

\* One page more is mapped in a table of the space's own.
LEMMA MapPageFresh ==
  ASSUME NEW frames, NEW b, NEW m, NEW s, NEW phys, NEW virt, NEW user, NEW stale,
         NEW r, NEW pages, NEW users,
         WellFormed(m, frames), s \in DOMAIN m.dirs, Proper(m, s),
         virt \in Pages, virt \in pages, pages \subseteq Pages,
         stale \in Entry, ~stale.written, user => users,
         m.free \intersect DOMAIN b.tables = {},
         Fresh(b, m, s, pages, users),
         r = MapPage(m, s, phys, virt, user, stale)
  PROVE  Fresh(b, r, s, pages, users)
<1> DEFINE d     == DirOffset(virt)
           o     == TableOffset(virt)
           fresh == m.dirs[s][d] = 0
           t     == IF fresh THEN Allocate(m.free) ELSE m.dirs[s][d]
           old   == IF fresh THEN [i \in Index |-> stale] ELSE m.tables[t]
           new   == [old EXCEPT ![o] = Mapping(phys, user)]
<1>1. d \in Index /\ o \in Index BY Offsets
<1>2. /\ m.dirs[s] \in [Index -> {0} \union DOMAIN m.tables]
      /\ m.free \subseteq frames /\ frames \subseteq Nat \ {0}
      /\ DOMAIN m.tables \ {LowTable} \subseteq frames \ m.free /\ LowTable \notin frames
  BY DEF WellFormed, LowTable
<1>3. r = IF t = 0 THEN m
          ELSE [dirs   |-> [m.dirs EXCEPT ![s][d] = t],
                tables |-> With(m.tables, t, new),
                free   |-> m.free \ {t}]
  BY DEF MapPage
<1>4. fresh => t = Allocate(m.free) OBVIOUS
<1>5. ~fresh => /\ t \in DOMAIN m.tables /\ t = m.dirs[s][d]
                /\ t # 0 /\ t \notin DOMAIN b.tables
  BY <1>1, <1>2 DEF Fresh
<1>6. IF m.free = {} THEN Allocate(m.free) = 0
      ELSE Allocate(m.free) \in m.free /\ Allocate(m.free) # 0
  BY <1>2, AllocateGives
<1>7. fresh => old = [i \in Index |-> stale] OBVIOUS
<1>8. ~fresh => old = m.tables[t] OBVIOUS
<1>9. t \in DOMAIN m.tables => m.tables[t] \in [Index -> Entry] BY DEF WellFormed
<1>10. fresh <=> m.dirs[s][d] = 0 OBVIOUS
<1> HIDE DEF t, old, fresh
<1>11. old \in [Index -> Entry] BY <1>5, <1>7, <1>8, <1>9
<1>12. new[o].user = user /\ \A i \in Index \ {o} : new[i] = old[i]
  BY <1>1, <1>11 DEF Mapping
<1> HIDE DEF new
<1>13. CASE t = 0 BY <1>3, <1>13
<1>14. CASE t # 0
  <2>1. r.dirs = [m.dirs EXCEPT ![s][d] = t] /\ r.tables = With(m.tables, t, new)
    BY <1>3, <1>14
  <2>2. t \notin DOMAIN b.tables BY <1>4, <1>5, <1>6, <1>14
  <2>3. /\ DOMAIN r.tables = DOMAIN m.tables \union {t} /\ r.tables[t] = new
        /\ \A p \in DOMAIN m.tables \ {t} : r.tables[p] = m.tables[p]
    BY <2>1 DEF With
  <2>4. /\ r.dirs[s][d] = t
        /\ \A e \in Index \ {d} : r.dirs[s][e] = m.dirs[s][e]
    BY <1>1, <1>2, <2>1
  <2>5. \A p \in DOMAIN b.tables : p \in DOMAIN m.tables /\ r.tables[p] = b.tables[p]
    BY <2>2, <2>3 DEF Fresh
  <2>6. \A e \in Index : r.dirs[s][e] \notin DOMAIN b.tables
    BY <2>2, <2>4 DEF Fresh
  <2>7. ASSUME NEW p \in DOMAIN r.tables \ DOMAIN b.tables
        PROVE  \E v \in pages : p = r.dirs[s][DirOffset(v)]
    <3>1. CASE p = t BY <2>4, <3>1
    <3>2. CASE p # t
      <4>1. PICK v \in pages : p = m.dirs[s][DirOffset(v)] BY <2>3, <3>2 DEF Fresh
      <4>2. DirOffset(v) \in Index BY Offsets
      <4>3. DirOffset(v) # d
        <5> SUFFICES ASSUME DirOffset(v) = d PROVE FALSE OBVIOUS
        <5>1. p = m.dirs[s][d] BY <4>1
        <5>2. p \in DOMAIN m.tables BY <2>3, <3>2
        <5>3. fresh BY <1>5, <3>2, <5>1
        <5>4. p = 0 BY <1>10, <5>1, <5>3
        <5> QED BY <1>2, <5>2, <5>4 DEF LowTable
      <4>4. p = r.dirs[s][DirOffset(v)] BY <2>4, <4>1, <4>2, <4>3
      <4> QED BY <4>4
    <3> QED BY <3>1, <3>2
  <2>8. ASSUME NEW p \in DOMAIN r.tables \ DOMAIN b.tables, NEW i \in Index,
               r.tables[p][i].written, r.tables[p][i].user
        PROVE  users
    <3>1. CASE p # t
      <4>1. p \in DOMAIN m.tables \ DOMAIN b.tables /\ r.tables[p] = m.tables[p]
        BY <2>3, <3>1
      <4> QED BY <2>8, <4>1 DEF Fresh
    <3>2. CASE p = t
      <4>1. r.tables[p] = new BY <2>3, <3>2
      <4>2. CASE i = o
        <5>1. user BY <1>12, <2>8, <4>1, <4>2
        <5> QED BY <5>1
      <4>3. CASE i # o
        <5>1. old[i].written /\ old[i].user BY <1>12, <2>8, <4>1, <4>3
        <5>2. CASE fresh BY <1>7, <5>1, <5>2
        <5>3. CASE ~fresh
          <6>1. t \in DOMAIN m.tables \ DOMAIN b.tables BY <1>5, <5>3
          <6> QED BY <1>8, <5>1, <5>3, <6>1 DEF Fresh
        <5> QED BY <5>2, <5>3
      <4> QED BY <4>2, <4>3
    <3> QED BY <3>1, <3>2
  <2> QED BY <2>3, <2>5, <2>6, <2>7, <2>8 DEF Fresh
<1> QED BY <1>13, <1>14

\* So are all that MapIdentity maps.
LEMMA MapIdentityFresh ==
  ASSUME NEW frames, NEW b, NEW m, NEW s, NEW n, NEW user, NEW stale, NEW r,
         NEW pages, NEW users,
         WellFormed(m, frames), s \in DOMAIN m.dirs, Proper(m, s),
         n \in Nat, 0 .. n - 1 \subseteq pages, pages \subseteq Pages,
         \A v \in Nat : Mapping(v, user) \in Entry,
         stale \in Entry, ~stale.written, user => users,
         m.free \intersect DOMAIN b.tables = {},
         Fresh(b, m, s, pages, users),
         r = MapIdentity(m, s, n, user, stale)
  PROVE  Fresh(b, r, s, pages, users)
<1>1. PICK after : /\ IdentityRounds(after, m, s, n, user, stale)
                   /\ MapIdentity(m, s, n, user, stale) = after[n]
  BY MapIdentityRounds
<1> DEFINE Is(q) == /\ WellFormed(q, frames) /\ s \in DOMAIN q.dirs /\ Proper(q, s)
                    /\ q.free \subseteq m.free
                    /\ Fresh(b, q, s, pages, users)
           good == {i \in 0 .. n : Is(after[i])}
<1>2. 0 \in good
  <2>1. after[0] = m BY <1>1 DEF IdentityRounds
  <2> QED BY <2>1
<1>3. ASSUME NEW i \in 0 .. n - 1, i \in good PROVE i + 1 \in good
  <2> DEFINE q == after[i]
             x == after[i + 1]
             one == {i}
  <2>1. Is(q) BY <1>3
  <2>2. x = MapPage(q, s, i, i, user, stale)
    <3>1. i + 1 \in 1 .. n /\ (i + 1) - 1 = i OBVIOUS
    <3> QED BY <1>1, <3>1 DEF IdentityRounds
  <2>3. i \in Nat /\ i \in pages /\ i \in Pages /\ i + 1 \in 0 .. n /\ i \in one
    BY SMT
  <2> HIDE DEF q, x, one
  <2>4. /\ WellFormed(q, frames) /\ s \in DOMAIN q.dirs /\ Proper(q, s)
        /\ q.free \subseteq m.free /\ Fresh(b, q, s, pages, users)
    BY <2>1
  <2>5. Grown(q, x, s, one, frames)
    <3> HIDE DEF Is, good
    <3>1. Mapping(i, user) \in Entry BY <2>3
    <3> QED BY <2>2, <2>3, <2>4, <3>1, MapPageMaps
  <2>6. Fresh(b, x, s, pages, users)
    <3> HIDE DEF Is, good
    <3>1. q.free \intersect DOMAIN b.tables = {} BY <2>4
    <3> QED BY <2>2, <2>3, <2>4, <3>1, MapPageFresh
  <2>7. Proper(x, s) BY <2>4, <2>5, StaysProper
  <2>8. /\ WellFormed(x, frames) /\ s \in DOMAIN x.dirs /\ x.free \subseteq m.free
    BY <2>4, <2>5 DEF Grown
  <2>9. Is(x) BY <2>6, <2>7, <2>8
  <2> HIDE DEF Is
  <2> QED BY <2>3, <2>9 DEF x
<1>4. Is(after[n])
  <2> HIDE DEF good, Is
  <2>1. \A i \in 0 .. n : i \in good BY <1>2, <1>3, CountUp
  <2> QED BY <2>1 DEF good
<1> QED BY <1>1, <1>4

-----------------------------------------------------------------------------
(* The pages of the kernel, and the frames that are given to pages.        *)

\* So many pages fit into so many bytes.
LEMMA Fitting ==
  ASSUME NEW p \in Nat \ {0}, NEW x \in Nat, NEW a \in Nat
  PROVE  /\ a \div p \in Nat
         /\ x * p <= a <=> x <= a \div p
<1> DEFINE q == a \div p
           r == a % p
<1>1. a = p * q + r /\ r \in 0 .. p - 1 /\ q \in Nat BY SMT
<1> HIDE DEF q, r
<1>2. CASE x <= q
  <2>1. PICK k \in Nat : q = x + k
    <3> q - x \in Nat /\ q = x + (q - x) BY <1>1, <1>2, SMT
    <3> QED OBVIOUS
  <2>2. p * q = x * p + p * k /\ p * k \in Nat BY <2>1, SMT
  <2>3. x * p \in Nat BY SMT
  <2> QED BY <1>1, <1>2, <2>2, <2>3, SMT DEF q
<1>3. CASE ~(x <= q)
  <2>1. PICK k \in Nat : x = q + 1 + k
    <3> x - (q + 1) \in Nat /\ x = q + 1 + (x - (q + 1)) BY <1>1, <1>3, SMT
    <3> QED OBVIOUS
  <2>2. x * p = p * q + p + p * k /\ p * k \in Nat /\ p * q \in Nat BY <1>1, <2>1, SMT
  <2>3. x * p \in Nat BY SMT
  <2>4. ~(x * p <= a) BY <1>1, <2>2, <2>3, SMT
  <2> QED BY <1>1, <1>3, <2>4, SMT DEF q
<1> QED BY <1>2, <1>3

\* Rounded up, an address lies at most one page behind its own.
LEMMA PagesUpTo ==
  ASSUME NEW a \in Nat
  PROVE  LET n == PageUpperAlign(a) \div PageSize
             m == PageUpperAlign(a + PageSize) \div PageSize
         IN  /\ n \in Nat /\ m \in Nat /\ n <= m
             /\ n >= a \div PageSize /\ m = n + 1 /\ n <= a \div PageSize + 1
<1> DEFINE n == PageUpperAlign(a) \div PageSize
           m == PageUpperAlign(a + PageSize) \div PageSize
           q == (a + PageSize - 1) \div PageSize
           b == (a + PageSize + PageSize - 1) \div PageSize
<1>1. PageSize \in Nat /\ PageSize >= 1 BY PagesAssumption, SMT
<1>2. /\ a + PageSize - 1 \in Nat /\ a + PageSize + PageSize - 1 \in Nat
      /\ a \div PageSize \in Nat /\ q \in Nat /\ b \in Nat
  BY <1>1, SMT
<1>3. n = q /\ m = b
  <2>1. PageSize * q = q * PageSize /\ PageSize * b = b * PageSize BY <1>1, <1>2, SMT
  <2>2. ASSUME NEW x \in Nat PROVE (x * PageSize) \div PageSize = x
    <3>1. PageSize * x = x * PageSize /\ x * PageSize \in Nat BY <1>1, SMT
    <3>2. (x * PageSize) \div PageSize \in Nat
          /\ x <= (x * PageSize) \div PageSize
      BY <3>1, PagesAssumption, Fitting
    <3> DEFINE y == (x * PageSize) \div PageSize
    <3>3. y * PageSize <= x * PageSize BY <3>1, <3>2, PagesAssumption, Fitting
    <3>4. y <= x
      <4> SUFFICES ASSUME y > x PROVE FALSE BY <3>2, SMT
      <4> HIDE DEF y
      <4>1. PICK k \in Nat : y = x + 1 + k
        <5>1. y \in Nat BY <3>2 DEF y
        <5> y - (x + 1) \in Nat /\ y = x + 1 + (y - (x + 1)) BY <5>1, SMT
        <5> QED OBVIOUS
      <4>2. y * PageSize = x * PageSize + PageSize + k * PageSize /\ k * PageSize \in Nat
        BY <1>1, <4>1, SMT
      <4> QED BY <1>1, <3>1, <3>3, <4>2, SMT
    <3> QED BY <3>2, <3>4, SMT
  <2> QED BY <1>2, <2>1, <2>2 DEF PageUpperAlign
<1>4. b = q + 1 BY <1>1, SMT
<1>5. q >= a \div PageSize /\ q <= a \div PageSize + 1 BY <1>1, SMT
<1> HIDE DEF n, m, q, b
<1> QED BY <1>2, <1>3, <1>4, <1>5, SMT DEF n, m

\* Once the memory is laid out: the pages the kernel maps to itself are so many
\* from 0 on, below the users' pages, and the frames of the page zone, numbers
\* one after the other, are more than their tables and a directory.
LEMMA BootedMemory ==
  ASSUME SpacesInvariant, Booted
  PROVE  LET n  == Cardinality(KernelPages)
             k  == PageUpperAlign(memSize) \div PageSize
             lo == ObjEnd(memSize) \div PageSize
             hi == memSize \div PageSize
         IN  /\ n \in Nat /\ KernelPages = 0 .. n - 1
             /\ k \in Nat /\ n = k + 1 /\ k <= hi + 1
             /\ lo \in Nat \ {0} /\ hi \in Nat
             /\ ZoneFrames = lo .. hi - 1
             /\ (hi + 1) \div PerTable + 2 <= hi - lo
             /\ hi + 1 < UserPages[1]
             /\ KernelPages \subseteq Pages /\ UserRange \subseteq Pages
             /\ KernelPages \intersect UserRange = {}
             /\ UserPages[1] \in Nat /\ UserPages[2] \in Nat
<1> DEFINE n  == Cardinality(KernelPages)
           k  == PageUpperAlign(memSize) \div PageSize
           j  == PageUpperAlign(memSize + PageSize) \div PageSize
           lo == ObjEnd(memSize) \div PageSize
           hi == memSize \div PageSize
<1>1. /\ mm = 4 /\ mmap \in Maps
      /\ memSize \in Nat /\ memSize > MinMemory
      /\ memSize = MemHighLimit(mmap) /\ zone = LayoutOf(memSize)
  BY StepNumbers DEF SpacesInvariant, MemoryInvariant, MemoryTypes, ZonesAreLaidOut
<1>2. PageSize \in Nat \ {0} BY PagesAssumption
<1>3. hi \in Nat BY <1>1, <1>2, Fitting
<1>4. k \in Nat /\ j \in Nat /\ j = k + 1 /\ k <= hi + 1 BY <1>1, PagesUpTo
<1>5. n = k + 1 /\ KernelPages = 0 .. n - 1
  <2>1. KernelPages = 0 .. j - 1 BY DEF KernelPages
  <2>2. j - 1 \in Int /\ ~(0 > j - 1) /\ j - 1 - 0 + 1 = j
    <3> HIDE DEF j, k, hi
    <3> QED BY <1>4, SMT
  <2> HIDE DEF j, k, hi
  <2>3. Cardinality(0 .. j - 1) = j BY <2>2, FS_Interval
  <2> QED BY <1>4, <2>1, <2>3
<1>6. /\ ObjEnd(memSize) \in Nat /\ KernelEnd < ObjEnd(memSize)
      /\ ObjEnd(memSize) <= memSize /\ ObjEnd(memSize) % PageSize = 0
  BY <1>1, ObjEndIsInside
<1> DEFINE end == ObjEnd(memSize)
<1>7. end = lo * PageSize /\ lo \in Nat \ {0}
  <2> HIDE DEF end
  <2>1. ASSUME NEW e \in Nat, e % PageSize = 0
        PROVE  e = (e \div PageSize) * PageSize /\ e \div PageSize \in Nat
    <3> DEFINE q == e \div PageSize
               r == e % PageSize
    <3>1. e = PageSize * q + r /\ q \in Nat BY <1>2, SMT
    <3>2. r = 0 BY <2>1
    <3> HIDE DEF q, r
    <3>3. PageSize * q = q * PageSize /\ q * PageSize \in Nat BY <1>2, <3>1, SMT
    <3>4. e = q * PageSize BY <3>1, <3>2, <3>3, SMT
    <3> QED BY <3>1, <3>4 DEF q
  <2>2. end = lo * PageSize /\ lo \in Nat BY <1>6, <2>1 DEF end
  <2>3. end # 0 BY <1>6, ImageAssumption, SMT DEF end
  <2> HIDE DEF lo
  <2>4. lo # 0 BY <1>2, <2>2, <2>3, SMT
  <2> QED BY <2>2, <2>4
<1>8. (hi + 1) \div PerTable + 2 <= hi - lo BY <1>1, TablesAssumption
<1>9. hi + 1 < UserPages[1] BY <1>1, SmallMemoryAssumption
<1>10. ZoneFrames = lo .. hi - 1
  <2>1. zone["page"].start = end /\ zone["page"].size = memSize - end
    BY <1>1 DEF LayoutOf, Zone
  <2> HIDE DEF lo, hi, end
  <2>2. ASSUME NEW f \in Nat
        PROVE  /\ end <= f * PageSize <=> lo <= f
               /\ f * PageSize + PageSize <= end + (memSize - end) <=> f + 1 <= hi
    <3>1. end <= f * PageSize <=> lo <= f
      <4>1. CASE f + 1 <= lo
        <5>1. PICK x \in Nat : lo = f + 1 + x
          <6> lo - (f + 1) \in Nat /\ lo = f + 1 + (lo - (f + 1)) BY <1>7, <4>1, SMT
          <6> QED OBVIOUS
        <5>2. lo * PageSize = f * PageSize + PageSize + x * PageSize
              /\ x * PageSize \in Nat /\ f * PageSize \in Nat
          BY <1>2, <5>1, SMT
        <5> QED BY <1>2, <1>7, <4>1, <5>2, SMT
      <4>2. CASE lo <= f
        <5>1. PICK x \in Nat : f = lo + x
          <6> f - lo \in Nat /\ f = lo + (f - lo) BY <1>7, <4>2, SMT
          <6> QED OBVIOUS
        <5>2. f * PageSize = lo * PageSize + x * PageSize
              /\ x * PageSize \in Nat /\ lo * PageSize \in Nat
          BY <1>2, <1>7, <5>1, SMT
        <5> QED BY <1>7, <4>2, <5>2, SMT
      <4> QED BY <1>7, <4>1, <4>2, SMT
    <3>2. (f + 1) * PageSize <= memSize <=> f + 1 <= hi
      BY <1>1, <1>2, Fitting DEF hi
    <3>3. (f + 1) * PageSize = f * PageSize + PageSize /\ f * PageSize \in Nat
      BY <1>2, SMT
    <3>4. end + (memSize - end) = memSize BY <1>1, <1>6, SMT DEF end
    <3> QED BY <3>1, <3>2, <3>3, <3>4
  <2>3. ASSUME NEW f
        PROVE  f \in ZoneFrames <=> f \in lo .. hi - 1
    <3>1. f \in ZoneFrames <=> /\ f \in 0 .. hi
                               /\ end <= f * PageSize
                               /\ f * PageSize + PageSize <= end + (memSize - end)
      BY <2>1 DEF ZoneFrames, Holds, hi
    <3>2. CASE f \in Nat BY <1>3, <1>7, <2>2, <3>1, <3>2, SMT
    <3>3. CASE f \notin Nat
      <4>1. f \notin 0 .. hi BY <1>3, <3>3, SMT
      <4>2. f \notin lo .. hi - 1 BY <1>3, <1>7, <3>3, SMT
      <4> QED BY <3>1, <4>1, <4>2
    <3> QED BY <3>2, <3>3
  <2> HIDE DEF ZoneFrames
  <2> QED BY <2>3
<1>11. /\ UserPages[1] \in Pages /\ UserPages[2] \in Pages
       /\ UserPages[1] \in Nat /\ UserPages[2] \in Nat
  BY AddressAssumption, Offsets
<1>12. /\ KernelPages \subseteq Pages /\ UserRange \subseteq Pages
       /\ KernelPages \intersect UserRange = {}
  <2> DEFINE z == PerTable * PerTable
  <2>1. z \in Nat BY TableAssumption, SMT
  <2>2. Pages = 0 .. z - 1 BY DEF Pages
  <2> HIDE DEF z, n, hi, k
  <2> QED BY <1>3, <1>4, <1>5, <1>9, <1>11, <2>1, <2>2, SMT DEF UserRange
<1> HIDE DEF n, k, lo, hi, j, end
<1>13. n \in Nat /\ n = k + 1 /\ k \in Nat /\ k <= hi + 1 BY <1>4, <1>5, SMT
<1>14. KernelPages = 0 .. n - 1 BY <1>5
<1> QED BY <1>3, <1>7, <1>8, <1>9, <1>10, <1>11, <1>12, <1>13, <1>14 DEF n, k, lo, hi

-----------------------------------------------------------------------------
(* What the actions leave alone.                                           *)

\* What a step that makes a space leaves of those there are: their entries, and
\* their tables where they are.
Kept(m, r, frames) ==
  /\ WellFormed(r, frames)
  /\ r.free \subseteq m.free
  /\ DOMAIN m.dirs \subseteq DOMAIN r.dirs
  /\ DOMAIN r.dirs \subseteq DOMAIN m.dirs \union m.free
  /\ DOMAIN r.tables \subseteq DOMAIN m.tables \union m.free
  /\ \A q \in DOMAIN m.dirs, d \in Index :
       m.dirs[q][d] # 0 => r.dirs[q][d] = m.dirs[q][d]
  /\ \A q \in DOMAIN m.dirs, v \in Pages :
       Tabled(m, q, v) => Tabled(r, q, v) /\ EntryOf(r, q, v) = EntryOf(m, q, v)

\* A new directory is empty, and nothing else changes.
Emptied(m, r, s, frames) ==
  /\ Kept(m, r, frames)
  /\ r.tables = m.tables
  /\ r.free = m.free \ {s}
  /\ DOMAIN r.dirs = DOMAIN m.dirs \union {s}
  /\ \A d \in Index : r.dirs[s][d] = 0
  /\ Proper(r, s)

\* Such a directory is what GetAddressSpace makes.
LEMMA NewDirectory ==
  ASSUME NEW frames, NEW m, NEW s, NEW r,
         WellFormed(m, frames), s \in m.free, r = GetAddressSpace(m, s)
  PROVE  Emptied(m, r, s, frames)
<1>1. /\ m = [dirs |-> m.dirs, tables |-> m.tables, free |-> m.free]
      /\ frames \subseteq Nat \ {0}
      /\ m.free \subseteq frames
      /\ DOMAIN m.dirs \union (DOMAIN m.tables \ {LowTable}) \subseteq frames \ m.free
      /\ DOMAIN m.dirs \intersect DOMAIN m.tables = {} /\ LowTable \notin frames
  BY DEF WellFormed, LowTable
<1> DEFINE none == [i \in Index |-> 0]
<1>2. /\ r.dirs = With(m.dirs, s, none)
      /\ r.tables = m.tables
      /\ r.free = m.free \ {s}
      /\ r = [dirs |-> r.dirs, tables |-> r.tables, free |-> r.free]
  <2>1. r = [m EXCEPT !.dirs = With(m.dirs, s, none), !.free = m.free \ {s}]
    BY DEF GetAddressSpace
  <2> HIDE DEF none
  <2>2. r = [dirs |-> With(m.dirs, s, none), tables |-> m.tables, free |-> m.free \ {s}]
    BY <1>1, <2>1
  <2> QED BY <2>2
<1>3. /\ DOMAIN r.dirs = DOMAIN m.dirs \union {s}
      /\ r.dirs[s] = none
      /\ \A q \in DOMAIN m.dirs : r.dirs[q] = m.dirs[q]
  BY <1>1, <1>2 DEF With
<1>4. \A d \in Index : r.dirs[s][d] = 0 BY <1>3
<1>5. WellFormed(r, frames)
  <2>1. DOMAIN r.dirs \union (DOMAIN r.tables \ {LowTable}) \subseteq frames \ r.free
    BY <1>1, <1>2, <1>3
  <2>2. DOMAIN r.dirs \intersect DOMAIN r.tables = {} BY <1>1, <1>2, <1>3
  <2>3. ASSUME NEW q \in DOMAIN r.dirs
        PROVE  r.dirs[q] \in [Index -> {0} \union DOMAIN r.tables]
    <3>1. CASE q = s BY <1>3, <3>1
    <3>2. CASE q # s BY <1>2, <1>3, <3>2 DEF WellFormed
    <3> QED BY <3>1, <3>2
  <2>4. \A p \in DOMAIN r.tables : r.tables[p] \in [Index -> Entry]
    BY <1>2 DEF WellFormed
  <2>5. ASSUME NEW q \in DOMAIN r.dirs, NEW p \in DOMAIN r.dirs, NEW d \in Index,
               NEW e \in Index, r.dirs[q][d] = r.dirs[p][e],
               r.dirs[q][d] \notin {0, LowTable}
        PROVE  q = p /\ d = e
    <3>1. q \in DOMAIN m.dirs /\ p \in DOMAIN m.dirs BY <1>3, <1>4, <2>5
    <3>2. m.dirs[q][d] = m.dirs[p][e] /\ m.dirs[q][d] \notin {0, LowTable}
      BY <1>3, <2>5, <3>1
    <3> QED BY <3>1, <3>2 DEF WellFormed
  <2> QED BY <1>1, <1>2, <2>1, <2>2, <2>3, <2>4, <2>5 DEF WellFormed
<1>6. \A q \in DOMAIN m.dirs, v \in Pages :
        Tabled(m, q, v) => Tabled(r, q, v) /\ EntryOf(r, q, v) = EntryOf(m, q, v)
  BY <1>2, <1>3 DEF Tabled, EntryOf
<1>7. Proper(r, s) BY <1>4 DEF Proper, LowTable
<1>8. Kept(m, r, frames) BY <1>1, <1>2, <1>3, <1>5, <1>6 DEF Kept
<1> QED BY <1>2, <1>3, <1>4, <1>7, <1>8 DEF Emptied

\* What a new space is: one more directory, whose tables are its own and have the
\* kernel's pages, for the kernel only.
Created(m, r, s, frames) ==
  /\ Kept(m, r, frames)
  /\ DOMAIN r.dirs = DOMAIN m.dirs \union {s}
  /\ \A v \in KernelPages :
       Tabled(r, s, v) => EntryOf(r, s, v) = Mapping(v, FALSE)
  /\ Proper(r, s)
  /\ Fresh(m, r, s, KernelPages, FALSE)

\* A space is created from free frames, and what it has it has right.
LEMMA SpaceIsCreated ==
  ASSUME NEW frames, NEW m, NEW s, NEW stale, NEW r,
         SpacesInvariant, Booted,
         WellFormed(m, frames), s \in m.free, stale \in Stale,
         r = CreateAddressSpace(m, s, stale)
  PROVE  Created(m, r, s, frames)
<1> DEFINE n == Cardinality(KernelPages)
           x == GetAddressSpace(m, s)
           user == FALSE
<1>1. n \in Nat /\ KernelPages = 0 .. n - 1 /\ KernelPages \subseteq Pages
  BY BootedMemory
<1>2. /\ Kept(m, x, frames)
      /\ x.tables = m.tables /\ x.free = m.free \ {s}
      /\ DOMAIN x.dirs = DOMAIN m.dirs \union {s}
      /\ \A d \in Index : x.dirs[s][d] = 0
      /\ Proper(x, s)
  <2>1. x = GetAddressSpace(m, s) OBVIOUS
  <2> HIDE DEF x
  <2>2. Emptied(m, x, s, frames) BY <2>1, NewDirectory
  <2> QED BY <2>2 DEF Emptied
<1>3. \A v \in Nat : Mapping(v, user) \in Entry BY DEF Mapping, Entry
<1>4. r = MapIdentity(x, s, n, user, stale) BY DEF CreateAddressSpace
<1>5. /\ WellFormed(x, frames) /\ s \in DOMAIN x.dirs
      /\ stale \in Entry /\ ~stale.written
  BY <1>2, StaleAssumption DEF Kept
<1> HIDE DEF n, x
<1>6. MappedUpTo(x, r, s, n, user, frames)
  <2> 0 .. n - 1 \subseteq Pages BY <1>1
  <2> HIDE DEF user
  <2> QED BY <1>1, <1>2, <1>3, <1>4, <1>5, MapIdentityMaps
<1>7. Fresh(m, r, s, KernelPages, FALSE)
  <2>1. /\ m.free \subseteq frames /\ frames \subseteq Nat \ {0}
        /\ DOMAIN m.tables \ {LowTable} \subseteq frames \ m.free
        /\ LowTable \notin frames /\ LowTable # 0
    BY DEF WellFormed, LowTable
  <2>2. Fresh(m, x, s, KernelPages, FALSE)
    <3>1. 0 \notin DOMAIN m.tables BY <2>1
    <3> QED BY <1>2, <3>1 DEF Fresh
  <2>3. x.free \intersect DOMAIN m.tables = {} BY <1>2, <2>1
  <2>4. 0 .. n - 1 \subseteq KernelPages /\ (user => FALSE) BY <1>1
  <2> HIDE DEF user
  <2> DEFINE users == FALSE
  <2>5. Fresh(m, x, s, KernelPages, users) /\ (user => users) BY <2>2, <2>4
  <2> HIDE DEF users
  <2>6. Fresh(m, r, s, KernelPages, users)
    BY <1>1, <1>2, <1>3, <1>4, <1>5, <2>3, <2>4, <2>5, MapIdentityFresh
  <2> QED BY <2>6 DEF users
<1>8. /\ Grown(x, r, s, 0 .. n - 1, frames)
      /\ \A v \in 0 .. n - 1 :
           IF Tabled(r, s, v) THEN EntryOf(r, s, v) = Mapping(v, user) ELSE r.free = {}
  BY <1>6 DEF MappedUpTo
<1>9. DOMAIN r.dirs = DOMAIN m.dirs \union {s} BY <1>2, <1>8 DEF Grown
<1>10. Proper(r, s)
  <2> DEFINE changed == 0 .. n - 1
  <2>1. Grown(x, r, s, changed, frames) BY <1>8
  <2> HIDE DEF changed
  <2> QED BY <1>2, <1>5, <2>1, StaysProper
<1>11. Kept(m, r, frames)
  <2>1. /\ WellFormed(r, frames) /\ r.free \subseteq m.free
        /\ DOMAIN r.tables \subseteq DOMAIN m.tables \union m.free
    BY <1>2, <1>8 DEF Grown, Kept
  <2>2. ASSUME NEW q \in DOMAIN m.dirs PROVE q # s /\ q \in DOMAIN x.dirs
    BY <1>2 DEF WellFormed
  <2>3. ASSUME NEW q \in DOMAIN m.dirs, NEW v \in Pages, Tabled(m, q, v)
        PROVE  Tabled(r, q, v) /\ EntryOf(r, q, v) = EntryOf(m, q, v)
    <3>1. Tabled(x, q, v) /\ EntryOf(x, q, v) = EntryOf(m, q, v)
      BY <1>2, <2>3 DEF Kept
    <3>2. Tabled(r, q, v) /\ EntryOf(r, q, v) = EntryOf(x, q, v)
      BY <1>8, <2>2, <3>1 DEF Grown
    <3> QED BY <3>1, <3>2
  <2>4. ASSUME NEW q \in DOMAIN m.dirs, NEW d \in Index, m.dirs[q][d] # 0
        PROVE  r.dirs[q][d] = m.dirs[q][d]
    <3>1. x.dirs[q][d] = m.dirs[q][d] BY <1>2, <2>4 DEF Kept
    <3>2. r.dirs[q][d] = x.dirs[q][d] BY <1>8, <2>2 DEF Grown
    <3> QED BY <3>1, <3>2
  <2> QED BY <1>9, <2>1, <2>3, <2>4 DEF Kept
<1> QED BY <1>1, <1>7, <1>8, <1>9, <1>10, <1>11 DEF user, Created

\* What tables give to users stays the same if old tables do, new ones give them
\* nothing, and the kernel's pages keep their tables.
LEMMA ServedStays ==
  ASSUME NEW m, NEW r, NEW root, NEW pages,
         \A v \in pages : r.dirs[root][DirOffset(v)] = m.dirs[root][DirOffset(v)],
         DOMAIN m.tables \subseteq DOMAIN r.tables,
         \A p \in DOMAIN m.tables : r.tables[p] = m.tables[p],
         \A p \in DOMAIN r.tables \ DOMAIN m.tables :
           p = LowTable \/ \A i \in Index : ~(r.tables[p][i].written /\ r.tables[p][i].user)
  PROVE  Served(r, root, pages) = Served(m, root, pages)
<1> DEFINE named(x) == {x.dirs[root][DirOffset(v)] : v \in pages}
           gives(e) == e.written /\ e.user /\ e.frame # 0
           at(x) == {b \in UserTables(x, root, pages) \X Index : gives(x.tables[b[1]][b[2]])}
<1>1. named(r) = named(m) OBVIOUS
<1>2. UserTables(m, root, pages) \subseteq UserTables(r, root, pages)
  BY <1>1 DEF UserTables
<1>3. ASSUME NEW p \in UserTables(r, root, pages), p \notin UserTables(m, root, pages),
             NEW i \in Index
      PROVE  ~gives(r.tables[p][i])
  <2>1. p \in DOMAIN r.tables \ DOMAIN m.tables /\ p # LowTable
    BY <1>1, <1>3 DEF UserTables
  <2> QED BY <2>1
<1>4. \A p \in UserTables(m, root, pages) : r.tables[p] = m.tables[p]
  BY DEF UserTables
<1> HIDE DEF gives
<1>5. at(r) = at(m) BY <1>2, <1>3, <1>4
<1>6. \A b \in at(m) : r.tables[b[1]][b[2]].frame = m.tables[b[1]][b[2]].frame
  BY <1>4
<1>7. /\ Served(r, root, pages) = [a \in at(r) |-> r.tables[a[1]][a[2]].frame]
      /\ Served(m, root, pages) = [a \in at(m) |-> m.tables[a[1]][a[2]].frame]
  BY DEF Served, gives
<1> HIDE DEF at
<1> QED BY <1>5, <1>6, <1>7

-----------------------------------------------------------------------------
(* What the handlers have in their hands.                                    *)

\* More frames may be given away, one of them to a handler, and it may let go of
\* what it holds.
Takes(request, after, away, more, t, f) ==
  /\ away \subseteq more
  /\ f = 0 \/ f \in more \ away
  /\ \A u \in Thread \ {t} : after[u] = request[u]
  /\ Held(after[t]) \subseteq (Held(request[t]) \union {f}) \ {0}
  /\ after[t].frame = after[t].table => after[t].table = 0

\* No frame is used twice then.
LEMMA ApartTakes ==
  ASSUME NEW given, NEW request, NEW away, NEW after, NEW more, NEW t \in Thread, NEW f,
         Apart(given, request, away), Takes(request, after, away, more, t, f)
  PROVE  Apart(given, after, more)
<1> DEFINE old(u) == Held(request[u])
           new(u) == Held(after[u])
<1>1. /\ \A a \in DOMAIN given : given[a] \in away
      /\ \A a, b \in DOMAIN given : given[a] = given[b] => a = b
      /\ \A u \in Thread : old(u) \subseteq away
      /\ \A a \in DOMAIN given, u \in Thread : given[a] \notin old(u)
      /\ \A u, w \in Thread : u # w => old(u) \intersect old(w) = {}
      /\ \A u \in Thread : request[u].frame = request[u].table => request[u].table = 0
  BY DEF Apart
<1>2. /\ \A u \in Thread \ {t} : new(u) = old(u)
      /\ new(t) \subseteq (old(t) \union {f}) \ {0}
      /\ away \subseteq more /\ (f = 0 \/ f \in more \ away)
  BY DEF Takes
<1>3. \A u \in Thread : after[u].frame = after[u].table => after[u].table = 0
  BY <1>1 DEF Takes
<1> HIDE DEF old, new
<1>4. \A u \in Thread : new(u) \subseteq more BY <1>1, <1>2
<1>5. \A a \in DOMAIN given, u \in Thread : given[a] \notin new(u)
  <2> SUFFICES ASSUME NEW a \in DOMAIN given, NEW u \in Thread, given[a] \in new(u)
               PROVE  FALSE
    OBVIOUS
  <2>1. CASE u # t BY <1>1, <1>2, <2>1
  <2>2. CASE u = t
    <3>1. given[a] = f /\ f # 0 BY <1>1, <1>2, <2>2
    <3> QED BY <1>1, <1>2, <3>1
  <2> QED BY <2>1, <2>2
<1>6. \A u, w \in Thread : u # w => new(u) \intersect new(w) = {}
  <2> SUFFICES ASSUME NEW u \in Thread, NEW w \in Thread, u # w, NEW x \in new(u),
                      x \in new(w)
               PROVE  FALSE
    OBVIOUS
  <2>1. CASE u # t /\ w # t BY <1>1, <1>2, <2>1
  <2>2. CASE u = t
    <3>1. x \in old(w) /\ w # t BY <1>2, <2>2
    <3>2. x \in away /\ x \notin old(t) BY <1>1, <3>1
    <3>3. x = f /\ f # 0 BY <1>2, <2>2, <3>2
    <3> QED BY <1>2, <3>2, <3>3
  <2>3. CASE w = t
    <3>1. x \in old(u) /\ u # t BY <1>2, <2>3
    <3>2. x \in away /\ x \notin old(t) BY <1>1, <3>1
    <3>3. x = f /\ f # 0 BY <1>2, <2>3, <3>2
    <3> QED BY <1>2, <3>2, <3>3
  <2> QED BY <2>1, <2>2, <2>3
<1> QED BY <1>1, <1>2, <1>3, <1>4, <1>5, <1>6 DEF Apart, new

\* One handler goes on.
LEMMA HandlerGoesOn ==
  ASSUME NEW m, NEW root, NEW in, NEW request, NEW broken, NEW pages, NEW t \in Thread,
         NEW x, Handlers(m, root, in, request, broken, pages), x \in Request,
         x.at # "none" => in[t] # 0,
         x.user => in[t] \notin {0, root} /\ x.page \in UserRange,
         x.at \in {"allocates", "installs"} /\ in[t] \notin broken =>
           \A v \in pages : DirOffset(v) # DirOffset(x.page),
         x.at = "writes" => Tabled(m, in[t], x.page)
  PROVE  Handlers(m, root, in, [request EXCEPT ![t] = x], broken, pages)
<1> DEFINE after == [request EXCEPT ![t] = x]
<1>1. request \in [Thread -> Request] BY DEF Handlers
<1>2. /\ after \in [Thread -> Request]
      /\ after[t] = x /\ \A u \in Thread \ {t} : after[u] = request[u]
  BY <1>1
<1> HIDE DEF after
<1>3. Handlers(m, root, in, after, broken, pages)
  <2> SUFFICES ASSUME NEW u \in Thread
               PROVE  /\ after[u].at # "none" => in[u] # 0
                      /\ after[u].user => in[u] \notin {0, root} /\ after[u].page \in UserRange
                      /\ after[u].at \in {"allocates", "installs"} /\ in[u] \notin broken =>
                           \A v \in pages : DirOffset(v) # DirOffset(after[u].page)
                      /\ after[u].at = "writes" => Tabled(m, in[u], after[u].page)
    BY <1>2 DEF Handlers
  <2>1. CASE u = t BY <1>2, <2>1
  <2>2. CASE u # t BY <1>2, <2>2 DEF Handlers
  <2> QED BY <2>1, <2>2
<1> QED BY <1>3 DEF after

\* What a thread without a fault holds is nothing.
LEMMA NothingHeld ==
  NoFault \in Request /\ Held(NoFault) = {} /\ NoFault.at = "none" /\ ~NoFault.user
<1>1. 0 \in Pages
  <2> DEFINE z == PerTable * PerTable
  <2>1. z \in Nat /\ z # 0 BY TableAssumption, SMT
  <2>2. Pages = 0 .. z - 1 BY DEF Pages
  <2> HIDE DEF z
  <2> QED BY <2>1, <2>2
<1> QED BY <1>1 DEF NoFault, Request, Held

\* Frames that were given away stay so.
LEMMA StillGivenAway ==
  ASSUME NEW frames, NEW m, NEW r, WellFormed(m, frames), Kept(m, r, frames)
  PROVE  GivenAway(m, frames) \subseteq GivenAway(r, frames)
BY DEF Kept, GivenAway

-----------------------------------------------------------------------------
(* One lemma for each action.                                              *)

\* What the spaces take from the memory manager does not change any more.
LEMMA Steady ==
  ASSUME UNCHANGED memoryVars
  PROVE  ZoneFrames' = ZoneFrames /\ KernelPages' = KernelPages
BY DEF memoryVars, ZoneFrames, Holds, KernelPages

\* What the memory becomes.
LEMMA MemoryBecomes ==
  ASSUME NEW r, NEW frames, Becomes(r), WellFormed(r, frames)
  PROVE  Memory' = r
BY DEF Becomes, Memory, WellFormed

\* Frames that leave the free ones change no mapping.
LEMMA FramesLeave ==
  ASSUME NEW m, NEW r, NEW root, NEW in, NEW last, NEW next, NEW request, NEW after,
         NEW broken, NEW frames, NEW pages, NEW gone,
         Good(m, root, in, last, request, broken, frames, pages),
         r = [dirs |-> m.dirs, tables |-> m.tables, free |-> m.free \ gone],
         next \in Pages,
         Handlers(m, root, in, after, broken, pages),
         Apart(Served(m, root, pages), after, GivenAway(r, frames))
  PROVE  Good(r, root, in, next, after, broken, frames, pages)
<1>1. r.dirs = m.dirs /\ r.tables = m.tables /\ r.free = m.free \ gone OBVIOUS
<1>2. r = [dirs |-> r.dirs, tables |-> r.tables, free |-> r.free] BY <1>1
<1>3. WellFormed(r, frames) BY <1>1, <1>2 DEF WellFormed, Good
<1>4. \A s \in DOMAIN r.dirs \ broken : Identity(r, s, root, pages)
  BY <1>1 DEF Good, Identity, Tabled, EntryOf
<1>5. Handlers(r, root, in, after, broken, pages) BY <1>1 DEF Handlers, Tabled
<1>6. Served(r, root, pages) = Served(m, root, pages) BY <1>1 DEF Served, UserTables
<1> QED BY <1>1, <1>3, <1>4, <1>5, <1>6 DEF Good

\* A handler goes on, perhaps with one frame more in its hands.
LEMMA HandlerKeeps ==
  ASSUME SpacesAreGood, NEW t \in Thread, NEW x \in Request, NEW f,
         UNCHANGED <<memoryVars, dirs, tables, kernel, space, partial>>,
         cr2' \in Pages, fault' = [fault EXCEPT ![t] = x],
         free' = free \ {f}, f = 0 \/ f \in free,
         Held(x) \subseteq (Held(fault[t]) \union {f}) \ {0},
         x.frame = x.table => x.table = 0,
         space[t] # 0,
         x.user => space[t] # kernel /\ x.page \in UserRange,
         x.at \in {"allocates", "installs"} /\ space[t] \notin partial =>
           \A v \in KernelPages : DirOffset(v) # DirOffset(x.page),
         x.at = "writes" => Tabled(Memory, space[t], x.page)
  PROVE  SpacesAreGood'
<1> DEFINE m == Memory
           r == Memory'
           gone == {f}
           frames == ZoneFrames
           pages == KernelPages
           after == [fault EXCEPT ![t] = x]
<1>1. /\ ZoneFrames' = frames /\ KernelPages' = pages
      /\ r = [dirs |-> m.dirs, tables |-> m.tables, free |-> m.free \ gone]
  BY Steady DEF Memory
<1>2. Good(m, kernel, space, cr2, fault, partial, frames, pages) BY DEF SpacesAreGood
<1>3. /\ f = 0 \/ f \in m.free
      /\ m.free \subseteq frames /\ LowTable \notin frames
      /\ DOMAIN m.dirs \union (DOMAIN m.tables \ {LowTable}) \subseteq frames \ m.free
  BY <1>2 DEF Memory, Good, WellFormed, LowTable
<1> HIDE DEF m, r, frames, pages
<1>4. Handlers(m, kernel, space, after, partial, pages)
  BY <1>2, HandlerGoesOn DEF Good, m, pages
<1>5. r.dirs = m.dirs /\ r.tables = m.tables /\ r.free = m.free \ {f} BY <1>1
<1>6. /\ GivenAway(m, frames) \subseteq GivenAway(r, frames)
      /\ f = 0 \/ f \in GivenAway(r, frames) \ GivenAway(m, frames)
  BY <1>3, <1>5 DEF GivenAway
<1>7. after[t] = x /\ \A u \in Thread \ {t} : after[u] = fault[u]
  BY <1>2 DEF Good, Handlers
<1> HIDE DEF gone, after
<1>8. Apart(Served(m, kernel, pages), after, GivenAway(r, frames))
  <2> DEFINE given == Served(m, kernel, pages)
             away == GivenAway(m, frames)
             more == GivenAway(r, frames)
  <2>1. Apart(given, fault, away) BY <1>2 DEF Good
  <2>2. away \subseteq more /\ (f = 0 \/ f \in more \ away) BY <1>6
  <2>3. Held(after[t]) \subseteq (Held(fault[t]) \union {f}) \ {0}
        /\ (after[t].frame = after[t].table => after[t].table = 0)
    BY <1>7
  <2> HIDE DEF given, away, more
  <2>4. Takes(fault, after, away, more, t, f) BY <1>7, <2>2, <2>3 DEF Takes
  <2>5. Apart(given, after, more) BY <2>1, <2>4, ApartTakes
  <2> QED BY <2>5 DEF given, more
<1>9. Good(r, kernel, space, cr2', after, partial, frames, pages)
  BY <1>1, <1>2, <1>4, <1>8, FramesLeave
<1> QED BY <1>1, <1>9 DEF SpacesAreGood, r, frames, pages, after

\* What is known of a handler.
LEMMA HandlerIs ==
  ASSUME SpacesAreGood, NEW t \in Thread
  PROVE  /\ fault[t] \in Request
         /\ space[t] \in {0} \union DOMAIN dirs
         /\ fault[t].at # "none" => space[t] # 0
         /\ fault[t].user => space[t] # kernel /\ fault[t].page \in UserRange
         /\ fault[t].at \in {"allocates", "installs"} /\ space[t] \notin partial =>
              \A v \in KernelPages : DirOffset(v) # DirOffset(fault[t].page)
         /\ fault[t].at = "writes" => Tabled(Memory, space[t], fault[t].page)
         /\ fault[t].frame = fault[t].table => fault[t].table = 0
         /\ cr2 \in Pages /\ free \subseteq Nat \ {0} /\ 0 \notin free
<1>1. Good(Memory, kernel, space, cr2, fault, partial, ZoneFrames, KernelPages)
  BY DEF SpacesAreGood
<1>2. Memory.dirs = dirs /\ Memory.free = free BY DEF Memory
<1>3. Handlers(Memory, kernel, space, fault, partial, KernelPages) /\ cr2 \in Pages
  BY <1>1 DEF Good
<1>4. Apart(Served(Memory, kernel, KernelPages), fault, GivenAway(Memory, ZoneFrames))
  BY <1>1 DEF Good
<1>5. fault[t].frame = fault[t].table => fault[t].table = 0 BY <1>4 DEF Apart
<1>6. free \subseteq Nat \ {0} BY <1>1, <1>2 DEF Good, WellFormed
<1> QED BY <1>2, <1>3, <1>5, <1>6 DEF Handlers

\* A fault changes nothing but what the handler will read.
LEMMA FaultRaisedKeeps ==
  ASSUME SpacesAreGood, NEW t \in Thread, NEW v \in Touched, FaultRaised(t, v)
  PROVE  SpacesAreGood'
<1> DEFINE x == [fault[t] EXCEPT !.at = "starts"]
<1>1. /\ UNCHANGED <<memoryVars, dirs, tables, kernel, space, partial>>
      /\ cr2' = v /\ free' = free /\ space[t] # 0
      /\ fault' = [fault EXCEPT ![t] = x]
  BY DEF FaultRaised
<1>2. /\ fault[t] \in Request /\ 0 \notin free
      /\ fault[t].user => space[t] # kernel /\ fault[t].page \in UserRange
      /\ fault[t].frame = fault[t].table => fault[t].table = 0
  BY HandlerIs
<1>3. /\ x \in Request /\ x.at = "starts" /\ x.page = fault[t].page
      /\ x.user = fault[t].user /\ x.frame = fault[t].frame /\ x.table = fault[t].table
  BY <1>2 DEF Request
<1>4. cr2' \in Pages BY <1>1, AddressAssumption
<1>5. free' = free \ {0} BY <1>1, <1>2
<1>6. Held(x) \subseteq (Held(fault[t]) \union {0}) \ {0} BY <1>3 DEF Held
<1> HIDE DEF x
<1> QED BY <1>1, <1>2, <1>3, <1>4, <1>5, <1>6, HandlerKeeps

\* A handler takes a frame nobody has for a page of users, none for others.
LEMMA FaultStartsKeeps ==
  ASSUME SpacesInvariant, Booted, SpacesAreGood, NEW t \in Thread, FaultStarts(t)
  PROVE  SpacesAreGood'
<1>1. PICK user \in BOOLEAN :
        LET f == IF user THEN Allocate(free) ELSE 0
        IN  /\ ForUser(space[t], cr2, user)
            /\ fault' = [fault EXCEPT ![t] =
                 [at |-> "tests", page |-> cr2, user |-> user, frame |-> f, table |-> 0]]
            /\ free' = free \ {f}
  BY DEF FaultStarts
<1> DEFINE f == IF user THEN Allocate(free) ELSE 0
           x == [at |-> "tests", page |-> cr2, user |-> user, frame |-> f, table |-> 0]
<1>2. /\ UNCHANGED <<memoryVars, dirs, tables, kernel, space, partial>>
      /\ cr2' = cr2 /\ fault[t].at = "starts"
      /\ fault' = [fault EXCEPT ![t] = x] /\ free' = free \ {f}
  BY <1>1 DEF FaultStarts
<1>3. space[t] # 0 /\ cr2 \in Pages /\ free \subseteq Nat \ {0} BY <1>2, HandlerIs
<1>4. f = 0 \/ (f \in free /\ f \in Nat) BY <1>3, AllocateGives
<1> HIDE DEF f
<1>5. f \in Nat BY <1>4
<1>6. /\ x \in Request /\ x.at = "tests" /\ x.page = cr2 /\ x.user = user
      /\ x.frame = f /\ x.table = 0
  BY <1>3, <1>5 DEF Request
<1>7. user => space[t] # kernel /\ cr2 \in UserRange
  <2> UserPages[1] \in Nat /\ UserPages[2] \in Nat BY BootedMemory
  <2> cr2 \in Nat BY <1>3, Offsets
  <2> QED BY <1>1 DEF ForUser, UserRange
<1>8. Held(x) \subseteq (Held(fault[t]) \union {f}) \ {0} BY <1>6 DEF Held
<1> HIDE DEF x
<1>9. cr2' \in Pages /\ (f = 0 \/ f \in free) BY <1>2, <1>3, <1>4
<1> QED BY <1>2, <1>3, <1>6, <1>7, <1>8, <1>9, HandlerKeeps

\* The kernel's pages have their tables, so what is missing is another one.
LEMMA FaultTestsKeeps ==
  ASSUME SpacesAreGood, NEW t \in Thread, FaultTests(t)
  PROVE  SpacesAreGood'
<1> DEFINE next == IF Slot(t) = 0 THEN "allocates" ELSE "writes"
           x == [fault[t] EXCEPT !.at = next]
<1>1. /\ UNCHANGED <<memoryVars, dirs, tables, kernel, space, partial>>
      /\ cr2' = cr2 /\ free' = free /\ fault[t].at = "tests"
      /\ fault' = [fault EXCEPT ![t] = x]
  BY DEF FaultTests
<1>2. /\ fault[t] \in Request /\ 0 \notin free /\ cr2 \in Pages
      /\ space[t] # 0 /\ space[t] \in DOMAIN dirs
      /\ fault[t].user => space[t] # kernel /\ fault[t].page \in UserRange
      /\ fault[t].frame = fault[t].table => fault[t].table = 0
  BY <1>1, HandlerIs
<1>3. next \in {"allocates", "writes"} /\ (next = "allocates" <=> Slot(t) = 0)
  OBVIOUS
<1> HIDE DEF next
<1>4. /\ x \in Request /\ x.at = next /\ x.page = fault[t].page
      /\ x.user = fault[t].user /\ x.frame = fault[t].frame /\ x.table = fault[t].table
  BY <1>2, <1>3 DEF Request
<1>5. Tabled(Memory, space[t], fault[t].page) <=> Slot(t) # 0 BY DEF Tabled, Slot, Memory
<1>6. ASSUME Slot(t) = 0, space[t] \notin partial, NEW v \in KernelPages
      PROVE  DirOffset(v) # DirOffset(fault[t].page)
  <2>1. space[t] \in DOMAIN Memory.dirs \ partial BY <1>2, <1>6 DEF Memory
  <2>2. Identity(Memory, space[t], kernel, KernelPages)
    BY <2>1 DEF SpacesAreGood, Good
  <2>3. Tabled(Memory, space[t], v) BY <2>2 DEF Identity
  <2> QED BY <1>5, <1>6, <2>3 DEF Tabled
<1>7. free' = free \ {0} /\ cr2' \in Pages BY <1>1, <1>2
<1>8. Held(x) \subseteq (Held(fault[t]) \union {0}) \ {0} BY <1>4 DEF Held
<1> HIDE DEF x
<1>9. /\ x.at \in {"allocates", "installs"} => Slot(t) = 0
      /\ x.at = "writes" => Slot(t) # 0
  BY <1>3, <1>4
<1> QED BY <1>1, <1>2, <1>4, <1>5, <1>6, <1>7, <1>8, <1>9, HandlerKeeps

\* A handler takes one more frame that nobody has, for a table.
LEMMA FaultAllocatesKeeps ==
  ASSUME SpacesAreGood, NEW t \in Thread, FaultAllocates(t)
  PROVE  SpacesAreGood'
<1> DEFINE f == Allocate(free)
           x == [fault[t] EXCEPT !.at = "installs", !.table = f]
<1>1. /\ UNCHANGED <<memoryVars, dirs, tables, kernel, space, partial>>
      /\ cr2' = cr2 /\ free' = free \ {f} /\ fault[t].at = "allocates"
      /\ fault' = [fault EXCEPT ![t] = x]
  BY DEF FaultAllocates
<1>2. /\ fault[t] \in Request /\ free \subseteq Nat \ {0} /\ cr2 \in Pages
      /\ space[t] # 0
      /\ fault[t].user => space[t] # kernel /\ fault[t].page \in UserRange
      /\ space[t] \notin partial =>
           \A v \in KernelPages : DirOffset(v) # DirOffset(fault[t].page)
  BY <1>1, HandlerIs
<1>3. f = 0 \/ (f \in free /\ f \in Nat) BY <1>2, AllocateGives
<1> HIDE DEF f
<1>4. f \in Nat BY <1>3
<1>5. /\ x \in Request /\ x.at = "installs" /\ x.page = fault[t].page
      /\ x.user = fault[t].user /\ x.frame = fault[t].frame /\ x.table = f
  BY <1>2, <1>4 DEF Request
<1>6. cr2' \in Pages /\ (f = 0 \/ f \in free) BY <1>1, <1>2, <1>3
<1>7. Held(x) \subseteq (Held(fault[t]) \union {f}) \ {0} BY <1>5 DEF Held
<1>8. x.frame = x.table => x.table = 0
  <2> SUFFICES ASSUME fault[t].frame = f, f # 0 PROVE FALSE BY <1>5
  <2>1. f \in Held(fault[t]) /\ f \in free BY <1>3 DEF Held
  <2>2. Apart(Served(Memory, kernel, KernelPages), fault, GivenAway(Memory, ZoneFrames))
    BY DEF SpacesAreGood, Good
  <2>3. f \in GivenAway(Memory, ZoneFrames) BY <2>1, <2>2 DEF Apart
  <2> QED BY <2>1, <2>3 DEF GivenAway, Memory
<1> HIDE DEF x
<1> QED BY <1>1, <1>2, <1>5, <1>6, <1>7, <1>8, HandlerKeeps

\* What a table does that goes into a directory.
TableInstalled(m, r, s, d, new, stale) ==
  r = [dirs   |-> [m.dirs EXCEPT ![s][d] = new],
       tables |-> With(m.tables, new, IF new \in DOMAIN m.tables THEN m.tables[new]
                                      ELSE [i \in Index |-> stale]),
       free   |-> m.free]

\* A table that nobody has, or the one at address 0, may take the place of one that
\* has none of the kernel's pages: entries of users stay entries of tables, though
\* perhaps of one that no directory names any more.
LEMMA TableGoesIn ==
  ASSUME NEW m, NEW root, NEW in, NEW last, NEW request, NEW broken, NEW frames,
         NEW pages, NEW t \in Thread, NEW new, NEW stale \in Stale, NEW r, NEW x \in Request,
         NEW d, NEW s,
         Good(m, root, in, last, request, broken, frames, pages), pages \subseteq Pages,
         request[t].at = "installs", s = in[t], d = DirOffset(request[t].page),
         new = LowTable \/ (new = request[t].table /\ new # 0),
         TableInstalled(m, r, s, d, new, stale),
         Held(x) \subseteq {request[t].frame}, x.table = 0,
         x.at \in {"none", "writes"}, x.at = "writes" => x.page = request[t].page,
         x.user => in[t] # root /\ x.page \in UserRange
  PROVE  Good(r, root, in, last, [request EXCEPT ![t] = x], broken, frames, pages)
<1> DEFINE after == [request EXCEPT ![t] = x]
           table == IF new \in DOMAIN m.tables THEN m.tables[new] ELSE [i \in Index |-> stale]
<1>1. /\ WellFormed(m, frames) /\ root \in DOMAIN m.dirs \ broken
      /\ Handlers(m, root, in, request, broken, pages)
      /\ Apart(Served(m, root, pages), request, GivenAway(m, frames))
  BY DEF Good
<1>2. /\ request \in [Thread -> Request] /\ s \in DOMAIN m.dirs
      /\ s \notin broken => \A v \in pages : DirOffset(v) # d
  <2>1. s # 0 /\ s \in {0} \union DOMAIN m.dirs BY <1>1 DEF Handlers
  <2> QED BY <1>1, <2>1 DEF Handlers
<1>3. d \in Index BY <1>2, Offsets DEF Request
<1>4. /\ frames \subseteq Nat \ {0} /\ m.free \subseteq frames /\ LowTable \notin frames
      /\ DOMAIN m.dirs \union (DOMAIN m.tables \ {LowTable}) \subseteq frames \ m.free
      /\ DOMAIN m.dirs \intersect DOMAIN m.tables = {} /\ LowTable # 0
  BY <1>1 DEF WellFormed, LowTable
<1>5. new # LowTable => /\ new \in Held(request[t]) /\ new \in GivenAway(m, frames)
                        /\ new \notin DOMAIN m.tables /\ new \notin DOMAIN m.dirs
                        /\ new \in frames \ m.free /\ new \notin Held(x)
  <2> SUFFICES ASSUME new # LowTable
               PROVE  /\ new \in Held(request[t]) /\ new \in GivenAway(m, frames)
                      /\ new \notin DOMAIN m.tables /\ new \notin DOMAIN m.dirs
                      /\ new \in frames \ m.free /\ new \notin Held(x)
    OBVIOUS
  <2>1. new = request[t].table /\ new # 0 OBVIOUS
  <2>2. new \in Held(request[t]) BY <2>1 DEF Held
  <2>3. new \in GivenAway(m, frames) /\ request[t].frame # request[t].table
    BY <1>1, <2>1, <2>2 DEF Apart
  <2> QED BY <2>1, <2>2, <2>3 DEF GivenAway
<1>6. stale \in Entry /\ ~stale.written BY StaleAssumption
<1>7. table \in [Index -> Entry] BY <1>1, <1>6 DEF WellFormed
<1>8. /\ r.dirs = [m.dirs EXCEPT ![s][d] = new]
      /\ r.tables = With(m.tables, new, table) /\ r.free = m.free
      /\ r = [dirs |-> r.dirs, tables |-> r.tables, free |-> r.free]
  BY DEF TableInstalled
<1>9. /\ DOMAIN r.tables = DOMAIN m.tables \union {new} /\ r.tables[new] = table
      /\ \A p \in DOMAIN m.tables : r.tables[p] = m.tables[p]
  BY <1>8 DEF With
<1>10. /\ DOMAIN r.dirs = DOMAIN m.dirs
       /\ \A q \in DOMAIN m.dirs \ {s} : r.dirs[q] = m.dirs[q]
       /\ r.dirs[s] = [m.dirs[s] EXCEPT ![d] = new]
  BY <1>2, <1>8
<1>11. m.dirs[s] \in [Index -> {0} \union DOMAIN m.tables] BY <1>1, <1>2 DEF WellFormed
<1>12. \A q \in DOMAIN m.dirs : \A e \in Index :
         IF q = s /\ e = d THEN r.dirs[q][e] = new ELSE r.dirs[q][e] = m.dirs[q][e]
  BY <1>3, <1>10, <1>11
<1>13. new \notin DOMAIN m.tables => \A i \in Index : ~r.tables[new][i].written
  BY <1>6, <1>9
<1>14. new # 0 BY <1>4, <1>5
<1>15. after \in [Thread -> Request] /\ after[t] = x
       /\ \A u \in Thread \ {t} : after[u] = request[u]
  BY <1>2
<1> HIDE DEF table, after
<1>16. WellFormed(r, frames)
  <2>1. DOMAIN r.dirs \union (DOMAIN r.tables \ {LowTable}) \subseteq frames \ r.free
    BY <1>4, <1>5, <1>8, <1>9, <1>10
  <2>2. DOMAIN r.dirs \intersect DOMAIN r.tables = {}
    <3>1. new \notin DOMAIN m.dirs BY <1>4, <1>5
    <3> QED BY <1>4, <1>9, <1>10, <3>1
  <2>3. ASSUME NEW q \in DOMAIN r.dirs
        PROVE  r.dirs[q] \in [Index -> {0} \union DOMAIN r.tables]
    <3>1. CASE q = s BY <1>3, <1>9, <1>10, <1>11, <3>1
    <3>2. CASE q # s
      <4>1. m.dirs[q] \in [Index -> {0} \union DOMAIN m.tables] /\ r.dirs[q] = m.dirs[q]
        BY <1>1, <1>10, <3>2 DEF WellFormed
      <4> QED BY <1>9, <4>1
    <3> QED BY <3>1, <3>2
  <2>4. ASSUME NEW p \in DOMAIN r.tables PROVE r.tables[p] \in [Index -> Entry]
    <3>1. CASE p = new BY <1>7, <1>9, <3>1
    <3>2. CASE p # new BY <1>1, <1>9, <3>2 DEF WellFormed
    <3> QED BY <3>1, <3>2
  <2>5. ASSUME NEW q \in DOMAIN m.dirs, NEW e \in Index, m.dirs[q][e] = new
        PROVE  new = LowTable
    <3>1. m.dirs[q][e] \in {0} \union DOMAIN m.tables BY <1>1 DEF WellFormed
    <3> QED BY <1>5, <1>14, <2>5, <3>1
  <2>6. ASSUME NEW q \in DOMAIN r.dirs, NEW p \in DOMAIN r.dirs, NEW i \in Index,
               NEW e \in Index, r.dirs[q][i] = r.dirs[p][e],
               r.dirs[q][i] \notin {0, LowTable}
        PROVE  q = p /\ i = e
    <3>1. q \in DOMAIN m.dirs /\ p \in DOMAIN m.dirs BY <1>10
    <3>2. CASE q = s /\ i = d BY <1>12, <2>5, <2>6, <3>1, <3>2
    <3>3. CASE p = s /\ e = d BY <1>12, <2>5, <2>6, <3>1, <3>3
    <3>4. CASE ~(q = s /\ i = d) /\ ~(p = s /\ e = d)
      <4>1. m.dirs[q][i] = m.dirs[p][e] /\ m.dirs[q][i] \notin {0, LowTable}
        BY <1>12, <2>6, <3>1, <3>4
      <4> QED BY <1>1, <3>1, <4>1 DEF WellFormed
    <3> QED BY <3>2, <3>3, <3>4
  <2> QED BY <1>4, <1>8, <2>1, <2>2, <2>3, <2>4, <2>6 DEF WellFormed
<1>17. ASSUME NEW q \in DOMAIN r.dirs \ broken PROVE Identity(r, q, root, pages)
  <2>1. q \in DOMAIN m.dirs /\ Identity(m, q, root, pages) BY <1>10 DEF Good
  <2> SUFFICES ASSUME NEW v \in pages
               PROVE  r.dirs[q][DirOffset(v)] = m.dirs[q][DirOffset(v)]
                      /\ m.dirs[q][DirOffset(v)] \in DOMAIN m.tables
    BY <1>9, <2>1 DEF Identity, Tabled, EntryOf
  <2>2. DirOffset(v) \in Index BY Offsets
  <2>3. ~(q = s /\ DirOffset(v) = d) BY <1>2
  <2>4. m.dirs[q][DirOffset(v)] \in {0} \union DOMAIN m.tables
    BY <1>1, <2>1, <2>2 DEF WellFormed
  <2>5. m.dirs[q][DirOffset(v)] # 0 BY <2>1 DEF Identity, Tabled
  <2> QED BY <1>12, <2>1, <2>2, <2>3, <2>4, <2>5
<1>18. Handlers(r, root, in, after, broken, pages)
  <2>1. in \in [Thread -> {0} \union DOMAIN r.dirs] BY <1>1, <1>10 DEF Handlers
  <2>2. ASSUME NEW q \in DOMAIN m.dirs, NEW v \in Pages, Tabled(m, q, v)
        PROVE  Tabled(r, q, v)
    <3>1. DirOffset(v) \in Index BY Offsets
    <3> QED BY <1>12, <1>14, <2>2, <3>1 DEF Tabled
  <2>3. ASSUME NEW u \in Thread
        PROVE  /\ after[u].at # "none" => in[u] # 0
               /\ after[u].user => in[u] \notin {0, root} /\ after[u].page \in UserRange
               /\ after[u].at \in {"allocates", "installs"} /\ in[u] \notin broken =>
                    \A v \in pages : DirOffset(v) # DirOffset(after[u].page)
               /\ after[u].at = "writes" => Tabled(r, in[u], after[u].page)
    <3>1. CASE u = t
      <4>1. in[t] # 0 BY <1>1 DEF Handlers
      <4>2. x.at = "writes" => Tabled(r, s, x.page)
        BY <1>2, <1>3, <1>12, <1>14 DEF Tabled
      <4> QED BY <1>15, <3>1, <4>1, <4>2
    <3>2. CASE u # t
      <4>1. after[u] = request[u] /\ request[u] \in Request BY <1>2, <1>15, <3>2
      <4>2. request[u].page \in Pages BY <4>1 DEF Request
      <4>3. request[u].at = "writes" => Tabled(r, in[u], request[u].page)
        <5> SUFFICES ASSUME request[u].at = "writes"
                     PROVE  Tabled(r, in[u], request[u].page)
          OBVIOUS
        <5>1. Tabled(m, in[u], request[u].page) /\ in[u] # 0
              /\ in[u] \in {0} \union DOMAIN m.dirs
          BY <1>1 DEF Handlers
        <5> QED BY <2>2, <4>2, <5>1
      <4> QED BY <1>1, <4>1, <4>3 DEF Handlers
    <3> QED BY <3>1, <3>2
  <2> QED BY <1>15, <2>1, <2>3 DEF Handlers
<1>19. Served(r, root, pages) = Served(m, root, pages)
  <2>1. ASSUME NEW v \in pages
        PROVE  r.dirs[root][DirOffset(v)] = m.dirs[root][DirOffset(v)]
    <3>1. DirOffset(v) \in Index /\ ~(root = s /\ DirOffset(v) = d) BY <1>1, <1>2, Offsets
    <3> QED BY <1>1, <1>12, <3>1
  <2>2. /\ DOMAIN m.tables \subseteq DOMAIN r.tables
        /\ \A p \in DOMAIN r.tables \ DOMAIN m.tables :
             p = LowTable \/ \A i \in Index : ~(r.tables[p][i].written /\ r.tables[p][i].user)
    BY <1>9, <1>13
  <2> QED BY <1>9, <2>1, <2>2, ServedStays
<1>20. Apart(Served(r, root, pages), after, GivenAway(r, frames))
  <2> DEFINE given == Served(m, root, pages)
             away == GivenAway(m, frames)
             less == GivenAway(r, frames)
             old(u) == Held(request[u])
             now(u) == Held(after[u])
  <2>1. away \ {new} \subseteq less BY <1>8, <1>9, <1>10 DEF GivenAway
  <2>2. /\ \A a \in DOMAIN given : given[a] \in away
        /\ \A a, b \in DOMAIN given : given[a] = given[b] => a = b
        /\ \A u \in Thread : old(u) \subseteq away
        /\ \A a \in DOMAIN given, u \in Thread : given[a] \notin old(u)
        /\ \A u, w \in Thread : u # w => old(u) \intersect old(w) = {}
        /\ \A u \in Thread : request[u].frame = request[u].table => request[u].table = 0
    BY <1>1 DEF Apart
  <2>3. new \in old(t) \/ new \notin away BY <1>4, <1>5 DEF GivenAway
  <2>4. /\ now(t) \subseteq old(t) /\ new \notin now(t)
        /\ \A u \in Thread \ {t} : now(u) = old(u)
    <3>1. Held(x) \subseteq Held(request[t]) BY DEF Held
    <3>2. new \notin Held(x)
      <4>1. CASE new = LowTable
        <5>1. Held(x) \subseteq Nat BY DEF Held, Request
        <5> QED BY <4>1, <5>1 DEF LowTable
      <4>2. CASE new # LowTable BY <1>5, <4>2
      <4> QED BY <4>1, <4>2
    <3> QED BY <1>15, <3>1, <3>2
  <2>5. \A u \in Thread : after[u].frame = after[u].table => after[u].table = 0
    BY <1>15, <2>2
  <2> HIDE DEF given, away, less, old, now
  <2>6. \A a \in DOMAIN given : given[a] \in less BY <2>1, <2>2, <2>3
  <2>7. \A u \in Thread : now(u) \subseteq less
    <3> SUFFICES ASSUME NEW u \in Thread, NEW f \in now(u) PROVE f \in less OBVIOUS
    <3>1. f \in old(u) /\ f \in away BY <2>2, <2>4
    <3>2. f # new BY <2>2, <2>3, <2>4, <3>1
    <3> QED BY <2>1, <3>1, <3>2
  <2>8. \A a \in DOMAIN given, u \in Thread : given[a] \notin now(u) BY <2>2, <2>4
  <2>9. \A u, w \in Thread : u # w => now(u) \intersect now(w) = {}
    <3>1. \A u \in Thread : now(u) \subseteq old(u) BY <2>4
    <3> QED BY <2>2, <3>1
  <2>10. Apart(given, after, less) BY <2>2, <2>5, <2>6, <2>7, <2>8, <2>9 DEF Apart, now
  <2> QED BY <1>19, <2>10 DEF given, less
<1>21. Good(r, root, in, last, after, broken, frames, pages)
  BY <1>1, <1>10, <1>16, <1>17, <1>18, <1>20 DEF Good
<1> QED BY <1>21 DEF after

\* A handler puts its table into the directory, or goes without one.
LEMMA FaultInstallsKeeps ==
  ASSUME SpacesInvariant, Booted, SpacesAreGood, NEW t \in Thread, FaultInstalls(t)
  PROVE  SpacesAreGood'
<1> DEFINE s == space[t]
           d == DirOffset(fault[t].page)
           new == IF fault[t].table # 0 THEN fault[t].table ELSE LowTable
           x == IF fault[t].table = 0 THEN NoFault
                ELSE [fault[t] EXCEPT !.at = "writes", !.table = 0]
<1>1. /\ UNCHANGED <<memoryVars, kernel, space, partial>>
      /\ cr2' = cr2 /\ free' = free /\ fault[t].at = "installs"
      /\ fault' = [fault EXCEPT ![t] = x]
  BY DEF FaultInstalls
<1>2. /\ fault[t] \in Request /\ cr2 \in Pages /\ 0 \notin free
      /\ space[t] # 0 /\ space[t] \in DOMAIN dirs
      /\ fault[t].user => space[t] # kernel /\ fault[t].page \in UserRange
      /\ fault[t].frame = fault[t].table => fault[t].table = 0
  BY <1>1, HandlerIs
<1>3. /\ x \in Request /\ x.table = 0 /\ Held(x) \subseteq {fault[t].frame}
      /\ Held(x) \subseteq (Held(fault[t]) \union {0}) \ {0}
      /\ x.at \in {"none", "writes"} /\ (x.at = "writes" => x.page = fault[t].page)
      /\ x.user => fault[t].user /\ x.page = fault[t].page
      /\ x.at = "writes" => fault[t].table # 0
  <2>1. CASE fault[t].table = 0
    <3>1. x = NoFault BY <2>1
    <3> QED BY <3>1, NothingHeld DEF NoFault
  <2>2. CASE fault[t].table # 0
    <3>1. /\ x \in Request /\ x.at = "writes" /\ x.page = fault[t].page
          /\ x.user = fault[t].user /\ x.frame = fault[t].frame /\ x.table = 0
      BY <1>2, <2>2 DEF Request
    <3> HIDE DEF x
    <3> QED BY <2>2, <3>1 DEF Held
  <2> QED BY <2>1, <2>2
<1> HIDE DEF x
<1>4. CASE fault[t].table = 0 /\ Slot(t) = 0
  <2>1. UNCHANGED <<dirs, tables>> BY <1>4 DEF FaultInstalls
  <2>2. free' = free \ {0} /\ cr2' \in Pages BY <1>1, <1>2
  <2> QED BY <1>1, <1>2, <1>3, <1>4, <2>1, <2>2, HandlerKeeps
<1>5. CASE ~(fault[t].table = 0 /\ Slot(t) = 0)
  <2>1. PICK g \in Stale :
          tables' = With(tables, new, IF new \in DOMAIN tables THEN tables[new]
                                      ELSE [i \in Index |-> g])
    BY <1>5 DEF FaultInstalls
  <2>2. dirs' = [dirs EXCEPT ![space[t]][d] = new] BY <1>5 DEF FaultInstalls
  <2> DEFINE m == Memory
             r == Memory'
             frames == ZoneFrames
             pages == KernelPages
  <2>3. TableInstalled(m, r, s, d, new, g)
    BY <1>1, <2>1, <2>2 DEF TableInstalled, Memory
  <2>4. ZoneFrames' = frames /\ KernelPages' = pages BY <1>1, Steady
  <2>5. Good(m, kernel, space, cr2, fault, partial, frames, pages) /\ pages \subseteq Pages
    BY BootedMemory DEF SpacesAreGood
  <2>6. new = LowTable \/ (new = fault[t].table /\ new # 0) OBVIOUS
  <2>7. x.user => space[t] # kernel /\ x.page \in UserRange BY <1>2, <1>3
  <2> HIDE DEF m, r, frames, pages, new
  <2>8. Good(r, kernel, space, cr2, [fault EXCEPT ![t] = x], partial, frames, pages)
    BY <1>1, <1>3, <2>3, <2>5, <2>6, <2>7, TableGoesIn
  <2> QED BY <1>1, <2>4, <2>8 DEF SpacesAreGood, r, frames, pages
<1> QED BY <1>4, <1>5

\* A handler lets go of its frame, which an entry gets or nobody.
Gives(given, request, now, after, t, x) ==
  /\ \A a \in DOMAIN now :
       \/ a = x /\ now[a] \in Held(request[t])
       \/ a \in DOMAIN given /\ now[a] = given[a]
  /\ \A u \in Thread \ {t} : after[u] = request[u]
  /\ Held(after[t]) = {} /\ after[t].table = 0

\* No frame is used twice then.
LEMMA ApartGives ==
  ASSUME NEW given, NEW request, NEW away, NEW now, NEW after, NEW t \in Thread, NEW x,
         Apart(given, request, away), Gives(given, request, now, after, t, x)
  PROVE  Apart(now, after, away)
<1> DEFINE old(u) == Held(request[u])
           new(u) == Held(after[u])
<1>1. /\ \A a \in DOMAIN given : given[a] \in away
      /\ \A a, b \in DOMAIN given : given[a] = given[b] => a = b
      /\ \A u \in Thread : old(u) \subseteq away
      /\ \A a \in DOMAIN given, u \in Thread : given[a] \notin old(u)
      /\ \A u, w \in Thread : u # w => old(u) \intersect old(w) = {}
      /\ \A u \in Thread : request[u].frame = request[u].table => request[u].table = 0
  BY DEF Apart
<1>2. /\ \A u \in Thread \ {t} : new(u) = old(u)
      /\ new(t) = {}
  BY DEF Gives
<1>3. \A a \in DOMAIN now : \/ a = x /\ now[a] \in old(t)
                            \/ a \in DOMAIN given /\ now[a] = given[a]
  BY DEF Gives
<1>4. \A u \in Thread : after[u].frame = after[u].table => after[u].table = 0
  BY <1>1 DEF Gives
<1> HIDE DEF old, new
<1>5. \A a \in DOMAIN now : now[a] \in away BY <1>1, <1>3
<1>6. ASSUME NEW a \in DOMAIN now, NEW b \in DOMAIN now, now[a] = now[b] PROVE a = b
  <2>1. CASE a = x /\ now[a] \in old(t) BY <1>1, <1>3, <1>6, <2>1
  <2>2. CASE a \in DOMAIN given /\ now[a] = given[a] BY <1>1, <1>3, <1>6, <2>2
  <2> QED BY <1>3, <2>1, <2>2
<1>7. \A u \in Thread : new(u) \subseteq away BY <1>1, <1>2
<1>8. ASSUME NEW a \in DOMAIN now, NEW u \in Thread, now[a] \in new(u) PROVE FALSE
  <2>1. u # t /\ now[a] \in old(u) BY <1>2, <1>8
  <2> QED BY <1>1, <1>3, <2>1
<1>9. \A u, w \in Thread : u # w => new(u) \intersect new(w) = {}
  <2>1. \A u \in Thread : new(u) \subseteq old(u) BY <1>2
  <2> QED BY <1>1, <2>1
<1> QED BY <1>4, <1>5, <1>6, <1>7, <1>8, <1>9 DEF Apart, new

\* What the write of an entry does.
EntryWritten(m, r, p, o, entry) ==
  r = [dirs |-> m.dirs, tables |-> [m.tables EXCEPT ![p][o] = entry], free |-> m.free]

\* A handler writes one entry of one space: a user's with the frame it holds, the
\* kernel's with what was there before.
LEMMA EntryGoesIn ==
  ASSUME NEW m, NEW root, NEW in, NEW last, NEW request, NEW broken, NEW frames,
         NEW pages, NEW t \in Thread, NEW r, NEW s, NEW v, NEW user, NEW f,
         Good(m, root, in, last, request, broken, frames, pages),
         pages \subseteq Pages, pages \intersect UserRange = {},
         request[t].at = "writes", s = in[t], v = request[t].page,
         user = request[t].user, f = IF user THEN request[t].frame ELSE v,
         EntryWritten(m, r, m.dirs[s][DirOffset(v)], TableOffset(v), Mapping(f, user))
  PROVE  Good(r, root, in, last, [request EXCEPT ![t] = NoFault], broken, frames, pages)
<1> DEFINE after == [request EXCEPT ![t] = NoFault]
           d == DirOffset(v)
           o == TableOffset(v)
           p == m.dirs[s][d]
           entry == Mapping(f, user)
<1>1. /\ WellFormed(m, frames) /\ root \in DOMAIN m.dirs \ broken
      /\ Handlers(m, root, in, request, broken, pages) /\ last \in Pages
      /\ Apart(Served(m, root, pages), request, GivenAway(m, frames))
  BY DEF Good
<1>2. /\ request \in [Thread -> Request] /\ s \in DOMAIN m.dirs
      /\ Tabled(m, s, v)
      /\ user => v \in UserRange
  <2>1. s # 0 /\ s \in {0} \union DOMAIN m.dirs BY <1>1 DEF Handlers
  <2> QED BY <1>1, <2>1 DEF Handlers
<1>3. request[t] \in Request BY <1>2
<1>4. /\ v \in Pages /\ v \in Nat /\ user \in BOOLEAN /\ request[t].frame \in Nat
      /\ d \in Index /\ o \in Index
  BY <1>3, Offsets DEF Request
<1>5. p \in DOMAIN m.tables /\ p # 0
  BY <1>1, <1>2, <1>4 DEF WellFormed, Tabled
<1>6. entry \in Entry /\ entry.frame = f /\ entry.user = user /\ entry.present /\ f \in Nat
  BY <1>4 DEF Mapping, Entry
<1>7. /\ r.dirs = m.dirs /\ r.free = m.free
      /\ r.tables = [m.tables EXCEPT ![p][o] = entry]
      /\ r = [dirs |-> r.dirs, tables |-> r.tables, free |-> r.free]
  BY DEF EntryWritten
<1>8. \A q \in DOMAIN m.tables : m.tables[q] \in [Index -> Entry] BY <1>1 DEF WellFormed
<1>9. after[t] = NoFault /\ \A u \in Thread \ {t} : after[u] = request[u] BY <1>2
<1>10. Handlers(r, root, in, after, broken, pages)
  <2>1. Handlers(m, root, in, after, broken, pages)
    <3>1. /\ NoFault.at \notin {"allocates", "installs", "writes"}
          /\ NoFault \in Request /\ NoFault.at = "none" /\ ~NoFault.user
      BY NothingHeld
    <3> QED BY <1>1, <3>1, HandlerGoesOn
  <2> QED BY <1>7, <2>1 DEF Handlers, Tabled
<1> HIDE DEF after, entry, p
<1>11. /\ DOMAIN r.tables = DOMAIN m.tables
       /\ \A q \in DOMAIN m.tables : r.tables[q] \in [Index -> Entry]
       /\ \A q \in DOMAIN m.tables : \A i \in Index :
            r.tables[q][i] = IF q = p /\ i = o THEN entry ELSE m.tables[q][i]
  <2>1. DOMAIN r.tables = DOMAIN m.tables BY <1>7
  <2>2. r.tables[p] = [m.tables[p] EXCEPT ![o] = entry]
        /\ \A q \in DOMAIN m.tables \ {p} : r.tables[q] = m.tables[q]
    BY <1>5, <1>7
  <2>3. \A i \in Index : r.tables[p][i] = IF i = o THEN entry ELSE m.tables[p][i]
    BY <1>4, <1>5, <1>8, <2>2
  <2>4. r.tables[p] \in [Index -> Entry] BY <1>4, <1>5, <1>6, <1>8, <2>2
  <2> QED BY <1>8, <2>1, <2>2, <2>3, <2>4
<1>12. WellFormed(r, frames) BY <1>1, <1>7, <1>11 DEF WellFormed
<1>13. ASSUME NEW q \in DOMAIN r.dirs \ broken PROVE Identity(r, q, root, pages)
  <2>1. q \in DOMAIN m.dirs /\ Identity(m, q, root, pages) BY <1>7 DEF Good
  <2> SUFFICES ASSUME NEW w \in pages
               PROVE  /\ EntryOf(r, q, w).present
                      /\ EntryOf(r, q, w).frame = w
                      /\ EntryOf(r, q, w).user => q = root
    BY <1>7, <2>1 DEF Identity, Tabled
  <2> DEFINE b == m.dirs[q][DirOffset(w)]
             i == TableOffset(w)
  <2>2. DirOffset(w) \in Index /\ i \in Index BY Offsets
  <2>3. b # 0 /\ b # LowTable BY <2>1 DEF Identity, Tabled
  <2>4. b \in DOMAIN m.tables BY <1>1, <2>1, <2>2, <2>3 DEF WellFormed
  <2>5. EntryOf(r, q, w) = IF b = p /\ i = o THEN entry ELSE EntryOf(m, q, w)
    BY <1>7, <1>11, <2>2, <2>4 DEF EntryOf
  <2>6. CASE b = p /\ i = o
    <3>1. q = s /\ DirOffset(w) = d
      BY <1>1, <1>2, <1>4, <2>1, <2>2, <2>3, <2>6 DEF WellFormed, p
    <3>2. w = v BY <1>4, <2>6, <3>1, NoAlias
    <3>3. ~user BY <1>2, <3>2
    <3> QED BY <1>6, <2>5, <2>6, <3>2, <3>3
  <2>7. CASE ~(b = p /\ i = o) BY <2>1, <2>5, <2>7 DEF Identity
  <2> QED BY <2>6, <2>7
<1>14. Apart(Served(r, root, pages), after, GivenAway(r, frames))
  <2> DEFINE given == Served(m, root, pages)
             now == Served(r, root, pages)
             away == GivenAway(m, frames)
             x == <<p, o>>
  <2>1. GivenAway(r, frames) = away BY <1>7, <1>11 DEF GivenAway
  <2>2. UserTables(r, root, pages) = UserTables(m, root, pages)
    BY <1>7, <1>11 DEF UserTables
  <2>3. Apart(given, request, away) BY <1>1
  <2>4. ASSUME NEW a \in DOMAIN now
        PROVE  \/ a = x /\ now[a] \in Held(request[t])
               \/ a \in DOMAIN given /\ now[a] = given[a]
    <3>1. /\ a \in UserTables(m, root, pages) \X Index
          /\ r.tables[a[1]][a[2]].written /\ r.tables[a[1]][a[2]].user
          /\ r.tables[a[1]][a[2]].frame # 0
          /\ now[a] = r.tables[a[1]][a[2]].frame
      BY <2>2, <2>4 DEF Served
    <3>2. a[1] \in DOMAIN m.tables /\ a[2] \in Index /\ a = <<a[1], a[2]>>
      BY <3>1 DEF UserTables
    <3>3. CASE a[1] = p /\ a[2] = o
      <4>1. user /\ f # 0 /\ now[a] = f BY <1>6, <1>11, <3>1, <3>2, <3>3
      <4> QED BY <3>2, <3>3, <4>1 DEF Held
    <3>4. CASE ~(a[1] = p /\ a[2] = o)
      <4>1. r.tables[a[1]][a[2]] = m.tables[a[1]][a[2]] BY <1>11, <3>2, <3>4
      <4> QED BY <3>1, <4>1 DEF Served
    <3> QED BY <3>3, <3>4
  <2>5. Held(after[t]) = {} /\ after[t].table = 0 BY <1>9, NothingHeld DEF NoFault
  <2> HIDE DEF given, now, away, x
  <2>6. Gives(given, request, now, after, t, x) BY <1>9, <2>4, <2>5 DEF Gives
  <2>7. Apart(now, after, away) BY <2>3, <2>6, ApartGives
  <2> QED BY <2>1, <2>7 DEF now
<1>15. Good(r, root, in, last, after, broken, frames, pages)
  BY <1>1, <1>7, <1>10, <1>12, <1>13, <1>14 DEF Good
<1> QED BY <1>15 DEF after

\* The last step of a fault.
LEMMA FaultWritesKeeps ==
  ASSUME SpacesInvariant, Booted, SpacesAreGood, NEW t \in Thread, FaultWrites(t)
  PROVE  SpacesAreGood'
<1> DEFINE s == space[t]
           v == fault[t].page
           user == fault[t].user
           f == IF user THEN fault[t].frame ELSE v
           m == Memory
           r == Memory'
           frames == ZoneFrames
           pages == KernelPages
<1>1. /\ UNCHANGED <<memoryVars, dirs, free, kernel, space, cr2, partial>>
      /\ fault[t].at = "writes"
      /\ tables' = [tables EXCEPT ![dirs[s][DirOffset(v)]][TableOffset(v)] = Mapping(f, user)]
      /\ fault' = [fault EXCEPT ![t] = NoFault]
  BY DEF FaultWrites, Slot
<1>2. EntryWritten(m, r, m.dirs[s][DirOffset(v)], TableOffset(v), Mapping(f, user))
  BY <1>1 DEF EntryWritten, Memory
<1>3. ZoneFrames' = frames /\ KernelPages' = pages BY <1>1, Steady
<1>4. /\ Good(m, kernel, space, cr2, fault, partial, frames, pages)
      /\ pages \subseteq Pages /\ pages \intersect UserRange = {}
  BY BootedMemory DEF SpacesAreGood
<1>5. f = IF user THEN fault[t].frame ELSE v OBVIOUS
<1> HIDE DEF m, r, frames, pages, f
<1>6. Good(r, kernel, space, cr2, [fault EXCEPT ![t] = NoFault], partial, frames, pages)
  BY <1>1, <1>2, <1>4, <1>5, EntryGoesIn
<1> QED BY <1>1, <1>3, <1>6 DEF SpacesAreGood, r, frames, pages

\* A thread that had no space enters one there is.
LEMMA ThreadEnters ==
  ASSUME NEW m, NEW root, NEW in, NEW last, NEW request, NEW broken, NEW frames,
         NEW pages, NEW t, NEW s,
         Good(m, root, in, last, request, broken, frames, pages),
         t \in Thread, in[t] = 0, s \in DOMAIN m.dirs, s # 0
  PROVE  Good(m, root, [in EXCEPT ![t] = s], last, request, broken, frames, pages)
<1> DEFINE after == [in EXCEPT ![t] = s]
<1>1. Handlers(m, root, in, request, broken, pages) BY DEF Good
<1>2. /\ after \in [Thread -> {0} \union DOMAIN m.dirs]
      /\ after[t] = s /\ \A u \in Thread \ {t} : after[u] = in[u]
  BY <1>1 DEF Handlers
<1>3. request[t].at = "none" /\ ~request[t].user BY <1>1 DEF Handlers
<1> HIDE DEF after
<1>4. Handlers(m, root, after, request, broken, pages)
  <2> SUFFICES ASSUME NEW u \in Thread
               PROVE  /\ request[u].at # "none" => after[u] # 0
                      /\ request[u].user => after[u] \notin {0, root} /\ request[u].page \in UserRange
                      /\ request[u].at \in {"allocates", "installs"} /\ after[u] \notin broken =>
                           \A v \in pages : DirOffset(v) # DirOffset(request[u].page)
                      /\ request[u].at = "writes" => Tabled(m, after[u], request[u].page)
    BY <1>1, <1>2 DEF Handlers
  <2>1. CASE u = t BY <1>3, <2>1
  <2>2. CASE u # t BY <1>1, <1>2, <2>2 DEF Handlers
  <2> QED BY <2>1, <2>2
<1>5. Good(m, root, after, last, request, broken, frames, pages) BY <1>4 DEF Good
<1> QED BY <1>5 DEF after

\* A kernel thread's stack comes from the free frames.
LEMMA KernelThreadKeeps ==
  ASSUME SpacesAreGood, NEW t \in Thread, KernelThread(t)
  PROVE  SpacesAreGood'
<1> DEFINE m == Memory
           r == Memory'
           gone == AllocateRun(free, StackPages)
           in == space
           after == [in EXCEPT ![t] = kernel]
           frames == ZoneFrames
           pages == KernelPages
<1>1. /\ UNCHANGED <<kernel, cr2, fault, partial>>
      /\ ZoneFrames' = frames /\ KernelPages' = pages
      /\ in[t] = 0 /\ kernel # 0 /\ space' = after
      /\ r = [dirs |-> m.dirs, tables |-> m.tables, free |-> m.free \ gone]
  BY Steady DEF KernelThread, Memory
<1>2. Good(m, kernel, in, cr2, fault, partial, frames, pages) BY DEF SpacesAreGood
<1> HIDE DEF m, r, gone, in, after, frames, pages
<1>3. Apart(Served(m, kernel, pages), fault, GivenAway(r, frames))
  <2> DEFINE given == Served(m, kernel, pages)
             away == GivenAway(m, frames)
             more == GivenAway(r, frames)
  <2>1. away \subseteq more BY <1>1 DEF GivenAway
  <2>2. Apart(given, fault, away) BY <1>2 DEF Good
  <2>3. fault[t].frame = fault[t].table => fault[t].table = 0 BY <2>2 DEF Apart
  <2>4. Held(fault[t]) \subseteq (Held(fault[t]) \union {0}) \ {0} BY DEF Held
  <2> HIDE DEF given, away, more
  <2>5. Takes(fault, fault, away, more, t, 0) BY <2>1, <2>3, <2>4 DEF Takes
  <2>6. Apart(given, fault, more) BY <2>2, <2>5, ApartTakes
  <2> QED BY <2>6 DEF given, more
<1>4. Good(r, kernel, in, cr2, fault, partial, frames, pages)
  <2>1. cr2 \in Pages /\ Handlers(m, kernel, in, fault, partial, pages) BY <1>2 DEF Good
  <2> QED BY <1>1, <1>2, <1>3, <2>1, FramesLeave
<1>5. kernel \in DOMAIN r.dirs BY <1>4 DEF Good
<1>6. Good(r, kernel, after, cr2, fault, partial, frames, pages)
  BY <1>1, <1>4, <1>5, ThreadEnters DEF after
<1> QED BY <1>1, <1>6 DEF SpacesAreGood, r, frames, pages

\* A child enters its father's space.
LEMMA ChildKeeps ==
  ASSUME SpacesAreGood, NEW t \in Thread, NEW u \in Thread, Child(t, u)
  PROVE  SpacesAreGood'
<1> DEFINE m == Memory
           s == space[t]
           in == space
           after == [in EXCEPT ![u] = s]
<1>1. /\ UNCHANGED <<kernel, cr2, fault, partial>>
      /\ ZoneFrames' = ZoneFrames /\ KernelPages' = KernelPages
      /\ s # 0 /\ in[u] = 0 /\ space' = after /\ Memory' = m
  BY Steady DEF Child, Memory
<1>2. Good(m, kernel, in, cr2, fault, partial, ZoneFrames, KernelPages)
  BY DEF SpacesAreGood
<1>3. s \in DOMAIN m.dirs BY <1>1, <1>2 DEF Good, Handlers
<1> HIDE DEF m, s, in, after
<1>4. Good(m, kernel, after, cr2, fault, partial, ZoneFrames, KernelPages)
  BY <1>1, <1>2, <1>3, ThreadEnters DEF after
<1> QED BY <1>1, <1>4 DEF SpacesAreGood

\* A thread gets a new space, made of free frames.
LEMMA ProcessKeeps ==
  ASSUME SpacesInvariant, Booted, SpacesAreGood, NEW t \in Thread, Process(t)
  PROVE  SpacesAreGood'
<1> DEFINE m == Memory
           s == Allocate(free)
           frames == ZoneFrames
           pages == KernelPages
           in == space
           after == [in EXCEPT ![t] = s]
           broken == partial'
<1>1. PICK g \in Stale : Becomes(CreateAddressSpace(m, s, g))
  BY DEF Process
<1> DEFINE r == CreateAddressSpace(m, s, g)
<1>2. /\ UNCHANGED <<kernel, cr2, fault>>
      /\ ZoneFrames' = frames /\ KernelPages' = pages
      /\ in[t] = 0 /\ space' = after /\ free # {}
      /\ broken = IF \E v \in pages : dirs'[s][DirOffset(v)] = 0
                  THEN partial \union {s} ELSE partial
  BY Steady DEF Process
<1>3. Good(m, kernel, in, cr2, fault, partial, frames, pages)
  BY DEF SpacesAreGood
<1>4. WellFormed(m, frames) /\ m.free = free BY <1>3 DEF Good, Memory
<1>5. s \in m.free /\ s # 0
  <2>1. free \subseteq Nat \ {0} BY <1>4 DEF WellFormed
  <2> QED BY <1>2, <1>4, <2>1, AllocateGives
<1>6. pages \subseteq Pages BY BootedMemory
<1>7. dirs' = r.dirs BY <1>1 DEF Becomes
<1>8. r = CreateAddressSpace(m, s, g) OBVIOUS
<1>9. pages = KernelPages OBVIOUS
<1> HIDE DEF m, r, s, frames, pages, in, after, broken
<1>10. Created(m, r, s, frames) BY <1>4, <1>5, <1>8, SpaceIsCreated
<1>11. /\ Kept(m, r, frames)
       /\ DOMAIN r.dirs = DOMAIN m.dirs \union {s}
       /\ \A v \in pages : Tabled(r, s, v) => EntryOf(r, s, v) = Mapping(v, FALSE)
       /\ Proper(r, s)
       /\ Fresh(m, r, s, pages, FALSE)
  BY <1>9, <1>10 DEF Created
<1>12. Memory' = r /\ WellFormed(r, frames)
  BY <1>1, <1>8, <1>11, MemoryBecomes DEF Kept
<1>13. ASSUME NEW q \in DOMAIN r.dirs \ broken
       PROVE  Identity(r, q, kernel, pages)
  <2> SUFFICES ASSUME NEW v \in pages
               PROVE  /\ Tabled(r, q, v) /\ r.dirs[q][DirOffset(v)] # LowTable
                      /\ EntryOf(r, q, v).present
                      /\ EntryOf(r, q, v).frame = v
                      /\ EntryOf(r, q, v).user => q = kernel
    BY DEF Identity
  <2>1. DirOffset(v) \in Index BY <1>6, Offsets
  <2>2. CASE q = s
    <3>1. Tabled(r, q, v) BY <1>2, <1>7, <1>13, <2>2 DEF Tabled
    <3>2. EntryOf(r, q, v) = Mapping(v, FALSE) BY <1>11, <2>2, <3>1
    <3> QED BY <1>11, <2>1, <2>2, <3>1, <3>2 DEF Mapping, Proper
  <2>3. CASE q # s
    <3>1. q \in DOMAIN m.dirs \ partial BY <1>2, <1>11, <1>13, <2>3
    <3>2. Identity(m, q, kernel, pages) BY <1>3, <3>1 DEF Good
    <3>3. Tabled(m, q, v) BY <3>2 DEF Identity
    <3>4. /\ Tabled(r, q, v) /\ EntryOf(r, q, v) = EntryOf(m, q, v)
          /\ r.dirs[q][DirOffset(v)] = m.dirs[q][DirOffset(v)]
      BY <1>6, <1>11, <2>1, <3>1, <3>3 DEF Kept, Tabled
    <3> QED BY <3>2, <3>4 DEF Identity
  <2> QED BY <2>2, <2>3
<1>14. kernel \in DOMAIN r.dirs \ broken
  <2>1. kernel \in DOMAIN m.dirs \ partial BY <1>3 DEF Good
  <2>2. kernel # s BY <1>4, <1>5, <2>1 DEF WellFormed
  <2> QED BY <1>2, <1>11, <2>1, <2>2
<1>15. Handlers(r, kernel, in, fault, broken, pages)
  <2>1. Handlers(m, kernel, in, fault, partial, pages) /\ partial \subseteq broken
    BY <1>2, <1>3 DEF Good
  <2>2. ASSUME NEW u \in Thread, fault[u].at = "writes"
        PROVE  Tabled(r, in[u], fault[u].page)
    <3>1. /\ Tabled(m, in[u], fault[u].page) /\ in[u] \in DOMAIN m.dirs
          /\ fault[u] \in Request
      BY <2>1, <2>2 DEF Handlers
    <3>2. fault[u].page \in Pages BY <3>1 DEF Request
    <3> QED BY <1>11, <3>1, <3>2 DEF Kept
  <2>3. in \in [Thread -> {0} \union DOMAIN r.dirs] BY <1>11, <2>1 DEF Handlers
  <2> QED BY <2>1, <2>2, <2>3 DEF Handlers
<1>16. Apart(Served(r, kernel, pages), fault, GivenAway(r, frames))
  <2> DEFINE given == Served(m, kernel, pages)
             away == GivenAway(m, frames)
             more == GivenAway(r, frames)
  <2>1. Served(r, kernel, pages) = given
    <3>1. ASSUME NEW v \in pages
          PROVE  r.dirs[kernel][DirOffset(v)] = m.dirs[kernel][DirOffset(v)]
      <4>1. kernel \in DOMAIN m.dirs \ partial /\ DirOffset(v) \in Index
        BY <1>3, <1>6, Offsets DEF Good
      <4>2. Tabled(m, kernel, v) BY <1>3, <4>1 DEF Good, Identity
      <4> QED BY <1>11, <4>1, <4>2 DEF Kept, Tabled
    <3>2. /\ DOMAIN m.tables \subseteq DOMAIN r.tables
          /\ \A p \in DOMAIN m.tables : r.tables[p] = m.tables[p]
          /\ \A p \in DOMAIN r.tables \ DOMAIN m.tables : \A i \in Index :
               ~(r.tables[p][i].written /\ r.tables[p][i].user)
      BY <1>11 DEF Fresh
    <3> QED BY <3>1, <3>2, ServedStays
  <2>2. away \subseteq more BY <1>4, <1>11, StillGivenAway
  <2>3. Apart(given, fault, away) BY <1>3 DEF Good
  <2>4. fault[t].frame = fault[t].table => fault[t].table = 0 BY <2>3 DEF Apart
  <2>5. Held(fault[t]) \subseteq (Held(fault[t]) \union {0}) \ {0} BY DEF Held
  <2> HIDE DEF given, away, more
  <2>6. Takes(fault, fault, away, more, t, 0) BY <2>2, <2>4, <2>5 DEF Takes
  <2>7. Apart(given, fault, more) BY <2>3, <2>6, ApartTakes
  <2> QED BY <2>1, <2>7 DEF given, more
<1>17. Good(r, kernel, in, cr2, fault, broken, frames, pages)
  BY <1>3, <1>12, <1>13, <1>14, <1>15, <1>16 DEF Good
<1>18. s \in DOMAIN r.dirs BY <1>11
<1>19. Good(r, kernel, after, cr2, fault, broken, frames, pages)
  BY <1>2, <1>5, <1>17, <1>18, ThreadEnters DEF after
<1> QED BY <1>2, <1>12, <1>19 DEF SpacesAreGood, frames, pages, broken

\* A table is taken from the free frames if the directory has none for the page.
Took(m, r, s, virt, frames) ==
  /\ WellFormed(m, frames)
  /\ r.free = IF Tabled(m, s, virt) THEN m.free ELSE m.free \ {Min(m.free)}
  /\ \A d \in Index :
       r.dirs[s][d] # 0 <=> m.dirs[s][d] # 0 \/ d = DirOffset(virt)

\* The first entry of a table takes the least of the free frames for it.
LEMMA MapPageTakes ==
  ASSUME NEW frames, NEW m, NEW s, NEW phys, NEW virt, NEW user, NEW stale, NEW r,
         WellFormed(m, frames), s \in DOMAIN m.dirs, Proper(m, s), virt \in Pages,
         r = MapPage(m, s, phys, virt, user, stale),
         m.free # {} \/ Tabled(m, s, virt)
  PROVE  Took(m, r, s, virt, frames)
<1> DEFINE d == DirOffset(virt)
           fresh == m.dirs[s][d] = 0
           t == IF fresh THEN Allocate(m.free) ELSE m.dirs[s][d]
           new == [IF fresh THEN [i \in Index |-> stale] ELSE m.tables[t]
                     EXCEPT ![TableOffset(virt)] = Mapping(phys, user)]
<1>1. d \in Index BY Offsets
<1>2. /\ m.dirs[s] \in [Index -> {0} \union DOMAIN m.tables]
      /\ DOMAIN m.tables \ {LowTable} \subseteq frames \ m.free
      /\ m.free \subseteq Nat \ {0}
  BY DEF WellFormed
<1>3. fresh <=> ~Tabled(m, s, virt) BY DEF Tabled
<1>4. /\ t # 0
      /\ fresh => t = Min(m.free)
      /\ ~fresh => t = m.dirs[s][d] /\ t \notin m.free
  <2>1. CASE fresh
    <3>1. m.free # {} BY <1>3, <2>1
    <3> QED BY <1>2, <2>1, <3>1, MinIsLeast DEF Allocate
  <2>2. CASE ~fresh BY <1>1, <1>2, <2>2 DEF Proper
  <2> QED BY <2>1, <2>2
<1>5. r = [dirs   |-> [m.dirs EXCEPT ![s][d] = t],
           tables |-> With(m.tables, t, new),
           free   |-> m.free \ {t}]
  BY <1>4 DEF MapPage
<1> HIDE DEF t, new, fresh, d
<1>6. r.dirs = [m.dirs EXCEPT ![s][d] = t] /\ r.free = m.free \ {t} BY <1>5
<1>7. r.dirs[s] = [m.dirs[s] EXCEPT ![d] = t] BY <1>6
<1>8. \A e \in Index : r.dirs[s][e] # 0 <=> m.dirs[s][e] # 0 \/ e = d
  BY <1>1, <1>2, <1>4, <1>7
<1>9. r.free = IF Tabled(m, s, virt) THEN m.free ELSE m.free \ {Min(m.free)}
  BY <1>3, <1>4, <1>6
<1> QED BY <1>8, <1>9 DEF d, Took

\* A page's directory entry, counted: that of the next page is the same or the
\* next one.
LEMMA NextEntry ==
  ASSUME NEW i \in Nat, i >= 1
  PROVE  /\ (i - 1) \div PerTable \in Nat /\ i \div PerTable \in Nat
         /\ \/ i \div PerTable = (i - 1) \div PerTable
            \/ i \div PerTable = (i - 1) \div PerTable + 1
BY TableAssumption, SMT

\* Of less pages fewer tables hold.
LEMMA FewerTables ==
  ASSUME NEW i \in Nat, NEW j \in Nat, i <= j
  PROVE  i \div PerTable \in Nat /\ i \div PerTable <= j \div PerTable
BY TableAssumption, SMT

\* The tables of n pages taken one after the other from so many free frames.
TablesTaken(m, s, i, lo, hi) ==
  \E k \in Nat :
    /\ m.free = lo + 1 + k .. hi - 1
    /\ \A d \in Index : m.dirs[s][d] # 0 <=> d < k
    /\ k = IF i = 0 THEN 0 ELSE (i - 1) \div PerTable + 1

\* One round takes a table at most, and there is one to take.
LEMMA OneMoreTable ==
  ASSUME NEW frames, NEW m, NEW s, NEW i, NEW user, NEW stale, NEW r,
         NEW lo \in Nat, NEW hi \in Nat,
         WellFormed(m, frames), s \in DOMAIN m.dirs, Proper(m, s), i \in Nat, i \in Pages,
         r = MapPage(m, s, i, i, user, stale),
         i \div PerTable + 2 <= hi - lo,
         TablesTaken(m, s, i, lo, hi)
  PROVE  TablesTaken(r, s, i + 1, lo, hi)
<1>1. PICK k \in Nat :
        /\ m.free = lo + 1 + k .. hi - 1
        /\ \A d \in Index : m.dirs[s][d] # 0 <=> d < k
        /\ k = IF i = 0 THEN 0 ELSE (i - 1) \div PerTable + 1
  BY DEF TablesTaken
<1> DEFINE e == i \div PerTable
<1>2. e \in Nat /\ DirOffset(i) = e /\ e \in Index
  <2>1. DirOffset(i) \in Index /\ DirOffset(i) = e BY Offsets
  <2>2. Index \subseteq Nat BY DEF Index
  <2> QED BY <2>1, <2>2
<1>3. k = e \/ k = e + 1
  <2>1. CASE i = 0
    <3>1. e = 0 BY <2>1, TableAssumption, SMT
    <3> QED BY <1>1, <2>1, <3>1
  <2>2. CASE i # 0
    <3>1. i >= 1 BY <2>2, SMT
    <3> DEFINE b == (i - 1) \div PerTable
    <3>2. b \in Nat /\ (e = b \/ e = b + 1) BY <3>1, NextEntry
    <3>3. k = b + 1 BY <1>1, <2>2
    <3> HIDE DEF b, e
    <3> QED BY <3>2, <3>3, SMT
  <2> QED BY <2>1, <2>2
<1>4. e + 2 <= hi - lo OBVIOUS
<1>5. (i + 1) - 1 = i /\ i + 1 # 0 BY SMT
<1> HIDE DEF e
<1>6. m.dirs[s][e] # 0 <=> e < k BY <1>1, <1>2
<1>7. Tabled(m, s, i) <=> e < k BY <1>2, <1>6 DEF Tabled
<1>8. e < k <=> k = e + 1 BY <1>2, <1>3, SMT
<1>9. k = e => lo + 1 + k \in m.free /\ m.free # {} BY <1>1, <1>2, <1>4, SMT
<1>10. /\ r.free = IF Tabled(m, s, i) THEN m.free ELSE m.free \ {Min(m.free)}
       /\ \A d \in Index : r.dirs[s][d] # 0 <=> m.dirs[s][d] # 0 \/ d = e
  <2>1. m.free # {} \/ Tabled(m, s, i) BY <1>3, <1>7, <1>8, <1>9
  <2>2. Took(m, r, s, i, frames) BY <2>1, MapPageTakes
  <2> QED BY <1>2, <2>2 DEF Took
<1>11. r.free = lo + 1 + (e + 1) .. hi - 1
  <2>1. CASE k = e + 1 BY <1>1, <1>7, <1>8, <1>10, <2>1
  <2>2. CASE k = e
    <3>1. m.free \subseteq Nat /\ \A y \in m.free : lo + 1 + k <= y BY <1>1, SMT
    <3>2. Min(m.free) = lo + 1 + k BY <1>9, <2>2, <3>1, TheLeast
    <3>3. r.free = m.free \ {lo + 1 + k} BY <1>2, <1>7, <1>10, <2>2, <3>2, SMT
    <3> QED BY <1>1, <1>2, <2>2, <3>3, SMT
  <2> QED BY <1>3, <2>1, <2>2
<1>12. \A d \in Index : r.dirs[s][d] # 0 <=> d < e + 1
  <2> SUFFICES ASSUME NEW d \in Index PROVE r.dirs[s][d] # 0 <=> d < e + 1
    OBVIOUS
  <2>1. d \in Nat BY DEF Index
  <2>2. r.dirs[s][d] # 0 <=> (d < k \/ d = e) BY <1>1, <1>10
  <2>3. (d < k \/ d = e) <=> d < e + 1 BY <1>2, <1>3, <2>1, SMT
  <2> QED BY <2>2, <2>3
<1>13. e + 1 \in Nat /\ e + 1 = IF i + 1 = 0 THEN 0 ELSE ((i + 1) - 1) \div PerTable + 1
  BY <1>2, <1>5 DEF e
<1> QED BY <1>11, <1>12, <1>13 DEF TablesTaken

\* A directory without tables, its own frame taken from lo .. hi - 1.
NoTableYet(m, s, lo, hi) ==
  m.free = lo + 1 .. hi - 1 /\ \A d \in Index : m.dirs[s][d] = 0

\* With frames for all tables every page gets its entry.
LEMMA AllTablesAreHad ==
  ASSUME NEW frames, NEW m, NEW s, NEW n, NEW user, NEW stale, NEW r,
         NEW lo \in Nat, NEW hi \in Nat,
         WellFormed(m, frames), s \in DOMAIN m.dirs, Proper(m, s),
         n \in Nat \ {0}, 0 .. n - 1 \subseteq Pages,
         \A v \in Nat : Mapping(v, user) \in Entry, stale \in Entry,
         r = MapIdentity(m, s, n, user, stale),
         (n - 1) \div PerTable + 2 <= hi - lo,
         NoTableYet(m, s, lo, hi)
  PROVE  \A v \in 0 .. n - 1 : Tabled(r, s, v)
<1>1. PICK after : /\ IdentityRounds(after, m, s, n, user, stale)
                   /\ MapIdentity(m, s, n, user, stale) = after[n]
  BY MapIdentityRounds
<1> DEFINE Holds1(q, i) == /\ WellFormed(q, frames) /\ s \in DOMAIN q.dirs /\ Proper(q, s)
                           /\ TablesTaken(q, s, i, lo, hi)
           good == {i \in 0 .. n : Holds1(after[i], i)}
<1>2. 0 \in good
  <2>1. after[0] = m BY <1>1 DEF IdentityRounds
  <2>2. m.free = lo + 1 + 0 .. hi - 1 BY SMT DEF NoTableYet
  <2>3. \A d \in Index : m.dirs[s][d] # 0 <=> d < 0 BY SMT DEF Index, NoTableYet
  <2>4. TablesTaken(m, s, 0, lo, hi) BY <2>2, <2>3 DEF TablesTaken
  <2> QED BY <2>1, <2>4
<1>3. ASSUME NEW i \in 0 .. n - 1, i \in good PROVE i + 1 \in good
  <2> DEFINE q == after[i]
             x == after[i + 1]
  <2>1. Holds1(q, i) BY <1>3
  <2>2. x = MapPage(q, s, i, i, user, stale)
    <3>1. i + 1 \in 1 .. n /\ (i + 1) - 1 = i OBVIOUS
    <3> QED BY <1>1, <3>1 DEF IdentityRounds
  <2>3. i \in Nat /\ i \in Pages /\ i + 1 \in 0 .. n /\ i <= n - 1 /\ n - 1 \in Nat
    BY SMT
  <2>4. i \div PerTable + 2 <= hi - lo
    <3> DEFINE a == i \div PerTable
               b == (n - 1) \div PerTable
    <3>1. a \in Nat /\ a <= b /\ b \in Nat BY <2>3, FewerTables
    <3>2. b + 2 <= hi - lo OBVIOUS
    <3> HIDE DEF a, b
    <3>3. a + 2 <= hi - lo BY <3>1, <3>2, SMT
    <3> QED BY <3>3 DEF a
  <2> HIDE DEF q, x
  <2>5. /\ WellFormed(q, frames) /\ s \in DOMAIN q.dirs /\ Proper(q, s)
        /\ TablesTaken(q, s, i, lo, hi)
    BY <2>1
  <2>6. TablesTaken(x, s, i + 1, lo, hi)
    BY <2>2, <2>3, <2>4, <2>5, OneMoreTable
  <2>7. WellFormed(x, frames) /\ s \in DOMAIN x.dirs /\ Proper(x, s)
    <3> DEFINE one == {i}
    <3>1. Mapping(i, user) \in Entry /\ i \in one BY <2>3
    <3> HIDE DEF one
    <3>2. i \in one => Grown(q, x, s, one, frames)
      BY <2>2, <2>3, <2>5, <3>1, MapPageMaps
    <3>3. Proper(x, s) BY <2>5, <3>1, <3>2, StaysProper
    <3> QED BY <2>5, <3>1, <3>2, <3>3 DEF Grown
  <2>8. Holds1(x, i + 1) BY <2>6, <2>7
  <2> HIDE DEF Holds1
  <2> QED BY <2>3, <2>8 DEF x
<1>4. Holds1(after[n], n)
  <2> HIDE DEF good, Holds1
  <2>1. \A i \in 0 .. n : i \in good BY <1>2, <1>3, CountUp
  <2> QED BY <2>1 DEF good
<1>5. TablesTaken(r, s, n, lo, hi) BY <1>1, <1>4
<1>6. PICK k \in Nat : /\ \A d \in Index : r.dirs[s][d] # 0 <=> d < k
                       /\ k = (n - 1) \div PerTable + 1
  BY <1>5 DEF TablesTaken
<1> SUFFICES ASSUME NEW v \in 0 .. n - 1 PROVE Tabled(r, s, v) OBVIOUS
<1>7. v \in Nat /\ v <= n - 1 /\ n - 1 \in Nat /\ v \in Pages BY SMT
<1>8. v \div PerTable <= (n - 1) \div PerTable /\ v \div PerTable \in Nat
      /\ (n - 1) \div PerTable \in Nat
  BY <1>7, FewerTables
<1>9. DirOffset(v) = v \div PerTable /\ DirOffset(v) \in Index BY <1>7, Offsets
<1>10. DirOffset(v) < k
  <2> DEFINE a == v \div PerTable
             b == (n - 1) \div PerTable
  <2>1. a <= b /\ a \in Nat /\ b \in Nat /\ k = b + 1 /\ DirOffset(v) = a
    BY <1>6, <1>8, <1>9
  <2> HIDE DEF a, b
  <2> QED BY <2>1, SMT
<1> QED BY <1>6, <1>9, <1>10 DEF Tabled

\* With the kernel's tables alone a well-formed memory gives nothing to users.
LEMMA FirstSpace ==
  ASSUME NEW m, NEW root, NEW frames, NEW pages, NEW in, NEW request,
         WellFormed(m, frames), DOMAIN m.dirs = {root},
         Identity(m, root, root, pages),
         DOMAIN m.tables \subseteq {m.dirs[root][DirOffset(v)] : v \in pages},
         in = [t \in Thread |-> 0], request = [t \in Thread |-> NoFault]
  PROVE  Good(m, root, in, 0, request, {}, frames, pages)
<1>1. /\ NoFault \in Request /\ Held(NoFault) = {} /\ NoFault.at = "none"
      /\ ~NoFault.user /\ NoFault.table = 0 /\ NoFault.page = 0
  BY NothingHeld DEF NoFault
<1>2. 0 \in Pages BY <1>1 DEF Request
<1>3. Handlers(m, root, in, request, {}, pages) BY <1>1 DEF Handlers
<1>4. UserTables(m, root, pages) = {} BY DEF UserTables
<1>5. DOMAIN Served(m, root, pages) = {} BY <1>4 DEF Served
<1>6. Apart(Served(m, root, pages), request, GivenAway(m, frames))
  BY <1>1, <1>5 DEF Apart
<1> QED BY <1>2, <1>3, <1>6 DEF Good

\* The memory before there is a space.
LEMMA NoSpaceYet ==
  ASSUME SpacesInit, NEW frames, frames \subseteq Nat \ {0}, NEW m,
         m = [Memory EXCEPT !.free = frames]
  PROVE  WellFormed(m, frames)
<1> DEFINE none == <<>>
<1>1. dirs = none /\ tables = none /\ DOMAIN none = {} BY DEF SpacesInit
<1> HIDE DEF none
<1>2. m = [dirs |-> none, tables |-> none, free |-> frames] BY <1>1 DEF Memory
<1>3. m.dirs = none /\ m.tables = none /\ m.free = frames BY <1>2
<1> QED BY <1>1, <1>2, <1>3 DEF WellFormed

\* The kernel's pages are mapped to themselves in space s, for the kernel only.
KernelMapped(m, s, frames) ==
  /\ WellFormed(m, frames) /\ DOMAIN m.dirs = {s} /\ s # 0 /\ Proper(m, s)
  /\ \A v \in KernelPages : Tabled(m, s, v) /\ EntryOf(m, s, v) = Mapping(v, FALSE)

\* The kernel's own space gets all its tables: the zone has frames for them.
LEMMA KernelDirectory ==
  ASSUME SpacesInvariant, Booted, NEW stale, stale \in Stale,
         NEW frames, frames = ZoneFrames, NEW s, s = Allocate(frames),
         NEW m0, m0.free = frames, DOMAIN m0.dirs = {},
         frames \subseteq Nat \ {0} => WellFormed(m0, frames),
         NEW m, m = CreateAddressSpace(m0, s, stale)
  PROVE  /\ KernelMapped(m, s, frames) /\ Fresh(m0, m, s, KernelPages, FALSE)
         /\ m.free \subseteq frames
<1> DEFINE n  == Cardinality(KernelPages)
           k  == PageUpperAlign(memSize) \div PageSize
           lo == ObjEnd(memSize) \div PageSize
           hi == memSize \div PageSize
           m1 == GetAddressSpace(m0, s)
           user == FALSE
<1>1. /\ n \in Nat /\ KernelPages = 0 .. n - 1 /\ KernelPages \subseteq Pages
      /\ k \in Nat /\ n = k + 1 /\ k <= hi + 1
      /\ lo \in Nat \ {0} /\ hi \in Nat
      /\ frames = lo .. hi - 1
      /\ (hi + 1) \div PerTable + 2 <= hi - lo
  BY BootedMemory
<1>2. k \div PerTable + 2 <= hi - lo /\ lo < hi
  <2> HIDE DEF k, hi, lo, n
  <2> DEFINE a == k \div PerTable
             b == (hi + 1) \div PerTable
  <2>1. a \in Nat /\ a <= b
    <3>1. hi + 1 \in Nat BY <1>1
    <3> QED BY <1>1, <3>1, FewerTables
  <2>2. b + 2 <= hi - lo /\ b \in Int BY <1>1, TableAssumption
  <2> HIDE DEF a, b
  <2>3. a + 2 <= hi - lo /\ lo < hi BY <1>1, <2>1, <2>2, SMT
  <2> QED BY <2>3 DEF a
<1> HIDE DEF k, hi, lo, n
<1>3. frames \subseteq Nat \ {0} /\ lo \in frames /\ \A y \in frames : lo <= y
  BY <1>1, <1>2, SMT
<1>4. s = lo /\ s # 0 /\ s \in frames
  <2>1. Min(frames) = lo BY <1>3, TheLeast
  <2> QED BY <1>1, <1>3, <2>1 DEF Allocate
<1>5. WellFormed(m0, frames) BY <1>3
<1>6. Emptied(m0, m1, s, frames)
  <2>1. s \in m0.free /\ m1 = GetAddressSpace(m0, s) BY <1>4
  <2> HIDE DEF m1
  <2> QED BY <1>5, <2>1, NewDirectory
<1>7. m = MapIdentity(m1, s, n, user, stale)
  BY DEF CreateAddressSpace, n
<1> HIDE DEF m1
<1>8. /\ WellFormed(m1, frames) /\ s \in DOMAIN m1.dirs /\ Proper(m1, s)
      /\ m1.free = lo + 1 .. hi - 1 /\ \A d \in Index : m1.dirs[s][d] = 0
  <2>1. m1.free = frames \ {lo} BY <1>4, <1>6 DEF Emptied
  <2>2. m1.free = lo + 1 .. hi - 1 BY <1>1, <2>1, SMT
  <2> QED BY <1>6, <2>2 DEF Emptied, Kept
<1>9. \A v \in Nat : Mapping(v, user) \in Entry BY DEF Mapping, Entry
<1>10. n \in Nat \ {0} /\ 0 .. n - 1 \subseteq Pages /\ n - 1 = k
  BY <1>1, SMT
<1> HIDE DEF user
<1>11. \A v \in 0 .. n - 1 : Tabled(m, s, v)
  <2>1. (n - 1) \div PerTable + 2 <= hi - lo BY <1>2, <1>10
  <2>2. lo \in Nat /\ hi \in Nat /\ stale \in Entry BY <1>1, StaleAssumption
  <2>3. NoTableYet(m1, s, lo, hi) BY <1>8 DEF NoTableYet
  <2> QED BY <2>3, <1>7, <1>8, <1>9, <1>10, <2>1, <2>2, AllTablesAreHad
<1>12. Created(m0, m, s, frames)
  <2>1. s \in m0.free BY <1>4
  <2> QED BY <1>5, <2>1, SpaceIsCreated
<1>13. /\ WellFormed(m, frames) /\ m.free \subseteq frames
       /\ DOMAIN m.dirs = {s} /\ Proper(m, s) /\ Fresh(m0, m, s, KernelPages, FALSE)
       /\ \A v \in KernelPages : Tabled(m, s, v) => EntryOf(m, s, v) = Mapping(v, FALSE)
  BY <1>12 DEF Created, Kept
<1> QED BY <1>1, <1>4, <1>11, <1>13 DEF KernelMapped

\* A space keeps its tables.
LEMMA TabledStays ==
  ASSUME NEW m, NEW r, NEW s, NEW changed, NEW frames, NEW v,
         Grown(m, r, s, changed, frames), WellFormed(m, frames),
         s \in DOMAIN m.dirs, v \in Pages, Tabled(m, s, v)
  PROVE  Tabled(r, s, v)
<1>1. DirOffset(v) \in Index BY Offsets
<1>2. \/ r.dirs[s][DirOffset(v)] = m.dirs[s][DirOffset(v)]
      \/ m.dirs[s][DirOffset(v)] = 0
  BY <1>1 DEF Grown
<1> QED BY <1>2 DEF Tabled

\* The kernel's space maps all memory and one page more to itself.
LEMMA KernelSpaceKeeps ==
  ASSUME SpacesInvariant, SpacesInit, InitKernelAddressSpace
  PROVE  SpacesAreGood' /\ kernel' # 0
<1> DEFINE frames == ZoneFrames
           s == Allocate(frames)
           n == Cardinality(KernelPages)
           k == PageUpperAlign(memSize) \div PageSize
           user == TRUE
           m0 == [Memory EXCEPT !.free = frames]
<1>1. Booted /\ kernel' = s
  BY DEF InitKernelAddressSpace
<1>2. PICK g \in Stale :
        Becomes(MapIdentity(CreateAddressSpace(m0, s, g), s, k, user, g))
  BY DEF InitKernelAddressSpace
<1>3. /\ UNCHANGED memoryVars
      /\ space' = [t \in Thread |-> 0] /\ fault' = [t \in Thread |-> NoFault]
      /\ cr2' = 0 /\ partial' = {}
  BY DEF InitKernelAddressSpace, SpacesInit
<1> DEFINE m == CreateAddressSpace(m0, s, g)
           r == MapIdentity(m, s, k, user, g)
<1>4. Becomes(r) BY <1>2
<1>5. g \in Entry /\ ~g.written BY StaleAssumption
<1>6. DOMAIN m0.tables = {} /\ m0.free = frames /\ DOMAIN m0.dirs = {}
      /\ (frames \subseteq Nat \ {0} => WellFormed(m0, frames))
  <2> m0 = [Memory EXCEPT !.free = frames] OBVIOUS
  <2> HIDE DEF m0, frames
  <2>1. frames \subseteq Nat \ {0} => WellFormed(m0, frames) BY NoSpaceYet
  <2>2. m0.free = frames /\ DOMAIN m0.dirs = {} /\ DOMAIN m0.tables = {}
    <3> DOMAIN <<>> = {} OBVIOUS
    <3> QED BY DEF m0, Memory, SpacesInit
  <2> QED BY <2>1, <2>2
<1> HIDE DEF m0
<1>7. KernelMapped(m, s, frames) /\ Fresh(m0, m, s, KernelPages, FALSE)
  <2>1. m = CreateAddressSpace(m0, s, g) /\ frames = ZoneFrames /\ s = Allocate(frames)
    OBVIOUS
  <2> HIDE DEF m, frames, s
  <2> QED BY <1>1, <1>6, <2>1, KernelDirectory
<1>8. /\ n \in Nat /\ KernelPages = 0 .. n - 1 /\ KernelPages \subseteq Pages
      /\ k \in Nat /\ n = k + 1
  BY <1>1, BootedMemory
<1> HIDE DEF frames, s, n, k, m
<1>9. /\ WellFormed(m, frames) /\ DOMAIN m.dirs = {s} /\ s \in DOMAIN m.dirs /\ s # 0
      /\ Proper(m, s)
      /\ \A v \in KernelPages : Tabled(m, s, v) /\ EntryOf(m, s, v) = Mapping(v, FALSE)
  BY <1>7 DEF KernelMapped
<1>10. \A v \in Nat : Mapping(v, user) \in Entry BY DEF Mapping, Entry
<1>11. /\ 0 .. k - 1 \subseteq Pages /\ KernelPages = 0 .. k
       /\ 0 .. k - 1 \subseteq KernelPages
  BY <1>8, SMT
<1> HIDE DEF user
<1>12. r = MapIdentity(m, s, k, user, g) OBVIOUS
<1> HIDE DEF r
<1>13. MappedUpTo(m, r, s, k, user, frames)
  BY <1>5, <1>8, <1>9, <1>10, <1>11, <1>12, MapIdentityMaps
<1>14. /\ Grown(m, r, s, 0 .. k - 1, frames)
       /\ \A v \in 0 .. k - 1 :
            IF Tabled(r, s, v) THEN EntryOf(r, s, v) = Mapping(v, user)
                               ELSE r.free = {}
  BY <1>13 DEF MappedUpTo
<1>15. WellFormed(r, frames) /\ DOMAIN r.dirs = {s} BY <1>9, <1>14 DEF Grown
<1>16. DOMAIN r.tables \subseteq {r.dirs[s][DirOffset(v)] : v \in KernelPages}
  <2> DEFINE users == TRUE
  <2>1. Fresh(m0, m, s, KernelPages, users) BY <1>7 DEF Fresh
  <2>2. (user => users) /\ m.free \intersect DOMAIN m0.tables = {} BY <1>6
  <2> HIDE DEF users
  <2>3. Fresh(m0, r, s, KernelPages, users)
    BY <1>5, <1>8, <1>9, <1>10, <1>11, <1>12, <2>1, <2>2, MapIdentityFresh
  <2> QED BY <1>6, <2>3 DEF Fresh
<1>17. Identity(r, s, s, KernelPages)
  <2> SUFFICES ASSUME NEW v \in KernelPages
               PROVE  /\ Tabled(r, s, v) /\ r.dirs[s][DirOffset(v)] # LowTable
                      /\ EntryOf(r, s, v).present
                      /\ EntryOf(r, s, v).frame = v
    BY DEF Identity
  <2>1. v \in Pages /\ Tabled(m, s, v) /\ EntryOf(m, s, v) = Mapping(v, FALSE)
    BY <1>8, <1>9
  <2> DEFINE changed == 0 .. k - 1
  <2>2. Grown(m, r, s, changed, frames) BY <1>14
  <2>3. Tabled(r, s, v) /\ Proper(r, s)
    <3> HIDE DEF changed
    <3> QED BY <1>9, <2>1, <2>2, TabledStays, StaysProper
  <2>4. r.dirs[s][DirOffset(v)] # LowTable BY <2>1, <2>3, Offsets DEF Proper
  <2>5. CASE v \in 0 .. k - 1
    <3>1. EntryOf(r, s, v) = Mapping(v, user) BY <1>14, <2>3, <2>5
    <3> QED BY <2>3, <2>4, <3>1 DEF Mapping
  <2>6. CASE v \notin 0 .. k - 1
    <3>1. EntryOf(r, s, v) = EntryOf(m, s, v) BY <1>9, <1>14, <2>1, <2>6 DEF Grown
    <3> QED BY <2>1, <2>3, <2>4, <3>1 DEF Mapping
  <2> QED BY <2>5, <2>6
<1>18. Memory' = r BY <1>4, <1>12, <1>15, MemoryBecomes
<1>19. ZoneFrames' = frames /\ KernelPages' = KernelPages
  BY <1>3, Steady DEF frames
<1>20. Good(r, s, space', 0, fault', {}, frames, KernelPages)
  BY <1>3, <1>15, <1>16, <1>17, FirstSpace
<1> QED BY <1>1, <1>3, <1>9, <1>18, <1>19, <1>20 DEF SpacesAreGood, s

-----------------------------------------------------------------------------
(* The invariant holds in every state.                                       *)

\* With no space the only step of the spaces makes the kernel's.
LEMMA BeforeTheKernel ==
  ASSUME SpacesInvariant, SpacesInit, Next
  PROVE  IF kernel' = 0 THEN SpacesInit' ELSE SpacesAreGood'
<1>1. CASE Boot BY <1>1 DEF Boot, spaceVars, SpacesInit
<1>2. CASE InitKernelAddressSpace BY <1>2, KernelSpaceKeeps
<1>3. ASSUME NEW t \in Thread PROVE ~(KernelThread(t) \/ Process(t))
  BY DEF SpacesInit, KernelThread, Process
<1>4. ASSUME NEW t \in Thread, NEW u \in Thread PROVE ~Child(t, u)
  BY DEF SpacesInit, Child
<1>5. ASSUME NEW t \in Thread, NEW v \in Touched PROVE ~FaultRaised(t, v)
  BY DEF SpacesInit, FaultRaised
<1>6. ASSUME NEW t \in Thread
      PROVE  ~(FaultStarts(t) \/ FaultTests(t) \/ FaultAllocates(t) \/ FaultInstalls(t)
                 \/ FaultWrites(t))
  <2>1. fault[t].at = "none" BY NothingHeld DEF SpacesInit
  <2> QED
    BY <2>1 DEF FaultStarts, FaultTests, FaultAllocates, FaultInstalls, FaultWrites
<1> QED BY <1>1, <1>2, <1>3, <1>4, <1>5, <1>6 DEF Next

\* Once there is the kernel's space every step keeps what is said of them all.
LEMMA WithTheKernel ==
  ASSUME SpacesInvariant, kernel # 0, SpacesAreGood, Next
  PROVE  kernel' # 0 /\ SpacesAreGood'
<1>1. Booted BY DEF SpacesInvariant
<1>2. ~Boot
  <2>1. mm = 4 BY <1>1, StepNumbers DEF SpacesInvariant, MemoryInvariant, MemoryTypes
  <2> QED
    BY <2>1, StepNumbers, SMT
    DEF Boot, MemoryBoot, InitInitAllocator, MoveModulesToSafe, ArrangeMemoryLayout
<1>3. ~InitKernelAddressSpace BY DEF InitKernelAddressSpace
<1>4. ASSUME NEW t \in Thread, KernelThread(t) \/ Process(t)
      PROVE  kernel' # 0 /\ SpacesAreGood'
  <2>1. kernel' = kernel BY <1>4 DEF KernelThread, Process
  <2> QED BY <1>1, <1>4, <2>1, KernelThreadKeeps, ProcessKeeps
<1>5. ASSUME NEW t \in Thread, NEW u \in Thread, Child(t, u)
      PROVE  kernel' # 0 /\ SpacesAreGood'
  <2>1. kernel' = kernel BY <1>5 DEF Child
  <2> QED BY <1>5, <2>1, ChildKeeps
<1>6. ASSUME NEW t \in Thread, NEW v \in Touched, FaultRaised(t, v)
      PROVE  kernel' # 0 /\ SpacesAreGood'
  <2>1. kernel' = kernel BY <1>6 DEF FaultRaised
  <2> QED BY <1>6, <2>1, FaultRaisedKeeps
<1>7. ASSUME NEW t \in Thread,
             FaultStarts(t) \/ FaultTests(t) \/ FaultAllocates(t) \/ FaultInstalls(t)
               \/ FaultWrites(t)
      PROVE  kernel' # 0 /\ SpacesAreGood'
  <2>1. kernel' = kernel
    BY <1>7 DEF FaultStarts, FaultTests, FaultAllocates, FaultInstalls, FaultWrites
  <2>2. CASE FaultStarts(t) BY <1>1, <2>1, <2>2, FaultStartsKeeps
  <2>3. CASE FaultTests(t) BY <2>1, <2>3, FaultTestsKeeps
  <2>4. CASE FaultAllocates(t) BY <2>1, <2>4, FaultAllocatesKeeps
  <2>5. CASE FaultInstalls(t) BY <1>1, <2>1, <2>5, FaultInstallsKeeps
  <2>6. CASE FaultWrites(t) BY <1>1, <2>1, <2>6, FaultWritesKeeps
  <2> QED BY <1>7, <2>2, <2>3, <2>4, <2>5, <2>6
<1> QED BY <1>2, <1>3, <1>4, <1>5, <1>6, <1>7 DEF Next

\* Every step of the boot, of the threads and of the handler keeps it.
LEMMA SpacesGoodStep ==
  ASSUME SpacesGood, [Next]_vars
  PROVE  SpacesGood'
<1>1. SpacesInvariant' BY SpacesStep DEF SpacesGood
<1>2. CASE UNCHANGED vars
  <2>1. UNCHANGED memoryVars /\ UNCHANGED spaceVars BY <1>2 DEF vars
  <2>2. ZoneFrames' = ZoneFrames /\ KernelPages' = KernelPages BY <2>1, Steady
  <2>3. Memory' = Memory BY <2>1 DEF spaceVars, Memory
  <2>4. kernel' = kernel /\ (SpacesInit => SpacesInit')
    BY <2>1 DEF spaceVars, SpacesInit
  <2>5. SpacesAreGood => SpacesAreGood'
    BY <2>1, <2>2, <2>3 DEF spaceVars, SpacesAreGood
  <2> QED BY <1>1, <2>4, <2>5 DEF SpacesGood
<1>3. CASE Next
  <2>1. CASE kernel = 0 BY <1>1, <1>3, <2>1, BeforeTheKernel DEF SpacesGood
  <2>2. CASE kernel # 0 BY <1>1, <1>3, <2>2, WithTheKernel DEF SpacesGood
  <2> QED BY <2>1, <2>2
<1> QED BY <1>2, <1>3

\* Directories, tables and users' pages have frames of their own, and the spaces
\* are mapped as they should be, whatever threads there are, whichever pages they
\* touch and however their faults interleave (AddressSpaceX86.cpp 60-176).
THEOREM SpacesGoodCorrect == Spec => []SpacesGood
<1>1. Init => SpacesGood
  BY MemoryInitIsGood DEF Init, SpacesInit, SpacesInvariant, SpacesGood
<1>2. SpacesGood /\ [Next]_vars => SpacesGood' BY SpacesGoodStep
<1> QED BY <1>1, <1>2, PTL DEF Spec

\* What the code looks up is what the memory says.
LEMMA LookUp ==
  ASSUME NEW s, NEW v
  PROVE  /\ HasTable(s, v) <=> Tabled(Memory, s, v)
         /\ PageTableEntry(s, v) = EntryOf(Memory, s, v)
BY DEF HasTable, Tabled, PageTableEntry, EntryOf, Memory

\* Directories and tables are frames in use and hold what they should.
LEMMA SpacesTypes == SpacesGood => TypeOK
<1>1. CASE SpacesInit
  <2>1. DOMAIN <<>> = {} OBVIOUS
  <2> QED BY <1>1, <2>1 DEF SpacesInit, TypeOK
<1>2. ASSUME SpacesAreGood PROVE TypeOK
  <2>1. /\ kernel \in DOMAIN Memory.dirs /\ WellFormed(Memory, ZoneFrames)
    BY <1>2 DEF SpacesAreGood, Good
  <2>2. Memory.dirs = dirs /\ Memory.tables = tables /\ Memory.free = free
    BY DEF Memory
  <2>3. /\ kernel \in DOMAIN dirs /\ free \subseteq ZoneFrames
        /\ DOMAIN dirs \union (DOMAIN tables \ {LowTable}) \subseteq ZoneFrames \ free
        /\ \A s \in DOMAIN dirs : dirs[s] \in [Index -> {0} \union DOMAIN tables]
        /\ \A p \in DOMAIN tables : tables[p] \in [Index -> Entry]
    BY <2>1, <2>2 DEF WellFormed
  <2> QED BY <2>3 DEF TypeOK
<1> QED BY <1>1, <1>2 DEF SpacesGood

\* Directories and tables are frames of the page zone in use, and an entry of a
\* directory is empty or names a table (AddressSpaceX86.cpp 60-116).
THEOREM SpacesTypeCorrect == Spec => []TypeOK
<1>1. SpacesGood => TypeOK BY SpacesTypes
<1> QED BY <1>1, SpacesGoodCorrect, PTL

\* In every space whose tables could all be had the kernel's pages are mapped to
\* themselves, and only the kernel's own space gives them to users, for any size
\* of memory and of tables and whatever faults were served
\* (AddressSpaceManager.cpp 55-60, PageFaultHandler).
THEOREM KernelIsIdentityCorrect == Spec => []KernelIsIdentity
<1>1. SpacesGood => KernelIsIdentity
  <2> SUFFICES ASSUME SpacesGood, NEW s \in DOMAIN dirs \ partial, NEW v \in KernelPages
               PROVE  /\ VerifyVirtAddress(s, v)
                      /\ PageTableEntry(s, v).frame = v
                      /\ PageTableEntry(s, v).user => s = kernel
    BY SpacesTypes DEF KernelIsIdentity
  <2>1. DOMAIN <<>> = {} OBVIOUS
  <2>2. SpacesAreGood BY <2>1 DEF SpacesGood, SpacesInit
  <2>3. s \in DOMAIN Memory.dirs \ partial BY DEF Memory
  <2>4. Identity(Memory, s, kernel, KernelPages) BY <2>2, <2>3 DEF SpacesAreGood, Good
  <2> QED BY <2>4, LookUp DEF Identity, VerifyVirtAddress
<1> QED BY <1>1, SpacesGoodCorrect, PTL

\* A page users can access by an entry the kernel wrote is one of those served,
\* unless its table is the one at address 0 or it has no frame.
LEMMA AccessibleIsServed ==
  ASSUME SpacesInvariant, Booted, SpacesAreGood, NEW p \in Accessible,
         PageTableEntry(p[1], p[2]).frame # 0, dirs[p[1]][DirOffset(p[2])] # LowTable
  PROVE  LET at == <<dirs[p[1]][DirOffset(p[2])], TableOffset(p[2])>>
         IN  /\ at \in DOMAIN Served(Memory, kernel, KernelPages)
             /\ Served(Memory, kernel, KernelPages)[at] = PageTableEntry(p[1], p[2]).frame
             /\ p[1] \in DOMAIN dirs /\ p[2] \in Pages
             /\ dirs[p[1]][DirOffset(p[2])] # 0
<1> DEFINE s == p[1]
           v == p[2]
           d == DirOffset(v)
           o == TableOffset(v)
           b == dirs[s][d]
           m == Memory
<1>1. s \in DOMAIN dirs \ {kernel} /\ v \in Pages BY DEF Accessible
<1>2. /\ b # 0 /\ tables[b][o].user /\ tables[b][o].written
      /\ PageTableEntry(s, v) = tables[b][o]
  BY DEF Accessible, VerifyVirtAddress, HasTable, PageTableEntry
<1>3. d \in Index /\ o \in Index BY <1>1, Offsets
<1>4. WellFormed(m, ZoneFrames) /\ kernel \in DOMAIN m.dirs BY DEF SpacesAreGood, Good
<1>5. m.dirs = dirs /\ m.tables = tables BY DEF Memory
<1>6. KernelPages \subseteq Pages BY BootedMemory
<1> HIDE DEF m, s, v, d, o
<1>7. b \in DOMAIN tables BY <1>1, <1>2, <1>3, <1>4, <1>5 DEF WellFormed
<1>8. b # LowTable BY DEF s, v, d
<1>9. ASSUME NEW w \in KernelPages PROVE b # m.dirs[kernel][DirOffset(w)]
  <2>1. DirOffset(w) \in Index BY <1>6, Offsets
  <2> QED BY <1>1, <1>2, <1>3, <1>4, <1>5, <1>8, <2>1 DEF WellFormed
<1>10. b \in UserTables(m, kernel, KernelPages)
  BY <1>5, <1>7, <1>8, <1>9 DEF UserTables
<1>11. tables[b][o].frame # 0 BY <1>2 DEF s, v
<1> DEFINE at == <<b, o>>
<1>12. at \in DOMAIN Served(m, kernel, KernelPages)
  BY <1>2, <1>3, <1>5, <1>10, <1>11 DEF Served
<1>13. Served(m, kernel, KernelPages)[at] = tables[b][o].frame
  BY <1>5, <1>12 DEF Served
<1> QED BY <1>1, <1>2, <1>12, <1>13 DEF m, s, v, d, o

\* No two pages that users can access by an entry the kernel wrote have the same
\* frame, and none has one that is in use for anything else, for any number of
\* threads and spaces and any sizes, whatever pages fault and however the
\* handlers interleave at the tests, allocations and writes of the code
\* (AddressSpaceManager.cpp 103-129, AddressSpaceX86.cpp 79-105); but for pages
\* that have frame 0 or a table at address 0, which memory had run out for.
THEOREM UserFramesArePrivateCorrect == Spec => []UserFramesArePrivate
<1>1. SpacesGood => UserFramesArePrivate
  <2> SUFFICES ASSUME SpacesGood PROVE UserFramesArePrivate OBVIOUS
  <2>1. CASE kernel = 0
    <3>1. Accessible = {}
      <4>1. DOMAIN <<>> = {} OBVIOUS
      <4>2. DOMAIN dirs = {} BY <2>1, <4>1 DEF SpacesGood, SpacesInit
      <4> QED BY <4>2 DEF Accessible
    <3> QED BY <3>1 DEF UserFramesArePrivate
  <2>2. CASE kernel # 0
    <3> DEFINE frame(p) == PageTableEntry(p[1], p[2]).frame
               table(p) == dirs[p[1]][DirOffset(p[2])]
               at(p)    == <<table(p), TableOffset(p[2])>>
               got      == {p \in Accessible : frame(p) # 0 /\ table(p) # LowTable}
               held     == UNION {{fault[t].frame, fault[t].table} : t \in Thread}
               given    == Served(Memory, kernel, KernelPages)
    <3>1. SpacesInvariant /\ Booted /\ SpacesAreGood
      BY <2>2 DEF SpacesGood, SpacesInvariant
    <3>2. /\ Apart(given, fault, GivenAway(Memory, ZoneFrames))
          /\ WellFormed(Memory, ZoneFrames)
      BY <3>1 DEF SpacesAreGood, Good
    <3>3. ASSUME NEW p \in got
          PROVE  /\ at(p) \in DOMAIN given /\ given[at(p)] = frame(p)
                 /\ p[1] \in DOMAIN dirs /\ p[2] \in Pages /\ table(p) # 0
      BY <3>1, <3>3, AccessibleIsServed
    <3>4. ASSUME NEW p \in got, NEW q \in got, at(p) = at(q) PROVE p = q
      <4>1. table(p) = table(q) /\ TableOffset(p[2]) = TableOffset(q[2])
        BY <3>4
      <4>2. DirOffset(p[2]) \in Index /\ DirOffset(q[2]) \in Index
        BY <3>3, Offsets
      <4>3. p[1] = q[1] /\ DirOffset(p[2]) = DirOffset(q[2])
        <5>1. dirs = Memory.dirs BY DEF Memory
        <5>2. dirs[p[1]][DirOffset(p[2])] \notin {0, LowTable} BY <3>3
        <5>3. dirs[p[1]][DirOffset(p[2])] = dirs[q[1]][DirOffset(q[2])] BY <4>1
        <5>4. p[1] \in DOMAIN dirs /\ q[1] \in DOMAIN dirs BY <3>3
        <5> HIDE DEF got
        <5> QED BY <3>2, <4>2, <5>1, <5>2, <5>3, <5>4 DEF WellFormed
      <4>4. p[2] = q[2] BY <3>3, <4>1, <4>3, NoAlias
      <4>5. \A x \in got : x = <<x[1], x[2]>>
        <5>1. got \subseteq (DOMAIN dirs \ {kernel}) \X Pages BY DEF Accessible
        <5> HIDE DEF got
        <5> QED BY <5>1
      <4>6. p = <<p[1], p[2]>> /\ q = <<q[1], q[2]>>
        <5> HIDE DEF got
        <5> QED BY <3>4, <4>5
      <4> QED BY <4>3, <4>4, <4>6
    <3>5. GivenAway(Memory, ZoneFrames)
            = ZoneFrames \ (free \union DOMAIN dirs \union DOMAIN tables)
      BY DEF GivenAway, Memory
    <3> HIDE DEF frame, table, at, given
    <3>6. \A p, q \in got : frame(p) = frame(q) => p = q
      <4> SUFFICES ASSUME NEW p \in got, NEW q \in got, frame(p) = frame(q) PROVE p = q
        OBVIOUS
      <4> HIDE DEF got
      <4>1. at(p) = at(q) BY <3>2, <3>3 DEF Apart
      <4> QED BY <3>4, <4>1
    <3>7. ASSUME NEW p \in got
          PROVE  frame(p) \in
                   ZoneFrames \ (free \union DOMAIN dirs \union DOMAIN tables \union held)
      <4>1. frame(p) # 0 OBVIOUS
      <4> HIDE DEF got
      <4>2. frame(p) \in GivenAway(Memory, ZoneFrames) BY <3>2, <3>3 DEF Apart
      <4>3. \A t \in Thread : frame(p) \notin {fault[t].frame, fault[t].table}
        BY <3>2, <3>3, <4>1 DEF Apart, Held
      <4>4. frame(p) \notin held BY <4>3
      <4> QED BY <3>5, <4>2, <4>4
    <3> HIDE DEF got, held
    <3>8. /\ \A p, q \in got : frame(p) = frame(q) => p = q
          /\ \A p \in got : frame(p) \in
               ZoneFrames \ (free \union DOMAIN dirs \union DOMAIN tables \union held)
      BY <3>6, <3>7
    <3> QED BY <3>8 DEF UserFramesArePrivate, got, held, frame, table
  <2> QED BY <2>1, <2>2
<1> QED BY <1>1, SpacesGoodCorrect, PTL

-----------------------------------------------------------------------------
(* Copying from another space.                                               *)

\* The rounds of CopyDataFromAnotherSpace's loop.
CopyRounds(at, s, a, n) ==
  /\ at[0] = [src |-> a, phySrc |-> GetPhisicalAddress(s, a)]
  /\ \A i \in 1 .. n : at[i] = CopyStep(at[i - 1], s)
  /\ CopyDataFromAnotherSpace(s, a, n) = [i \in 0 .. n - 1 |-> at[i].phySrc]

\* The loop is as many rounds as there are bytes.
LEMMA CopyHasRounds ==
  ASSUME NEW s, NEW a, NEW n \in Nat
  PROVE  \E at : CopyRounds(at, s, a, n)
<1> DEFINE m == [src |-> a, phySrc |-> GetPhisicalAddress(s, a)]
           Step(x) == CopyStep(x, s)
           Rounds(g, k) == g = [i \in 0 .. k |-> IF i = 0 THEN m ELSE Step(g[i - 1])]
           good == {k \in 0 .. n : \E g : Rounds(g, k)}
<1> HIDE DEF m
<1>1. 0 \in good
  <2> DEFINE g == [i \in 0 .. 0 |-> m]
  <2>1. Rounds(g, 0)
    <3> HIDE DEF Step
    <3> QED BY SMT
  <2> HIDE DEF g, Rounds
  <2> QED BY <2>1
<1>2. ASSUME NEW k \in 0 .. n - 1, k \in good PROVE k + 1 \in good
  <2>1. PICK g : Rounds(g, k) BY <1>2
  <2> DEFINE h == [i \in 0 .. k + 1 |-> IF i = k + 1 THEN Step(g[k]) ELSE g[i]]
  <2> HIDE DEF Step
  <2>2. ASSUME NEW i \in 0 .. k + 1
        PROVE  h[i] = IF i = 0 THEN m ELSE Step(h[i - 1])
    <3>1. CASE i = k + 1
      <4>1. i # 0 /\ i - 1 = k /\ k \in 0 .. k + 1 /\ k # k + 1 BY <3>1
      <4>2. h[k] = g[k] /\ h[i] = Step(g[k]) BY <3>1, <4>1
      <4> QED BY <4>1, <4>2
    <3>2. CASE i # k + 1
      <4>1. i \in 0 .. k BY <3>2
      <4>2. h[i] = g[i] /\ g[i] = IF i = 0 THEN m ELSE Step(g[i - 1])
        BY <2>1, <3>2, <4>1
      <4>3. CASE i = 0 BY <4>2, <4>3
      <4>4. CASE i # 0
        <5>1. i - 1 \in 0 .. k + 1 /\ i - 1 # k + 1 BY <4>1, <4>4
        <5>2. h[i - 1] = g[i - 1] BY <5>1
        <5> QED BY <4>2, <4>4, <5>2
      <4> QED BY <4>3, <4>4
    <3> QED BY <3>1, <3>2
  <2>3. Rounds(h, k + 1)
    <3>1. h = [i \in 0 .. k + 1 |-> h[i]] OBVIOUS
    <3> HIDE DEF h
    <3>2. [i \in 0 .. k + 1 |-> h[i]]
            = [i \in 0 .. k + 1 |-> IF i = 0 THEN m ELSE Step(h[i - 1])]
      BY <2>2
    <3> QED BY <3>1, <3>2
  <2>4. k + 1 \in 0 .. n OBVIOUS
  <2> HIDE DEF h, Rounds
  <2> QED BY <2>3, <2>4
<1>3. n \in good
  <2> HIDE DEF good
  <2>1. \A i \in 0 .. n : i \in good BY <1>1, <1>2, CountUp
  <2> QED BY <2>1
<1> DEFINE at == CHOOSE g : Rounds(g, n)
<1>4. Rounds(at, n)
  <2>1. \E g : Rounds(g, n) BY <1>3
  <2> HIDE DEF Rounds
  <2> QED BY <2>1
<1>5. CopyDataFromAnotherSpace(s, a, n) = [i \in 0 .. n - 1 |-> at[i].phySrc]
  BY DEF CopyDataFromAnotherSpace, m
<1> HIDE DEF at, Step
<1>6. at[0] = m /\ \A i \in 1 .. n : at[i] = Step(at[i - 1])
  BY <1>4
<1> QED BY <1>5, <1>6 DEF CopyRounds, m, Step

\* The next address is in the same page unless it starts one.
LEMMA SamePage ==
  ASSUME NEW a \in Nat, (a + 1) % PageSize # 0
  PROVE  /\ (a + 1) \div PageSize = a \div PageSize
         /\ (a + 1) % PageSize = (a % PageSize) + 1
<1> DEFINE p == PageSize
           q == a \div p
           r == a % p
           x == (a + 1) \div p
           y == (a + 1) % p
<1>1. p \in Nat \ {0} /\ a \in Nat /\ a + 1 \in Nat BY PagesAssumption
<1>2. a = p * q + r /\ r \in 0 .. p - 1 /\ q \in Nat BY <1>1, SMT
<1>3. a + 1 = p * x + y /\ y \in 0 .. p - 1 /\ x \in Nat /\ y # 0 BY <1>1, SMT
<1> DEFINE d == x - q
<1>4. p * d = r + 1 - y /\ d \in Int
  <2> HIDE DEF p, q, r, x, y
  <2>1. p * d = p * x - p * q BY <1>1, <1>2, <1>3, SMT
  <2>2. p * q \in Nat /\ p * x \in Nat BY <1>1, <1>2, <1>3, SMT
  <2> DEFINE pq == p * q
             px == p * x
  <2>3. a = pq + r /\ a + 1 = px + y /\ p * d = px - pq /\ pq \in Nat /\ px \in Nat
    BY <1>2, <1>3, <2>1, <2>2
  <2> HIDE DEF pq, px, d
  <2>4. px - pq = r + 1 - y BY <1>1, <1>2, <1>3, <2>3, SMT
  <2> QED BY <1>2, <1>3, <2>3, <2>4 DEF d
<1> HIDE DEF p, q, r, x, y
<1>5. d = 0
  <2> HIDE DEF d
  <2>1. p * d <= p - 1 /\ p * d >= 2 - p BY <1>1, <1>2, <1>3, <1>4, SMT
  <2>2. CASE d >= 1
    <3>1. p * (d - 1) >= 0 /\ p * d = p * (d - 1) + p BY <1>1, <1>4, <2>2, SMT
    <3> QED BY <1>1, <1>4, <2>1, <3>1, SMT
  <2>3. CASE d <= -1
    <3>1. p * (-(d + 1)) >= 0 /\ p * d = -(p * (-(d + 1))) - p BY <1>1, <1>4, <2>3, SMT
    <3> QED BY <1>1, <1>4, <2>1, <3>1, SMT
  <2> QED BY <1>4, <2>2, <2>3, SMT
<1>6. x = q BY <1>2, <1>3, <1>5, SMT
<1>7. y = r + 1 BY <1>1, <1>2, <1>3, <1>4, <1>5, SMT
<1> QED BY <1>6, <1>7 DEF p, q, r, x, y

\* An entry there is a table for names a frame.
LEMMA EntriesNameFrames ==
  ASSUME TypeOK, NEW s \in DOMAIN dirs, NEW v \in Nat, HasTable(s, v)
  PROVE  PageTableEntry(s, v).frame \in Nat
<1>1. DirOffset(v) \in Index /\ TableOffset(v) \in Index
  BY TableAssumption, SMT DEF DirOffset, TableOffset, Index
<1>2. dirs[s][DirOffset(v)] \in DOMAIN tables BY <1>1 DEF TypeOK, HasTable
<1>3. PageTableEntry(s, v) \in Entry BY <1>1, <1>2 DEF TypeOK, PageTableEntry
<1> QED BY <1>3 DEF Entry

\* Byte after byte the copy goes on as the pages are mapped.
LEMMA CopyFollows ==
  ASSUME TypeOK, NEW s \in DOMAIN dirs, NEW a \in Nat, NEW n \in Nat, NEW at,
         CopyRounds(at, s, a, n), NEW i \in 0 .. n,
         HasTable(s, (a + i) \div PageSize)
  PROVE  at[i].phySrc = GetPhisicalAddress(s, a + i)
<1> DEFINE Follows(j) ==
             /\ at[j].src = a + j
             /\ HasTable(s, (a + j) \div PageSize) =>
                  at[j].phySrc = GetPhisicalAddress(s, a + j)
           good == {j \in 0 .. n : Follows(j)}
<1>1. 0 \in good
  <2>1. at[0].src = a /\ at[0].phySrc = GetPhisicalAddress(s, a) /\ a + 0 = a
    BY DEF CopyRounds
  <2> QED BY <2>1
<1>2. ASSUME NEW j \in 0 .. n - 1, j \in good PROVE j + 1 \in good
  <2> DEFINE b == a + j
  <2>1. Follows(j) /\ b \in Nat /\ a + (j + 1) = b + 1 /\ j + 1 \in 0 .. n BY <1>2
  <2>2. at[j + 1] = CopyStep(at[j], s)
    <3>1. j + 1 \in 1 .. n /\ (j + 1) - 1 = j OBVIOUS
    <3> QED BY <3>1 DEF CopyRounds
  <2>3. /\ at[j].src = b
        /\ HasTable(s, b \div PageSize) => at[j].phySrc = GetPhisicalAddress(s, b)
    BY <2>1
  <2> HIDE DEF b
  <2>4. /\ at[j + 1].src = b + 1
        /\ at[j + 1].phySrc = IF (b + 1) % PageSize = 0
                              THEN GetPhisicalAddress(s, b + 1) ELSE at[j].phySrc + 1
    BY <2>2, <2>3 DEF CopyStep
  <2>5. ASSUME HasTable(s, (b + 1) \div PageSize)
        PROVE  at[j + 1].phySrc = GetPhisicalAddress(s, b + 1)
    <3>1. CASE (b + 1) % PageSize = 0 BY <2>4, <3>1
    <3>2. CASE (b + 1) % PageSize # 0
      <4> DEFINE v == b \div PageSize
                 f == PageTableEntry(s, v).frame
                 x == f * PageSize
                 r == b % PageSize
      <4>1. (b + 1) \div PageSize = v /\ (b + 1) % PageSize = r + 1
        BY <2>1, <3>2, SamePage
      <4>2. v \in Nat /\ r \in Nat BY <2>1, PagesAssumption, SMT
      <4>3. HasTable(s, v) BY <2>5, <4>1
      <4>4. f \in Nat BY <4>2, <4>3, EntriesNameFrames
      <4>5. x \in Nat BY <4>4, PagesAssumption, SMT
      <4>6. GetPhisicalAddress(s, b) = x + r BY <4>3 DEF GetPhisicalAddress
      <4>7. GetPhisicalAddress(s, b + 1) = x + (r + 1)
        BY <4>1, <4>3 DEF GetPhisicalAddress
      <4>8. at[j].phySrc = x + r BY <2>3, <4>3, <4>6
      <4> HIDE DEF v, f, x, r
      <4> QED BY <2>4, <3>2, <4>2, <4>5, <4>7, <4>8
    <3> QED BY <3>1, <3>2
  <2>6. Follows(j + 1) BY <2>1, <2>4, <2>5
  <2> HIDE DEF Follows
  <2> QED BY <2>1, <2>6
<1>3. i \in good
  <2> HIDE DEF good
  <2>1. \A j \in 0 .. n : j \in good BY <1>1, <1>2, CountUp
  <2> QED BY <2>1
<1> QED BY <1>3

\* A copy to or from another space goes through the memory its pages are mapped
\* to, for any mapping of any space (AddressSpaceManager.cpp 76-101).
THEOREM CopyFollowsPagesCorrect == Spec => []CopyFollowsPages
<1>1. TypeOK => CopyFollowsPages
  <2> SUFFICES ASSUME TypeOK, NEW s \in DOMAIN dirs, NEW v \in Touched,
                      NEW a \in Bytes(v * PageSize, PageSize)
               PROVE  LET copy == CopyDataFromAnotherSpace(s, a, PageSize + 1)
                      IN  \A i \in DOMAIN copy :
                            HasTable(s, (a + i) \div PageSize) =>
                              copy[i] = GetPhisicalAddress(s, a + i)
    BY DEF CopyFollowsPages
  <2> DEFINE n == PageSize + 1
             copy == CopyDataFromAnotherSpace(s, a, n)
  <2>1. n \in Nat BY PagesAssumption
  <2>2. a \in Nat
    <3>1. v \in Nat BY AddressAssumption, Offsets
    <3>2. v * PageSize \in Nat BY <3>1, PagesAssumption, SMT
    <3> DEFINE x == v * PageSize
    <3>3. x \in Nat /\ a \in x .. x + PageSize - 1 BY <3>2 DEF Bytes
    <3> HIDE DEF x
    <3> QED BY <3>3, PagesAssumption, SMT
  <2> HIDE DEF n
  <2>3. PICK at : CopyRounds(at, s, a, n) BY <2>1, CopyHasRounds
  <2> HIDE DEF copy
  <2>4. ASSUME NEW i \in DOMAIN copy, HasTable(s, (a + i) \div PageSize)
        PROVE  copy[i] = GetPhisicalAddress(s, a + i)
    <3>1. i \in 0 .. n - 1 /\ copy[i] = at[i].phySrc
      <4>1. copy = [j \in 0 .. n - 1 |-> at[j].phySrc] BY <2>3 DEF CopyRounds, copy
      <4> QED BY <2>4, <4>1
    <3>2. i \in 0 .. n BY <2>1, <3>1
    <3>3. at[i].phySrc = GetPhisicalAddress(s, a + i)
      BY <2>1, <2>2, <2>3, <2>4, <3>2, CopyFollows
    <3> QED BY <3>1, <3>3
  <2> QED BY <2>4 DEF copy, n
<1> QED BY <1>1, SpacesTypeCorrect, PTL
=============================================================================
