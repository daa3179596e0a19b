---------------------------- MODULE AddressSpaces ----------------------------
(***************************************************************************)
(* Address spaces and page faults (memory/AddressSpaceManager.cpp,         *)
(* x86/AddressSpaceX86.cpp), on the memory that MemoryManager lays out.  A *)
(* space is the frame of its page directory; directories and tables take   *)
(* their frames from the zone of pages.  A table is used as it comes from  *)
(* the allocator: an entry nobody wrote holds what the memory held before. *)
(*                                                                         *)
(* Virtual and physical pages are numbers.  The handler of a page fault is *)
(* entered through a trap gate, so a tick can switch threads anywhere in   *)
(* it: also before it reads CR2, which the next fault overwrites, and      *)
(* between its test of a directory's entry and what it makes of it.  The   *)
(* stores of one entry are one step.  Every entry the code writes is       *)
(* writable, so RW is left out; pageDirUsedCount is written through a      *)
(* pointer that is never set and read by nobody.                           *)
(***************************************************************************)
EXTENDS MemoryManager

CONSTANTS Thread,     \* threads, each in one space
          PerTable,   \* entries of a directory or table, 1024
          UserPages,  \* first and last page of the user's part of a space
          StackPages, \* pages of a kernel thread's stack, 16
          Touched,    \* the pages threads access
          Stale       \* what an entry nobody wrote may hold

ASSUME TableAssumption == PerTable \in Nat \ {0} /\ StackPages \in Nat \ {0}

\* The part of memory the kernel maps to itself ends below the users' part: the
\* machine has less than 256 MB.
ASSUME SmallMemoryAssumption ==
  \A map \in Maps : MemHighLimit(map) \div PageSize + 1 < UserPages[1]

\* The pages addresses have: a directory of tables, 1024 times 1024 pages of 4 KB.
Pages == 0 .. PerTable * PerTable - 1

ASSUME AddressAssumption ==
  UserPages \in Pages \X Pages /\ Touched \subseteq Pages

\* The zone of pages has frames for the kernel's directory and its tables: at
\* 32 MB it has 2560 for the 10 that are needed.
ASSUME TablesAssumption ==
  \A map \in Maps :
    LET limit == MemHighLimit(map)
    IN  limit > MinMemory =>
          (limit \div PageSize + 1) \div PerTable + 2
             <= limit \div PageSize - ObjEnd(limit) \div PageSize

VARIABLES dirs,     \* page directories: [space -> [index -> table or 0]]
          tables,   \* page tables: [table -> [index -> entry]]
          free,     \* the frames the page allocator has left
          kernel,   \* kernelSpace, 0 before there is one
          space,    \* [Thread -> the space in its CR3, or 0]
          cr2,      \* the page of the last fault
          fault,    \* [Thread -> what its page fault handler is about to do]
          partial   \* spaces that were made when no table could be had

spaceVars == <<dirs, tables, free, kernel, space, cr2, fault, partial>>
vars == <<memoryVars, spaceVars>>

\* The pages every space maps to themselves: all memory and one page more.
KernelPages == 0 .. (PageUpperAlign(memSize + PageSize) \div PageSize) - 1

\* An entry, with a mark that tells what the kernel wrote from what it found.
Entry == [frame : Nat, present : BOOLEAN, user : BOOLEAN, written : BOOLEAN]
Index == 0 .. PerTable - 1

ASSUME StaleAssumption == Stale \subseteq {e \in Entry : ~e.written}

Mapping(f, user) ==
  [frame |-> f, present |-> TRUE, user |-> user, written |-> TRUE]

\* The table at address 0, which an entry that is present names when a second
\* handler got no memory for it.  (An entry that is not present is 0.)
LowTable == -1

\* A thread that has no fault.
NoFault == [at |-> "none", page |-> 0, user |-> FALSE, frame |-> 0, table |-> 0]

DirOffset(v) == (v \div PerTable) % PerTable
TableOffset(v) == v % PerTable

\* The frames of the page zone, all free at first.
ZoneFrames ==
  {f \in 0 .. memSize \div PageSize :
     Holds(zone["page"], f * PageSize, PageSize)}

\* MemoryBuddyAllocator: some free frame, or nullptr.  Which one is not told apart.
Allocate(frames) == IF frames = {} THEN 0 ELSE Min(frames)

\* Allocate for several pages: an aligned run, or none when nullptr is returned.
Run(from, n) == from .. from + n - 1
AllocateRun(frames, n) ==
  LET starts == {f \in frames :
        /\ (f - zone["page"].start \div PageSize) % n = 0
        /\ Run(f, n) \subseteq frames}
  IN  IF starts = {} THEN {} ELSE Run(Min(starts), n)

-----------------------------------------------------------------------------
(* A record m of dirs, tables and free is changed by the following.        *)

With(f, x, y) == [z \in DOMAIN f \union {x} |-> IF z = x THEN y ELSE f[z]]

\* AddressSpaceX86::MapVirtAddrToPhysAddr in a space that no other thread is in.
\* The first entry of a table brings the table; without a frame for it the call
\* returns with nothing mapped.
MapPage(m, s, phys, virt, user, stale) ==
  LET d     == DirOffset(virt)
      fresh == m.dirs[s][d] = 0
      t     == IF fresh THEN Allocate(m.free) ELSE m.dirs[s][d]
      old   == IF fresh THEN [i \in Index |-> stale] ELSE m.tables[t]
  IN  IF t = 0 THEN m
      ELSE [dirs   |-> [m.dirs EXCEPT ![s][d] = t],
            tables |-> With(m.tables, t,
                         [old EXCEPT ![TableOffset(virt)] = Mapping(phys, user)]),
            free   |-> m.free \ {t}]

\* The pages 0 to n - 1, each to itself.
MapIdentity(m, s, n, user, stale) ==
  LET after[i \in 0 .. n] ==
        IF i = 0 THEN m ELSE MapPage(after[i - 1], s, i - 1, i - 1, user, stale)
  IN  after[n]

\* AddressSpaceX86::GetAddressSpace: an empty directory in frame s.
GetAddressSpace(m, s) ==
  [m EXCEPT !.dirs = With(@, s, [i \in Index |-> 0]), !.free = @ \ {s}]

\* Faulty variant: the kernel is left out of a new space.
CreateWithoutKernel(m, s, stale) == GetAddressSpace(m, s)

\* AddressSpaceManager::CreateAddressSpace: all memory and one page more, for
\* the kernel only.
CreateAddressSpace(m, s, stale) ==
  MapIdentity(GetAddressSpace(m, s), s, Cardinality(KernelPages), FALSE, stale)

Memory == [dirs |-> dirs, tables |-> tables, free |-> free]

Becomes(m) == dirs' = m.dirs /\ tables' = m.tables /\ free' = m.free

\* GetPageTableEntry: the entry of a page, if the directory has its table.
HasTable(s, v) == dirs[s][DirOffset(v)] # 0
PageTableEntry(s, v) == tables[dirs[s][DirOffset(v)]][TableOffset(v)]

VerifyVirtAddress(s, v) == HasTable(s, v) /\ PageTableEntry(s, v).present

\* GetPhisicalAddress: also of an entry that is not present.
GetPhisicalAddress(s, a) ==
  IF HasTable(s, a \div PageSize)
  THEN (PageTableEntry(s, a \div PageSize).frame * PageSize) + (a % PageSize)
  ELSE 0

\* Faulty variant: only a new page of the destination is looked up.
CopyStepStuck(t, from) ==
  [src |-> t.src + 1, phySrc |-> t.phySrc + 1]

\* What one round of CopyDataFromAnotherSpace's loop makes of the address in a
\* space and the physical address it stands for.
CopyStep(t, from) ==
  [src |-> t.src + 1,
   phySrc |-> IF (t.src + 1) % PageSize = 0
              THEN GetPhisicalAddress(from, t.src + 1) ELSE t.phySrc + 1]

\* The physical addresses the loop goes through from address a of space s.
CopyDataFromAnotherSpace(s, a, n) ==
  LET at[i \in 0 .. n] ==
        IF i = 0 THEN [src |-> a, phySrc |-> GetPhisicalAddress(s, a)]
        ELSE CopyStep(at[i - 1], s)
  IN  [i \in 0 .. n - 1 |-> at[i].phySrc]

-----------------------------------------------------------------------------

SpacesInit ==
  /\ dirs = <<>>
  /\ tables = <<>>
  /\ free = {}
  /\ kernel = 0
  /\ space = [t \in Thread |-> 0]
  /\ cr2 = 0
  /\ fault = [t \in Thread |-> NoFault]
  /\ partial = {}

Init == MemoryInit /\ SpacesInit

Boot == MemoryBoot /\ UNCHANGED spaceVars

\* InitKernelAddressSpace: the kernel's own space is mapped once more, this
\* time with MapVirtAddrToPhysAddr's default, for users too.
InitKernelAddressSpace ==
  /\ Booted
  /\ kernel = 0
  /\ kernel' = Allocate(ZoneFrames)
  /\ \E g \in Stale :
       Becomes(MapIdentity(
         CreateAddressSpace([Memory EXCEPT !.free = ZoneFrames], kernel', g),
         kernel', PageUpperAlign(memSize) \div PageSize, TRUE, g))
  /\ UNCHANGED <<memoryVars, space, cr2, fault, partial>>

\* A thread of the kernel's space, with a stack from the zone of pages, or one
\* with a space of its own (Thread's first constructor).  Without a frame for a
\* directory the kernel crashes.
KernelThread(t) ==
  /\ kernel # 0
  /\ space[t] = 0
  /\ space' = [space EXCEPT ![t] = kernel]
  /\ free' = free \ AllocateRun(free, StackPages)
  /\ UNCHANGED <<memoryVars, dirs, tables, kernel, cr2, fault, partial>>

Process(t) ==
  /\ kernel # 0
  /\ space[t] = 0
  /\ free # {}
  /\ LET s == Allocate(free)
     IN  /\ \E g \in Stale : Becomes(CreateAddressSpace(Memory, s, g))
         /\ space' = [space EXCEPT ![t] = s]
         /\ partial' = IF \E v \in KernelPages : dirs'[s][DirOffset(v)] = 0
                       THEN partial \union {s} ELSE partial
  /\ UNCHANGED <<memoryVars, kernel, cr2, fault>>

\* A child shares the space of its father (Thread's second constructor).
Child(t, u) ==
  /\ space[t] # 0
  /\ space[u] = 0
  /\ space' = [space EXCEPT ![u] = space[t]]
  /\ UNCHANGED <<memoryVars, dirs, tables, free, kernel, cr2, fault, partial>>

\* A thread of a user's space runs as a user, one of the kernel's as the kernel.
FaultRaised(t, v) ==
  /\ space[t] # 0
  /\ fault[t] = NoFault
  /\ ~ /\ VerifyVirtAddress(space[t], v)
       /\ space[t] = kernel \/ PageTableEntry(space[t], v).user
  /\ cr2' = v
  /\ fault' = [fault EXCEPT ![t].at = "starts"]
  /\ UNCHANGED <<memoryVars, dirs, tables, free, kernel, space, partial>>

\* Whether a page is mapped for users.  Addresses are compared: of the users'
\* last page the first address is inside, all others are not.
ForUser(s, v, user) ==
  IF user THEN s # kernel /\ UserPages[1] <= v /\ v <= UserPages[2]
          ELSE s = kernel \/ v < UserPages[1] \/ v >= UserPages[2]

\* PageFaultHandler takes the address from CR2, whichever fault it is of, and
\* asks for a frame if it is a user's, nullptr included.
FaultStarts(t) ==
  /\ fault[t].at = "starts"
  /\ \E user \in BOOLEAN :
       LET f == IF user THEN Allocate(free) ELSE 0
       IN  /\ ForUser(space[t], cr2, user)
           /\ fault' = [fault EXCEPT ![t] =
                [at |-> "tests", page |-> cr2, user |-> user, frame |-> f, table |-> 0]]
           /\ free' = free \ {f}
  /\ UNCHANGED <<memoryVars, dirs, tables, kernel, space, cr2, partial>>

\* The entry of the directory for the page of t's fault.
Slot(t) == dirs[space[t]][DirOffset(fault[t].page)]

\* MapVirtAddrToPhysAddr, called by the handler: is there a table?
FaultTests(t) ==
  /\ fault[t].at = "tests"
  /\ fault' = [fault EXCEPT ![t].at = IF Slot(t) = 0 THEN "allocates" ELSE "writes"]
  /\ UNCHANGED <<memoryVars, dirs, tables, free, kernel, space, cr2, partial>>

\* Faulty variant: the frame of the table stays free.
FaultAllocatesUnmarked(t) ==
  /\ fault[t].at = "allocates"
  /\ fault' = [fault EXCEPT ![t].at = "installs", ![t].table = Allocate(free)]
  /\ UNCHANGED <<memoryVars, dirs, tables, free, kernel, space, cr2, partial>>

FaultAllocates(t) ==
  /\ fault[t].at = "allocates"
  /\ fault' = [fault EXCEPT ![t].at = "installs", ![t].table = Allocate(free)]
  /\ free' = free \ {Allocate(free)}
  /\ UNCHANGED <<memoryVars, dirs, tables, kernel, space, cr2, partial>>

\* The table goes into the directory, in place of one that another handler has
\* put there meanwhile, which is lost with its entries.  Without a frame for it
\* the handler returns; an entry that is present by then names address 0.
FaultInstalls(t) ==
  LET d   == DirOffset(fault[t].page)
      new == IF fault[t].table # 0 THEN fault[t].table ELSE LowTable
  IN  /\ fault[t].at = "installs"
      /\ IF fault[t].table = 0 /\ Slot(t) = 0
         THEN UNCHANGED <<dirs, tables>>
         ELSE /\ dirs' = [dirs EXCEPT ![space[t]][d] = new]
              /\ \E g \in Stale :
                   tables' = With(tables, new, IF new \in DOMAIN tables THEN tables[new]
                                               ELSE [i \in Index |-> g])
      /\ fault' = [fault EXCEPT ![t] =
           IF fault[t].table = 0 THEN NoFault ELSE [@ EXCEPT !.at = "writes", !.table = 0]]
      /\ UNCHANGED <<memoryVars, free, kernel, space, cr2, partial>>

\* The page's entry, whatever it has become meanwhile.
FaultWrites(t) ==
  LET v   == fault[t].page
      new == Mapping(IF fault[t].user THEN fault[t].frame ELSE v, fault[t].user)
  IN  /\ fault[t].at = "writes"
      /\ tables' = [tables EXCEPT ![Slot(t)][TableOffset(v)] = new]
      /\ fault' = [fault EXCEPT ![t] = NoFault]
      /\ UNCHANGED <<memoryVars, dirs, free, kernel, space, cr2, partial>>

Next ==
  \/ Boot \/ InitKernelAddressSpace
  \/ \E t \in Thread :
       \/ KernelThread(t) \/ Process(t)
       \/ \E u \in Thread : Child(t, u)
       \/ \E v \in Touched : FaultRaised(t, v)
       \/ FaultStarts(t) \/ FaultTests(t) \/ FaultAllocates(t) \/ FaultInstalls(t)
       \/ FaultWrites(t)

Spec == Init /\ [][Next]_vars

-----------------------------------------------------------------------------

\* Directories and tables are frames of the page zone in use, and an entry of a
\* directory is empty or names a table.
TypeOK ==
  /\ \A s \in DOMAIN dirs : dirs[s] \in [Index -> {0} \union DOMAIN tables]
  /\ \A p \in DOMAIN tables : tables[p] \in [Index -> Entry]
  /\ kernel # 0 => free \subseteq ZoneFrames /\ kernel \in DOMAIN dirs
  /\ kernel # 0 =>
       DOMAIN dirs \union (DOMAIN tables \ {LowTable}) \subseteq ZoneFrames \ free

\* In every space whose tables could all be had the kernel's pages are mapped to
\* themselves, and only the kernel's own space gives them to users
\* (AddressSpaceManager.cpp 55-60): whatever faults were served before, and
\* whatever a table held when it came from the allocator.
KernelIsIdentity ==
  /\ TypeOK
  /\ \A s \in DOMAIN dirs \ partial : \A v \in KernelPages :
       /\ VerifyVirtAddress(s, v)
       /\ PageTableEntry(s, v).frame = v
       /\ PageTableEntry(s, v).user => s = kernel

\* The pages of users' spaces that users can access by an entry the kernel wrote.
Accessible ==
  {p \in (DOMAIN dirs \ {kernel}) \X Pages :
     /\ VerifyVirtAddress(p[1], p[2])
     /\ PageTableEntry(p[1], p[2]).user /\ PageTableEntry(p[1], p[2]).written}

\* No two pages that users can access, of one space or of two, have the same
\* frame, and none has that of a directory, of a table, of free memory or one that
\* a handler still holds (AddressSpaceManager.cpp 103-129, AddressSpaceX86.cpp
\* 79-105).  Not so where the kernel wrote no entry or memory had run out: a page
\* that was served when no frame was left has frame 0, a table address 0.
UserFramesArePrivate ==
  LET frame(p) == PageTableEntry(p[1], p[2]).frame
      got      == {p \in Accessible :
                     frame(p) # 0 /\ dirs[p[1]][DirOffset(p[2])] # LowTable}
      held     == UNION {{fault[t].frame, fault[t].table} : t \in Thread}
  IN  /\ \A p, q \in got : frame(p) = frame(q) => p = q
      /\ \A p \in got : frame(p) \in
           ZoneFrames \ (free \union DOMAIN dirs \union DOMAIN tables \union held)

\* A copy reads (or writes) byte after byte the memory its addresses stand for,
\* also where it crosses from a page into one that is mapped elsewhere, as far
\* as there are tables for them (AddressSpaceManager.cpp 88-100).
CopyFollowsPages ==
  \A s \in DOMAIN dirs : \A v \in Touched :
    \A a \in Bytes(v * PageSize, PageSize) :
      LET copy == CopyDataFromAnotherSpace(s, a, PageSize + 1)
      IN  \A i \in DOMAIN copy :
            HasTable(s, (a + i) \div PageSize) => copy[i] = GetPhisicalAddress(s, a + i)

\* delete asks the allocator that handed the memory out: for a frame in use the
\* one of the pages, for a module's copy the one of the image, also at an
\* address where one zone ends and the next one starts (MemoryManager.cpp 163-179).
DeleteFindsOwner ==
  kernel # 0 =>
    /\ \A f \in ZoneFrames \ free : GetProperAlloc(f * PageSize, 0) = "page"
    /\ \A i \in DOMAIN modules : GetProperAlloc(modules[i].addr, 0) = "init"
=============================================================================
