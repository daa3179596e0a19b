--------------------------- MODULE BuddyAllocator ---------------------------
(***************************************************************************)
(* The allocator of pages (memory/MemoryBuddyAllocator.cpp).  avail has a  *)
(* cell for every block of every level; level i has blocks of 2^i units,   *)
(* and the highest level has one.  Addresses and sizes count units, which  *)
(* are pages for the kernel.                                               *)
(*                                                                         *)
(* granted is what callers remember of the ranges they asked for.  A call  *)
(* that returns nullptr changes nothing and has no action; a failed Assert *)
(* never returns, so it is a guard.                                        *)
(***************************************************************************)
EXTENDS Integers, FiniteSets

CONSTANTS Start,        \* the first unit of the zone
          Units,        \* the units of the zone
          Request,      \* the sizes callers ask for
          Align,        \* the alignments they ask for: none, or a page
          Reservable    \* the ranges a caller may reserve

\* unit << i: the blocks of each level are twice as large as those below.
Size[i \in 0 .. Units] == IF i = 0 THEN 1 ELSE 2 * Size[i - 1]

\* The highest level, that of the largest block in the zone.
Top == CHOOSE i \in 0 .. Units : Size[i] <= Units /\ Units < 2 * Size[i]

\* The units that belong to a block: the zone is not rounded, and what is
\* beyond its largest block is never used.
Usable == Start .. Start + Size[Top] - 1

ASSUME ZoneAssumption ==
  /\ {Start, Units} \subseteq Nat \ {0}
  /\ Request \subseteq Nat \ {0} /\ Align \subseteq {0, 1}
  /\ Reservable \subseteq [addr : Usable, size : Nat \ {0}]
  /\ \A r \in Reservable : r.addr + r.size - 1 \in Usable

VARIABLES avail,     \* the state of each cell
          granted    \* [addr, size]: what callers hold

buddyVars == <<avail, granted>>

Level == 0 .. Top
Cell == UNION {{<<i, j>> : j \in 0 .. (Units \div Size[i]) - 1} : i \in Level}
CellState == {"INAVAILABLE", "AVAILABLE", "OCCUPIED"}

\* GetPropertyCorrespondToAvailElem
Block(c) == [addr |-> Start + c[2] * Size[c[1]], size |-> Size[c[1]]]

Inside(r, b) == b.addr <= r.addr /\ r.addr + r.size <= b.addr + b.size

\* Faulty variant: the unit, whatever block it is in.
UnitOf(a) == <<0, a - Start>>

\* The block of level i around an address.
Around(a, i) == <<i, (a - Start) \div Size[i]>>

\* GetCoordsOfAddr: the lowest block around an address that is in use or free.
CoordsOf(a) ==
  Around(a, CHOOSE i \in Level :
              /\ avail[Around(a, i)] # "INAVAILABLE"
              /\ \A k \in 0 .. i - 1 : avail[Around(a, k)] = "INAVAILABLE")

\* ALIGN_UP, which moves an address that is aligned already.
AlignUp(a, al) == IF al = 0 THEN a ELSE (a + al) - ((a + al) % al)

CheckFit(n, al, b) ==
  /\ b.size >= n
  /\ b.addr + b.size - AlignUp(b.addr, al) >= n

Init ==
  /\ avail = [c \in Cell |-> IF c[1] = Top THEN "AVAILABLE" ELSE "INAVAILABLE"]
  /\ granted = {}

---------------------------------------------------------------------------

\* Faulty variant: blocks in use are taken as well.
FirstInUse(i, j) ==
  /\ avail[<<i, j>>] # "INAVAILABLE"
  /\ \A k \in 0 .. j - 1 : avail[<<i, k>>] = "INAVAILABLE"

\* The first free block of a level, the only one of it that GetFirstFit tests.
FirstFree(i, j) ==
  /\ avail[<<i, j>>] = "AVAILABLE"
  /\ \A k \in 0 .. j - 1 : avail[<<i, k>>] # "AVAILABLE"

Candidates(n, al) ==
  {c \in Cell : FirstFree(c[1], c[2]) /\ CheckFit(n, al, Block(c))}

\* SplitLargeSpace: block c is halved as long as one half holds n units. The
\* left half is taken if it does and, when the range r is reserved, contains r;
\* of the right half only the size is tested.
HalfFits(n, al, half, r) ==
  /\ CheckFit(n, al, Block(half))
  /\ r # {} => \A s \in r : Inside(s, Block(half))

Split(c, n, al, r) ==
  LET path[k \in 0 .. c[1]] ==
        IF k = c[1] THEN c[2]
        ELSE LET left == 2 * path[k + 1]
             IN  IF HalfFits(n, al, <<k, left>>, r) THEN left ELSE left + 1
      halves(k) == CheckFit(n, al, Block(<<k, path[k]>>))
      low == CHOOSE k \in 0 .. c[1] :
               /\ \A l \in k .. c[1] - 1 : halves(l)
               /\ k = 0 \/ ~halves(k - 1)
  IN  [cell |-> <<low, path[low]>>,
       avail |-> [d \in Cell |->
         IF d = <<low, path[low]>> THEN "OCCUPIED"
         ELSE IF d[1] \in low .. c[1] /\ d[2] = path[d[1]] THEN "INAVAILABLE"
         ELSE IF d[1] \in low .. c[1] - 1 /\ d[2] \div 2 = path[d[1] + 1]
              THEN "AVAILABLE"
         ELSE avail[d]]]

Allocate(n, al) ==
  \E c \in Candidates(n, al) :
    LET s == Split(c, n, al, {}) IN
    /\ \A d \in Candidates(n, al) : c[1] <= d[1]
    /\ avail' = s.avail
    /\ granted' = granted \union
                    {[addr |-> AlignUp(Block(s.cell).addr, al), size |-> n]}

Reserve(r) ==
  LET c == CoordsOf(r.addr) IN
  /\ avail[c] = "AVAILABLE"
  /\ r.addr + r.size <= Block(c).addr + Block(c).size
  /\ avail' = Split(c, r.size, 0, {r}).avail
  /\ granted' = granted \union {r}

---------------------------------------------------------------------------

Ancestor(c, k) == <<k, c[2] \div Size[k - c[1]]>>
Buddy(c) == <<c[1], IF c[2] % 2 = 0 THEN c[2] + 1 ELSE c[2] - 1>>

\* Faulty variant: the block is free, but not joined with its buddy.
FreeOnly(c) == [avail EXCEPT ![c] = "AVAILABLE"]

\* Faulty variant: the buddies that were joined stay free.
MergeLeavesBuddies(c) ==
  LET m == CHOOSE k \in c[1] .. Top :
             /\ \A l \in c[1] .. k - 1 : avail[Buddy(Ancestor(c, l))] = "AVAILABLE"
             /\ k = Top \/ avail[Buddy(Ancestor(c, k))] # "AVAILABLE"
  IN  [avail EXCEPT ![c] = "INAVAILABLE", ![Ancestor(c, m)] = "AVAILABLE"]

\* MergeBuddy: block c is free, and joined upwards while both halves are.
Merge(c) ==
  LET m == CHOOSE k \in c[1] .. Top :
             /\ \A l \in c[1] .. k - 1 : avail[Buddy(Ancestor(c, l))] = "AVAILABLE"
             /\ k = Top \/ avail[Buddy(Ancestor(c, k))] # "AVAILABLE"
  IN  [d \in Cell |->
         IF d = Ancestor(c, m) THEN "AVAILABLE"
         ELSE IF \E k \in c[1] .. m - 1 : d \in {Ancestor(c, k), Buddy(Ancestor(c, k))}
              THEN "INAVAILABLE"
         ELSE avail[d]]

\* Dereserve is the same call.
Deallocate(r) ==
  /\ r \in granted
  /\ avail' = Merge(CoordsOf(r.addr))
  /\ granted' = granted \ {r}

Next ==
  \/ \E n \in Request, al \in Align : Allocate(n, al)
  \/ \E r \in Reservable : Reserve(r)
  \/ \E r \in granted : Deallocate(r)

Spec == Init /\ [][Next]_buddyVars

---------------------------------------------------------------------------

\* Cells have a state, and callers hold usable units.
TypeOK ==
  /\ avail \in [Cell -> CellState]
  /\ \A r \in granted : r.addr \in Usable /\ r.addr + r.size - 1 \in Usable

\* Splitting and joining neither lose nor double a unit: each is in exactly one
\* block that is free or in use, on whatever level.
UnitsCoveredOnce ==
  /\ TypeOK
  /\ \A u \in Usable :
       Cardinality({c \in Cell : /\ avail[c] # "INAVAILABLE"
                                 /\ Inside([addr |-> u, size |-> 1], Block(c))}) = 1

\* Giving blocks back restores large ones (MergeBuddy): if nothing in an aligned
\* region of Size[i] units is in use, the next Allocate of that size succeeds.
FreeRegionIsAllocatable ==
  \A c \in Cell :
    /\ Block(c).addr + Block(c).size - 1 \in Usable
    /\ \A d \in Cell : avail[d] = "OCCUPIED" =>
         ~(Inside(Block(d), Block(c)) \/ Inside(Block(c), Block(d)))
    => Candidates(Block(c).size, 0) # {}

\* What a caller asked for is in the block that was marked for it, and no other
\* caller's is (SplitLargeSpace: "also test whether it contains this range").
GrantsAreBlocks ==
  /\ \A r \in granted : \E c \in Cell :
       avail[c] = "OCCUPIED" /\ Inside(r, Block(c))
  /\ \A c \in Cell : avail[c] = "OCCUPIED" =>
       Cardinality({r \in granted : Inside(r, Block(c))}) = 1

Heap == INSTANCE Heap WITH
  First <- Start, Beyond <- Start + Units, held <- granted

\* What callers get are disjoint ranges of the zone, and each goes back whole.
ImplementsHeap == Heap!HeapSpec
=============================================================================
