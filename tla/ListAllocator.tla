--------------------------- MODULE ListAllocator ---------------------------
(***************************************************************************)
(* The allocator behind operator new (memory/MemoryListAllocator.cpp): a   *)
(* doubly linked list of heads that lie inside the zone, each in front of  *)
(* the block it describes.  The list is a sequence here, in list order,    *)
(* without the guard that closes the circle.  Addresses and sizes count    *)
(* bytes modulo Word, as size_t does.                                      *)
(*                                                                         *)
(* The code keeps no record of what it handed out: granted is what its     *)
(* callers remember.  A call that returns nullptr changes nothing and has  *)
(* no action; a failed Assert never returns, so it is a guard.             *)
(***************************************************************************)
EXTENDS Integers, SequencesExt

CONSTANTS Start, Size,   \* the zone
          Header,        \* sizeof(ListHead)
          Word,          \* the number of values of size_t
          Request,       \* the sizes callers ask for
          Align,         \* the alignments they ask for
          Reservable     \* the ranges a caller may reserve

\* A head is longer than a byte.
ASSUME ZoneAssumption ==
  /\ {Start, Size, Header, Word} \subseteq Nat \ {0}
  /\ Start + Size < Word /\ 1 < Header /\ Header < Size
  /\ Request \subseteq 1 .. Word - Header - 1 /\ Align \subseteq Nat
  /\ Reservable \subseteq [addr : Nat, size : Nat]

VARIABLES heads,     \* the list
          granted,   \* [addr, size]: what Allocate returned, for how many bytes
          reserved   \* [addr, size]: the ranges reserved

listVars == <<heads, granted, reserved>>

ListHead == [addr : 0 .. Word - 1, size : 0 .. Word - 1, free : BOOLEAN]

Minus(a, b) == (a - b) % Word

AvailStart(h) == h.addr + Header

AvailEnd(h) == (AvailStart(h) + h.size) % Word

AlignUp(a, n) == IF n = 0 THEN a ELSE (a + n) - ((a + n) % n)

Init ==
  /\ heads = <<[addr |-> Start, size |-> Size - Header, free |-> TRUE]>>
  /\ granted = {}
  /\ reserved = {}

\* GetHeadFromAddress: the first head whose block, itself and its end
\* included, contains the n bytes from a on.
Holds(h, a, n) == h.addr <= a /\ a + n <= h.addr + h.size + Header

HeadOf(a, n) ==
  CHOOSE i \in DOMAIN heads :
    /\ Holds(heads[i], a, n)
    /\ \A j \in 1 .. i - 1 : ~Holds(heads[j], a, n)

---------------------------------------------------------------------------

\* A free block can be cut for n bytes aligned to al, with a head behind them.
Fits(h, n, al) ==
  /\ h.free
  /\ Minus(AvailEnd(h), AlignUp(AvailStart(h), al)) >= n + Header

\* The list after n bytes from a on are cut from the i-th block.
Cut(i, a, n) ==
  LET h == heads[i]
      used == [h EXCEPT !.size = Minus(a + n, AvailStart(h)), !.free = FALSE]
      rest == [addr |-> (a + n) % Word,
               size |-> Minus(AvailEnd(h), a + n + Header),
               free |-> TRUE]
  IN  InsertAt(ReplaceAt(heads, i, used), i + 1, rest)

Allocate(n, al) ==
  \E i \in DOMAIN heads :
    LET a == AlignUp(AvailStart(heads[i]), al) IN
    /\ Fits(heads[i], n, al)
    /\ \A j \in 1 .. i - 1 : ~Fits(heads[j], n, al)
    /\ heads' = Cut(i, a, n)
    /\ granted' = granted \union {[addr |-> a, size |-> n]}
    /\ UNCHANGED reserved

\* Faulty variant: only the blocks behind are joined.
RunForward(list, i) ==
  {j \in DOMAIN list : j >= i /\ \A k \in i .. j : list[k].free}

\* MergeFreeHead: the i-th head and the free heads that follow and precede it
\* without a used one in between, at ascending addresses, become one.
Run(list, i) ==
  {j \in DOMAIN list :
     \A k \in (IF i < j THEN i .. j ELSE j .. i) :
       /\ list[k].free
       /\ k > i => list[i].addr < list[k].addr
       /\ k < i => list[k].addr < list[i].addr}

Merge(list, i) ==
  LET run == Run(list, i)
      lo == CHOOSE j \in run : \A k \in run : j <= k
      hi == CHOOSE j \in run : \A k \in run : j >= k
      sum[j \in lo .. hi] ==
        IF j = lo THEN list[j].size ELSE sum[j - 1] + Header + list[j].size
  IN  SubSeq(list, 1, lo - 1)
        \o <<[list[lo] EXCEPT !.size = sum[hi] % Word]>>
        \o SubSeq(list, hi + 1, Len(list))

Deallocate(r) ==
  LET i == HeadOf(r.addr, 0) IN
  /\ r \in granted
  /\ ~heads[i].free
  /\ heads' = Merge([heads EXCEPT ![i].free = TRUE], i)
  /\ granted' = granted \ {r}
  /\ UNCHANGED reserved

---------------------------------------------------------------------------

\* Faulty variant: the block in front keeps its size.
ReserveKeepsLeft(r) ==
  /\ \E i \in DOMAIN heads : Holds(heads[i], r.addr, r.size)
  /\ LET i == HeadOf(r.addr, r.size)
         right == [addr |-> r.addr + r.size,
                   size |-> Minus(AvailEnd(heads[i]), r.addr + r.size + Header),
                   free |-> TRUE]
     IN  heads[i].free /\ heads' = InsertAt(heads, i + 1, right)
  /\ reserved' = reserved \union {r}
  /\ UNCHANGED granted

\* The reserved bytes belong to no block: the block they are in ends before
\* them, and a new head follows them.
Reserve(r) ==
  /\ \E i \in DOMAIN heads : Holds(heads[i], r.addr, r.size)
  /\ LET i == HeadOf(r.addr, r.size)
         h == heads[i]
         right == [addr |-> r.addr + r.size,
                   size |-> Minus(AvailEnd(h), r.addr + r.size + Header),
                   free |-> TRUE]
     IN  /\ r.addr >= AvailStart(h)
         /\ h.free
         /\ heads' = InsertAt([heads EXCEPT ![i].size = r.addr - AvailStart(h)],
                              i + 1, right)
  /\ reserved' = reserved \union {r}
  /\ UNCHANGED granted

\* Faulty variant: the head is not taken off the size.
DereserveCountsHead(r) ==
  LET i == HeadOf(r.addr - 1, 0)
      head == [addr |-> r.addr, size |-> r.size, free |-> TRUE]
  IN
  /\ r \in reserved
  /\ heads' = Merge(InsertAt(heads, i + 1, head), i + 1)
  /\ reserved' = reserved \ {r}
  /\ UNCHANGED granted

\* The reserved bytes become a free block with a head of its own.
Dereserve(r) ==
  LET i == HeadOf(r.addr - 1, 0)
      head == [addr |-> r.addr, size |-> Minus(r.size, Header), free |-> TRUE]
  IN
  /\ r \in reserved
  /\ heads' = Merge(InsertAt(heads, i + 1, head), i + 1)
  /\ reserved' = reserved \ {r}
  /\ UNCHANGED granted

---------------------------------------------------------------------------

Next ==
  \/ \E n \in Request, al \in Align : Allocate(n, al)
  \/ \E r \in granted : Deallocate(r)
  \/ \E r \in Reservable : Reserve(r)
  \/ \E r \in reserved : Dereserve(r)

Spec == Init /\ [][Next]_listVars

\* Callers that keep out of the way of what the code does not test: they ask for
\* no alignment, which can lead beyond the end of a short block, as none of the
\* kernel's callers does; a range that is set aside has room for a head, and so
\* has the block behind it; and no block is given back while one is.
LeavesRoom(r) ==
  /\ Header <= r.size
  /\ \E h \in Range(heads) :
       Holds(h, r.addr, r.size) /\ r.addr + r.size <= AvailStart(h) + h.size - Header

CarefulNext ==
  \/ \E n \in Request, al \in Align \intersect {0} : Allocate(n, al)
  \/ \E r \in granted : reserved = {} /\ Deallocate(r)
  \/ \E r \in Reservable : reserved = {} /\ LeavesRoom(r) /\ Reserve(r)
  \/ \E r \in reserved : Dereserve(r)

CarefulSpec == Init /\ [][CarefulNext]_listVars

---------------------------------------------------------------------------

\* Sizes and addresses never wrap around.
TypeOK ==
  /\ heads \in Seq(ListHead)
  /\ \A i \in DOMAIN heads : heads[i].size <= Size
  /\ granted \subseteq [addr : Start .. Start + Size, size : Request]
  /\ reserved \subseteq Reservable

EndOf(h) == h.addr + Header + h.size

AfterReserved(a) ==
  IF \E r \in reserved : r.addr = a
  THEN a + (CHOOSE r \in reserved : r.addr = a).size
  ELSE a

\* Every byte of the zone is in exactly one block or reserved range: each
\* block ends where the next one or a reserved range starts, the last one where
\* the zone does, and no size wraps (Reserve and Allocate cut, MergeFreeHead joins).
TilesZone ==
  /\ TypeOK
  /\ heads[1].addr = Start
  /\ EndOf(heads[Len(heads)]) = Start + Size
  /\ \A i \in 1 .. Len(heads) - 1 :
       heads[i + 1].addr = AfterReserved(EndOf(heads[i]))

\* No memory is lost to fragments that could be joined: two free blocks never
\* touch, whatever the order in which blocks were given back
\* (MergeFreeHead, "both sides are not free, merging is done").
Coalesced ==
  \A i \in 1 .. Len(heads) - 1 :
    EndOf(heads[i]) = heads[i + 1].addr => ~(heads[i].free /\ heads[i + 1].free)

\* Reserved memory is in nobody's block (Reserve: "leave this part of the space
\* out of both").
ReservedIsKept ==
  \A r \in reserved, i \in DOMAIN heads :
    ~heads[i].free => \/ EndOf(heads[i]) <= r.addr
                      \/ r.addr + r.size <= heads[i].addr

Heap == INSTANCE Heap WITH
  First <- Start, Beyond <- Start + Size, held <- granted \union reserved

\* What callers get are disjoint ranges of the zone, and each goes back whole.
ImplementsHeap == Heap!HeapSpec
=============================================================================
