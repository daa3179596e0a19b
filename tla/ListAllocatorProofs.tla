------------------------ MODULE ListAllocatorProofs ------------------------
(***************************************************************************)
(* Proofs about the allocator behind operator new, for zones, heads and    *)
(* requests of any size and any number of blocks.  Its invariant, ListGood *)
(* below, says that the blocks of the list and the one range that may be   *)
(* set aside fill the zone from end to end, that no two free blocks touch, *)
(* and that the used ones are those that callers have.                     *)
(*                                                                         *)
(* Each operation makes one of three lists of another: one in which a      *)
(* block is cut in two or a gap is filled (Doubled), one in which a block  *)
(* is set free, and one in which a run of free blocks is joined (Joining). *)
(* What holds of those lists is proved of any list; the operations are     *)
(* then shown to make them.                                                *)
(***************************************************************************)
EXTENDS ListAllocator, SequenceTheorems, TLAPS

-----------------------------------------------------------------------------
(* Lists.                                                                  *)

\* t is list s with e in place of the elements from the i-th up to, and without,
\* the j-th.
Spliced(S, s, t, i, j, e) ==
  /\ t \in Seq(S)
  /\ Len(t) = Len(s) + 1 + i - j
  /\ \A k \in 1 .. Len(t) :
       t[k] = IF k < i THEN s[k] ELSE IF k = i THEN e ELSE s[k + j - i - 1]

\* What InsertAt and MergeFreeHead's joining write.
LEMMA Splicing ==
  ASSUME NEW S, NEW s, NEW e, NEW i, NEW j, NEW t,
         s \in Seq(S), e \in S, i \in 1 .. Len(s) + 1, j \in i .. Len(s) + 1,
         t = SubSeq(s, 1, i - 1) \o <<e>> \o SubSeq(s, j, Len(s))
  PROVE  Spliced(S, s, t, i, j, e)
<1> DEFINE p == SubSeq(s, 1, i - 1)
           q == SubSeq(s, j, Len(s))
           m == <<e>>
           pm == p \o m
<1>1. /\ Len(s) \in Nat /\ i \in Nat /\ j \in Nat /\ i >= 1 /\ j >= i
      /\ i <= Len(s) + 1 /\ j <= Len(s) + 1
      /\ \A k \in 1 .. Len(s) : s[k] \in S
  OBVIOUS
<1>2. /\ p \in Seq(S) /\ Len(p) = i - 1
      /\ \A k \in 1 .. i - 1 : p[k] = s[k]
  <2>1. 1 \in Int /\ i - 1 \in Int /\ \A k \in 1 .. i - 1 : s[k] \in S BY <1>1, SMT
  <2>2. /\ p \in Seq(S) /\ Len(p) = IF 1 <= i - 1 THEN (i - 1) - 1 + 1 ELSE 0
        /\ \A k \in 1 .. (i - 1) - 1 + 1 : p[k] = s[1 + k - 1]
    BY <2>1, SubSeqProperties
  <2> HIDE DEF p
  <2> QED BY <1>1, <2>2, SMT
<1>3. /\ q \in Seq(S) /\ Len(q) = Len(s) - j + 1
      /\ \A k \in 1 .. Len(s) - j + 1 : q[k] = s[j + k - 1]
  <2>1. j \in Int /\ Len(s) \in Int /\ \A k \in j .. Len(s) : s[k] \in S BY <1>1, SMT
  <2>2. /\ q \in Seq(S) /\ Len(q) = IF j <= Len(s) THEN Len(s) - j + 1 ELSE 0
        /\ \A k \in 1 .. Len(s) - j + 1 : q[k] = s[j + k - 1]
    BY <2>1, SubSeqProperties
  <2> HIDE DEF q
  <2> QED BY <1>1, <2>2, SMT
<1>4. m \in Seq(S) /\ Len(m) = 1 /\ m[1] = e OBVIOUS
<1> HIDE DEF p, q, m
<1>5. /\ pm \in Seq(S) /\ Len(pm) = i
      /\ \A k \in 1 .. i : pm[k] = IF k < i THEN s[k] ELSE e
  <2>1. /\ pm \in Seq(S) /\ Len(pm) = Len(p) + Len(m)
        /\ \A k \in 1 .. Len(p) + Len(m) :
             pm[k] = IF k <= Len(p) THEN p[k] ELSE m[k - Len(p)]
    BY <1>2, <1>4, ConcatProperties
  <2> HIDE DEF pm
  <2> QED BY <1>1, <1>2, <1>4, <2>1, SMT
<1> HIDE DEF pm
<1>6. /\ t \in Seq(S) /\ Len(t) = Len(pm) + Len(q)
      /\ \A k \in 1 .. Len(pm) + Len(q) :
           t[k] = IF k <= Len(pm) THEN pm[k] ELSE q[k - Len(pm)]
  <2>1. t = pm \o q BY DEF pm, p, m, q
  <2> DEFINE u == pm \o q
  <2>2. /\ u \in Seq(S) /\ Len(u) = Len(pm) + Len(q)
        /\ \A k \in 1 .. Len(pm) + Len(q) :
             u[k] = IF k <= Len(pm) THEN pm[k] ELSE q[k - Len(pm)]
    BY <1>3, <1>5, ConcatProperties
  <2>3. t = u BY <2>1
  <2> HIDE DEF u
  <2> QED BY <2>2, <2>3
<1>7. Len(t) = Len(s) + 1 + i - j
  <2> DEFINE a == Len(pm)
             b == Len(q)
             c == Len(s)
             d == Len(t)
  <2>1. d = a + b /\ a = i /\ b = c - j + 1 BY <1>3, <1>5, <1>6
  <2>2. c \in Nat /\ i \in Nat /\ j \in Nat BY <1>1
  <2> HIDE DEF a, b, c, d
  <2>3. d = c + 1 + i - j BY <2>1, <2>2
  <2> QED BY <2>3 DEF c, d
<1>8. \A k \in 1 .. Len(t) : t[k] = IF k <= i THEN pm[k] ELSE q[k - i]
  <2>1. Len(t) = Len(pm) + Len(q) /\ Len(pm) = i BY <1>5, <1>6
  <2> QED BY <1>6, <2>1, Zenon
<1>9. ASSUME NEW k \in 1 .. Len(t)
      PROVE  t[k] = IF k < i THEN s[k] ELSE IF k = i THEN e ELSE s[k + j - i - 1]
  <2> DEFINE c == Len(s)
             d == Len(t)
  <2>1. /\ c \in Nat /\ d = c + 1 + i - j /\ i \in Nat /\ j \in Nat /\ i >= 1 /\ j >= i
        /\ j <= c + 1 /\ k \in 1 .. d
    BY <1>1, <1>7
  <2> HIDE DEF c, d
  <2>2. CASE k <= i
    <3>1. t[k] = pm[k] BY <1>8, <2>2
    <3>2. k \in 1 .. i /\ (k < i \/ (k = i /\ ~(k < i))) BY <2>1, <2>2
    <3>3. pm[k] = IF k < i THEN s[k] ELSE e BY <1>5, <3>2
    <3> QED BY <3>1, <3>2, <3>3
  <2>3. CASE ~(k <= i)
    <3> DEFINE l == k - i
    <3>1. l \in 1 .. c - j + 1 /\ ~(k < i) /\ k # i /\ j + l - 1 = k + j - i - 1
      BY <2>1, <2>3
    <3>2. t[k] = q[l] BY <1>8, <2>3
    <3> HIDE DEF l
    <3>3. q[l] = s[j + l - 1] BY <1>3, <3>1 DEF c
    <3> QED BY <3>1, <3>2, <3>3
  <2> QED BY <2>2, <2>3
<1> QED BY <1>6, <1>7, <1>9 DEF Spliced

\* List t has x for the i-th element of s and y behind it.
Doubled(S, s, t, i, x, y) ==
  /\ t \in Seq(S)
  /\ Len(t) = Len(s) + 1
  /\ \A k \in 1 .. Len(t) :
       t[k] = IF k < i THEN s[k] ELSE IF k = i THEN x ELSE
              IF k = i + 1 THEN y ELSE s[k - 1]

\* What Allocate, Reserve and Dereserve make of the list.
LEMMA Doubling ==
  ASSUME NEW S, NEW s, NEW i, NEW x, NEW y, NEW t,
         s \in Seq(S), x \in S, y \in S, i \in 1 .. Len(s),
         t = InsertAt([s EXCEPT ![i] = x], i + 1, y)
  PROVE  Doubled(S, s, t, i, x, y)
<1> DEFINE r == [s EXCEPT ![i] = x]
           j == i + 1
<1>1. r \in Seq(S) /\ Len(r) = Len(s) /\ Len(s) \in Nat
      /\ \A k \in 1 .. Len(s) : r[k] = IF k = i THEN x ELSE s[k]
  OBVIOUS
<1>2. j \in 1 .. Len(r) + 1 /\ j \in j .. Len(r) + 1 BY <1>1, SMT
<1>3. t = SubSeq(r, 1, j - 1) \o <<y>> \o SubSeq(r, j, Len(r)) BY DEF InsertAt
<1> HIDE DEF r, j
<1>4. Spliced(S, r, t, j, j, y) BY <1>1, <1>2, <1>3, Splicing
<1>5. /\ t \in Seq(S) /\ Len(t) = Len(s) + 1
      /\ \A k \in 1 .. Len(t) :
           t[k] = IF k < j THEN r[k] ELSE IF k = j THEN y ELSE r[k + j - j - 1]
  <2>1. /\ t \in Seq(S) /\ Len(t) = Len(r) + 1 + j - j
        /\ \A k \in 1 .. Len(t) :
             t[k] = IF k < j THEN r[k] ELSE IF k = j THEN y ELSE r[k + j - j - 1]
    BY <1>4 DEF Spliced
  <2>2. Len(t) = Len(s) + 1
    <3> DEFINE c == Len(r)
               d == Len(t)
    <3>1. d = c + 1 + j - j /\ c \in Nat /\ j \in Nat BY <1>1, <1>2, <2>1
    <3> HIDE DEF c, d
    <3>2. d = c + 1 BY <3>1
    <3> QED BY <1>1, <3>2 DEF c, d
  <2> QED BY <2>1, <2>2
<1>6. ASSUME NEW k \in 1 .. Len(t)
      PROVE  t[k] = IF k < i THEN s[k] ELSE IF k = i THEN x ELSE
                    IF k = i + 1 THEN y ELSE s[k - 1]
  <2>1. j = i + 1 /\ k \in Nat /\ k >= 1 /\ k <= Len(s) + 1 /\ i \in Nat /\ i >= 1
        /\ i <= Len(s)
    BY <1>1, <1>5 DEF j
  <2>2. k + j - j - 1 = k - 1 BY <2>1
  <2>3. CASE k < j
    <3>1. t[k] = r[k] BY <1>5, <2>3
    <3>2. k \in 1 .. Len(s) BY <1>1, <2>1, <2>3
    <3> QED BY <1>1, <2>1, <2>3, <3>1, <3>2
  <2>4. CASE k = j
    <3>1. ~(k < j) BY <2>1, <2>4
    <3>2. t[k] = y BY <1>5, <2>4, <3>1
    <3> QED BY <2>1, <2>4, <3>2
  <2>5. CASE k > j
    <3>1. t[k] = r[k - 1]
      <4>1. ~(k < j) /\ k # j BY <2>1, <2>5
      <4> QED BY <1>5, <2>2, <4>1
    <3>2. k - 1 \in 1 .. Len(s) /\ k - 1 # i BY <1>1, <2>1, <2>5
    <3>3. r[k - 1] = s[k - 1] BY <1>1, <3>2
    <3> QED BY <2>1, <2>5, <3>1, <3>3
  <2> QED BY <2>1, <2>3, <2>4, <2>5
<1> QED BY <1>5, <1>6 DEF Doubled

-----------------------------------------------------------------------------
(* The invariant of the allocator.                                         *)

\* A head whose address and size are numbers.
Block == [addr : Nat, size : Nat, free : BOOLEAN]

\* Where the memory goes on behind address a.
After(a, gaps) ==
  IF \E r \in gaps : r.addr = a
  THEN a + (CHOOSE r \in gaps : r.addr = a).size
  ELSE a

\* The blocks and the gaps fill the zone, in the order of the list.
Tiles(list, gaps) ==
  /\ list \in Seq(Block)
  /\ Len(list) >= 1
  /\ list[1].addr = Start
  /\ EndOf(list[Len(list)]) = Start + Size
  /\ \A i \in 1 .. Len(list) - 1 :
       list[i + 1].addr = After(EndOf(list[i]), gaps)
  /\ \A i, j \in 1 .. Len(list) : i < j => EndOf(list[i]) <= list[j].addr

\* No two free blocks touch, but for the i-th one and its neighbours.
JoinedBut(list, i) ==
  \A k \in 1 .. Len(list) - 1 :
    EndOf(list[k]) = list[k + 1].addr /\ k # i /\ k + 1 # i =>
      ~(list[k].free /\ list[k + 1].free)

\* What the callers of Allocate have, by the list.
Given(h) == [addr |-> AvailStart(h), size |-> h.size]
UsedBlocks(list) == {Given(list[i]) : i \in {k \in 1 .. Len(list) : ~list[k].free}}

\* One range at most is set aside, between two blocks and with room for a head.
OneGap(list, gaps) ==
  \/ gaps = {}
  \/ \E r \in Reservable :
       /\ gaps = {r} /\ r.size >= Header
       /\ \E i \in 1 .. Len(list) - 1 : EndOf(list[i]) = r.addr

\* The invariant, which the operations of careful callers keep.
ListGood ==
  /\ Tiles(heads, reserved)
  /\ JoinedBut(heads, 0)
  /\ OneGap(heads, reserved)
  /\ granted = UsedBlocks(heads)
  /\ granted \subseteq [addr : Nat, size : Request]

\* The address and the end of a block are numbers.
LEMMA BlockEnds ==
  ASSUME NEW h \in Block
  PROVE  /\ h.addr \in Nat /\ h.size \in Nat /\ EndOf(h) \in Nat
         /\ AvailStart(h) \in Nat /\ AvailStart(h) = h.addr + Header
         /\ EndOf(h) = AvailStart(h) + h.size
         /\ h.addr < AvailStart(h) /\ h.addr < EndOf(h)
BY ZoneAssumption, SMT DEF Block, EndOf, AvailStart

\* All blocks lie in the zone.
LEMMA InZone ==
  ASSUME NEW list, NEW gaps, Tiles(list, gaps), NEW i \in 1 .. Len(list)
  PROVE  /\ list[i] \in Block
         /\ Start <= list[i].addr /\ EndOf(list[i]) <= Start + Size
<1>1. /\ list \in Seq(Block) /\ Len(list) \in Nat /\ Len(list) >= 1
      /\ \A k \in 1 .. Len(list) : list[k] \in Block
  BY DEF Tiles
<1>2. list[i] \in Block /\ list[1] \in Block /\ list[Len(list)] \in Block
  BY <1>1
<1>3. /\ list[i].addr \in Nat /\ EndOf(list[i]) \in Nat /\ list[i].addr < EndOf(list[i])
      /\ EndOf(list[1]) \in Nat /\ list[1].addr < EndOf(list[1])
      /\ list[Len(list)].addr \in Nat
      /\ list[Len(list)].addr < EndOf(list[Len(list)])
      /\ list[1].addr \in Nat /\ EndOf(list[Len(list)]) \in Nat
  BY <1>2, BlockEnds
<1>4. list[1].addr = Start /\ EndOf(list[Len(list)]) = Start + Size BY DEF Tiles
<1>5. Start <= list[i].addr
  <2>1. CASE i = 1 BY <1>3, <1>4, <2>1
  <2>2. CASE i # 1
    <3>1. 1 \in 1 .. Len(list) /\ 1 < i BY <1>1, <2>2
    <3>2. EndOf(list[1]) <= list[i].addr BY <3>1 DEF Tiles
    <3> QED BY <1>3, <1>4, <3>2, SMT
  <2> QED BY <2>1, <2>2
<1>6. EndOf(list[i]) <= Start + Size
  <2>1. CASE i = Len(list) BY <1>3, <1>4, <2>1
  <2>2. CASE i # Len(list)
    <3>1. Len(list) \in 1 .. Len(list) /\ i < Len(list) BY <1>1, <2>2
    <3>2. EndOf(list[i]) <= list[Len(list)].addr BY <3>1 DEF Tiles
    <3> QED BY <1>3, <1>4, <3>2, SMT
  <2> QED BY <2>1, <2>2
<1> QED BY <1>2, <1>5, <1>6

\* The k-th element of a list in which the i-th is x and y is behind it.
ElementOf(s, t, i, x, y, k) ==
  \/ k < i /\ k \in 1 .. Len(s) /\ t[k] = s[k]
  \/ k = i /\ t[k] = x
  \/ k = i + 1 /\ t[k] = y
  \/ k > i + 1 /\ k - 1 \in 1 .. Len(s) /\ t[k] = s[k - 1]

\* The elements of a doubled list are those.
LEMMA DoubledElements ==
  ASSUME NEW s, NEW t, NEW i, NEW x, NEW y, NEW k,
         Doubled(Block, s, t, i, x, y), s \in Seq(Block), i \in 1 .. Len(s),
         k \in 1 .. Len(t)
  PROVE  ElementOf(s, t, i, x, y, k)
<1>1. /\ Len(s) \in Nat /\ Len(t) = Len(s) + 1
      /\ t[k] = IF k < i THEN s[k] ELSE IF k = i THEN x ELSE
                IF k = i + 1 THEN y ELSE s[k - 1]
  BY DEF Doubled
<1> DEFINE n == Len(s)
<1>2. n \in Nat /\ i \in 1 .. n /\ k \in 1 .. n + 1 BY <1>1
<1> HIDE DEF n
<1>3. \/ k < i /\ k \in 1 .. n
      \/ k = i
      \/ k = i + 1 /\ k # i /\ ~(k < i)
      \/ k > i + 1 /\ k - 1 \in 1 .. n /\ k # i + 1 /\ k # i /\ ~(k < i)
  BY <1>2
<1> QED BY <1>1, <1>3 DEF n, ElementOf

\* Cutting a block, or filling the gap behind it, leaves the zone filled.
LEMMA DoubledTiles ==
  ASSUME NEW s, NEW t, NEW gaps, NEW gone, NEW i, NEW x, NEW y,
         Tiles(s, gone), Doubled(Block, s, t, i, x, y), i \in 1 .. Len(s),
         x \in Block, y \in Block,
         x.addr = s[i].addr, EndOf(x) <= y.addr, y.addr = After(EndOf(x), gaps),
         i = Len(s) => EndOf(y) = Start + Size,
         i < Len(s) => /\ s[i + 1].addr = After(EndOf(y), gaps)
                       /\ EndOf(y) <= s[i + 1].addr,
         \A k \in 1 .. Len(s) - 1 :
           k # i => s[k + 1].addr = After(EndOf(s[k]), gaps)
  PROVE  Tiles(t, gaps)
<1> DEFINE n == Len(s)
<1>1. /\ s \in Seq(Block) /\ n \in Nat /\ n >= 1 /\ t \in Seq(Block) /\ Len(t) = n + 1
      /\ \A k \in 1 .. n : s[k] \in Block
      /\ s[1].addr = Start /\ EndOf(s[n]) = Start + Size
      /\ \A k, l \in 1 .. n : k < l => EndOf(s[k]) <= s[l].addr
  BY DEF Tiles, Doubled
<1>2. ASSUME NEW k, k \in 1 .. n + 1
      PROVE  \/ k < i /\ k \in 1 .. n /\ t[k] = s[k]
             \/ k = i /\ t[k] = x
             \/ k = i + 1 /\ t[k] = y
             \/ k > i + 1 /\ k - 1 \in 1 .. n /\ t[k] = s[k - 1]
  <2>1. k \in 1 .. Len(t) /\ s \in Seq(Block) BY <1>1, <1>2
  <2>2. ElementOf(s, t, i, x, y, k) BY <2>1, DoubledElements
  <2> QED BY <2>2 DEF ElementOf
<1>3. i \in 1 .. n OBVIOUS
<1>4. /\ x.addr \in Nat /\ EndOf(x) \in Nat /\ y.addr \in Nat /\ EndOf(y) \in Nat
      /\ y.addr < EndOf(y) /\ x.addr < EndOf(x)
  BY BlockEnds
<1>5. \A k \in 1 .. n : s[k].addr \in Nat /\ EndOf(s[k]) \in Nat
                        /\ s[k].addr < EndOf(s[k])
  BY <1>1, BlockEnds
<1>6. i = n => EndOf(y) = Start + Size OBVIOUS
<1>7. i < n => s[i + 1].addr = After(EndOf(y), gaps) /\ EndOf(y) <= s[i + 1].addr
  OBVIOUS
<1> HIDE DEF n
<1>8. t[1].addr = Start
  <2>1. 1 \in 1 .. n + 1 BY <1>1
  <2>2. CASE i = 1
    <3>1. t[1] = x BY <1>2, <2>1, <2>2
    <3> QED BY <1>1, <2>2, <3>1
  <2>3. CASE i # 1
    <3>1. 1 < i BY <1>3, <2>3
    <3>2. t[1] = s[1] BY <1>2, <1>3, <2>1, <3>1
    <3> QED BY <1>1, <3>2
  <2> QED BY <2>2, <2>3
<1>9. EndOf(t[n + 1]) = Start + Size
  <2>1. n + 1 \in 1 .. n + 1 BY <1>1
  <2>2. CASE i = n
    <3>1. t[n + 1] = y BY <1>1, <1>2, <2>1, <2>2
    <3> QED BY <1>6, <2>2, <3>1
  <2>3. CASE i # n
    <3>1. n + 1 > i + 1 /\ (n + 1) - 1 = n BY <1>1, <1>3, <2>3
    <3>2. t[n + 1] = s[n] BY <1>1, <1>2, <1>3, <2>1, <3>1
    <3> QED BY <1>1, <3>2
  <2> QED BY <2>2, <2>3
<1>10. ASSUME NEW k, k \in 1 .. n
       PROVE  t[k + 1].addr = After(EndOf(t[k]), gaps)
  <2> DEFINE l == k + 1
  <2>1. /\ k \in 1 .. n + 1 /\ l \in 1 .. n + 1 /\ l = k + 1 /\ l - 1 = k
        /\ k \in Int /\ i \in Int /\ n \in Int
    BY <1>1, <1>3, <1>10
  <2> HIDE DEF l
  <2>2. \/ k < i /\ t[k] = s[k]
        \/ k = i /\ t[k] = x
        \/ k = i + 1 /\ t[k] = y
        \/ k > i + 1 /\ k - 1 \in 1 .. n /\ t[k] = s[k - 1]
    BY <1>2, <2>1
  <2>3. \/ l < i /\ t[l] = s[l]
        \/ l = i /\ t[l] = x
        \/ l = i + 1 /\ t[l] = y
        \/ l > i + 1 /\ t[l] = s[k]
    BY <1>2, <2>1
  <2>4. CASE l < i
    <3>1. t[k] = s[k] /\ t[l] = s[l] BY <2>1, <2>2, <2>3, <2>4
    <3>2. k \in 1 .. n - 1 /\ k # i BY <1>3, <1>10, <2>1, <2>4
    <3>3. s[l].addr = After(EndOf(s[k]), gaps) BY <2>1, <3>2 DEF n
    <3> QED BY <2>1, <3>1, <3>3
  <2>5. CASE l = i
    <3>1. t[k] = s[k] /\ t[l] = x BY <2>1, <2>2, <2>3, <2>5
    <3>2. k \in 1 .. n - 1 /\ k # i BY <1>3, <1>10, <2>1, <2>5
    <3>3. s[l].addr = After(EndOf(s[k]), gaps) BY <2>1, <3>2 DEF n
    <3> QED BY <2>1, <2>5, <3>1, <3>3
  <2>6. CASE k = i
    <3>1. t[k] = x /\ t[l] = y BY <2>1, <2>2, <2>3, <2>6
    <3> QED BY <2>1, <3>1
  <2>7. CASE k = i + 1
    <3>1. t[k] = y /\ t[l] = s[k] /\ i < n BY <1>10, <2>1, <2>2, <2>3, <2>7
    <3> QED BY <1>7, <2>1, <2>7, <3>1
  <2>8. CASE k > i + 1
    <3>1. t[k] = s[k - 1] /\ t[l] = s[k] BY <2>1, <2>2, <2>3, <2>8
    <3>2. k - 1 \in 1 .. n - 1 /\ k - 1 # i /\ (k - 1) + 1 = k
      BY <1>3, <1>10, <2>1, <2>8
    <3>3. s[(k - 1) + 1].addr = After(EndOf(s[k - 1]), gaps) BY <3>2 DEF n
    <3> QED BY <2>1, <3>1, <3>2, <3>3
  <2>9. t[l].addr = After(EndOf(t[k]), gaps)
    BY <2>1, <2>4, <2>5, <2>6, <2>7, <2>8
  <2> QED BY <2>1, <2>9
<1>11. ASSUME NEW k, NEW l, k \in 1 .. n + 1, l \in 1 .. n + 1, k < l
       PROVE  EndOf(t[k]) <= t[l].addr
  <2>1. k \in Int /\ l \in Int /\ i \in Int BY <1>1, <1>3, <1>11
  <2>2. CASE k < i
    <3>1. t[k] = s[k] /\ k \in 1 .. n BY <1>2, <1>11, <2>1, <2>2
    <3>2. CASE l < i
      <4>1. t[l] = s[l] /\ l \in 1 .. n BY <1>2, <1>11, <2>1, <3>2
      <4> QED BY <1>1, <1>11, <3>1, <4>1
    <3>3. CASE l = i
      <4>1. t[l] = x BY <1>2, <1>11, <2>1, <3>3
      <4> QED BY <1>1, <1>3, <2>2, <3>1, <4>1
    <3>4. CASE l = i + 1
      <4>1. t[l] = y BY <1>2, <1>11, <2>1, <3>4
      <4>2. EndOf(s[k]) <= s[i].addr BY <1>1, <1>3, <2>2, <3>1
      <4>3. x.addr < EndOf(x) /\ EndOf(x) <= y.addr /\ s[i].addr = x.addr BY <1>4
      <4>4. EndOf(s[k]) \in Nat BY <1>5, <3>1
      <4> QED BY <1>4, <3>1, <4>1, <4>2, <4>3, <4>4
    <3>5. CASE l > i + 1
      <4>1. t[l] = s[l - 1] /\ l - 1 \in 1 .. n /\ k < l - 1
        BY <1>2, <1>11, <2>1, <2>2, <3>5
      <4> QED BY <1>1, <3>1, <4>1
    <3> QED BY <2>1, <3>2, <3>3, <3>4, <3>5
  <2>3. ASSUME NEW j, j \in 1 .. n, j > i
        PROVE  EndOf(y) <= s[j].addr
    <3>1. i < n /\ i + 1 \in 1 .. n BY <1>1, <1>3, <2>3
    <3>2. EndOf(y) <= s[i + 1].addr BY <1>7, <3>1
    <3>3. CASE j = i + 1 BY <3>2, <3>3
    <3>4. CASE j # i + 1
      <4>1. i + 1 < j BY <1>3, <2>3, <3>4
      <4>2. EndOf(s[i + 1]) <= s[j].addr BY <1>1, <2>3, <3>1, <4>1
      <4>3. s[i + 1].addr < EndOf(s[i + 1]) /\ s[i + 1].addr \in Nat
            /\ EndOf(s[i + 1]) \in Nat /\ s[j].addr \in Nat
        BY <1>5, <2>3, <3>1
      <4> QED BY <1>4, <3>2, <4>2, <4>3
    <3> QED BY <3>3, <3>4
  <2>4. CASE k = i
    <3>1. t[k] = x BY <1>2, <1>11, <2>1, <2>4
    <3>2. CASE l = i + 1
      <4>1. t[l] = y BY <1>2, <1>11, <2>1, <3>2
      <4> QED BY <3>1, <4>1
    <3>3. CASE l > i + 1
      <4>1. t[l] = s[l - 1] /\ l - 1 \in 1 .. n /\ l - 1 > i
        BY <1>2, <1>11, <2>1, <3>3
      <4>2. EndOf(y) <= s[l - 1].addr /\ s[l - 1].addr \in Nat BY <1>5, <2>3, <4>1
      <4>3. EndOf(x) <= y.addr OBVIOUS
      <4> QED BY <1>4, <3>1, <4>1, <4>2, <4>3
    <3> QED BY <1>11, <2>1, <2>4, <3>2, <3>3
  <2>5. CASE k = i + 1
    <3>1. t[k] = y BY <1>2, <1>11, <2>1, <2>5
    <3>2. t[l] = s[l - 1] /\ l - 1 \in 1 .. n /\ l - 1 > i
      BY <1>2, <1>11, <2>1, <2>5
    <3> QED BY <2>3, <3>1, <3>2
  <2>6. CASE k > i + 1
    <3>1. t[k] = s[k - 1] /\ k - 1 \in 1 .. n BY <1>2, <1>11, <2>1, <2>6
    <3>2. t[l] = s[l - 1] /\ l - 1 \in 1 .. n /\ k - 1 < l - 1
      BY <1>2, <1>11, <2>1, <2>6
    <3> QED BY <1>1, <3>1, <3>2
  <2> QED BY <2>1, <2>2, <2>4, <2>5, <2>6
<1>12. (n + 1) - 1 = n /\ n + 1 >= 1 BY <1>1
<1> QED BY <1>1, <1>8, <1>9, <1>10, <1>11, <1>12 DEF Tiles

\* The rest of a small number is the number.
LEMMA SmallRest ==
  ASSUME NEW x \in Nat, x < Word
  PROVE  x % Word = x
<1> DEFINE q == x \div Word
           r == x % Word
<1>1. Word \in Nat \ {0} BY ZoneAssumption
<1>2. x = Word * q + r /\ r \in 0 .. Word - 1 /\ q \in Nat BY <1>1, SMT
<1> HIDE DEF q, r
<1>3. q = 0
  <2> SUFFICES ASSUME q # 0 PROVE FALSE OBVIOUS
  <2>1. q - 1 \in Nat /\ q = (q - 1) + 1 BY <1>2
  <2>2. Word * q = Word * (q - 1) + Word /\ Word * (q - 1) \in Nat
    BY <1>1, <2>1, SMT
  <2> DEFINE p == Word * (q - 1)
  <2>3. x = p + Word + r /\ p \in Nat /\ r \in Nat BY <1>2, <2>2
  <2> HIDE DEF p
  <2> QED BY <1>1, <2>3
<1>4. x = r BY <1>1, <1>2, <1>3, SMT
<1> QED BY <1>4 DEF r

\* In a block that ends below Word nothing wraps around.
LEMMA NoWrap ==
  ASSUME NEW h \in Block, EndOf(h) < Word,
         NEW a \in Nat, AvailStart(h) <= a, a <= EndOf(h)
  PROVE  /\ AvailEnd(h) = EndOf(h)
         /\ a % Word = a
         /\ Minus(AvailEnd(h), a) = EndOf(h) - a
         /\ Minus(a, AvailStart(h)) = a - AvailStart(h)
<1>1. /\ EndOf(h) \in Nat /\ AvailStart(h) \in Nat /\ h.size \in Nat
      /\ EndOf(h) = AvailStart(h) + h.size
  BY BlockEnds
<1>2. Word \in Nat BY ZoneAssumption
<1>3. /\ EndOf(h) - a \in Nat /\ EndOf(h) - a < Word /\ a < Word
      /\ a - AvailStart(h) \in Nat /\ a - AvailStart(h) < Word
  BY <1>1, <1>2
<1>4. AvailEnd(h) = EndOf(h) BY <1>1, SmallRest DEF AvailEnd
<1> QED BY <1>3, <1>4, SmallRest DEF Minus

\* The addresses and the ends of blocks ascend.
LEMMA Ascend ==
  ASSUME NEW s, NEW gaps, Tiles(s, gaps), NEW i \in 1 .. Len(s), NEW j \in 1 .. Len(s),
         i < j
  PROVE  /\ s[i].addr < s[j].addr /\ EndOf(s[i]) < EndOf(s[j])
         /\ EndOf(s[i]) <= s[j].addr
<1>1. s[i] \in Block /\ s[j] \in Block /\ EndOf(s[i]) <= s[j].addr BY DEF Tiles
<1>2. /\ s[i].addr \in Nat /\ EndOf(s[i]) \in Nat /\ s[i].addr < EndOf(s[i])
      /\ s[j].addr \in Nat /\ EndOf(s[j]) \in Nat /\ s[j].addr < EndOf(s[j])
  BY <1>1, BlockEnds
<1> QED BY <1>1, <1>2

\* Two blocks with the same address or the same end are one.
LEMMA SameBlock ==
  ASSUME NEW s, NEW gaps, Tiles(s, gaps), NEW i \in 1 .. Len(s), NEW j \in 1 .. Len(s),
         s[i].addr = s[j].addr \/ EndOf(s[i]) = EndOf(s[j])
  PROVE  i = j
<1>1. i \in Nat /\ j \in Nat /\ s[i] \in Block /\ s[j] \in Block /\ Len(s) \in Nat
  BY DEF Tiles
<1>2. s[i].addr \in Nat /\ s[j].addr \in Nat /\ EndOf(s[i]) \in Nat /\ EndOf(s[j]) \in Nat
  BY <1>1, BlockEnds
<1>3. CASE i < j
  <2>1. s[i].addr < s[j].addr /\ EndOf(s[i]) < EndOf(s[j]) BY <1>3, Ascend
  <2> QED BY <1>2, <2>1
<1>4. CASE j < i
  <2>1. s[j].addr < s[i].addr /\ EndOf(s[j]) < EndOf(s[i]) BY <1>4, Ascend
  <2> QED BY <1>2, <2>1
<1> QED BY <1>1, <1>3, <1>4

\* No block ends inside another one.
LEMMA EndsOutside ==
  ASSUME NEW s, NEW gaps, Tiles(s, gaps), NEW i \in 1 .. Len(s), NEW j \in 1 .. Len(s),
         NEW a \in Nat, s[i].addr < a, a < EndOf(s[i])
  PROVE  EndOf(s[j]) # a
<1>1. Len(s) \in Nat /\ i \in Nat /\ j \in Nat /\ s[i] \in Block /\ s[j] \in Block
  BY DEF Tiles
<1>2. /\ s[i].addr \in Nat /\ EndOf(s[i]) \in Nat
      /\ s[j].addr \in Nat /\ EndOf(s[j]) \in Nat
  BY <1>1, BlockEnds
<1>3. CASE j = i BY <1>2, <1>3
<1>4. CASE j < i
  <2>1. EndOf(s[j]) <= s[i].addr BY <1>4, Ascend
  <2> QED BY <1>2, <2>1
<1>5. CASE i < j
  <2>1. EndOf(s[i]) < EndOf(s[j]) BY <1>5, Ascend
  <2> QED BY <1>2, <2>1
<1> QED BY <1>1, <1>3, <1>4, <1>5

\* No gap starts inside a block.
LEMMA NoGapInside ==
  ASSUME NEW s, NEW gaps, Tiles(s, gaps), OneGap(s, gaps), NEW i \in 1 .. Len(s),
         NEW a \in Nat, s[i].addr < a, a < EndOf(s[i])
  PROVE  After(a, gaps) = a
<1>1. CASE gaps = {} BY <1>1 DEF After
<1>2. CASE gaps # {}
  <2>1. PICK r \in Reservable :
          gaps = {r} /\ \E j \in 1 .. Len(s) - 1 : EndOf(s[j]) = r.addr
    BY <1>2 DEF OneGap
  <2>2. PICK j \in 1 .. Len(s) - 1 : EndOf(s[j]) = r.addr BY <2>1
  <2>3. j \in 1 .. Len(s) BY DEF Tiles
  <2>4. EndOf(s[j]) # a BY <2>3, EndsOutside
  <2>5. ~\E g \in gaps : g.addr = a BY <2>1, <2>2, <2>4
  <2> QED BY <2>5 DEF After
<1> QED BY <1>1, <1>2

\* The callers of Allocate have what they had, and the block that is cut if it is
\* used now.
LEMMA DoubledUsed ==
  ASSUME NEW s, NEW t, NEW i, NEW x, NEW y,
         s \in Seq(Block), Doubled(Block, s, t, i, x, y), i \in 1 .. Len(s),
         y.free, s[i].free \/ x = s[i]
  PROVE  UsedBlocks(t) = UsedBlocks(s) \union {Given(h) : h \in {g \in {x} : ~g.free}}
<1> DEFINE n == Len(s)
<1>1. n \in Nat /\ Len(t) = n + 1 /\ i \in 1 .. n BY DEF Doubled
<1>2. ASSUME NEW k, k \in 1 .. n + 1
      PROVE  \/ k < i /\ k \in 1 .. n /\ t[k] = s[k]
             \/ k = i /\ t[k] = x
             \/ k = i + 1 /\ t[k] = y
             \/ k > i + 1 /\ k - 1 \in 1 .. n /\ t[k] = s[k - 1]
  <2>1. k \in 1 .. Len(t) BY <1>1, <1>2
  <2>2. ElementOf(s, t, i, x, y, k) BY <2>1, DoubledElements
  <2> QED BY <2>2 DEF ElementOf
<1> HIDE DEF n
<1>3. ASSUME NEW k, k \in 1 .. n + 1, ~t[k].free
      PROVE  Given(t[k]) \in UsedBlocks(s) \union {Given(h) : h \in {g \in {x} : ~g.free}}
  <2>1. CASE \E j \in 1 .. n : t[k] = s[j] BY <1>3, <2>1 DEF UsedBlocks, n
  <2>2. CASE t[k] = x BY <1>3, <2>2
  <2>3. t[k] # y BY <1>3
  <2> QED BY <1>2, <1>3, <2>1, <2>2, <2>3
<1>4. ASSUME NEW j, j \in 1 .. n, ~s[j].free
      PROVE  Given(s[j]) \in UsedBlocks(t)
  <2>1. CASE j < i
    <3>1. j \in 1 .. n + 1 BY <1>1, <1>4
    <3>2. t[j] = s[j] BY <1>1, <1>2, <1>4, <2>1, <3>1
    <3> QED BY <1>1, <1>4, <3>1, <3>2 DEF UsedBlocks
  <2>2. CASE j = i
    <3>1. i \in 1 .. n + 1 /\ s[i] = x BY <1>1, <1>4, <2>2
    <3>2. t[i] = x BY <1>1, <1>2, <3>1
    <3> QED BY <1>1, <1>4, <2>2, <3>1, <3>2 DEF UsedBlocks
  <2>3. CASE j > i
    <3> DEFINE k == j + 1
    <3>1. k \in 1 .. n + 1 /\ k - 1 = j /\ k > i + 1 /\ k \in Int /\ i \in Int
      BY <1>1, <1>4, <2>3
    <3> HIDE DEF k
    <3>2. t[k] = s[j] BY <1>2, <3>1
    <3> QED BY <1>1, <1>4, <3>1, <3>2 DEF UsedBlocks
  <2> QED BY <1>1, <1>4, <2>1, <2>2, <2>3
<1>5. ASSUME ~x.free PROVE Given(x) \in UsedBlocks(t)
  <2>1. i \in 1 .. n + 1 BY <1>1
  <2>2. t[i] = x BY <1>1, <1>2, <2>1
  <2> QED BY <1>1, <1>5, <2>1, <2>2 DEF UsedBlocks
<1>6. UsedBlocks(t)
        \subseteq UsedBlocks(s) \union {Given(h) : h \in {g \in {x} : ~g.free}}
  BY <1>1, <1>3 DEF UsedBlocks
<1>7. UsedBlocks(s) \subseteq UsedBlocks(t) BY <1>4 DEF UsedBlocks, n
<1> QED BY <1>5, <1>6, <1>7

\* A range that was set aside still starts behind a block.
LEMMA GapStays ==
  ASSUME NEW s, NEW t, NEW gaps, NEW i, NEW x, NEW y,
         s \in Seq(Block), Doubled(Block, s, t, i, x, y), i \in 1 .. Len(s),
         EndOf(y) = EndOf(s[i]), OneGap(s, gaps)
  PROVE  OneGap(t, gaps)
<1>1. CASE gaps = {} BY <1>1 DEF OneGap
<1>2. CASE gaps # {}
  <2>1. PICK r \in Reservable :
          /\ gaps = {r} /\ r.size >= Header
          /\ \E j \in 1 .. Len(s) - 1 : EndOf(s[j]) = r.addr
    BY <1>2 DEF OneGap
  <2>2. PICK j \in 1 .. Len(s) - 1 : EndOf(s[j]) = r.addr BY <2>1
  <2> DEFINE n == Len(s)
             k == IF j < i THEN j ELSE j + 1
  <2>3. n \in Nat /\ Len(t) = n + 1 BY DEF Doubled
  <2>4. k \in 1 .. n /\ k \in 1 .. n + 1 /\ i \in Int /\ j \in Int
        /\ \/ k < i /\ k = j
           \/ k = i + 1 /\ j = i
           \/ k > i + 1 /\ k - 1 = j
    BY <2>3
  <2> HIDE DEF n, k
  <2>5. ElementOf(s, t, i, x, y, k)
    <3> k \in 1 .. Len(t) BY <2>3, <2>4
    <3> QED BY DoubledElements
  <2>6. t[k] = s[j] \/ (t[k] = y /\ j = i)
    <3>1. k \in Int BY <2>3, <2>4
    <3>2. CASE k < i /\ k = j BY <2>4, <2>5, <3>1, <3>2 DEF ElementOf
    <3>3. CASE k = i + 1 /\ j = i BY <2>4, <2>5, <3>1, <3>3 DEF ElementOf
    <3>4. CASE k > i + 1 /\ k - 1 = j
      <4>1. t[k] = s[k - 1] BY <2>4, <2>5, <3>1, <3>4 DEF ElementOf
      <4> QED BY <3>4, <4>1
    <3> QED BY <2>4, <3>2, <3>3, <3>4
  <2>7. EndOf(t[k]) = r.addr BY <2>2, <2>6
  <2>8. k \in 1 .. Len(t) - 1 BY <2>3, <2>4
  <2> QED BY <2>1, <2>7, <2>8 DEF OneGap
<1> QED BY <1>1, <1>2

\* Cutting a block makes no two free ones that touch.
LEMMA DoubledJoined ==
  ASSUME NEW s, NEW t, NEW i, NEW x, NEW y, NEW b,
         s \in Seq(Block), Doubled(Block, s, t, i, x, y), i \in 1 .. Len(s),
         JoinedBut(s, 0), x.addr = s[i].addr, x.free => s[i].free,
         b = i + 1 \/ (s[i].free /\ EndOf(y) = EndOf(s[i])),
         b = i + 1 \/ ~x.free \/ EndOf(x) # y.addr
  PROVE  JoinedBut(t, b)
<1> DEFINE n == Len(s)
<1>1. n \in Nat /\ Len(t) = n + 1 /\ i \in 1 .. n BY DEF Doubled
<1>2. ASSUME NEW k, k \in 1 .. n + 1 PROVE ElementOf(s, t, i, x, y, k)
  <2> k \in 1 .. Len(t) BY <1>1, <1>2
  <2> QED BY DoubledElements
<1> HIDE DEF n
<1>3. ASSUME NEW j, NEW l, j \in 1 .. n, l \in 1 .. n, l = j + 1,
             EndOf(s[j]) = s[l].addr
      PROVE  ~(s[j].free /\ s[l].free)
  <2>1. j \in 1 .. n - 1 /\ j # 0 /\ j + 1 # 0 BY <1>1, <1>3
  <2> QED BY <1>3, <2>1 DEF JoinedBut, n
<1>4. ASSUME NEW k, NEW l, k \in 1 .. n, l = k + 1, EndOf(t[k]) = t[l].addr,
             k # b, l # b
      PROVE  ~(t[k].free /\ t[l].free)
  <2>1. /\ k \in 1 .. n + 1 /\ l \in 1 .. n + 1 /\ k \in Int /\ l \in Int
        /\ i \in Int /\ n \in Int
    BY <1>1, <1>4
  <2>2. ElementOf(s, t, i, x, y, k) /\ ElementOf(s, t, i, x, y, l) BY <1>2, <2>1
  <2>3. CASE l < i
    <3>1. t[k] = s[k] /\ t[l] = s[l] /\ l \in 1 .. n
      BY <1>1, <1>4, <2>1, <2>2, <2>3 DEF ElementOf, n
    <3> QED BY <1>3, <1>4, <3>1
  <2>4. CASE l = i
    <3>1. t[k] = s[k] /\ t[l] = x /\ l \in 1 .. n
      BY <1>1, <1>4, <2>1, <2>2, <2>4 DEF ElementOf, n
    <3>2. EndOf(s[k]) = s[l].addr BY <1>4, <2>4, <3>1
    <3> QED BY <1>3, <1>4, <2>4, <3>1, <3>2
  <2>5. CASE k = i
    <3>1. t[k] = x /\ t[l] = y BY <1>4, <2>1, <2>2, <2>5 DEF ElementOf
    <3> QED BY <1>4, <2>5, <3>1
  <2>6. CASE k = i + 1
    <3>1. t[k] = y /\ t[l] = s[k] BY <1>4, <2>1, <2>2, <2>6 DEF ElementOf
    <3>2. s[i].free /\ EndOf(y) = EndOf(s[i]) BY <1>4, <2>6
    <3>3. EndOf(s[i]) = s[k].addr BY <1>4, <3>1, <3>2
    <3>4. ~(s[i].free /\ s[k].free) BY <1>1, <1>3, <1>4, <2>6, <3>3
    <3> QED BY <3>1, <3>2, <3>4
  <2>7. CASE k > i + 1
    <3> DEFINE j == k - 1
    <3>1. k = j + 1 /\ j \in 1 .. n /\ l - 1 = k BY <1>1, <1>4, <2>1, <2>7
    <3> HIDE DEF j
    <3>2. t[k] = s[j] /\ t[l] = s[k]
      BY <1>4, <2>1, <2>2, <2>7, <3>1 DEF ElementOf, j
    <3> QED BY <1>3, <1>4, <3>1, <3>2
  <2> QED BY <1>4, <2>1, <2>3, <2>4, <2>5, <2>6, <2>7
<1>5. ASSUME NEW k, k \in 1 .. Len(t) - 1, EndOf(t[k]) = t[k + 1].addr,
             k # b, k + 1 # b
      PROVE  ~(t[k].free /\ t[k + 1].free)
  <2>1. k \in 1 .. n BY <1>1, <1>5
  <2> QED BY <1>4, <1>5, <2>1
<1> QED BY <1>5 DEF JoinedBut

\* Ranges inside a block meet nothing that other blocks hold and no gap.
LEMMA RangeApart ==
  ASSUME NEW s, NEW gaps, Tiles(s, gaps), OneGap(s, gaps), NEW i \in 1 .. Len(s),
         s[i].free, NEW r, r.addr \in Nat, r.size \in Nat,
         s[i].addr < r.addr, r.addr + r.size <= EndOf(s[i])
  PROVE  \A u \in UsedBlocks(s) \union gaps : ~Heap!Overlap(r, u)
<1>1. /\ Len(s) \in Nat /\ s[i] \in Block /\ i \in Nat
      /\ \A j \in 1 .. Len(s) : s[j] \in Block
  BY DEF Tiles
<1>2. s[i].addr \in Nat /\ EndOf(s[i]) \in Nat BY <1>1, BlockEnds
<1>3. ASSUME NEW j \in 1 .. Len(s), ~s[j].free PROVE ~Heap!Overlap(r, Given(s[j]))
  <2>1. /\ s[j].addr \in Nat /\ EndOf(s[j]) \in Nat /\ s[j].size \in Nat
        /\ AvailStart(s[j]) \in Nat /\ s[j].addr < AvailStart(s[j])
        /\ EndOf(s[j]) = AvailStart(s[j]) + s[j].size
    BY <1>1, BlockEnds
  <2>2. Given(s[j]).addr = AvailStart(s[j]) /\ Given(s[j]).size = s[j].size
    BY DEF Given
  <2>3. CASE j < i
    <3>1. EndOf(s[j]) <= s[i].addr BY <2>3 DEF Tiles
    <3> QED BY <1>2, <2>1, <2>2, <3>1 DEF Heap!Overlap
  <2>4. CASE i < j
    <3>1. EndOf(s[i]) <= s[j].addr BY <2>4 DEF Tiles
    <3> QED BY <1>2, <2>1, <2>2, <3>1 DEF Heap!Overlap
  <2>5. j # i /\ j \in Nat BY <1>3
  <2> QED BY <1>1, <2>3, <2>4, <2>5
<1>4. ASSUME NEW u \in gaps PROVE ~Heap!Overlap(r, u)
  <2>1. PICK g \in Reservable :
          /\ gaps = {g} /\ g.size >= Header
          /\ \E j \in 1 .. Len(s) - 1 : EndOf(s[j]) = g.addr
    BY <1>4 DEF OneGap
  <2>2. PICK j \in 1 .. Len(s) - 1 : EndOf(s[j]) = g.addr BY <2>1
  <2> DEFINE l == j + 1
  <2>3. u = g /\ g.addr \in Nat /\ g.size \in Nat BY <1>4, <2>1, ZoneAssumption
  <2>4. j \in 1 .. Len(s) /\ l \in 1 .. Len(s) /\ j \in Nat /\ l = j + 1 BY <1>1
  <2>5. s[l].addr = g.addr + g.size
    <3>1. s[l].addr = After(g.addr, gaps) BY <2>2 DEF Tiles
    <3> QED BY <2>1, <3>1 DEF After
  <2> HIDE DEF l
  <2>6. s[j].addr \in Nat /\ EndOf(s[j]) \in Nat /\ s[l].addr \in Nat
    BY <1>1, <2>4, BlockEnds
  <2>7. CASE i <= j
    <3>1. i = j \/ EndOf(s[i]) <= s[j].addr BY <1>1, <2>4, <2>7 DEF Tiles
    <3>2. s[j].addr < EndOf(s[j]) BY <1>1, <2>4, BlockEnds
    <3>3. EndOf(s[i]) <= g.addr BY <1>2, <2>2, <2>6, <3>1, <3>2
    <3> QED BY <1>2, <2>3, <3>3 DEF Heap!Overlap
  <2>8. CASE i > j
    <3>1. i = l \/ EndOf(s[l]) <= s[i].addr BY <1>1, <2>4, <2>8 DEF Tiles
    <3>2. s[l].addr < EndOf(s[l]) /\ EndOf(s[l]) \in Nat BY <1>1, <2>4, BlockEnds
    <3>3. g.addr + g.size <= s[i].addr BY <1>2, <2>5, <2>6, <3>1, <3>2
    <3> QED BY <1>2, <2>3, <3>3 DEF Heap!Overlap
  <2> QED BY <1>1, <2>4, <2>7, <2>8
<1> QED BY <1>3, <1>4 DEF UsedBlocks

-----------------------------------------------------------------------------
(* What the operations make of the list.                                   *)

\* GetHeadFromAddress finds the block that holds the address behind its start.
LEMMA HeadIsFirst ==
  ASSUME NEW gaps, Tiles(heads, gaps), NEW i \in 1 .. Len(heads),
         NEW a \in Nat, NEW n \in Nat, Holds(heads[i], a, n),
         heads[i].addr < a + n
  PROVE  HeadOf(a, n) = i
<1> DEFINE First(j) == /\ Holds(heads[j], a, n)
                       /\ \A k \in 1 .. j - 1 : ~Holds(heads[k], a, n)
<1>1. /\ Len(heads) \in Nat /\ DOMAIN heads = 1 .. Len(heads)
      /\ \A j \in 1 .. Len(heads) : heads[j] \in Block
  BY DEF Tiles
<1>2. heads[i].addr \in Nat BY <1>1, BlockEnds
<1>3. ASSUME NEW j \in 1 .. i - 1 PROVE ~Holds(heads[j], a, n)
  <2>1. j \in 1 .. Len(heads) /\ j < i BY <1>1
  <2>2. EndOf(heads[j]) <= heads[i].addr BY <2>1 DEF Tiles
  <2>3. EndOf(heads[j]) \in Nat BY <1>1, <2>1, BlockEnds
  <2>4. ~(a + n <= EndOf(heads[j])) BY <1>2, <2>2, <2>3
  <2>5. heads[j].addr \in Nat /\ heads[j].size \in Nat BY <1>1, <2>1, BlockEnds
  <2>6. EndOf(heads[j]) = heads[j].addr + heads[j].size + Header
    BY <2>5, ZoneAssumption DEF EndOf
  <2> QED BY <2>4, <2>6 DEF Holds
<1>4. First(i) BY <1>3
<1>5. ASSUME NEW j \in 1 .. Len(heads), First(j) PROVE j = i
  <2>1. CASE j < i
    <3>1. j \in 1 .. i - 1 BY <1>1, <2>1
    <3> QED BY <1>3, <1>5, <3>1
  <2>2. CASE i < j
    <3>1. i \in 1 .. j - 1 BY <1>1, <2>2
    <3> QED BY <1>5, <3>1
  <2> QED BY <1>1, <2>1, <2>2
<1>6. HeadOf(a, n) = CHOOSE j \in 1 .. Len(heads) : First(j) BY <1>1 DEF HeadOf
<1> HIDE DEF First
<1> QED BY <1>4, <1>5, <1>6

\* The zone ends before Word.
LEMMA BlocksEnd ==
  ASSUME NEW s, NEW gaps, Tiles(s, gaps), NEW i \in 1 .. Len(s)
  PROVE  s[i] \in Block /\ EndOf(s[i]) < Word
<1>1. s[i] \in Block /\ EndOf(s[i]) <= Start + Size BY InZone
<1> QED BY <1>1, BlockEnds, ZoneAssumption

\* A range between the ends of the zone is one that the zone can give.
LEMMA ZoneRanges ==
  ASSUME NEW r, r \in [addr : Nat, size : Nat], r.size >= 1,
         Start <= r.addr, r.addr + r.size <= Start + Size
  PROVE  r \in Heap!Ranges
<1> DEFINE a == r.addr
           n == r.size
           A == Start .. (Start + Size) - 1
           B == 1 .. (Start + Size) - Start
<1>1. a \in Nat /\ n \in Nat /\ r = [addr |-> a, size |-> n] /\ n >= 1
      /\ Start <= a /\ a + n <= Start + Size
  OBVIOUS
<1>2. Start \in Nat /\ Size \in Nat BY ZoneAssumption
<1> HIDE DEF a, n
<1>3. a \in A /\ n \in B BY <1>1, <1>2
<1> HIDE DEF A, B
<1>4. r \in [addr : A, size : B] BY <1>1, <1>3
<1>5. r.addr + r.size <= Start + Size BY <1>1 DEF a, n
<1> QED BY <1>4, <1>5, Zenon DEF Heap!Ranges, A, B

\* So is a range that starts behind a head.
LEMMA RangeInZone ==
  ASSUME NEW s, NEW gaps, Tiles(s, gaps), NEW i \in 1 .. Len(s),
         NEW r, r \in [addr : Nat, size : Nat], r.size >= 1,
         s[i].addr < r.addr, r.addr + r.size <= EndOf(s[i])
  PROVE  r \in Heap!Ranges
<1> DEFINE a == r.addr
           n == r.size
           b == s[i].addr
           e == EndOf(s[i])
<1>1. s[i] \in Block /\ Start <= b /\ e <= Start + Size BY InZone
<1>2. b \in Nat /\ e \in Nat BY <1>1, BlockEnds
<1>3. a \in Nat /\ n \in Nat /\ b < a /\ a + n <= e OBVIOUS
<1>4. Start \in Nat /\ Size \in Nat BY ZoneAssumption
<1> HIDE DEF a, n, b, e
<1>5. Start <= a /\ a + n <= Start + Size BY <1>1, <1>2, <1>3, <1>4
<1> QED BY <1>5, ZoneRanges DEF a, n

\* Allocate cuts the first block that is large enough, and grants a range that
\* is inside it.
LEMMA AllocateKeeps ==
  ASSUME ListGood, NEW n \in Request, NEW al \in Align \intersect {0}, Allocate(n, al)
  PROVE  ListGood' /\ \E r \in Heap!Ranges : Heap!Grant(r)
<1>1. /\ Tiles(heads, reserved) /\ JoinedBut(heads, 0) /\ OneGap(heads, reserved)
      /\ granted = UsedBlocks(heads) /\ granted \subseteq [addr : Nat, size : Request]
  BY DEF ListGood
<1>2. PICK i \in DOMAIN heads :
        LET a == AlignUp(AvailStart(heads[i]), al) IN
        /\ Fits(heads[i], n, al)
        /\ heads' = Cut(i, a, n)
        /\ granted' = granted \union {[addr |-> a, size |-> n]}
        /\ reserved' = reserved
  BY DEF Allocate
<1> DEFINE h == heads[i]
           a == AvailStart(h)
           x == [h EXCEPT !.size = n, !.free = FALSE]
           y == [addr |-> a + n, size |-> EndOf(h) - (a + n + Header), free |-> TRUE]
           new == [addr |-> a, size |-> n]
<1>3. /\ heads \in Seq(Block) /\ i \in 1 .. Len(heads) /\ h \in Block
      /\ Len(heads) \in Nat
  BY <1>1, <1>2 DEF Tiles
<1>4. EndOf(h) < Word BY <1>1, <1>3, BlocksEnd
<1>5. /\ h.addr \in Nat /\ h.size \in Nat /\ EndOf(h) \in Nat /\ a \in Nat
      /\ a = h.addr + Header /\ EndOf(h) = a + h.size /\ h.addr < a
  BY <1>3, BlockEnds
<1>6. n \in Nat /\ n >= 1 /\ Header \in Nat /\ Header > 1 /\ Word \in Nat
  BY ZoneAssumption
<1>7. AlignUp(AvailStart(h), al) = a BY DEF AlignUp
<1>8. h.free /\ h.size >= n + Header
  <2>1. h.free /\ Minus(AvailEnd(h), a) >= n + Header BY <1>2, <1>7 DEF Fits
  <2>2. Minus(AvailEnd(h), a) = EndOf(h) - a
    <3> HIDE DEF h, a
    <3>1. AvailStart(h) <= a /\ a <= EndOf(h) BY <1>5 DEF a
    <3> QED BY <1>3, <1>4, <1>5, <3>1, NoWrap
  <2> HIDE DEF h, a
  <2> QED BY <1>5, <2>1, <2>2
<1>9. /\ Minus(a + n, AvailStart(h)) = n
      /\ (a + n) % Word = a + n
      /\ Minus(AvailEnd(h), a + n + Header) = EndOf(h) - (a + n + Header)
  <2> DEFINE b == a + n
             c == a + n + Header
  <2>1. /\ b \in Nat /\ AvailStart(h) <= b /\ b <= EndOf(h)
        /\ c \in Nat /\ AvailStart(h) <= c /\ c <= EndOf(h)
    <3> HIDE DEF h
    <3> QED BY <1>5, <1>6, <1>8
  <2> HIDE DEF h, b, c
  <2>2. b % Word = b /\ Minus(b, AvailStart(h)) = b - AvailStart(h)
    BY <1>3, <1>4, <2>1, NoWrap
  <2>3. Minus(AvailEnd(h), c) = EndOf(h) - c BY <1>3, <1>4, <2>1, NoWrap
  <2>4. b - a = n BY <1>5, <1>6 DEF b
  <2> QED BY <2>2, <2>3, <2>4 DEF b, c
<1>10. x \in Block /\ y \in Block
  <2> HIDE DEF h, a
  <2>1. a + n \in Nat /\ EndOf(h) - (a + n + Header) \in Nat BY <1>5, <1>6, <1>8
  <2> QED BY <1>3, <1>6, <2>1 DEF Block
<1>11. Doubled(Block, heads, heads', i, x, y)
  <2>1. heads' = InsertAt([heads EXCEPT ![i] = x], i + 1, y)
    BY <1>2, <1>7, <1>9 DEF Cut, ReplaceAt
  <2> HIDE DEF x, y, h
  <2> QED BY <1>3, <1>10, <2>1, Doubling
<1>12. /\ x.addr = h.addr /\ x.size = n /\ ~x.free /\ y.free /\ y.addr = a + n
       /\ EndOf(x) = a + n /\ EndOf(y) = EndOf(h) /\ Given(x) = new
  <2>1. /\ x.addr = h.addr /\ x.size = n /\ ~x.free
        /\ y.addr = a + n /\ y.size = EndOf(h) - (a + n + Header) /\ y.free
    BY <1>3 DEF Block
  <2> HIDE DEF x, y, h
  <2>2. EndOf(x) = a + n BY <1>5, <1>6, <2>1 DEF EndOf
  <2>3. EndOf(y) = EndOf(h)
    <3> DEFINE e == EndOf(h)
    <3>1. e \in Nat BY <1>5
    <3>2. EndOf(y) = (a + n) + Header + (e - (a + n + Header)) BY <2>1 DEF EndOf
    <3> HIDE DEF e, a
    <3> QED BY <1>5, <1>6, <3>1, <3>2 DEF e
  <2>4. AvailStart(x) = a BY <2>1 DEF AvailStart
  <2> QED BY <2>1, <2>2, <2>3, <2>4 DEF Given
<1> HIDE DEF x, y
<1>13. Tiles(heads', reserved)
  <2>1. EndOf(x) <= y.addr BY <1>5, <1>6, <1>12
  <2>2. y.addr = After(EndOf(x), reserved)
    <3>1. a + n \in Nat /\ h.addr < a + n /\ a + n < EndOf(h)
      <4> HIDE DEF h
      <4> QED BY <1>5, <1>6, <1>8
    <3>2. After(a + n, reserved) = a + n
      <4> DEFINE b == a + n
      <4>1. b \in Nat /\ heads[i].addr < b /\ b < EndOf(heads[i]) BY <3>1
      <4> HIDE DEF b
      <4>2. After(b, reserved) = b BY <1>1, <1>3, <4>1, NoGapInside
      <4> QED BY <4>2 DEF b
    <3> QED BY <1>12, <3>2
  <2>3. i = Len(heads) => EndOf(y) = Start + Size BY <1>1, <1>12 DEF Tiles
  <2>4. i < Len(heads) => /\ heads[i + 1].addr = After(EndOf(y), reserved)
                          /\ EndOf(y) <= heads[i + 1].addr
    <3> SUFFICES ASSUME i < Len(heads)
                 PROVE  /\ heads[i + 1].addr = After(EndOf(h), reserved)
                        /\ EndOf(h) <= heads[i + 1].addr
      BY <1>12
    <3>1. i \in 1 .. Len(heads) - 1 /\ i + 1 \in 1 .. Len(heads) /\ i < i + 1
      BY <1>3
    <3> QED BY <1>1, <1>3, <3>1 DEF Tiles
  <2>5. \A k \in 1 .. Len(heads) - 1 :
          k # i => heads[k + 1].addr = After(EndOf(heads[k]), reserved)
    BY <1>1 DEF Tiles
  <2>6. x.addr = heads[i].addr BY <1>12
  <2> HIDE DEF h, a, new
  <2> QED BY <1>1, <1>3, <1>10, <1>11, <2>1, <2>2, <2>3, <2>4, <2>5, <2>6, DoubledTiles
<1>14. JoinedBut(heads', 0)
  <2>1. x.addr = heads[i].addr /\ (x.free => heads[i].free) /\ heads[i].free
        /\ EndOf(y) = EndOf(heads[i]) /\ ~x.free
    BY <1>8, <1>12
  <2> HIDE DEF h, a, new
  <2> QED BY <1>1, <1>3, <1>11, <2>1, DoubledJoined
<1>15. OneGap(heads', reserved)
  <2>1. EndOf(y) = EndOf(heads[i]) BY <1>12
  <2> HIDE DEF h, a, new
  <2> QED BY <1>1, <1>3, <1>11, <2>1, GapStays
<1>16. UsedBlocks(heads') = granted \union {new}
  <2>1. y.free /\ heads[i].free BY <1>8, <1>12
  <2>2. {Given(g) : g \in {k \in {x} : ~k.free}} = {new} BY <1>12
  <2> HIDE DEF h, a, new
  <2>3. UsedBlocks(heads')
          = UsedBlocks(heads) \union {Given(g) : g \in {k \in {x} : ~k.free}}
    BY <1>3, <1>11, <2>1, DoubledUsed
  <2> QED BY <1>1, <2>2, <2>3
<1>17. granted' = granted \union {new} /\ reserved' = reserved BY <1>2, <1>7
<1>18. new \in [addr : Nat, size : Request] BY <1>5
<1>19. ListGood' BY <1>1, <1>13, <1>14, <1>15, <1>16, <1>17, <1>18 DEF ListGood
<1>20. /\ new.addr = a /\ new.size = n /\ new \in [addr : Nat, size : Nat]
       /\ heads[i].addr < new.addr /\ new.addr + new.size <= EndOf(heads[i])
       /\ heads[i].free
  <2>1. a + n <= EndOf(h)
    <3> HIDE DEF h
    <3> QED BY <1>5, <1>6, <1>8
  <2> QED BY <1>5, <1>6, <1>8, <2>1
<1> HIDE DEF new, h, a
<1>21. new \in Heap!Ranges BY <1>1, <1>3, <1>6, <1>20, RangeInZone
<1>22. \A u \in granted \union reserved : ~Heap!Overlap(new, u)
  <2>1. new.addr \in Nat /\ new.size \in Nat BY <1>20
  <2> QED BY <1>1, <1>3, <1>20, <2>1, RangeApart
<1>23. Heap!Grant(new)
  <2>1. granted' \union reserved' = (granted \union reserved) \union {new} BY <1>17
  <2> QED BY <1>22, <2>1 DEF Heap!Grant
<1> QED BY <1>19, <1>21, <1>23

-----------------------------------------------------------------------------
(* Joining blocks.                                                         *)

\* List t has the free block m for the free blocks a to b of s, and there is no
\* free one in front of them or behind them.
Joining(s, t, a, b, m) ==
  /\ s \in Seq(Block) /\ m \in Block /\ a \in 1 .. Len(s) /\ b \in a .. Len(s)
  /\ Spliced(Block, s, t, a, b + 1, m)
  /\ m.addr = s[a].addr /\ EndOf(m) = EndOf(s[b]) /\ m.free
  /\ \A k \in a .. b : s[k].free
  /\ a > 1 => ~s[a - 1].free
  /\ b < Len(s) => ~s[b + 1].free

\* The k-th block of a list that was joined starts where the block f of the other
\* one does, and ends where its block l does.
Spans(s, t, a, b, k, f, l) ==
  /\ f \in 1 .. Len(s) /\ l \in 1 .. Len(s)
  /\ t[k] \in Block /\ t[k].addr = s[f].addr /\ EndOf(t[k]) = EndOf(s[l])
  /\ k # a => f = l /\ t[k] = s[f]
  /\ k < a => f = k
  /\ k = a => f = a /\ l = b /\ t[k].free
  /\ k > a => k + b - a = f

\* Where each block of the list comes from.
LEMMA JoiningSpans ==
  ASSUME NEW s, NEW t, NEW a, NEW b, NEW m, Joining(s, t, a, b, m),
         NEW k \in 1 .. Len(t)
  PROVE  LET f == IF k <= a THEN k ELSE k + b - a
             l == IF k < a THEN k ELSE k + b - a
         IN  Spans(s, t, a, b, k, f, l)
<1> DEFINE n == Len(s)
           f == IF k <= a THEN k ELSE k + b - a
           l == IF k < a THEN k ELSE k + b - a
<1>1. /\ s \in Seq(Block) /\ n \in Nat /\ t \in Seq(Block) /\ a \in 1 .. n /\ b \in a .. n
      /\ \A j \in 1 .. n : s[j] \in Block
      /\ Len(t) = n + 1 + a - (b + 1)
      /\ t[k] = IF k < a THEN s[k] ELSE IF k = a THEN m ELSE s[k + (b + 1) - a - 1]
      /\ m \in Block /\ m.addr = s[a].addr /\ EndOf(m) = EndOf(s[b]) /\ m.free
  BY DEF Joining, Spliced
<1>2. k \in 1 .. n + 1 + a - (b + 1) BY <1>1
<1> HIDE DEF n
<1>3. /\ f \in 1 .. n /\ l \in 1 .. n /\ k + (b + 1) - a - 1 = k + b - a
      /\ k \in Int /\ a \in Int
  BY <1>1, <1>2
<1>4. CASE k < a
  <2>1. f = k /\ l = k /\ k # a /\ ~(k > a) BY <1>3, <1>4
  <2>2. t[k] = s[k] BY <1>1, <1>4
  <2> HIDE DEF f, l
  <2> QED BY <1>1, <1>3, <1>4, <2>1, <2>2 DEF Spans, n
<1>5. CASE k = a
  <2>1. f = a /\ l = b /\ ~(k < a) /\ ~(k > a) BY <1>1, <1>3, <1>5
  <2>2. t[k] = m BY <1>1, <1>5, <2>1
  <2> HIDE DEF f, l
  <2> QED BY <1>1, <1>3, <1>5, <2>1, <2>2 DEF Spans, n
<1>6. CASE k > a
  <2>1. f = k + b - a /\ l = f /\ ~(k < a) /\ k # a BY <1>3, <1>6
  <2>2. t[k] = s[f] BY <1>1, <1>3, <2>1
  <2> HIDE DEF f, l
  <2>3. t[k] \in Block BY <1>1, <1>3, <2>2
  <2> QED BY <1>3, <1>6, <2>1, <2>2, <2>3 DEF Spans, n
<1> QED BY <1>3, <1>4, <1>5, <1>6

\* The joined block fills the place of those it is made of.
LEMMA JoiningTiles ==
  ASSUME NEW s, NEW t, NEW a, NEW b, NEW m, Joining(s, t, a, b, m), Tiles(s, {})
  PROVE  Tiles(t, {})
<1> DEFINE n == Len(s)
           c == Len(t)
           F(k) == IF k <= a THEN k ELSE k + b - a
           L(k) == IF k < a THEN k ELSE k + b - a
<1>1. /\ t \in Seq(Block) /\ n \in Nat /\ a \in 1 .. n /\ b \in a .. n
      /\ c = n + 1 + a - (b + 1)
      /\ s[1].addr = Start /\ EndOf(s[n]) = Start + Size
      /\ \A j \in 1 .. n - 1 : s[j + 1].addr = After(EndOf(s[j]), {})
      /\ \A i, j \in 1 .. n : i < j => EndOf(s[i]) <= s[j].addr
  BY DEF Tiles, Joining, Spliced
<1>2. ASSUME NEW k \in 1 .. c
      PROVE  /\ F(k) \in 1 .. n /\ L(k) \in 1 .. n
             /\ t[k].addr = s[F(k)].addr /\ EndOf(t[k]) = EndOf(s[L(k)])
  <2>1. Spans(s, t, a, b, k, F(k), L(k)) BY JoiningSpans
  <2> HIDE DEF F, L
  <2> QED BY <2>1 DEF Spans
<1> HIDE DEF n, c
<1>3. /\ c \in Nat /\ c >= 1 /\ F(1) = 1 /\ L(c) = n BY <1>1
<1>4. ASSUME NEW k \in 1 .. c - 1
      PROVE  L(k) \in 1 .. n - 1 /\ F(k + 1) = L(k) + 1
  BY <1>1
<1>5. ASSUME NEW i \in 1 .. c, NEW j \in 1 .. c, i < j
      PROVE  L(i) < F(j)
  BY <1>1, <1>5
<1> HIDE DEF F, L
<1>6. t[1].addr = Start
  <2>1. 1 \in 1 .. c BY <1>3
  <2> QED BY <1>1, <1>2, <1>3, <2>1
<1>7. EndOf(t[c]) = Start + Size
  <2>1. c \in 1 .. c BY <1>3
  <2> QED BY <1>1, <1>2, <1>3, <2>1
<1>8. ASSUME NEW k \in 1 .. c - 1
      PROVE  t[k + 1].addr = After(EndOf(t[k]), {})
  <2> DEFINE l == k + 1
  <2>1. k \in 1 .. c /\ l \in 1 .. c BY <1>3
  <2>2. L(k) \in 1 .. n - 1 /\ F(l) = L(k) + 1 BY <1>4
  <2> HIDE DEF l
  <2>3. t[l].addr = s[F(l)].addr /\ EndOf(t[k]) = EndOf(s[L(k)]) BY <1>2, <2>1
  <2>4. s[L(k) + 1].addr = After(EndOf(s[L(k)]), {}) BY <1>1, <2>2
  <2> QED BY <2>2, <2>3, <2>4 DEF l
<1>9. ASSUME NEW i \in 1 .. c, NEW j \in 1 .. c, i < j
      PROVE  EndOf(t[i]) <= t[j].addr
  <2>1. L(i) < F(j) /\ L(i) \in 1 .. n /\ F(j) \in 1 .. n BY <1>2, <1>5, <1>9
  <2>2. EndOf(s[L(i)]) <= s[F(j)].addr BY <1>1, <2>1
  <2> QED BY <1>2, <2>2
<1> QED BY <1>1, <1>3, <1>6, <1>7, <1>8, <1>9 DEF Tiles, c

\* Once the free neighbours of a block are joined, no two free blocks touch.
LEMMA JoiningJoined ==
  ASSUME NEW s, NEW t, NEW a, NEW b, NEW m, Joining(s, t, a, b, m),
         NEW i \in a .. b, JoinedBut(s, i)
  PROVE  JoinedBut(t, 0)
<1> DEFINE n == Len(s)
           c == Len(t)
           F(k) == IF k <= a THEN k ELSE k + b - a
           L(k) == IF k < a THEN k ELSE k + b - a
<1>1. /\ n \in Nat /\ a \in 1 .. n /\ b \in a .. n
      /\ c = n + 1 + a - (b + 1)
      /\ a > 1 => ~s[a - 1].free
      /\ b < n => ~s[b + 1].free
  BY DEF Joining, Spliced
<1>2. ASSUME NEW k \in 1 .. c
      PROVE  Spans(s, t, a, b, k, F(k), L(k))
  BY JoiningSpans
<1>3. ASSUME NEW j \in 1 .. n - 1, EndOf(s[j]) = s[j + 1].addr, j # i, j + 1 # i
      PROVE  ~(s[j].free /\ s[j + 1].free)
  BY <1>3 DEF JoinedBut
<1> HIDE DEF n, c
<1>4. c \in Nat BY <1>1
<1>5. ASSUME NEW k \in 1 .. c - 1, EndOf(t[k]) = t[k + 1].addr
      PROVE  ~(t[k].free /\ t[k + 1].free)
  <2> DEFINE l == k + 1
  <2>1. k \in 1 .. c /\ l \in 1 .. c /\ l \in Int /\ k \in Int BY <1>4
  <2>2. Spans(s, t, a, b, k, F(k), L(k)) /\ Spans(s, t, a, b, l, F(l), L(l))
    <3> HIDE DEF F, L, l
    <3> QED BY <1>2, <2>1
  <2>3. CASE l < a
    <3>1. /\ F(k) = k /\ F(l) = l /\ L(k) = k /\ k # a /\ l # a
          /\ k \in 1 .. n - 1 /\ k # i /\ l # i
      BY <1>1, <2>1, <2>3
    <3> HIDE DEF F, L
    <3>2. t[k] = s[k] /\ t[l] = s[l] BY <2>2, <3>1 DEF Spans
    <3> QED BY <1>3, <1>5, <3>1, <3>2
  <2>4. CASE l = a
    <3>1. k # a /\ k = a - 1 /\ a > 1 /\ F(k) = k BY <1>1, <2>1, <2>4
    <3> HIDE DEF F, L, l
    <3>2. t[k] = s[k] BY <2>2, <3>1 DEF Spans
    <3> QED BY <1>1, <3>1, <3>2
  <2>5. CASE k = a
    <3>1. l # a /\ F(l) = b + 1 /\ b < n BY <1>1, <1>5, <2>1, <2>5
    <3> HIDE DEF F, L, l
    <3>2. t[l] = s[F(l)] BY <2>2, <3>1 DEF Spans
    <3> QED BY <1>1, <3>1, <3>2 DEF l
  <2>6. CASE k > a
    <3> DEFINE j == k + b - a
    <3>1. /\ F(k) = j /\ F(l) = j + 1 /\ k # a /\ l # a
          /\ j \in 1 .. n - 1 /\ j # i /\ j + 1 # i
      BY <1>1, <1>5, <2>1, <2>6
    <3> HIDE DEF F, L, j, l
    <3>2. t[k] = s[j] /\ t[l] = s[j + 1] BY <2>2, <3>1 DEF Spans
    <3>3. EndOf(s[j]) = s[j + 1].addr BY <1>5, <3>2 DEF l
    <3>4. ~(s[j].free /\ s[j + 1].free) BY <1>3, <3>1, <3>3
    <3> QED BY <3>2, <3>4 DEF l
  <2>7. l < a \/ l = a \/ k = a \/ k > a BY <1>1, <2>1
  <2> QED BY <2>3, <2>4, <2>5, <2>6, <2>7
<1> QED BY <1>5 DEF JoinedBut, c

\* Joining free blocks leaves the used ones alone.
LEMMA JoiningUsed ==
  ASSUME NEW s, NEW t, NEW a, NEW b, NEW m, Joining(s, t, a, b, m)
  PROVE  UsedBlocks(t) = UsedBlocks(s)
<1> DEFINE n == Len(s)
           c == Len(t)
           F(k) == IF k <= a THEN k ELSE k + b - a
           L(k) == IF k < a THEN k ELSE k + b - a
<1>1. /\ n \in Nat /\ a \in 1 .. n /\ b \in a .. n
      /\ c = n + 1 + a - (b + 1)
      /\ \A k \in a .. b : s[k].free
  BY DEF Joining, Spliced
<1>2. ASSUME NEW k \in 1 .. c
      PROVE  /\ F(k) \in 1 .. n
             /\ k # a => t[k] = s[F(k)]
             /\ k = a => t[k].free
  <2>1. Spans(s, t, a, b, k, F(k), L(k)) BY JoiningSpans
  <2> HIDE DEF F, L
  <2> QED BY <2>1 DEF Spans
<1> HIDE DEF n, c
<1>3. ASSUME NEW k \in 1 .. c, ~t[k].free
      PROVE  Given(t[k]) \in UsedBlocks(s)
  <2>1. F(k) \in 1 .. n /\ t[k] = s[F(k)] BY <1>2, <1>3
  <2> HIDE DEF F
  <2> QED BY <1>3, <2>1 DEF UsedBlocks, n
<1>4. ASSUME NEW j \in 1 .. n, ~s[j].free
      PROVE  Given(s[j]) \in UsedBlocks(t)
  <2>1. j < a \/ j > b BY <1>1, <1>4
  <2>2. PICK k \in 1 .. c : k # a /\ F(k) = j
    <3>1. CASE j < a
      <4>1. j \in 1 .. c /\ j # a /\ F(j) = j BY <1>1, <3>1
      <4> HIDE DEF F
      <4> QED BY <4>1
    <3>2. CASE j > b
      <4> DEFINE k == j + a - b
      <4>1. k \in 1 .. c /\ k # a /\ F(k) = j BY <1>1, <3>2
      <4> HIDE DEF F, k
      <4> QED BY <4>1
    <3> QED BY <2>1, <3>1, <3>2
  <2> HIDE DEF F
  <2>3. t[k] = s[j] BY <1>2, <2>2
  <2> QED BY <1>4, <2>3 DEF UsedBlocks, c
<1> QED BY <1>3, <1>4 DEF UsedBlocks, n, c

\* The free blocks around the i-th one are those next to it.
LEMMA RunIsShort ==
  ASSUME NEW s, NEW i, Tiles(s, {}), i \in 1 .. Len(s), s[i].free, JoinedBut(s, i)
  PROVE  \E a \in 1 .. Len(s), b \in 1 .. Len(s) :
           /\ Run(s, i) = a .. b
           /\ i - 1 <= a /\ a <= i /\ i <= b /\ b <= i + 1
           /\ \A k \in a .. b : s[k].free
           /\ a > 1 => ~s[a - 1].free
           /\ b < Len(s) => ~s[b + 1].free
<1> DEFINE n == Len(s)
           a == IF i > 1 /\ s[i - 1].free THEN i - 1 ELSE i
           b == IF i < n /\ s[i + 1].free THEN i + 1 ELSE i
<1>1. /\ n \in Nat /\ i \in 1 .. n /\ s \in Seq(Block) /\ DOMAIN s = 1 .. n
      /\ \A k \in 1 .. n : s[k] \in Block
      /\ \A k, l \in 1 .. n : k < l => EndOf(s[k]) <= s[l].addr
  BY DEF Tiles
<1>2. ASSUME NEW k \in 1 .. n - 1, k # i, k + 1 # i
      PROVE  ~(s[k].free /\ s[k + 1].free)
  <2>1. s[k + 1].addr = EndOf(s[k]) BY DEF Tiles, After
  <2> QED BY <1>2, <2>1 DEF JoinedBut
<1>3. ASSUME NEW k \in 1 .. n, NEW l \in 1 .. n, k < l
      PROVE  s[k].addr < s[l].addr
  <2>1. EndOf(s[k]) <= s[l].addr BY <1>1, <1>3
  <2>2. s[k].addr \in Nat /\ EndOf(s[k]) \in Nat /\ s[l].addr \in Nat
        /\ s[k].addr < EndOf(s[k])
    BY <1>1, BlockEnds
  <2> QED BY <2>1, <2>2
<1> HIDE DEF n
<1>4. /\ a \in 1 .. n /\ b \in 1 .. n /\ i - 1 <= a /\ a <= i /\ i <= b /\ b <= i + 1
  BY <1>1
<1>5. ASSUME NEW k \in a .. b PROVE s[k].free
  <2>1. k = i \/ (k = i - 1 /\ a = i - 1) \/ (k = i + 1 /\ b = i + 1) BY <1>1, <1>4
  <2>2. CASE k = i BY <2>2
  <2>3. CASE k = i - 1 /\ a = i - 1
    <3>1. i > 1 /\ s[i - 1].free BY <1>1, <2>3
    <3> QED BY <2>3, <3>1
  <2>4. CASE k = i + 1 /\ b = i + 1
    <3>1. i < n /\ s[i + 1].free BY <1>1, <2>4
    <3> QED BY <2>4, <3>1
  <2> QED BY <2>1, <2>2, <2>3, <2>4
<1>6. ASSUME a > 1 PROVE ~s[a - 1].free
  <2>1. CASE i > 1 /\ s[i - 1].free
    <3> DEFINE j == i - 2
    <3>1. a = i - 1 /\ j \in 1 .. n - 1 /\ j # i /\ j + 1 # i /\ j + 1 = i - 1 /\ a - 1 = j
      BY <1>1, <1>6, <2>1
    <3> HIDE DEF j, a
    <3>2. ~(s[j].free /\ s[j + 1].free) BY <1>2, <3>1
    <3> QED BY <2>1, <3>1, <3>2
  <2>2. CASE ~(i > 1 /\ s[i - 1].free)
    <3>1. a = i BY <2>2
    <3> HIDE DEF a
    <3> QED BY <1>1, <1>6, <2>2, <3>1
  <2> QED BY <2>1, <2>2
<1>7. ASSUME b < n PROVE ~s[b + 1].free
  <2>1. CASE i < n /\ s[i + 1].free
    <3> DEFINE j == i + 1
    <3>1. b = j /\ j \in 1 .. n - 1 /\ j # i /\ j + 1 # i
      BY <1>1, <1>7, <2>1
    <3> HIDE DEF b
    <3>2. s[j].free BY <2>1
    <3> HIDE DEF j
    <3>3. ~(s[j].free /\ s[j + 1].free) BY <1>2, <3>1
    <3> QED BY <3>1, <3>2, <3>3
  <2>2. CASE ~(i < n /\ s[i + 1].free)
    <3>1. b = i BY <2>2
    <3> HIDE DEF b
    <3> QED BY <1>1, <1>7, <2>2, <3>1
  <2> QED BY <2>1, <2>2
<1> HIDE DEF a, b
<1>8. Run(s, i) \subseteq a .. b
  <2> SUFFICES ASSUME NEW j \in Run(s, i) PROVE j \in a .. b OBVIOUS
  <2>1. /\ j \in 1 .. n
        /\ \A k \in (IF i < j THEN i .. j ELSE j .. i) : s[k].free
    BY <1>1 DEF Run
  <2>2. CASE j < a
    <3> DEFINE k == a - 1
    <3>1. k \in j .. i /\ ~(i < j) /\ a > 1 BY <1>1, <1>4, <2>1, <2>2
    <3> HIDE DEF k
    <3>2. s[k].free BY <2>1, <3>1
    <3> QED BY <1>6, <3>1, <3>2 DEF k
  <2>3. CASE b < j
    <3> DEFINE k == b + 1
    <3>1. k \in i .. j /\ i < j /\ b < n BY <1>1, <1>4, <2>1, <2>3
    <3> HIDE DEF k
    <3>2. s[k].free BY <2>1, <3>1
    <3> QED BY <1>7, <3>1, <3>2 DEF k
  <2> QED BY <1>4, <2>1, <2>2, <2>3
<1>9. a .. b \subseteq Run(s, i)
  <2> SUFFICES ASSUME NEW j \in a .. b PROVE j \in Run(s, i) OBVIOUS
  <2>1. ASSUME NEW k \in (IF i < j THEN i .. j ELSE j .. i)
        PROVE  /\ s[k].free
               /\ k > i => s[i].addr < s[k].addr
               /\ k < i => s[k].addr < s[i].addr
    <3>1. k \in a .. b /\ k \in 1 .. n BY <1>1, <1>4
    <3> QED BY <1>1, <1>3, <1>5, <3>1
  <2>2. j \in 1 .. n BY <1>1, <1>4
  <2> QED BY <1>1, <2>1, <2>2 DEF Run
<1>10. Run(s, i) = a .. b BY <1>8, <1>9
<1> QED BY <1>4, <1>5, <1>6, <1>7, <1>10 DEF n

\* The sizes that MergeFreeHead adds up, with the heads in between.
Sums(s, a, b) ==
  CHOOSE f : f = [j \in a .. b |->
    IF j = a THEN s[j].size ELSE f[j - 1] + Header + s[j].size]

\* They reach from the first block to the end of the last one.
LEMMA SumReaches ==
  ASSUME NEW s, NEW a, NEW b, Tiles(s, {}), a \in 1 .. Len(s), b \in 1 .. Len(s),
         a <= b, b <= a + 2
  PROVE  Sums(s, a, b)[b] = EndOf(s[b]) - AvailStart(s[a])
<1> DEFINE n == Len(s)
           End(j) == EndOf(s[j])
           start == AvailStart(s[a])
           Rec(f) == f = [j \in a .. b |->
                       IF j = a THEN s[j].size ELSE f[j - 1] + Header + s[j].size]
           g == [j \in a .. b |-> End(j) - start]
<1>1. /\ n \in Nat /\ a \in 1 .. n /\ b \in 1 .. n
      /\ \A k \in 1 .. n : s[k] \in Block
  BY DEF Tiles
<1>2. ASSUME NEW j \in 1 .. n - 1 PROVE s[j + 1].addr = End(j)
  BY DEF Tiles, After
<1> HIDE DEF n
<1>3. ASSUME NEW j \in 1 .. n
      PROVE  /\ End(j) \in Nat /\ s[j].size \in Nat /\ s[j].addr \in Nat
             /\ AvailStart(s[j]) \in Nat
             /\ End(j) = AvailStart(s[j]) + s[j].size
             /\ End(j) = s[j].addr + Header + s[j].size
  BY <1>1, BlockEnds
<1>4. start \in Nat BY <1>1, <1>3
<1> HIDE DEF End, start
<1>5. Header \in Nat BY ZoneAssumption
<1>6. ASSUME NEW j \in a .. b
      PROVE  End(j) - start = IF j = a THEN s[j].size ELSE g[j - 1] + Header + s[j].size
  <2>1. j \in 1 .. n BY <1>1
  <2>2. CASE j = a
    <3>1. End(j) = start + s[j].size BY <1>3, <2>1, <2>2 DEF start
    <3> QED BY <1>3, <1>4, <2>1, <2>2, <3>1
  <2>3. CASE j # a
    <3> DEFINE p == j - 1
    <3>1. p \in a .. b /\ p \in 1 .. n - 1 /\ p \in 1 .. n /\ j = p + 1 BY <1>1, <2>1, <2>3
    <3> HIDE DEF p
    <3>2. g[p] = End(p) - start BY <3>1
    <3>3. s[j].addr = End(p) BY <1>2, <3>1
    <3>4. End(j) = s[j].addr + Header + s[j].size BY <1>3, <2>1
    <3>5. s[j].size \in Nat /\ End(p) \in Nat BY <1>3, <2>1, <3>1
    <3> HIDE DEF g
    <3>6. End(j) - start = g[p] + Header + s[j].size
      BY <1>4, <1>5, <3>2, <3>3, <3>4, <3>5
    <3> QED BY <2>3, <3>6 DEF p
  <2> QED BY <2>2, <2>3
<1>7. Rec(g)
  <2> DEFINE e(j) == IF j = a THEN s[j].size ELSE g[j - 1] + Header + s[j].size
             d == [j \in a .. b |-> End(j) - start]
             r == [j \in a .. b |-> e(j)]
  <2>1. \A j \in a .. b : End(j) - start = e(j) BY <1>6
  <2> HIDE DEF e
  <2>2. d = r BY <2>1
  <2> HIDE DEF g, d, r
  <2>3. g = d BY DEF g, d
  <2> QED BY <2>2, <2>3 DEF r, e
<1> DEFINE f == Sums(s, a, b)
<1>8. Rec(f)
  <2> f = CHOOSE h : Rec(h) BY DEF Sums
  <2> HIDE DEF Rec, f
  <2> QED BY <1>7
<1>9. ASSUME NEW j \in a .. b
      PROVE  f[j] = IF j = a THEN s[j].size ELSE f[j - 1] + Header + s[j].size
  <2> HIDE DEF f
  <2> QED BY <1>8
<1> HIDE DEF f, Rec
<1>10. f[a] = End(a) - start
  <2>1. a \in a .. b BY <1>1
  <2>2. f[a] = s[a].size BY <1>9, <2>1
  <2>3. End(a) = start + s[a].size /\ s[a].size \in Nat BY <1>1, <1>3 DEF start
  <2> QED BY <1>4, <2>2, <2>3
<1>11. ASSUME NEW j \in a .. b, j + 1 \in a .. b, f[j] = End(j) - start
       PROVE  f[j + 1] = End(j + 1) - start
  <2> DEFINE l == j + 1
  <2>1. l \in a .. b /\ l # a /\ l - 1 = j /\ l \in 1 .. n /\ j \in 1 .. n - 1
        /\ j \in 1 .. n
    BY <1>1, <1>11
  <2> HIDE DEF l
  <2>2. f[l] = f[j] + Header + s[l].size BY <1>9, <2>1
  <2>3. s[l].addr = End(j) BY <1>2, <2>1 DEF l
  <2>4. End(l) = s[l].addr + Header + s[l].size /\ s[l].size \in Nat /\ End(j) \in Nat
    BY <1>3, <2>1
  <2>5. f[l] = End(l) - start BY <1>4, <1>5, <1>11, <2>2, <2>3, <2>4
  <2> QED BY <2>5 DEF l
<1>12. f[b] = End(b) - start
  <2>1. b = a \/ b = a + 1 \/ b = a + 2 BY <1>1
  <2>2. CASE b = a BY <1>10, <2>2
  <2>3. CASE b = a + 1
    <3>1. a \in a .. b /\ a + 1 \in a .. b BY <1>1, <2>3
    <3> QED BY <1>10, <1>11, <2>3, <3>1
  <2>4. CASE b = a + 2
    <3> DEFINE c == a + 1
    <3>1. a \in a .. b /\ c \in a .. b /\ a + 1 = c /\ c + 1 \in a .. b /\ c + 1 = b
      BY <1>1, <2>4
    <3> HIDE DEF c
    <3>2. f[c] = End(c) - start BY <1>10, <1>11, <3>1
    <3> QED BY <1>11, <3>1, <3>2
  <2> QED BY <2>1, <2>2, <2>3, <2>4
<1> QED BY <1>12 DEF f, End, start

\* MergeFreeHead joins the free blocks around one.
LEMMA MergeJoins ==
  ASSUME NEW s, NEW i, NEW t, Tiles(s, {}), i \in 1 .. Len(s), s[i].free,
         JoinedBut(s, i), t = Merge(s, i)
  PROVE  \E a, b, m : Joining(s, t, a, b, m) /\ i \in a .. b
<1>1. PICK a \in 1 .. Len(s), b \in 1 .. Len(s) :
           /\ Run(s, i) = a .. b
           /\ i - 1 <= a /\ a <= i /\ i <= b /\ b <= i + 1
           /\ \A k \in a .. b : s[k].free
           /\ a > 1 => ~s[a - 1].free
           /\ b < Len(s) => ~s[b + 1].free
  BY RunIsShort
<1>2. a \in Int /\ b \in Int /\ i \in Int /\ Len(s) \in Nat BY DEF Tiles
<1> DEFINE lo == CHOOSE j \in a .. b : \A k \in a .. b : j <= k
           hi == CHOOSE j \in a .. b : \A k \in a .. b : j >= k
           size == EndOf(s[b]) - AvailStart(s[a])
           m == [s[a] EXCEPT !.size = size]
<1>3. lo = a /\ hi = b
  <2>1. a <= b /\ a \in a .. b /\ b \in a .. b BY <1>1, <1>2
  <2>2. \A j \in a .. b : (\A k \in a .. b : j <= k) => j = a BY <1>2, <2>1
  <2>3. \A j \in a .. b : (\A k \in a .. b : j >= k) => j = b BY <1>2, <2>1
  <2>4. (\A k \in a .. b : a <= k) /\ (\A k \in a .. b : b >= k) BY <1>2
  <2> DEFINE Lowest(j) == \A k \in a .. b : j <= k
             Highest(j) == \A k \in a .. b : j >= k
  <2>5. /\ Lowest(a) /\ \A j \in a .. b : Lowest(j) => j = a
        /\ Highest(b) /\ \A j \in a .. b : Highest(j) => j = b
    BY <2>2, <2>3, <2>4
  <2>6. lo = (CHOOSE j \in a .. b : Lowest(j)) /\ hi = (CHOOSE j \in a .. b : Highest(j))
    OBVIOUS
  <2> HIDE DEF lo, hi, Lowest, Highest
  <2>7. lo = a BY <2>1, <2>5, <2>6
  <2>8. hi = b BY <2>1, <2>5, <2>6
  <2> QED BY <2>7, <2>8
<1>4. t = SubSeq(s, 1, a - 1) \o <<[s[a] EXCEPT !.size = Sums(s, a, b)[b] % Word]>>
            \o SubSeq(s, b + 1, Len(s))
  <2> DEFINE first == CHOOSE j \in Run(s, i) : \A k \in Run(s, i) : j <= k
             last == CHOOSE j \in Run(s, i) : \A k \in Run(s, i) : j >= k
  <2>1. t = SubSeq(s, 1, first - 1)
              \o <<[s[first] EXCEPT !.size = Sums(s, first, last)[last] % Word]>>
              \o SubSeq(s, last + 1, Len(s))
    BY DEF Merge, Sums
  <2>2. first = lo /\ last = hi BY <1>1
  <2> HIDE DEF first, last, lo, hi
  <2> QED BY <1>3, <2>1, <2>2
<1> HIDE DEF lo, hi
<1>5. /\ s[a] \in Block /\ s[b] \in Block /\ s \in Seq(Block)
      /\ EndOf(s[b]) < Word
  BY BlocksEnd DEF Tiles
<1>6. /\ s[a].addr \in Nat /\ s[a].size \in Nat /\ AvailStart(s[a]) \in Nat
      /\ AvailStart(s[a]) = s[a].addr + Header
      /\ EndOf(s[a]) = AvailStart(s[a]) + s[a].size /\ EndOf(s[a]) \in Nat
      /\ EndOf(s[b]) \in Nat /\ s[b].addr \in Nat /\ s[b].addr < EndOf(s[b])
  BY <1>5, BlockEnds
<1>7. size \in Nat /\ size < Word
  <2>1. a = b \/ EndOf(s[a]) <= s[b].addr
    <3>1. a <= b BY <1>1, <1>2
    <3>2. a = b \/ a < b BY <1>2, <3>1
    <3> QED BY <3>2 DEF Tiles
  <2>2. AvailStart(s[a]) <= EndOf(s[b])
    <3>1. CASE a = b BY <1>6, <3>1
    <3>2. CASE EndOf(s[a]) <= s[b].addr BY <1>6, <3>2
    <3> QED BY <2>1, <3>1, <3>2
  <2>3. Word \in Nat BY ZoneAssumption
  <2> QED BY <1>5, <1>6, <2>2, <2>3
<1>8. Sums(s, a, b)[b] % Word = size
  <2>1. a <= b /\ b <= a + 2 BY <1>1, <1>2
  <2>2. Sums(s, a, b)[b] = size BY <2>1, SumReaches
  <2> HIDE DEF size
  <2> QED BY <1>7, <2>2, SmallRest
<1> HIDE DEF size
<1>9. t = SubSeq(s, 1, a - 1) \o <<m>> \o SubSeq(s, b + 1, Len(s)) BY <1>4, <1>8
<1>10. /\ m \in Block /\ m.addr = s[a].addr /\ m.size = size /\ m.free = s[a].free
  BY <1>5, <1>7 DEF Block
<1> HIDE DEF m
<1>11. EndOf(m) = EndOf(s[b]) /\ m.free
  <2>1. a \in a .. b BY <1>1, <1>2
  <2>2. m.free BY <1>1, <1>10, <2>1
  <2>3. EndOf(m) = m.addr + Header + m.size BY DEF EndOf
  <2> DEFINE e == EndOf(s[b])
             c == AvailStart(s[a])
             d == s[a].addr
  <2>4. size = e - c /\ c = d + Header /\ EndOf(m) = d + Header + size BY <1>6, <1>10, <2>3 DEF size
  <2>5. e \in Nat /\ d \in Nat /\ c \in Nat /\ Header \in Nat BY <1>6, ZoneAssumption
  <2> HIDE DEF e, c, d
  <2>6. EndOf(m) = e BY <2>4, <2>5
  <2> QED BY <2>2, <2>6 DEF e
<1>12. Spliced(Block, s, t, a, b + 1, m)
  <2> DEFINE j == b + 1
  <2>1. a \in 1 .. Len(s) + 1 /\ j \in a .. Len(s) + 1 BY <1>1, <1>2
  <2>2. t = SubSeq(s, 1, a - 1) \o <<m>> \o SubSeq(s, j, Len(s)) BY <1>9
  <2> HIDE DEF j
  <2>3. Spliced(Block, s, t, a, j, m) BY <1>5, <1>10, <2>1, <2>2, Splicing
  <2> QED BY <2>3 DEF j
<1>13. b \in a .. Len(s) /\ i \in a .. b BY <1>1, <1>2
<1>14. Joining(s, t, a, b, m) BY <1>1, <1>5, <1>10, <1>11, <1>12, <1>13 DEF Joining
<1> QED BY <1>13, <1>14

\* MergeFreeHead keeps the zone filled and the used blocks as they are, and leaves
\* no two free blocks that touch.
LEMMA MergeKeeps ==
  ASSUME NEW s, NEW i, NEW t, Tiles(s, {}), i \in 1 .. Len(s), s[i].free,
         JoinedBut(s, i), t = Merge(s, i)
  PROVE  Tiles(t, {}) /\ JoinedBut(t, 0) /\ UsedBlocks(t) = UsedBlocks(s)
<1>1. PICK a, b, m : Joining(s, t, a, b, m) /\ i \in a .. b BY MergeJoins
<1> QED BY <1>1, JoiningTiles, JoiningJoined, JoiningUsed

-----------------------------------------------------------------------------
(* Setting memory aside, and giving it back.                               *)

\* Reserve cuts the block that a range is in in front of it, and puts a head behind
\* it.
LEMMA ReserveKeeps ==
  ASSUME ListGood, NEW r \in Reservable, reserved = {}, LeavesRoom(r), Reserve(r)
  PROVE  ListGood' /\ \E q \in Heap!Ranges : Heap!Grant(q)
<1>1. /\ Tiles(heads, {}) /\ JoinedBut(heads, 0) /\ OneGap(heads, {})
      /\ granted = UsedBlocks(heads) /\ granted \subseteq [addr : Nat, size : Request]
  BY DEF ListGood
<1>2. /\ heads \in Seq(Block) /\ Len(heads) \in Nat /\ DOMAIN heads = 1 .. Len(heads)
  BY <1>1 DEF Tiles
<1>3. /\ r \in [addr : Nat, size : Nat] /\ r.addr \in Nat /\ r.size \in Nat
      /\ r.size >= Header /\ Header \in Nat /\ Header > 1
  BY ZoneAssumption DEF LeavesRoom
<1>4. PICK i \in 1 .. Len(heads) :
        /\ Holds(heads[i], r.addr, r.size)
        /\ r.addr + r.size <= AvailStart(heads[i]) + heads[i].size - Header
  BY <1>2 DEF LeavesRoom, Range
<1> DEFINE h == heads[i]
           a == r.addr
           e == r.addr + r.size
           start == AvailStart(h)
           end == EndOf(h)
           x == [h EXCEPT !.size = a - start]
           y == [addr |-> e, size |-> end - (e + Header), free |-> TRUE]
<1>5. /\ h \in Block /\ end < Word /\ h.addr \in Nat /\ end \in Nat
      /\ start \in Nat /\ start = h.addr + Header /\ end = start + h.size
      /\ h.size \in Nat
  BY <1>1, BlocksEnd, BlockEnds
<1>6. h.addr <= a /\ e <= end - Header /\ a + r.size = e
  <2>1. h.addr <= a /\ a + r.size = e BY <1>4 DEF Holds
  <2> DEFINE n == h.size
  <2>2. e <= start + (n - Header) /\ end = start + n
    <3>1. e <= start + (n - Header) BY <1>4, Zenon
    <3>2. end = start + n BY <1>5
    <3> QED BY <3>1, <3>2
  <2>3. n \in Nat /\ start \in Nat /\ Header \in Nat BY <1>3, <1>5
  <2> HIDE DEF h, a, e, n, start, end
  <2> QED BY <2>1, <2>2, <2>3
<1>7. HeadOf(a, r.size) = i
  <2>1. heads[i].addr < a + r.size BY <1>3, <1>5, <1>6
  <2>2. Holds(heads[i], a, r.size) BY <1>4
  <2>3. a \in Nat BY <1>3
  <2> HIDE DEF a, e, h, start, end
  <2> QED BY <1>1, <1>3, <2>1, <2>2, <2>3, HeadIsFirst
<1>8. /\ a >= start /\ h.free
      /\ heads' = InsertAt([heads EXCEPT ![i] = [h EXCEPT !.size = a - start]], i + 1,
                    [addr |-> e, size |-> Minus(AvailEnd(h), e + Header), free |-> TRUE])
      /\ reserved' = {r} /\ granted' = granted
  BY <1>7 DEF Reserve
<1>9. /\ a \in Nat /\ e \in Nat /\ h.addr < a /\ a <= e /\ e + Header <= end /\ a < end
      /\ e + Header \in Nat /\ start <= e + Header /\ h.addr < end
      /\ a - start \in Nat /\ end - (e + Header) \in Nat
  <2> DEFINE n == r.size
             b == h.addr
  <2>1. /\ a \in Nat /\ n \in Nat /\ n >= Header /\ Header \in Nat /\ Header > 1
        /\ b \in Nat /\ end \in Nat /\ start = b + Header /\ start <= a
        /\ a + n = e /\ e <= end - Header
    BY <1>3, <1>5, <1>6, <1>8
  <2> HIDE DEF h, a, b, e, n, start, end
  <2>2. /\ a \in Nat /\ e \in Nat /\ b < a /\ a <= e /\ e + Header <= end /\ a < end
        /\ e + Header \in Nat /\ start <= e + Header /\ b < end
        /\ a - start \in Nat /\ end - (e + Header) \in Nat
    BY <2>1
  <2> QED BY <2>2 DEF b
<1>10. Minus(AvailEnd(h), e + Header) = end - (e + Header)
  <2> DEFINE c == e + Header
  <2>1. c \in Nat /\ AvailStart(h) <= c /\ c <= EndOf(h) BY <1>9
  <2>2. EndOf(h) < Word BY <1>5
  <2> HIDE DEF c, h
  <2>3. Minus(AvailEnd(h), c) = EndOf(h) - c BY <1>5, <2>1, <2>2, NoWrap
  <2> QED BY <2>3 DEF c
<1>11. x \in Block /\ y \in Block
  <2>1. a - start \in Nat /\ end - (e + Header) \in Nat /\ e \in Nat BY <1>9
  <2> HIDE DEF h, a, e, start, end
  <2> QED BY <1>5, <2>1 DEF Block
<1>12. Doubled(Block, heads, heads', i, x, y)
  <2>1. heads' = InsertAt([heads EXCEPT ![i] = x], i + 1, y) BY <1>8, <1>10
  <2> HIDE DEF x, y, h, a, e, start, end
  <2> QED BY <1>2, <1>11, <2>1, Doubling
<1>13. /\ x.addr = h.addr /\ x.free /\ y.free /\ y.addr = e
       /\ EndOf(x) = a /\ EndOf(y) = end
  <2>1. /\ x.addr = h.addr /\ x.size = a - start /\ x.free = h.free
        /\ y.addr = e /\ y.size = end - (e + Header) /\ y.free
    BY <1>5 DEF Block
  <2> HIDE DEF x, y, h, a, e, start, end
  <2>2. EndOf(x) = a BY <1>3, <1>5, <1>9, <2>1 DEF EndOf
  <2>3. EndOf(y) = end BY <1>3, <1>5, <1>9, <2>1 DEF EndOf
  <2> QED BY <1>8, <2>1, <2>2, <2>3
<1> HIDE DEF x, y
<1>14. \A j \in 1 .. Len(heads) : EndOf(heads[j]) # a
  <2>1. a \in Nat /\ heads[i].addr < a /\ a < EndOf(heads[i]) BY <1>9
  <2> HIDE DEF a, e, h, start, end
  <2> QED BY <1>1, <2>1, EndsOutside
<1>15. \A j \in 1 .. Len(heads) - 1 : heads[j + 1].addr = After(EndOf(heads[j]), {r})
  <2> TAKE j \in 1 .. Len(heads) - 1
  <2>1. heads[j + 1].addr = EndOf(heads[j]) BY <1>1 DEF Tiles, After
  <2>2. j \in 1 .. Len(heads) BY <1>2
  <2>3. EndOf(heads[j]) # r.addr BY <1>14, <2>2
  <2> QED BY <2>1, <2>3 DEF After
<1>16. Tiles(heads', {r})
  <2>1. EndOf(x) <= y.addr /\ x.addr = heads[i].addr BY <1>9, <1>13
  <2>2. y.addr = After(EndOf(x), {r}) BY <1>13 DEF After
  <2>3. i = Len(heads) => EndOf(y) = Start + Size BY <1>1, <1>13 DEF Tiles
  <2>4. i < Len(heads) => /\ heads[i + 1].addr = After(EndOf(y), {r})
                          /\ EndOf(y) <= heads[i + 1].addr
    <3> SUFFICES ASSUME i < Len(heads)
                 PROVE  /\ heads[i + 1].addr = After(EndOf(heads[i]), {r})
                        /\ EndOf(heads[i]) <= heads[i + 1].addr
      BY <1>13
    <3>1. i \in 1 .. Len(heads) - 1 /\ i + 1 \in 1 .. Len(heads) /\ i < i + 1
      BY <1>2
    <3> QED BY <1>1, <1>15, <3>1 DEF Tiles
  <2> DEFINE gaps == {r}
  <2>5. /\ y.addr = After(EndOf(x), gaps)
        /\ i < Len(heads) => /\ heads[i + 1].addr = After(EndOf(y), gaps)
                             /\ EndOf(y) <= heads[i + 1].addr
        /\ \A k \in 1 .. Len(heads) - 1 :
             k # i => heads[k + 1].addr = After(EndOf(heads[k]), gaps)
    BY <1>15, <2>2, <2>4
  <2> HIDE DEF h, a, e, start, end, gaps
  <2>6. Tiles(heads', gaps) BY <1>1, <1>11, <1>12, <2>1, <2>3, <2>5, DoubledTiles
  <2> QED BY <2>6 DEF gaps
<1>17. JoinedBut(heads', 0)
  <2>1. /\ x.addr = heads[i].addr /\ heads[i].free /\ EndOf(y) = EndOf(heads[i])
        /\ EndOf(x) # y.addr
    <3>1. e # a
      <4> HIDE DEF h, start, end
      <4> QED BY <1>3
    <3> QED BY <1>8, <1>13, <3>1
  <2> HIDE DEF h, a, e, start, end
  <2> QED BY <1>1, <1>2, <1>12, <2>1, DoubledJoined
<1>18. OneGap(heads', {r})
  <2> DEFINE n == Len(heads)
             t == heads'
  <2>1. n \in Nat /\ Len(t) = n + 1 /\ t[i] = IF i < i THEN heads[i] ELSE x
    <3>1. Len(heads') = Len(heads) + 1 /\ i \in 1 .. Len(heads')
      BY <1>2, <1>12 DEF Doubled
    <3> QED BY <1>2, <1>12, <3>1 DEF Doubled
  <2>2. i \in 1 .. Len(t) - 1 /\ i \in Nat
    <3> i \in 1 .. n OBVIOUS
    <3> DEFINE m == Len(t)
    <3> m = n + 1 BY <2>1
    <3> HIDE DEF n, t, m
    <3>1. i \in 1 .. m - 1 /\ i \in Nat BY <2>1
    <3> QED BY <3>1 DEF m
  <2>3. EndOf(t[i]) = r.addr
    <3>1. t[i] = x BY <2>1, <2>2
    <3> QED BY <1>13, <3>1
  <2> HIDE DEF t
  <2>4. OneGap(t, {r}) BY <1>3, <2>2, <2>3 DEF OneGap
  <2> QED BY <2>4 DEF t
<1>19. UsedBlocks(heads') = UsedBlocks(heads)
  <2>1. y.free /\ heads[i].free BY <1>8, <1>13
  <2>2. {Given(g) : g \in {k \in {x} : ~k.free}} = {} BY <1>13
  <2> HIDE DEF h, a, e, start, end
  <2>3. UsedBlocks(heads')
          = UsedBlocks(heads) \union {Given(g) : g \in {k \in {x} : ~k.free}}
    BY <1>2, <1>12, <2>1, DoubledUsed
  <2> QED BY <2>2, <2>3
<1>20. ListGood' BY <1>1, <1>8, <1>16, <1>17, <1>18, <1>19 DEF ListGood
<1>21. /\ heads[i].addr < r.addr /\ r.addr + r.size <= EndOf(heads[i]) /\ r.size >= 1
  <2>1. e <= end
    <3> HIDE DEF h, e, start, end
    <3> QED BY <1>3, <1>5, <1>9
  <2> QED BY <1>3, <1>9, <2>1
<1> HIDE DEF h, a, e, start, end
<1>22. r \in Heap!Ranges BY <1>1, <1>3, <1>21, RangeInZone
<1>23. \A u \in granted \union {} : ~Heap!Overlap(r, u)
  <2> DEFINE gaps == {}
  <2>1. Tiles(heads, gaps) /\ OneGap(heads, gaps) /\ heads[i].free BY <1>1, <1>8 DEF h
  <2> HIDE DEF gaps
  <2>2. \A u \in UsedBlocks(heads) \union gaps : ~Heap!Overlap(r, u)
    BY <1>3, <1>21, <2>1, RangeApart
  <2> QED BY <1>1, <2>2
<1>24. Heap!Grant(r)
  <2>1. granted' \union reserved' = (granted \union reserved) \union {r} BY <1>8
  <2> QED BY <1>23, <2>1 DEF Heap!Grant
<1> QED BY <1>20, <1>22, <1>24

\* A block that is set free leaves the rest of the list as it is.
LEMMA FreeingKeeps ==
  ASSUME NEW s, NEW j, NEW t, Tiles(s, {}), JoinedBut(s, 0), j \in 1 .. Len(s),
         ~s[j].free, t = [s EXCEPT ![j] = [s[j] EXCEPT !.free = TRUE]]
  PROVE  /\ Tiles(t, {}) /\ JoinedBut(t, j) /\ Len(t) = Len(s) /\ t[j].free
         /\ UsedBlocks(t) = UsedBlocks(s) \ {Given(s[j])}
<1> DEFINE x == [s[j] EXCEPT !.free = TRUE]
           n == Len(s)
<1>1. s \in Seq(Block) /\ n \in Nat /\ n >= 1 /\ \A k \in 1 .. n : s[k] \in Block
  BY DEF Tiles
<1>2. /\ x \in Block /\ x.addr = s[j].addr /\ x.size = s[j].size /\ x.free
  BY <1>1 DEF Block
<1> HIDE DEF x
<1>3. EndOf(x) = EndOf(s[j]) BY <1>2 DEF EndOf
<1>4. /\ t \in Seq(Block) /\ Len(t) = n /\ DOMAIN t = 1 .. n
      /\ \A k \in 1 .. n : t[k] = IF k = j THEN x ELSE s[k]
  BY <1>1, <1>2 DEF x
<1>5. \A k \in 1 .. n : t[k].addr = s[k].addr /\ EndOf(t[k]) = EndOf(s[k])
  BY <1>2, <1>3, <1>4
<1>6. Tiles(t, {})
  <2>1. 1 \in 1 .. n /\ n \in 1 .. n /\ \A k \in 1 .. n - 1 : k \in 1 .. n /\ k + 1 \in 1 .. n
    BY <1>1
  <2>2. /\ s[1].addr = Start /\ EndOf(s[n]) = Start + Size
        /\ \A i \in 1 .. n - 1 : s[i + 1].addr = After(EndOf(s[i]), {})
        /\ \A i, k \in 1 .. n : i < k => EndOf(s[i]) <= s[k].addr
    BY DEF Tiles
  <2> HIDE DEF n
  <2>3. t[1].addr = Start /\ EndOf(t[n]) = Start + Size BY <1>5, <2>1, <2>2
  <2>4. \A i \in 1 .. n - 1 : t[i + 1].addr = After(EndOf(t[i]), {})
    BY <1>5, <2>1, <2>2
  <2>5. \A i, k \in 1 .. n : i < k => EndOf(t[i]) <= t[k].addr BY <1>5, <2>2
  <2> QED BY <1>1, <1>4, <2>3, <2>4, <2>5 DEF Tiles
<1>7. JoinedBut(t, j)
  <2>1. ASSUME NEW k \in 1 .. n - 1, EndOf(t[k]) = t[k + 1].addr, k # j, k + 1 # j
        PROVE  ~(t[k].free /\ t[k + 1].free)
    <3>1. k \in 1 .. n /\ k + 1 \in 1 .. n /\ k # 0 /\ k + 1 # 0 BY <1>1
    <3>2. t[k] = s[k] /\ t[k + 1] = s[k + 1] BY <1>4, <2>1, <3>1
    <3> QED BY <2>1, <3>1, <3>2 DEF JoinedBut
  <2> QED BY <1>4, <2>1 DEF JoinedBut
<1>8. t[j].free BY <1>2, <1>4
<1>9. ASSUME NEW k \in 1 .. n, k # j, ~s[k].free
      PROVE  Given(s[k]) # Given(s[j])
  <2>1. s[k].addr # s[j].addr BY <1>9, SameBlock
  <2>2. s[k].addr \in Nat /\ s[j].addr \in Nat BY <1>1, BlockEnds
  <2>3. Header \in Nat BY ZoneAssumption
  <2>4. AvailStart(s[k]) # AvailStart(s[j]) BY <2>1, <2>2, <2>3 DEF AvailStart
  <2> QED BY <2>4 DEF Given
<1>10. UsedBlocks(t) = UsedBlocks(s) \ {Given(s[j])}
  <2>1. ASSUME NEW k \in 1 .. n, ~t[k].free
        PROVE  Given(t[k]) \in UsedBlocks(s) /\ Given(t[k]) # Given(s[j])
    <3>1. k # j /\ t[k] = s[k] BY <1>4, <1>8, <2>1
    <3> QED BY <1>9, <2>1, <3>1 DEF UsedBlocks
  <2>2. ASSUME NEW k \in 1 .. n, ~s[k].free, Given(s[k]) # Given(s[j])
        PROVE  Given(s[k]) \in UsedBlocks(t)
    <3>1. k # j /\ t[k] = s[k] BY <1>4, <2>2
    <3> QED BY <1>4, <2>2, <3>1 DEF UsedBlocks
  <2>3. UsedBlocks(t) \subseteq UsedBlocks(s) \ {Given(s[j])}
    BY <1>4, <2>1 DEF UsedBlocks
  <2>4. UsedBlocks(s) \ {Given(s[j])} \subseteq UsedBlocks(t)
    BY <2>2 DEF UsedBlocks
  <2> QED BY <2>3, <2>4
<1> QED BY <1>4, <1>6, <1>7, <1>8, <1>10

\* Deallocate frees the block of a pointer that Allocate gave, and joins it with
\* its neighbours.
LEMMA DeallocateKeeps ==
  ASSUME ListGood, NEW r \in granted, reserved = {}, Deallocate(r)
  PROVE  ListGood' /\ \E q \in Heap!Ranges : Heap!GiveBack(q)
<1>1. /\ Tiles(heads, {}) /\ JoinedBut(heads, 0)
      /\ granted = UsedBlocks(heads) /\ granted \subseteq [addr : Nat, size : Request]
  BY DEF ListGood
<1>2. PICK j \in 1 .. Len(heads) : ~heads[j].free /\ r = Given(heads[j])
  BY <1>1 DEF UsedBlocks
<1> DEFINE h == heads[j]
           t == [heads EXCEPT ![j] = [heads[j] EXCEPT !.free = TRUE]]
<1>3. h \in Block BY <1>1 DEF Tiles
<1>4. /\ h.addr \in Nat /\ h.size \in Nat /\ AvailStart(h) \in Nat
      /\ AvailStart(h) = h.addr + Header /\ EndOf(h) = AvailStart(h) + h.size
      /\ h.addr < AvailStart(h) /\ EndOf(h) = h.addr + Header + h.size
      /\ Header \in Nat
  BY <1>3, BlockEnds, ZoneAssumption
<1>5. r.addr = AvailStart(h) /\ r.size = h.size BY <1>2 DEF Given
<1>6. HeadOf(r.addr, 0) = j
  <2> DEFINE a == r.addr
  <2>1. a \in Nat /\ h.addr <= a /\ a + 0 <= h.addr + h.size + Header /\ h.addr < a + 0
    <3> HIDE DEF h
    <3> QED BY <1>4, <1>5
  <2>2. a \in Nat /\ Holds(heads[j], a, 0) /\ heads[j].addr < a + 0
    BY <2>1 DEF Holds
  <2> HIDE DEF a, h
  <2>3. HeadOf(a, 0) = j BY <1>1, <2>2, HeadIsFirst
  <2> QED BY <2>3 DEF a
<1>7. heads' = Merge(t, j) /\ granted' = granted \ {r} /\ reserved' = {}
  BY <1>6 DEF Deallocate
<1>8. /\ Tiles(t, {}) /\ JoinedBut(t, j) /\ Len(t) = Len(heads) /\ t[j].free
      /\ UsedBlocks(t) = UsedBlocks(heads) \ {Given(heads[j])}
  <2> DEFINE q == t
  <2>1. q = t OBVIOUS
  <2> HIDE DEF q
  <2>2. /\ Tiles(q, {}) /\ JoinedBut(q, j) /\ Len(q) = Len(heads) /\ q[j].free
        /\ UsedBlocks(q) = UsedBlocks(heads) \ {Given(heads[j])}
    BY <1>1, <1>2, <2>1, FreeingKeeps
  <2> QED BY <2>1, <2>2
<1> HIDE DEF t, h
<1>9. j \in 1 .. Len(t) BY <1>8
<1>10. Tiles(heads', {}) /\ JoinedBut(heads', 0) /\ UsedBlocks(heads') = UsedBlocks(t)
  BY <1>7, <1>8, <1>9, MergeKeeps
<1>11. ListGood' BY <1>1, <1>2, <1>7, <1>8, <1>10 DEF ListGood, OneGap
<1>12. r \in Heap!Ranges
  <2>1. r \in [addr : Nat, size : Request] BY <1>1
  <2>2. r.size \in Request /\ r \in [addr : Nat, size : Nat] /\ r.size >= 1
    BY <2>1, ZoneAssumption
  <2>3. heads[j].addr < r.addr /\ r.addr + r.size <= EndOf(heads[j])
    BY <1>4, <1>5 DEF h
  <2> QED BY <1>1, <2>2, <2>3, RangeInZone
<1>13. Heap!GiveBack(r) BY <1>7 DEF Heap!GiveBack
<1> QED BY <1>11, <1>12, <1>13

\* Dereserve puts a head into the memory that was set aside, and joins the block
\* with its neighbours.
LEMMA DereserveKeeps ==
  ASSUME ListGood, NEW r \in reserved, Dereserve(r)
  PROVE  ListGood' /\ \E q \in Heap!Ranges : Heap!GiveBack(q)
<1>1. /\ JoinedBut(heads, 0) /\ OneGap(heads, reserved) /\ Tiles(heads, reserved)
      /\ granted = UsedBlocks(heads) /\ granted \subseteq [addr : Nat, size : Request]
  BY DEF ListGood
<1>2. PICK q \in Reservable :
        /\ reserved = {q} /\ q.size >= Header
        /\ \E i \in 1 .. Len(heads) - 1 : EndOf(heads[i]) = q.addr
  BY <1>1 DEF OneGap
<1>3. r = q BY <1>2
<1>4. PICK j \in 1 .. Len(heads) - 1 : EndOf(heads[j]) = r.addr BY <1>2, <1>3
<1> DEFINE h == heads[j]
           l == j + 1
           a == r.addr
           n == r.size
           e == heads[l].addr
           y == [addr |-> a, size |-> n - Header, free |-> TRUE]
           s == InsertAt(heads, l, y)
           gone == {r}
           gaps == {}
<1>5. /\ Tiles(heads, gone) /\ reserved = gone BY <1>1, <1>2, <1>3
<1>6. /\ heads \in Seq(Block) /\ Len(heads) \in Nat
      /\ j \in 1 .. Len(heads) /\ l \in 1 .. Len(heads) /\ j \in Nat /\ l = j + 1 /\ j < l
      /\ \A k \in 1 .. Len(heads) : heads[k] \in Block
  BY <1>5 DEF Tiles
<1>7. r \in [addr : Nat, size : Nat] /\ a \in Nat /\ n \in Nat /\ n >= Header
      /\ Header \in Nat /\ Header > 1 /\ Word \in Nat
  BY <1>2, <1>3, ZoneAssumption
<1>8. /\ h \in Block /\ h.addr \in Nat /\ h.size \in Nat /\ a = h.addr + Header + h.size
      /\ e \in Nat /\ e < EndOf(heads[l]) /\ EndOf(heads[l]) <= Start + Size
      /\ EndOf(heads[l]) \in Nat /\ Start + Size < Word /\ Start \in Nat /\ Size \in Nat
      /\ Start <= h.addr
  <2>1. heads[j] \in Block /\ heads[l] \in Block BY <1>6
  <2>2. Start <= heads[j].addr /\ EndOf(heads[l]) <= Start + Size
    BY <1>5, <1>6, InZone
  <2>3. EndOf(heads[j]) = heads[j].addr + Header + heads[j].size BY DEF EndOf
  <2> HIDE DEF l
  <2> QED BY <1>4, <2>1, <2>2, <2>3, BlockEnds, ZoneAssumption
<1>9. e = a + n
  <2>1. heads[j + 1].addr = After(EndOf(heads[j]), gone) BY <1>5 DEF Tiles
  <2>2. After(a, gone) = a + n BY DEF After
  <2> QED BY <1>4, <2>1, <2>2
<1>10. HeadOf(a - 1, 0) = j
  <2> DEFINE b == a - 1
  <2>1. b \in Nat /\ h.addr <= b /\ b + 0 <= h.addr + h.size + Header /\ h.addr < b + 0
    <3> DEFINE c == h.addr
               d == h.size
    <3>1. /\ c \in Nat /\ d \in Nat /\ a = c + Header + d
          /\ a \in Nat /\ Header \in Nat /\ Header > 1
      BY <1>7, <1>8
    <3> HIDE DEF a, c, d
    <3>2. b \in Nat /\ c <= b /\ b + 0 <= c + d + Header /\ c < b + 0 BY <3>1
    <3> QED BY <3>2 DEF c, d
  <2>2. b \in Nat /\ Holds(heads[j], b, 0) /\ heads[j].addr < b + 0
    BY <2>1 DEF Holds
  <2> HIDE DEF a, b, h, gone
  <2>3. HeadOf(b, 0) = j BY <1>5, <1>6, <2>2, HeadIsFirst
  <2> QED BY <2>3 DEF b
<1>11. Minus(n, Header) = n - Header
  <2> DEFINE d == n - Header
  <2>1. d \in Nat /\ d < Word
    <3> HIDE DEF a, n, e, h, l
    <3> QED BY <1>7, <1>8, <1>9
  <2> HIDE DEF d
  <2>2. d % Word = d BY <2>1, SmallRest
  <2> QED BY <2>2 DEF Minus, d
<1>12. heads' = Merge(s, l) /\ reserved' = reserved \ {r} /\ granted' = granted
  BY <1>10, <1>11 DEF Dereserve
<1>13. y \in Block /\ y.addr = a /\ y.free /\ EndOf(y) = a + n
  <2>1. n - Header \in Nat /\ a \in Nat BY <1>7
  <2>2. a + Header + (n - Header) = a + n
    <3> HIDE DEF a, n
    <3> QED BY <1>7
  <2> HIDE DEF a, n
  <2> QED BY <2>1, <2>2 DEF Block, EndOf
<1>14. Doubled(Block, heads, s, j, h, y)
  <2>1. [heads EXCEPT ![j] = h] = heads BY <1>6
  <2> DEFINE t == s
  <2>2. t = InsertAt([heads EXCEPT ![j] = h], j + 1, y) BY <2>1
  <2> HIDE DEF y, h, t
  <2>3. Doubled(Block, heads, t, j, h, y) BY <1>6, <1>8, <1>13, <2>2, Doubling
  <2> QED BY <2>3 DEF t
<1> HIDE DEF y, s
<1>15. Tiles(s, gaps)
  <2>1. /\ h.addr = heads[j].addr /\ EndOf(h) <= y.addr
        /\ y.addr = After(EndOf(h), gaps)
    BY <1>4, <1>7, <1>13 DEF After
  <2>2. /\ j = Len(heads) => EndOf(y) = Start + Size
        /\ j < Len(heads) => /\ heads[j + 1].addr = After(EndOf(y), gaps)
                             /\ EndOf(y) <= heads[j + 1].addr
    <3>1. j # Len(heads) BY <1>6
    <3>2. EndOf(y) = heads[j + 1].addr BY <1>9, <1>13
    <3>3. heads[j + 1].addr = After(EndOf(y), gaps) BY <3>2 DEF After
    <3>4. EndOf(y) <= heads[j + 1].addr BY <1>8, <3>2
    <3> QED BY <3>1, <3>3, <3>4
  <2>3. \A k \in 1 .. Len(heads) - 1 :
          k # j => heads[k + 1].addr = After(EndOf(heads[k]), gaps)
    <3> TAKE k \in 1 .. Len(heads) - 1
    <3> HAVE k # j
    <3>1. heads[k + 1].addr = After(EndOf(heads[k]), gone) BY <1>5 DEF Tiles
    <3>2. k \in 1 .. Len(heads) BY <1>6
    <3> HIDE DEF gone
    <3>3. EndOf(heads[k]) # EndOf(heads[j]) BY <1>5, <1>6, <3>2, SameBlock
    <3>4. EndOf(heads[k]) # r.addr BY <1>4, <3>3
    <3> QED BY <3>1, <3>4 DEF After, gone
  <2> HIDE DEF h, l, a, n, e, gone, gaps
  <2> QED BY <1>5, <1>6, <1>8, <1>13, <1>14, <2>1, <2>2, <2>3, DoubledTiles
<1>16. JoinedBut(s, l)
  <2>1. h.addr = heads[j].addr /\ h.free = heads[j].free OBVIOUS
  <2> HIDE DEF h, l, a, n, e, gone, gaps
  <2>2. l = j + 1 BY <1>6
  <2> QED BY <1>1, <1>6, <1>14, <2>1, <2>2, DoubledJoined
<1>17. UsedBlocks(s) = UsedBlocks(heads)
  <2>1. UsedBlocks(s) = UsedBlocks(heads) \union {Given(g) : g \in {k \in {h} : ~k.free}}
    <3> h = heads[j] OBVIOUS
    <3> HIDE DEF h, l, a, n, e, gone, gaps
    <3> QED BY <1>6, <1>13, <1>14, DoubledUsed
  <2>2. ~h.free => Given(h) \in UsedBlocks(heads) BY <1>6 DEF UsedBlocks
  <2> HIDE DEF h
  <2> QED BY <2>1, <2>2
<1>18. l \in 1 .. Len(s) /\ s[l].free
  <2>1. Len(s) = Len(heads) + 1 BY <1>14 DEF Doubled
  <2>2. l \in 1 .. Len(s)
    <3> DEFINE c == Len(s)
               d == Len(heads)
    <3>1. c = d + 1 /\ d \in Nat /\ l \in 1 .. d BY <1>6, <2>1
    <3> HIDE DEF c, d, l
    <3>2. l \in 1 .. c BY <3>1
    <3> QED BY <3>2 DEF c
  <2>3. ~(l < j) /\ l # j /\ l = j + 1 BY <1>6
  <2>4. s[l] = y
    <3> HIDE DEF l
    <3> QED BY <1>14, <2>2, <2>3 DEF Doubled
  <2> QED BY <1>13, <2>2, <2>4
<1>19. Tiles(heads', gaps) /\ JoinedBut(heads', 0) /\ UsedBlocks(heads') = UsedBlocks(s)
  <2> HIDE DEF l
  <2> QED BY <1>12, <1>15, <1>16, <1>18, MergeKeeps
<1>20. reserved' = {} BY <1>5, <1>12
<1>21. ListGood' BY <1>1, <1>12, <1>17, <1>19, <1>20 DEF ListGood, OneGap
<1>22. r \in Heap!Ranges
  <2>1. n >= 1 /\ Start <= a /\ a + n <= Start + Size
    <3> DEFINE b == EndOf(heads[l])
               c == h.addr
               d == h.size
    <3>1. /\ e < b /\ b <= Start + Size /\ b \in Nat /\ e \in Nat /\ e = a + n
          /\ c \in Nat /\ d \in Nat /\ a = c + Header + d /\ Start <= c
          /\ Start \in Nat /\ Size \in Nat
      BY <1>8, <1>9
    <3>2. a \in Nat /\ n \in Nat /\ n >= Header /\ Header \in Nat /\ Header > 1
      BY <1>7
    <3> HIDE DEF a, n, e, b, c, d
    <3> QED BY <3>1, <3>2
  <2> QED BY <1>7, <2>1, ZoneRanges
<1>23. r \notin granted
  <2> SUFFICES ASSUME r \in granted PROVE FALSE OBVIOUS
  <2>1. PICK k \in 1 .. Len(heads) : r = Given(heads[k]) BY <1>1 DEF UsedBlocks
  <2>2. /\ heads[k] \in Block /\ r.addr = AvailStart(heads[k]) /\ r.size = heads[k].size
    BY <1>6, <2>1 DEF Given
  <2>3. /\ heads[k].addr \in Nat /\ heads[k].size \in Nat /\ EndOf(heads[k]) \in Nat
        /\ EndOf(heads[k]) = AvailStart(heads[k]) + heads[k].size
        /\ heads[k].addr < AvailStart(heads[k]) /\ AvailStart(heads[k]) \in Nat
    BY <2>2, BlockEnds
  <2>4. n >= 1 BY <1>7
  <2>5. EndOf(heads[k]) = a + n /\ heads[k].addr < a BY <2>2, <2>3
  <2>6. CASE k <= j
    <3>1. k = j \/ k < j BY <1>6, <2>6
    <3>2. CASE k = j
      <4>1. a = a + n BY <1>4, <2>5, <3>2
      <4> HIDE DEF a, n
      <4> QED BY <1>7, <2>4, <4>1
    <3>3. CASE k < j
      <4>1. EndOf(heads[k]) < EndOf(heads[j]) BY <1>5, <1>6, <3>3, Ascend
      <4>2. a + n < a BY <1>4, <2>5, <4>1
      <4> HIDE DEF a, n
      <4> QED BY <1>7, <2>4, <4>2
    <3> QED BY <3>1, <3>2, <3>3
  <2>7. CASE j < k
    <3>1. EndOf(heads[j]) <= heads[k].addr BY <1>5, <1>6, <2>7, Ascend
    <3> QED BY <1>4, <1>7, <2>3, <2>5, <3>1
  <2> QED BY <1>6, <2>6, <2>7
<1>24. Heap!GiveBack(r)
  <2>1. granted' \union reserved' = (granted \union reserved) \ {r}
    BY <1>5, <1>12, <1>20, <1>23
  <2> QED BY <2>1 DEF Heap!GiveBack
<1> QED BY <1>21, <1>22, <1>24

-----------------------------------------------------------------------------
(* The theorems.                                                           *)

\* The zone is one free block at first.
LEMMA InitGood == Init => ListGood
<1> SUFFICES ASSUME Init PROVE ListGood OBVIOUS
<1> DEFINE h == [addr |-> Start, size |-> Size - Header, free |-> TRUE]
<1>1. Start \in Nat /\ Size \in Nat /\ Header \in Nat /\ Header < Size
  BY ZoneAssumption
<1>2. h \in Block /\ h.addr = Start /\ h.free /\ EndOf(h) = Start + Size
  BY <1>1 DEF Block, EndOf
<1>3. heads = <<h>> /\ granted = {} /\ reserved = {} BY DEF Init
<1> HIDE DEF h
<1>4. heads \in Seq(Block) /\ Len(heads) = 1 /\ heads[1] = h BY <1>2, <1>3
<1>5. Tiles(heads, {})
  <2>1. \A i, j \in 1 .. Len(heads) : ~(i < j) BY <1>4
  <2>2. \A i \in 1 .. Len(heads) - 1 : FALSE BY <1>4
  <2>3. Len(heads) >= 1 BY <1>4
  <2>4. heads[1].addr = Start /\ EndOf(heads[Len(heads)]) = Start + Size BY <1>2, <1>4
  <2> QED BY <1>4, <2>1, <2>2, <2>3, <2>4 DEF Tiles
<1>6. JoinedBut(heads, 0)
  <2>1. \A k \in 1 .. Len(heads) - 1 : FALSE BY <1>4
  <2> QED BY <2>1 DEF JoinedBut
<1>7. UsedBlocks(heads) = {}
  <2>1. \A k \in 1 .. Len(heads) : heads[k].free BY <1>2, <1>4
  <2> QED BY <2>1 DEF UsedBlocks
<1> QED BY <1>3, <1>5, <1>6, <1>7 DEF ListGood, OneGap

\* Every operation of a careful caller keeps the invariant, and grants or takes
\* back a range as the zone may.
LEMMA CarefulStepKeeps ==
  ASSUME ListGood, [CarefulNext]_listVars
  PROVE  ListGood' /\ [Heap!HeapNext]_(granted \union reserved)
<1>1. ASSUME NEW n \in Request, NEW al \in Align \intersect {0}, Allocate(n, al)
      PROVE  ListGood' /\ Heap!HeapNext
  BY <1>1, AllocateKeeps DEF Heap!HeapNext
<1>2. ASSUME NEW r \in granted, reserved = {}, Deallocate(r)
      PROVE  ListGood' /\ Heap!HeapNext
  BY <1>2, DeallocateKeeps DEF Heap!HeapNext
<1>3. ASSUME NEW r \in Reservable, reserved = {}, LeavesRoom(r), Reserve(r)
      PROVE  ListGood' /\ Heap!HeapNext
  BY <1>3, ReserveKeeps DEF Heap!HeapNext
<1>4. ASSUME NEW r \in reserved, Dereserve(r)
      PROVE  ListGood' /\ Heap!HeapNext
  BY <1>4, DereserveKeeps DEF Heap!HeapNext
<1>5. ASSUME UNCHANGED listVars
      PROVE  ListGood' /\ UNCHANGED (granted \union reserved)
  <2>1. heads' = heads /\ granted' = granted /\ reserved' = reserved
    BY <1>5 DEF listVars
  <2>2. ListGood' BY <2>1 DEF ListGood
  <2> QED BY <2>1, <2>2
<1> QED BY <1>1, <1>2, <1>3, <1>4, <1>5 DEF CarefulNext

\* The blocks fill the zone around the one range that may be set aside, no two
\* free ones touch, and the used ones are what callers have, as long as callers
\* are careful.
THEOREM ListGoodCorrect == CarefulSpec => []ListGood
<1>1. Init => ListGood BY InitGood
<1>2. ListGood /\ [CarefulNext]_listVars => ListGood' BY CarefulStepKeeps
<1> QED BY <1>1, <1>2, PTL DEF CarefulSpec

\* No address and no size has wrapped around.
LEMMA GoodTyped == ListGood => TypeOK
<1> SUFFICES ASSUME ListGood PROVE TypeOK OBVIOUS
<1>1. /\ Tiles(heads, reserved) /\ OneGap(heads, reserved)
      /\ granted = UsedBlocks(heads) /\ granted \subseteq [addr : Nat, size : Request]
  BY DEF ListGood
<1>2. heads \in Seq(Block) /\ Len(heads) \in Nat /\ DOMAIN heads = 1 .. Len(heads)
  BY <1>1 DEF Tiles
<1>3. Start \in Nat /\ Size \in Nat /\ Word \in Nat /\ Header \in Nat
      /\ Start + Size < Word
  BY ZoneAssumption
<1>4. ASSUME NEW i \in 1 .. Len(heads)
      PROVE  /\ heads[i] \in ListHead /\ heads[i].size <= Size
             /\ AvailStart(heads[i]) \in Start .. Start + Size
  <2> DEFINE h == heads[i]
             a == h.addr
             n == h.size
             e == EndOf(h)
  <2>1. h \in Block /\ Start <= a /\ e <= Start + Size BY <1>1, InZone
  <2>2. a \in Nat /\ n \in Nat /\ e = a + Header + n /\ AvailStart(h) = a + Header
    BY <2>1, BlockEnds, <1>3 DEF EndOf
  <2>3. h = [addr |-> a, size |-> n, free |-> h.free] /\ h.free \in BOOLEAN
    BY <2>1 DEF Block
  <2> HIDE DEF a, n, e
  <2>4. /\ a \in 0 .. Word - 1 /\ n \in 0 .. Word - 1 /\ n <= Size
        /\ a + Header \in Start .. Start + Size
    BY <1>3, <2>1, <2>2
  <2>5. h \in ListHead BY <2>3, <2>4 DEF ListHead
  <2> QED BY <2>2, <2>4, <2>5 DEF n
<1>5. heads \in Seq(ListHead)
  <2>1. \A i \in 1 .. Len(heads) : heads[i] \in ListHead BY <1>4
  <2> QED BY <1>2, <2>1
<1>6. granted \subseteq [addr : Start .. Start + Size, size : Request]
  <2> SUFFICES ASSUME NEW u \in granted
               PROVE  u \in [addr : Start .. Start + Size, size : Request]
    OBVIOUS
  <2>1. u \in [addr : Nat, size : Request] BY <1>1
  <2>2. PICK k \in 1 .. Len(heads) : u = Given(heads[k]) BY <1>1 DEF UsedBlocks
  <2>3. u.addr = AvailStart(heads[k]) BY <2>2 DEF Given
  <2>4. u.addr \in Start .. Start + Size /\ u.size \in Request BY <1>4, <2>1, <2>3
  <2>5. u = [addr |-> u.addr, size |-> u.size] BY <2>1
  <2> DEFINE A == Start .. Start + Size
             b == u.addr
             n == u.size
  <2>6. b \in A /\ n \in Request /\ u = [addr |-> b, size |-> n] BY <2>4, <2>5
  <2> HIDE DEF A, b, n
  <2>7. u \in [addr : A, size : Request] BY <2>6
  <2> QED BY <2>7 DEF A
<1>7. reserved \subseteq Reservable BY <1>1 DEF OneGap
<1> QED BY <1>2, <1>4, <1>5, <1>6, <1>7 DEF TypeOK

\* Every byte of the zone is in one block or in the range that is set aside
\* (Allocate, Reserve and Dereserve cut, MergeFreeHead joins).
THEOREM TilesZoneCorrect == CarefulSpec => []TilesZone
<1>1. ListGood => TilesZone
  <2> SUFFICES ASSUME ListGood PROVE TilesZone OBVIOUS
  <2>1. TypeOK BY GoodTyped
  <2>2. Tiles(heads, reserved) BY DEF ListGood
  <2>3. \A i \in 1 .. Len(heads) - 1 :
          heads[i + 1].addr = AfterReserved(EndOf(heads[i]))
    BY <2>2 DEF Tiles, After, AfterReserved
  <2> QED BY <2>1, <2>2, <2>3 DEF TilesZone, Tiles
<1> QED BY <1>1, ListGoodCorrect, PTL

\* Two free blocks never touch, in whatever order blocks were given back
\* (MergeFreeHead).
THEOREM CoalescedCorrect == CarefulSpec => []Coalesced
<1>1. ListGood => Coalesced
  <2> SUFFICES ASSUME ListGood PROVE Coalesced OBVIOUS
  <2>1. JoinedBut(heads, 0) /\ Len(heads) \in Nat BY DEF ListGood, Tiles
  <2>2. ASSUME NEW i \in 1 .. Len(heads) - 1, EndOf(heads[i]) = heads[i + 1].addr
        PROVE  ~(heads[i].free /\ heads[i + 1].free)
    <3>1. i # 0 /\ i + 1 # 0 BY <2>1
    <3> QED BY <2>1, <2>2, <3>1 DEF JoinedBut
  <2> QED BY <2>2 DEF Coalesced
<1> QED BY <1>1, ListGoodCorrect, PTL

\* What is set aside is in no used block (Reserve), as long as no block is given
\* back meanwhile, as careful callers see to.
THEOREM ReservedIsKeptCorrect == CarefulSpec => []ReservedIsKept
<1>1. ListGood => ReservedIsKept
  <2> SUFFICES ASSUME ListGood, NEW r \in reserved, NEW i \in DOMAIN heads,
                      ~heads[i].free
               PROVE  EndOf(heads[i]) <= r.addr \/ r.addr + r.size <= heads[i].addr
    BY DEF ReservedIsKept
  <2> DEFINE gaps == reserved
  <2>1. Tiles(heads, gaps) /\ OneGap(heads, gaps) BY DEF ListGood
  <2>2. i \in 1 .. Len(heads) /\ Len(heads) \in Nat
        /\ \A k \in 1 .. Len(heads) : heads[k] \in Block
    BY <2>1 DEF Tiles
  <2>3. PICK g \in Reservable :
          /\ gaps = {g} /\ g.size >= Header
          /\ \E j \in 1 .. Len(heads) - 1 : EndOf(heads[j]) = g.addr
    BY <2>1 DEF OneGap
  <2>4. r = g BY <2>3
  <2>5. PICK j \in 1 .. Len(heads) - 1 : EndOf(heads[j]) = r.addr BY <2>3, <2>4
  <2> DEFINE l == j + 1
  <2>6. j \in 1 .. Len(heads) /\ l \in 1 .. Len(heads) /\ i \in Nat /\ j \in Nat
        /\ l = j + 1
    BY <2>2
  <2>7. heads[l].addr = r.addr + r.size
    <3>1. heads[l].addr = After(r.addr, gaps) BY <2>1, <2>5 DEF Tiles
    <3> QED BY <2>3, <2>4, <3>1 DEF After
  <2> HIDE DEF l, gaps
  <2>8. /\ EndOf(heads[i]) \in Nat /\ heads[i].addr \in Nat
        /\ EndOf(heads[j]) \in Nat /\ heads[l].addr \in Nat
    BY <2>2, <2>6, BlockEnds
  <2>9. CASE i <= j
    <3>1. i = j \/ EndOf(heads[i]) < EndOf(heads[j]) BY <2>1, <2>2, <2>6, <2>9, Ascend
    <3> QED BY <2>5, <2>8, <3>1
  <2>10. CASE j < i
    <3>1. i = l \/ heads[l].addr < heads[i].addr BY <2>1, <2>2, <2>6, <2>10, Ascend
    <3> QED BY <2>7, <2>8, <3>1
  <2> QED BY <2>6, <2>9, <2>10
<1> QED BY <1>1, ListGoodCorrect, PTL

\* What careful callers get are disjoint ranges of the zone, each of which goes back
\* whole: every operation is one of the abstract heap's.
THEOREM ListImplementsHeap == CarefulSpec => ImplementsHeap
<1>1. Init => Heap!HeapInit BY DEF Init, Heap!HeapInit
<1>2. ListGood /\ [CarefulNext]_listVars => [Heap!HeapNext]_(granted \union reserved)
  BY CarefulStepKeeps
<1> QED BY <1>1, <1>2, ListGoodCorrect, PTL DEF CarefulSpec, ImplementsHeap, Heap!HeapSpec
=============================================================================
