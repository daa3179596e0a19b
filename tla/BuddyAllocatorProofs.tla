------------------------ MODULE BuddyAllocatorProofs ------------------------
(***************************************************************************)
(* Proofs about BuddyAllocator, for a zone of any size, any requests and   *)
(* any ranges reserved.                                                    *)
(*                                                                         *)
(* What the array of cells means is the same between any two calls: the    *)
(* blocks that are free or in use are the leaves of a tree of halves over  *)
(* the largest block (Tree).  Here are the blocks of that tree.  A call    *)
(* works along a chain, which has one block on each level, each a half of  *)
(* the next: SplitLargeSpace opens a free block at its upper end, and      *)
(* MergeBuddy closes what begins at its lower end.  Two lemmas say that    *)
(* both keep the tree; the others find the chain in what the code does.    *)
(*                                                                         *)
(* What callers are promised follows from a correspondence of ranges and   *)
(* blocks in use (OneGrantEach).  SplitLargeSpace keeps it for reserved    *)
(* ranges only if they lie in one block.                                   *)
(***************************************************************************)
EXTENDS BuddyAllocator, FiniteSetTheorems, NaturalsInduction, WellFoundedInduction, TLAPS

-----------------------------------------------------------------------------
(* Counting.                                                               *)

\* A set of numbers that is not empty has a least element.
LEMMA HasLeast ==
  ASSUME NEW S, S \subseteq Nat, S # {}
  PROVE  \E x \in S : \A y \in S : x <= y
<1>1. PICK x \in S : \A y \in S : ~ (<<y, x>> \in OpToRel(<, Nat))
  BY WFMin, NatLessThanWellFounded
<1>2. ASSUME NEW y \in S PROVE x <= y
  <2>1. ~(y < x) BY <1>1 DEF OpToRel
  <2> QED BY <2>1
<1> QED BY <1>2

\* What holds at one level and passes to the next one above holds up to the last,
LEMMA Upwards ==
  ASSUME NEW lo \in Nat, NEW hi \in Nat, NEW good, lo \in good,
         \A i \in lo .. hi - 1 : i \in good => i + 1 \in good
  PROVE  \A i \in lo .. hi : i \in good
<1> DEFINE bad == {i \in lo .. hi : i \notin good}
<1> SUFFICES ASSUME bad # {} PROVE FALSE OBVIOUS
<1>1. bad \subseteq Nat OBVIOUS
<1> HIDE DEF bad
<1>2. PICK x \in bad : \A y \in bad : x <= y BY <1>1, HasLeast
<1>3. x \in lo .. hi /\ x \notin good /\ x # lo BY <1>2 DEF bad
<1>4. x - 1 \in lo .. hi - 1 /\ x - 1 \in lo .. hi /\ ~(x <= x - 1) BY <1>3
<1>5. x - 1 \in good BY <1>2, <1>4 DEF bad
<1>6. (x - 1) + 1 = x BY <1>3
<1> QED BY <1>3, <1>4, <1>5, <1>6

\* and what passes to the next one below holds down to the first.
LEMMA Downwards ==
  ASSUME NEW lo \in Nat, NEW hi \in Nat, NEW good, hi \in good,
         \A i \in lo .. hi - 1 : i + 1 \in good => i \in good
  PROVE  \A i \in lo .. hi : i \in good
<1> DEFINE up == {i \in 0 .. hi - lo : hi - i \in good}
<1> SUFFICES ASSUME NEW i \in lo .. hi PROVE i \in good OBVIOUS
<1>1. /\ hi - lo \in Nat /\ hi - 0 = hi /\ 0 \in 0 .. hi - lo
      /\ hi - i \in 0 .. hi - lo /\ hi - (hi - i) = i
  BY SMT
<1>2. 0 \in up BY <1>1
<1>3. ASSUME NEW k \in 0 .. (hi - lo) - 1, k \in up PROVE k + 1 \in up
  <2>1. /\ hi - (k + 1) \in lo .. hi - 1 /\ (hi - (k + 1)) + 1 = hi - k
        /\ k + 1 \in 0 .. hi - lo
    BY SMT
  <2> QED BY <1>3, <2>1
<1> HIDE DEF up
<1>4. \A k \in 0 .. hi - lo : k \in up BY <1>1, <1>2, <1>3, Upwards
<1>5. hi - i \in up BY <1>1, <1>4
<1> QED BY <1>1, <1>5 DEF up

\* What a quotient is.
LEMMA Quotient ==
  ASSUME NEW x \in Nat, NEW p \in Nat \ {0}, NEW q \in Nat
  PROVE  /\ x \div p \in Nat
         /\ x \div p = q <=> q * p <= x /\ x < q * p + p
<1> DEFINE d == x \div p
           r == x % p
           a == d * p
           b == q * p
<1>1. x = p * d + r /\ r \in 0 .. p - 1 /\ d \in Nat BY SMT
<1> HIDE DEF d, r
<1>2. p * d = a BY <1>1, SMT
<1>3. a \in Nat /\ b \in Nat BY <1>1, SMT
<1>4. CASE d = q
  <2>1. a = b BY <1>4
  <2> HIDE DEF a, b
  <2>2. b <= x /\ x < b + p BY <1>1, <1>2, <1>3, <2>1, SMT
  <2> QED BY <1>1, <1>4, <2>2 DEF b, d
<1>5. CASE d < q
  <2>1. PICK k \in Nat : q = d + 1 + k
    <3> q - (d + 1) \in Nat /\ q = d + 1 + (q - (d + 1)) BY <1>1, <1>5, SMT
    <3> QED OBVIOUS
  <2>2. b = a + p + k * p /\ k * p \in Nat BY <1>1, <2>1, SMT
  <2> DEFINE c == k * p
  <2> HIDE DEF a, b, c
  <2>3. b = a + p + c /\ c \in Nat BY <2>2 DEF c
  <2>4. ~(b <= x) BY <1>1, <1>2, <1>3, <2>3, SMT
  <2>5. d # q BY <1>1, <1>5, SMT
  <2> QED BY <1>1, <2>4, <2>5 DEF b, d
<1>6. CASE q < d
  <2>1. PICK k \in Nat : d = q + 1 + k
    <3> d - (q + 1) \in Nat /\ d = q + 1 + (d - (q + 1)) BY <1>1, <1>6, SMT
    <3> QED OBVIOUS
  <2>2. a = b + p + k * p /\ k * p \in Nat BY <1>1, <2>1, SMT
  <2> DEFINE c == k * p
  <2> HIDE DEF a, b, c
  <2>3. a = b + p + c /\ c \in Nat BY <2>2 DEF c
  <2>4. ~(x < b + p) BY <1>1, <1>2, <1>3, <2>3, SMT
  <2>5. d # q BY <1>1, <1>6, SMT
  <2> QED BY <1>1, <2>4, <2>5 DEF b, d
<1> QED BY <1>1, <1>4, <1>5, <1>6, SMT

\* Halves of numbers.
LEMMA Half ==
  ASSUME NEW x \in Nat
  PROVE  /\ x \div 2 \in Nat
         /\ x = 2 * (x \div 2) \/ x = 2 * (x \div 2) + 1
OBVIOUS

\* A block of twice the size has half the number.
LEMMA QuotientHalves ==
  ASSUME NEW x \in Nat, NEW p \in Nat \ {0}
  PROVE  x \div (2 * p) = (x \div p) \div 2
<1> DEFINE q == x \div p
           h == q \div 2
           a == q * p
           b == h * (2 * p)
<1>1. q \in Nat BY Quotient, 0 \in Nat
<1>2. h \in Nat /\ (q = 2 * h \/ q = 2 * h + 1) BY <1>1, Half
<1>3. a <= x /\ x < a + p BY <1>1, Quotient
<1> HIDE DEF q, h
<1>4. 2 * p \in Nat \ {0} /\ a \in Nat /\ b \in Nat BY <1>1, <1>2, SMT
<1>5. a = b \/ a = b + p
  <2>1. CASE q = 2 * h BY <1>2, <2>1, SMT
  <2>2. CASE q = 2 * h + 1 BY <1>2, <2>2, SMT
  <2> QED BY <1>2, <2>1, <2>2
<1>6. b <= x /\ x < b + 2 * p
  <2> HIDE DEF a, b
  <2> QED BY <1>3, <1>4, <1>5, SMT
<1>7. x \div (2 * p) = h BY <1>2, <1>4, <1>6, Quotient
<1> QED BY <1>7 DEF h, q

-----------------------------------------------------------------------------
(* Sizes of blocks.                                                        *)

\* The sizes are what their definition says.
LEMMA Sizes ==
  /\ Size = [i \in 0 .. Units |-> IF i = 0 THEN 1 ELSE 2 * Size[i - 1]]
  /\ \A i \in 0 .. Units : Size[i] \in Nat /\ Size[i] > i
  /\ Size[0] = 1
  /\ \A i \in 0 .. Units - 1 : Size[i + 1] = 2 * Size[i]
<1> DEFINE Rounds(g, k) == g = [i \in 0 .. k |-> IF i = 0 THEN 1 ELSE 2 * g[i - 1]]
           good == {k \in 0 .. Units : \E g : Rounds(g, k)}
<1>0. Units \in Nat \ {0} /\ 0 \in Nat BY ZoneAssumption
<1>1. 0 \in good
  <2> DEFINE g == [i \in 0 .. 0 |-> 1]
  <2>1. Rounds(g, 0) BY SMT
  <2> HIDE DEF g, Rounds
  <2> QED BY <1>0, <2>1
<1>2. ASSUME NEW k \in 0 .. Units - 1, k \in good PROVE k + 1 \in good
  <2>1. PICK g : Rounds(g, k) BY <1>2
  <2> DEFINE h == [i \in 0 .. k + 1 |-> IF i = k + 1 THEN 2 * g[k] ELSE g[i]]
  <2>2. ASSUME NEW i \in 0 .. k + 1
        PROVE  h[i] = IF i = 0 THEN 1 ELSE 2 * h[i - 1]
    <3>1. CASE i = k + 1
      <4>1. i # 0 /\ i - 1 = k /\ k \in 0 .. k + 1 /\ k # k + 1 BY <1>0, <3>1
      <4>2. h[k] = g[k] /\ h[i] = 2 * g[k] BY <3>1, <4>1
      <4> QED BY <4>1, <4>2
    <3>2. CASE i # k + 1
      <4>1. i \in 0 .. k BY <1>0, <3>2
      <4>2. h[i] = g[i] /\ g[i] = IF i = 0 THEN 1 ELSE 2 * g[i - 1]
        BY <2>1, <3>2, <4>1
      <4>3. CASE i = 0 BY <4>2, <4>3
      <4>4. CASE i # 0
        <5>1. i - 1 \in 0 .. k + 1 /\ i - 1 # k + 1 BY <4>1, <4>4
        <5>2. h[i - 1] = g[i - 1] BY <5>1
        <5> QED BY <4>2, <4>4, <5>2
      <4> QED BY <4>3, <4>4
    <3> QED BY <3>1, <3>2
  <2>3. Rounds(h, k + 1)
    <3>1. h = [i \in 0 .. k + 1 |-> h[i]] OBVIOUS
    <3> HIDE DEF h
    <3>2. [i \in 0 .. k + 1 |-> h[i]]
            = [i \in 0 .. k + 1 |-> IF i = 0 THEN 1 ELSE 2 * h[i - 1]]
      BY <2>2
    <3> QED BY <3>1, <3>2
  <2>4. k + 1 \in 0 .. Units BY <1>0
  <2> HIDE DEF h, Rounds
  <2> QED BY <2>3, <2>4
<1>3. Units \in good
  <2> HIDE DEF good
  <2>1. \A i \in 0 .. Units : i \in good BY <1>0, <1>1, <1>2, Upwards
  <2> QED BY <1>0, <2>1
<1>4. Rounds(Size, Units)
  <2>1. \E g : Rounds(g, Units) BY <1>3
  <2>2. Size = CHOOSE g : Rounds(g, Units) BY DEF Size
  <2> HIDE DEF Rounds
  <2> QED BY <2>1, <2>2
<1>5. /\ Size = [i \in 0 .. Units |-> IF i = 0 THEN 1 ELSE 2 * Size[i - 1]]
      /\ \A i \in 0 .. Units : Size[i] = IF i = 0 THEN 1 ELSE 2 * Size[i - 1]
  BY <1>4
<1>6. Size[0] = 1 BY <1>0, <1>5
<1>7. ASSUME NEW i \in 0 .. Units - 1 PROVE Size[i + 1] = 2 * Size[i]
  <2>1. i + 1 \in 0 .. Units /\ i + 1 # 0 /\ (i + 1) - 1 = i BY <1>0
  <2> QED BY <1>5, <2>1
<1> DEFINE large == {i \in 0 .. Units : Size[i] \in Nat /\ Size[i] > i}
<1>8. 0 \in large BY <1>0, <1>6
<1>9. ASSUME NEW i \in 0 .. Units - 1, i \in large PROVE i + 1 \in large
  <2>1. i + 1 \in 0 .. Units /\ i \in Nat BY <1>0
  <2>2. Size[i] \in Nat /\ Size[i] > i BY <1>9
  <2>3. 2 * Size[i] \in Nat /\ 2 * Size[i] > i + 1 BY <2>1, <2>2, SMT
  <2> QED BY <1>7, <2>1, <2>3
<1>10. \A i \in 0 .. Units : i \in large
  <2> HIDE DEF large
  <2> QED BY <1>0, <1>8, <1>9, Upwards
<1> QED BY <1>5, <1>6, <1>7, <1>10

\* The zone has a largest block, and levels have the type of levels.
LEMMA Levels ==
  /\ Top \in 0 .. Units /\ Size[Top] <= Units /\ Units < 2 * Size[Top]
  /\ \A k \in Level : k \in Nat /\ k \in 0 .. Units /\ Size[k] \in Nat \ {0}
  /\ \A k \in Level : k # Top => /\ k + 1 \in Level /\ k \in 0 .. Top - 1
                                 /\ Size[k + 1] = 2 * Size[k]
  /\ 0 \in Level /\ Top \in Level
<1>0. Units \in Nat \ {0} BY ZoneAssumption
<1> DEFINE above == {k \in 0 .. Units : Units < 2 * Size[k]}
<1>1. Units \in above
  <2>1. Units \in 0 .. Units /\ Size[Units] \in Nat /\ Size[Units] > Units
    BY <1>0, Sizes
  <2> QED BY <1>0, <2>1
<1>2. above \subseteq Nat BY <1>0
<1>3. PICK t \in above : \A k \in above : t <= k
  <2> HIDE DEF above
  <2> QED BY <1>1, <1>2, HasLeast
<1>4. Size[t] <= Units
  <2>1. CASE t = 0 BY <1>0, <2>1, Sizes
  <2>2. CASE t # 0
    <3>1. /\ t \in 0 .. Units /\ t - 1 \in 0 .. Units /\ t - 1 \in 0 .. Units - 1
          /\ (t - 1) + 1 = t /\ ~(t <= t - 1)
      BY <1>0, <2>2
    <3>2. t - 1 \notin above BY <1>3, <3>1
    <3>3. ~(Units < 2 * Size[t - 1]) BY <3>1, <3>2
    <3>4. Size[t] = 2 * Size[t - 1] BY <3>1, Sizes
    <3>5. Size[t] \in Nat BY <3>1, Sizes
    <3> QED BY <1>0, <3>3, <3>4, <3>5
  <2> QED BY <2>1, <2>2
<1>5. Top \in 0 .. Units /\ Size[Top] <= Units /\ Units < 2 * Size[Top]
  <2>1. \E k \in 0 .. Units : Size[k] <= Units /\ Units < 2 * Size[k] BY <1>4
  <2> QED BY <2>1 DEF Top
<1>6. ASSUME NEW k \in Level
      PROVE  /\ k \in Nat /\ k \in 0 .. Units /\ Size[k] \in Nat \ {0}
             /\ k # Top => /\ k + 1 \in Level /\ k \in 0 .. Top - 1
                           /\ Size[k + 1] = 2 * Size[k]
  <2>1. k \in Nat /\ k \in 0 .. Units BY <1>0, <1>5 DEF Level
  <2>2. Size[k] \in Nat /\ Size[k] > k BY <2>1, Sizes
  <2>3. Size[k] \in Nat \ {0} BY <2>1, <2>2
  <2>4. ASSUME k # Top
        PROVE  k + 1 \in Level /\ k \in 0 .. Top - 1 /\ k \in 0 .. Units - 1
    BY <1>0, <1>5, <2>4 DEF Level
  <2> QED BY <2>1, <2>3, <2>4, Sizes
<1>7. 0 \in Level /\ Top \in Level BY <1>5 DEF Level
<1> QED BY <1>5, <1>6, <1>7

\* The same as a fact about a level that is not the highest.
LEMMA NextLevel ==
  ASSUME NEW k \in Level, NEW l \in Level, k < l
  PROVE  /\ k # Top /\ k + 1 \in Level /\ k \in 0 .. Top - 1
         /\ Size[k + 1] = 2 * Size[k]
<1>1. Top \in Nat BY Levels
<1>2. k # Top BY <1>1, Levels DEF Level
<1> QED BY <1>2, Levels

\* Blocks of higher levels are larger.
LEMMA SizesGrow ==
  ASSUME NEW k \in Level, NEW l \in Level, k <= l
  PROVE  Size[k] <= Size[l]
<1> DEFINE good == {i \in k .. l : Size[k] <= Size[i]}
<1>1. k \in Nat /\ l \in Nat /\ k \in k .. l /\ l \in k .. l /\ Size[k] \in Nat BY Levels
<1>2. k \in good BY <1>1
<1>3. ASSUME NEW i \in k .. l - 1, i \in good PROVE i + 1 \in good
  <2>1. i \in Level /\ i < l /\ i + 1 \in k .. l BY <1>1, Levels DEF Level
  <2>2. Size[i + 1] = 2 * Size[i] BY <2>1, NextLevel
  <2>3. Size[i] \in Nat /\ Size[k] <= Size[i] BY <1>3, <2>1, Levels
  <2>4. Size[k] <= 2 * Size[i] BY <1>1, <2>3, SMT
  <2> QED BY <2>1, <2>2, <2>4
<1> HIDE DEF good
<1>4. \A i \in k .. l : i \in good BY <1>1, <1>2, <1>3, Upwards
<1>5. l \in good BY <1>1, <1>4
<1> QED BY <1>5 DEF good

-----------------------------------------------------------------------------
(* Blocks around an address.                                               *)

\* The number of the block of level k around a unit.
Number(u, k) == (u - Start) \div Size[k]

\* The units of the largest block and of those in it.
InZone(u) == u \in Nat /\ Start <= u

\* The blocks of the usable units.
Here == {Around(u, k) : u \in Usable, k \in Level}

\* A block is around its units.
LEMMA NumberIs ==
  ASSUME NEW u, InZone(u), NEW k \in Level, NEW q \in Nat
  PROVE  /\ Number(u, k) \in Nat
         /\ q * Size[k] \in Nat
         /\ Number(u, k) = q <=> /\ Start + q * Size[k] <= u
                                 /\ u < Start + q * Size[k] + Size[k]
<1> DEFINE s == Size[k]
           x == u - Start
           m == q * s
<1>1. Start \in Nat /\ s \in Nat \ {0} BY Levels, ZoneAssumption
<1>2. x \in Nat /\ u \in Nat BY <1>1 DEF InZone
<1> HIDE DEF s
<1>3. m \in Nat BY <1>1, SMT
<1>4. x \div s \in Nat /\ (x \div s = q <=> q * s <= x /\ x < q * s + s)
  <2> HIDE DEF x
  <2> QED BY <1>1, <1>2, Quotient
<1>5. q * s <= x /\ x < q * s + s <=> Start + m <= u /\ u < Start + m + s
  <2>1. m <= x /\ x < m + s <=> Start + m <= u /\ u < Start + m + s
    <3> HIDE DEF m
    <3> QED BY <1>1, <1>2, <1>3, SMT
  <2> QED BY <2>1
<1> QED BY <1>3, <1>4, <1>5 DEF Number, s

\* The next larger block has half the number.
LEMMA NumberHalves ==
  ASSUME NEW u, InZone(u), NEW k \in Level, k # Top
  PROVE  Number(u, k + 1) = Number(u, k) \div 2
<1> DEFINE x == u - Start
<1>1. /\ k + 1 \in Level /\ Size[k] \in Nat \ {0} /\ Size[k + 1] = 2 * Size[k]
  BY Levels
<1>2. x \in Nat BY ZoneAssumption DEF InZone
<1> HIDE DEF x
<1>3. x \div (2 * Size[k]) = (x \div Size[k]) \div 2 BY <1>1, <1>2, QuotientHalves
<1> QED BY <1>1, <1>3 DEF Number, x

\* Two units of one block are in one block on every level above.
LEMMA TogetherAbove ==
  ASSUME NEW u, InZone(u), NEW v, InZone(v), NEW k \in Level, NEW l \in Level, k <= l,
         Number(u, k) = Number(v, k)
  PROVE  Number(u, l) = Number(v, l)
<1> DEFINE good == {i \in k .. l : Number(u, i) = Number(v, i)}
<1>1. k \in Nat /\ l \in Nat /\ k \in k .. l /\ l \in k .. l BY Levels
<1>2. k \in good BY <1>1
<1>3. ASSUME NEW i \in k .. l - 1, i \in good PROVE i + 1 \in good
  <2>1. i \in Level /\ i < l /\ i + 1 \in k .. l BY <1>1, Levels DEF Level
  <2>2. i # Top BY <2>1, NextLevel
  <2>3. Number(u, i + 1) = Number(u, i) \div 2 BY <2>1, <2>2, NumberHalves
  <2>4. Number(v, i + 1) = Number(v, i) \div 2 BY <2>1, <2>2, NumberHalves
  <2> QED BY <1>3, <2>1, <2>3, <2>4
<1> HIDE DEF good
<1>4. \A i \in k .. l : i \in good BY <1>1, <1>2, <1>3, Upwards
<1>5. l \in good BY <1>1, <1>4
<1> QED BY <1>5 DEF good

\* The usable units are those of the one block of the highest level.
LEMMA UsableUnits ==
  /\ \A u \in Usable : InZone(u)
  /\ \A u : InZone(u) => (u \in Usable <=> Number(u, Top) = 0)
<1>1. Top \in Level /\ Start \in Nat /\ Size[Top] \in Nat \ {0}
  BY Levels, ZoneAssumption
<1>2. ASSUME NEW u \in Usable PROVE InZone(u) BY <1>1 DEF Usable, InZone
<1>3. ASSUME NEW u, InZone(u) PROVE u \in Usable <=> Number(u, Top) = 0
  <2>1. Number(u, Top) = 0 <=> /\ Start + 0 * Size[Top] <= u
                               /\ u < Start + 0 * Size[Top] + Size[Top]
    BY <1>1, <1>3, NumberIs, 0 \in Nat
  <2>2. 0 * Size[Top] = 0 BY <1>1, SMT
  <2>3. u \in Nat /\ Start <= u BY <1>3 DEF InZone
  <2>4. u \in Usable <=> Start <= u /\ u < Start + Size[Top]
    BY <1>1, <2>3, SMT DEF Usable
  <2> QED BY <1>1, <2>1, <2>2, <2>3, <2>4
<1> QED BY <1>2, <1>3

\* A block of usable units has a level and a number, and all its units are usable.
LEMMA HereBlock ==
  ASSUME NEW c \in Here
  PROVE  /\ c = <<c[1], c[2]>> /\ c[1] \in Level /\ c[2] \in Nat
         /\ Block(c).addr \in Usable /\ Block(c).size = Size[c[1]]
         /\ \A v : InZone(v) =>
              (Around(v, c[1]) = c <=> /\ Block(c).addr <= v
                                       /\ v < Block(c).addr + Block(c).size)
         /\ \A v : InZone(v) /\ Around(v, c[1]) = c => v \in Usable
         /\ Around(Block(c).addr, c[1]) = c
<1>1. PICK u \in Usable, k \in Level : c = Around(u, k) BY DEF Here
<1>2. InZone(u) BY UsableUnits
<1> DEFINE q == Number(u, k)
           s == Size[k]
           a == Start + q * s
<1>3. c = <<k, q>> /\ c[1] = k /\ c[2] = q BY <1>1 DEF Around, Number
<1>4. q \in Nat BY <1>2, NumberIs, 0 \in Nat
<1>5. s \in Nat \ {0} /\ Start \in Nat /\ Start # 0 /\ k \in Nat /\ k <= Top
      /\ Top \in Nat /\ Top \in Level
  BY Levels, ZoneAssumption DEF Level
<1>6. Block(c).addr = a /\ Block(c).size = s BY <1>3 DEF Block
<1>7. a \in Nat /\ Start <= a
  <2>1. q * s \in Nat BY <1>2, <1>4, NumberIs
  <2> QED BY <1>5, <2>1
<1> HIDE DEF q
<1>8. ASSUME NEW v, InZone(v) PROVE Number(v, k) = q <=> a <= v /\ v < a + s
  BY <1>4, <1>8, NumberIs
<1>9. ASSUME NEW v, InZone(v)
      PROVE  /\ Around(v, k) = c <=> Number(v, k) = q
             /\ Around(v, k) = c => v \in Usable
  <2>1. Around(v, k) = c <=> Number(v, k) = q BY <1>3 DEF Around, Number
  <2>2. ASSUME Number(v, k) = q PROVE v \in Usable
    <3>1. Number(v, k) = Number(u, k) BY <2>2 DEF q
    <3>2. Number(v, Top) = Number(u, Top) BY <1>2, <1>5, <1>9, <3>1, TogetherAbove
    <3>3. Number(u, Top) = 0 BY <1>2, UsableUnits
    <3> QED BY <1>9, <3>2, <3>3, UsableUnits
  <2> QED BY <2>1, <2>2
<1> HIDE DEF a, s
<1>10. InZone(a) /\ a <= a /\ a < a + s BY <1>5, <1>7, SMT DEF InZone
<1>11. Around(a, k) = c /\ a \in Usable BY <1>8, <1>9, <1>10
<1> QED BY <1>3, <1>4, <1>6, <1>8, <1>9, <1>11 DEF s

\* The cells of the array, and those around an address.
LEMMA Cells ==
  /\ \A c \in Cell : /\ c = <<c[1], c[2]>> /\ c[1] \in Level /\ c[2] \in Nat
                     /\ \A u \in Usable :
                          Inside([addr |-> u, size |-> 1], Block(c)) <=> Around(u, c[1]) = c
  /\ Here \subseteq Cell
<1>1. ASSUME NEW c \in Cell
      PROVE  /\ c = <<c[1], c[2]>> /\ c[1] \in Level /\ c[2] \in Nat
             /\ \A u \in Usable :
                  Inside([addr |-> u, size |-> 1], Block(c)) <=> Around(u, c[1]) = c
  <2>1. PICK i \in Level : c \in {<<i, j>> : j \in 0 .. (Units \div Size[i]) - 1}
    BY DEF Cell
  <2>2. PICK j \in 0 .. (Units \div Size[i]) - 1 : c = <<i, j>> BY <2>1
  <2>3. Units \in Nat /\ Size[i] \in Nat \ {0} /\ Start \in Nat BY Levels, ZoneAssumption
  <2>4. Units \div Size[i] \in Nat BY <2>3, Quotient, 0 \in Nat
  <2>5. j \in Nat
    <3> HIDE DEF Cell
    <3> QED BY <2>4
  <2>6. c = <<c[1], c[2]>> /\ c[1] = i /\ c[2] = j BY <2>2
  <2>7. ASSUME NEW u \in Usable
        PROVE  Inside([addr |-> u, size |-> 1], Block(c)) <=> Around(u, c[1]) = c
    <3> DEFINE s == Size[i]
               m == j * s
    <3>1. InZone(u) BY UsableUnits
    <3>2. /\ m \in Nat
          /\ Number(u, i) = j <=> Start + j * Size[i] <= u /\ u < Start + j * Size[i] + Size[i]
      BY <2>5, <3>1, NumberIs
    <3>3. Number(u, i) = j <=> Start + m <= u /\ u < Start + m + s BY <3>2
    <3>4. Inside([addr |-> u, size |-> 1], Block(c))
            <=> Start + m <= u /\ u + 1 <= Start + m + s
      BY <2>6 DEF Inside, Block
    <3>5. m \in Nat /\ s \in Nat /\ u \in Nat BY <2>3, <3>1, <3>2 DEF InZone
    <3> HIDE DEF m, s
    <3>6. Inside([addr |-> u, size |-> 1], Block(c)) <=> Number(u, i) = j
      BY <2>3, <3>3, <3>4, <3>5, SMT
    <3> QED BY <2>2, <2>6, <3>6 DEF Around, Number
  <2> QED BY <2>5, <2>6, <2>7
<1>2. ASSUME NEW c \in Here PROVE c \in Cell
  <2> DEFINE k == c[1]
             q == c[2]
             s == Size[k]
             m == q * s
             t == Size[Top]
             last == Start + m + s - 1
  <2>1. /\ c = <<k, q>> /\ k \in Level /\ q \in Nat
        /\ Block(c).addr \in Usable
        /\ \A v : InZone(v) =>
              (Around(v, k) = c <=> /\ Block(c).addr <= v
                                    /\ v < Block(c).addr + Block(c).size)
        /\ \A v : InZone(v) /\ Around(v, k) = c => v \in Usable
    BY HereBlock
  <2>2. /\ Start \in Nat /\ s \in Nat \ {0} /\ t \in Nat /\ Units \in Nat /\ t <= Units
    BY <2>1, Levels, ZoneAssumption
  <2>3. Block(c).addr = Start + m /\ Block(c).size = s BY DEF Block
  <2>4. m \in Nat BY <2>1, <2>3, UsableUnits, NumberIs
  <2>5. InZone(last) /\ Start + m <= last /\ last < Start + m + s
    <3> HIDE DEF m, s
    <3> QED BY <2>2, <2>4, SMT DEF InZone
  <2>6. last \in Usable BY <2>1, <2>3, <2>5
  <2>7. last <= Start + t - 1 BY <2>6 DEF Usable
  <2>8. m + s <= Units
    <3> HIDE DEF m, s, t
    <3> QED BY <2>2, <2>4, <2>7, SMT
  <2> DEFINE n == Units \div s
             w == n * s
  <2>9. n \in Nat /\ w <= Units /\ Units < w + s BY <2>2, Quotient
  <2>10. q < n
    <3>1. CASE q < n BY <3>1
    <3>2. CASE ~(q < n)
      <4> HIDE DEF n, q, s
      <4>1. PICK d \in Nat : q = n + d
        <5> q - n \in Nat /\ q = n + (q - n) BY <2>1, <2>9, <3>2, SMT
        <5> QED OBVIOUS
      <4>2. m = w + d * s /\ d * s \in Nat /\ w \in Nat BY <2>2, <2>9, <4>1, SMT
      <4> DEFINE e == d * s
      <4> HIDE DEF m, w, e
      <4>3. m = w + e /\ e \in Nat /\ w \in Nat BY <4>2 DEF e
      <4> QED BY <2>2, <2>4, <2>8, <2>9, <4>3, SMT
    <3> QED BY <3>1, <3>2
  <2>11. q \in 0 .. n - 1
    <3> HIDE DEF n, q
    <3> QED BY <2>1, <2>9, <2>10
  <2>12. c \in {<<k, j>> : j \in 0 .. (Units \div Size[k]) - 1}
    <3> HIDE DEF q, k
    <3> QED BY <2>1, <2>11
  <2> QED BY <2>1, <2>12 DEF Cell
<1> QED BY <1>1, <1>2

-----------------------------------------------------------------------------
(* Halves of blocks.                                                       *)

\* Pairs of numbers with the same half.
LEMMA Pairs ==
  ASSUME NEW x \in Nat
  PROVE  LET y == IF x % 2 = 0 THEN x + 1 ELSE x - 1
         IN  /\ y \in Nat /\ y # x /\ y \div 2 = x \div 2
             /\ (IF y % 2 = 0 THEN y + 1 ELSE y - 1) = x
             /\ \A z \in Nat : z \div 2 = x \div 2 => z = x \/ z = y
             /\ y = 2 * (x \div 2) \/ y = 2 * (x \div 2) + 1
BY SMT

\* Both halves of a block are blocks.
LEMMA HalvesAreHere ==
  ASSUME NEW c \in Here, c[1] # 0, NEW x \in {2 * c[2], 2 * c[2] + 1}
  PROVE  /\ <<c[1] - 1, x>> \in Here
         /\ x \in Nat /\ x \div 2 = c[2]
<1> DEFINE k == c[1] - 1
           q == c[2]
           s == Size[k]
           m == q * Size[c[1]]
           v == Start + x * s
<1>1. /\ c[1] \in Level /\ q \in Nat /\ c = <<c[1], q>>
      /\ \A w : InZone(w) =>
              (Around(w, c[1]) = c <=> /\ Block(c).addr <= w
                                       /\ w < Block(c).addr + Block(c).size)
      /\ \A w : InZone(w) /\ Around(w, c[1]) = c => w \in Usable
  BY HereBlock
<1>2. k \in Level /\ k < c[1] /\ k + 1 = c[1]
  BY <1>1, Levels DEF Level
<1>3. s \in Nat \ {0} /\ Size[c[1]] = 2 * s /\ Start \in Nat
  BY <1>1, <1>2, NextLevel, Levels, ZoneAssumption
<1>4. x \in Nat /\ x \div 2 = q BY <1>1, SMT
<1>5. m = q * (2 * s) /\ Block(c).addr = Start + m /\ Block(c).size = 2 * s
  BY <1>3 DEF Block
<1>6. x * s \in Nat /\ m \in Nat /\ (x * s = m \/ x * s = m + s)
  <2> HIDE DEF q, s, m
  <2>1. q * s \in Nat /\ m = 2 * (q * s) BY <1>1, <1>3, <1>5, SMT
  <2>2. CASE x = 2 * q
    <3>1. x * s = 2 * (q * s) BY <1>1, <1>3, <2>2, SMT
    <3> QED BY <2>1, <3>1
  <2>3. CASE x = 2 * q + 1
    <3>1. x * s = 2 * (q * s) + s BY <1>1, <1>3, <2>3, SMT
    <3> QED BY <1>3, <2>1, <3>1
  <2>4. x = 2 * q \/ x = 2 * q + 1 BY DEF q
  <2> QED BY <2>2, <2>3, <2>4
<1> DEFINE a == x * s
<1>7. /\ InZone(v) /\ Start + m <= v /\ v < Start + m + 2 * s
      /\ Start + a <= v /\ v < Start + a + s
  <2>1. v = Start + a /\ a \in Nat /\ (a = m \/ a = m + s) BY <1>6
  <2> HIDE DEF v, s, m, a
  <2> QED BY <1>3, <1>6, <2>1, SMT DEF InZone
<1>8. v \in Usable BY <1>1, <1>5, <1>7
<1>9. Number(v, k) = x BY <1>2, <1>4, <1>7, NumberIs
<1>10. Around(v, k) = <<k, x>> BY <1>9 DEF Around, Number
<1>11. <<k, x>> \in Here
  <2> HIDE DEF v, k
  <2> QED BY <1>2, <1>8, <1>10 DEF Here
<1> QED BY <1>4, <1>11

\* The block a block is a half of, and its buddy, the other half.
LEMMA BuddyIsHere ==
  ASSUME NEW c \in Here, c[1] # Top
  PROVE  /\ c[1] + 1 \in Level /\ <<c[1] + 1, c[2] \div 2>> \in Here
         /\ Buddy(c) \in Here /\ Buddy(c)[1] = c[1] /\ Buddy(c)[2] \in Nat
         /\ Buddy(c)[2] \div 2 = c[2] \div 2
         /\ Buddy(c) # c /\ Buddy(Buddy(c)) = c
         /\ \A z \in Nat : z \div 2 = c[2] \div 2 => z = c[2] \/ <<c[1], z>> = Buddy(c)
<1> DEFINE k == c[1]
           x == c[2]
           y == IF x % 2 = 0 THEN x + 1 ELSE x - 1
           p == <<k + 1, x \div 2>>
<1>1. PICK u \in Usable, i \in Level : c = Around(u, i) BY DEF Here
<1>2. InZone(u) BY UsableUnits
<1>3. c = <<k, x>> /\ k = i /\ x = Number(u, k) /\ x \in Nat /\ k \in Level
  BY <1>1, <1>2, NumberIs, 0 \in Nat DEF Around, Number
<1>4. k + 1 \in Level /\ k \in Nat BY <1>3, Levels
<1>5. Number(u, k + 1) = x \div 2 BY <1>2, <1>3, NumberHalves
<1>6. p = Around(u, k + 1) BY <1>5 DEF Around, Number
<1>7. p \in Here
  <2> HIDE DEF p
  <2> QED BY <1>4, <1>6 DEF Here
<1>8. Buddy(c) = <<k, y>> /\ Buddy(c)[1] = k /\ Buddy(c)[2] = y BY DEF Buddy
<1>9. /\ y \in Nat /\ y # x /\ y \div 2 = x \div 2
      /\ (IF y % 2 = 0 THEN y + 1 ELSE y - 1) = x
      /\ \A z \in Nat : z \div 2 = x \div 2 => z = x \/ z = y
      /\ y = 2 * (x \div 2) \/ y = 2 * (x \div 2) + 1
  <2> HIDE DEF x
  <2> QED BY <1>3, Pairs
<1> HIDE DEF y
<1>10. Buddy(Buddy(c)) = c BY <1>3, <1>8, <1>9 DEF Buddy
<1>11. Buddy(c) \in Here
  <2>1. p[1] # 0 /\ p[1] - 1 = k /\ p[2] = x \div 2 BY <1>4
  <2>2. y \in {2 * p[2], 2 * p[2] + 1} BY <1>9
  <2> HIDE DEF p, x
  <2> QED BY <1>7, <1>8, <2>1, <2>2, HalvesAreHere
<1> QED BY <1>3, <1>4, <1>7, <1>8, <1>9, <1>10, <1>11

\* Chains of blocks: on each level from lo to hi one, the half of the next.
IsChain(p, lo, hi) ==
  /\ lo \in Level /\ hi \in Level /\ lo <= hi
  /\ \A k \in lo .. hi : <<k, p[k]>> \in Here /\ p[k] \in Nat
  /\ \A k \in lo .. hi - 1 : p[k + 1] = p[k] \div 2

\* The blocks of the chain, and the other halves.
OnChain(d, p, lo, hi) == d[1] \in lo .. hi /\ d = <<d[1], p[d[1]]>>
BesideChain(d, p, lo, hi) == d[1] \in lo .. hi - 1 /\ d = Buddy(<<d[1], p[d[1]]>>)

\* Levels of a chain.
LEMMA ChainLevels ==
  ASSUME NEW p, NEW lo, NEW hi, IsChain(p, lo, hi)
  PROVE  /\ lo \in Nat /\ hi \in Nat /\ lo \in lo .. hi /\ hi \in lo .. hi
         /\ \A k \in lo .. hi : k \in Level /\ k \in Nat
         /\ \A k \in lo .. hi - 1 : /\ k \in Level /\ k # Top /\ k + 1 \in lo .. hi
                                    /\ k \in lo .. hi
                                    /\ (k + 1) - 1 = k
<1>1. lo \in Nat /\ hi \in Nat /\ lo <= hi /\ lo \in Level /\ hi \in Level
  BY Levels DEF IsChain
<1>2. \A k \in lo .. hi : k \in Level /\ k \in Nat BY <1>1, Levels DEF Level
<1>3. ASSUME NEW k \in lo .. hi - 1
      PROVE  k \in Level /\ k # Top /\ k + 1 \in lo .. hi /\ k \in lo .. hi
             /\ (k + 1) - 1 = k
  <2>1. k \in lo .. hi /\ k < hi /\ k + 1 \in lo .. hi /\ (k + 1) - 1 = k BY <1>1
  <2>2. k \in Level BY <1>2, <2>1
  <2> QED BY <1>1, <2>1, <2>2, NextLevel
<1>4. lo \in lo .. hi /\ hi \in lo .. hi BY <1>1
<1> QED BY <1>1, <1>2, <1>3, <1>4

\* Who is in a block of a chain is in all above.
LEMMA ChainAbove ==
  ASSUME NEW p, NEW lo, NEW hi, IsChain(p, lo, hi), NEW u, InZone(u),
         NEW k \in lo .. hi, Number(u, k) = p[k], NEW l \in k .. hi
  PROVE  Number(u, l) = p[l]
<1> DEFINE good == {i \in lo .. hi : Number(u, i) = p[i]}
<1>1. /\ k \in Nat /\ hi \in Nat /\ lo \in Nat BY ChainLevels
<1>2. k \in good OBVIOUS
<1>3. ASSUME NEW i \in k .. hi - 1, i \in good PROVE i + 1 \in good
  <2>1. i \in lo .. hi - 1 BY <1>1
  <2>2. i \in Level /\ i # Top /\ i + 1 \in lo .. hi BY <2>1, ChainLevels
  <2>3. Number(u, i + 1) = Number(u, i) \div 2 BY <2>2, NumberHalves
  <2>4. p[i + 1] = p[i] \div 2 BY <2>1 DEF IsChain
  <2> QED BY <1>3, <2>2, <2>3, <2>4
<1> HIDE DEF good
<1>4. \A i \in k .. hi : i \in good BY <1>1, <1>2, <1>3, Upwards
<1>5. l \in good BY <1>4
<1> QED BY <1>5 DEF good

\* Who is in the other half of a block of a chain is in the block above.
LEMMA BesideAbove ==
  ASSUME NEW p, NEW lo, NEW hi, IsChain(p, lo, hi), NEW u, InZone(u),
         NEW k \in lo .. hi - 1, Around(u, k) = Buddy(<<k, p[k]>>)
  PROVE  Number(u, k + 1) = p[k + 1] /\ Number(u, k) # p[k]
<1> DEFINE c == <<k, p[k]>>
<1>1. /\ k \in Level /\ k # Top /\ k \in lo .. hi BY ChainLevels
<1>2. c \in Here /\ c[1] = k /\ c[2] = p[k] /\ p[k + 1] = p[k] \div 2
  BY <1>1 DEF IsChain
<1>3. Buddy(c)[2] \div 2 = c[2] \div 2 /\ Buddy(c) # c BY <1>1, <1>2, BuddyIsHere
<1>4. Buddy(c) = <<k, Number(u, k)>> BY DEF Around, Number
<1>5. Buddy(c)[2] = Number(u, k) BY <1>4
<1>6. Number(u, k + 1) = Number(u, k) \div 2 BY <1>1, NumberHalves
<1> HIDE DEF c
<1>7. Number(u, k + 1) = p[k + 1] BY <1>2, <1>3, <1>5, <1>6
<1>8. Number(u, k) # p[k] BY <1>3, <1>4 DEF c
<1> QED BY <1>7, <1>8

\* A unit of the highest block of a chain is in the blocks from some level on, and
\* below that in the other half of one, or in the lowest.
LEMMA ChainSplits ==
  ASSUME NEW p, NEW lo, NEW hi, IsChain(p, lo, hi), NEW u, InZone(u),
         Number(u, hi) = p[hi]
  PROVE  \E j \in lo .. hi :
           /\ \A k \in lo .. hi : OnChain(Around(u, k), p, lo, hi) <=> j <= k
           /\ \A k \in lo .. hi : BesideChain(Around(u, k), p, lo, hi) <=> k = j - 1
<1> DEFINE in == {k \in lo .. hi : Number(u, k) = p[k]}
<1>1. lo \in Nat /\ hi \in Nat /\ hi \in in BY ChainLevels
<1>2. in \subseteq Nat BY <1>1
<1>3. PICK j \in in : \A k \in in : j <= k
  <2> HIDE DEF in
  <2> QED BY <1>1, <1>2, HasLeast
<1>4. j \in lo .. hi /\ j \in Nat /\ Number(u, j) = p[j] BY <1>2, <1>3
<1>5. ASSUME NEW k \in lo .. hi PROVE Number(u, k) = p[k] <=> j <= k
  <2>1. ASSUME j <= k PROVE Number(u, k) = p[k]
    <3>1. k \in j .. hi BY <1>1, <1>4, <2>1
    <3> QED BY <1>4, <3>1, ChainAbove
  <2> QED BY <1>3, <2>1
<1>6. ASSUME NEW k \in lo .. hi PROVE OnChain(Around(u, k), p, lo, hi) <=> j <= k
  <2>1. Around(u, k) = <<k, Number(u, k)>> /\ Around(u, k)[1] = k BY DEF Around, Number
  <2>2. OnChain(Around(u, k), p, lo, hi) <=> Number(u, k) = p[k]
    BY <2>1 DEF OnChain
  <2> QED BY <1>5, <2>2
<1>7. ASSUME NEW k \in lo .. hi PROVE BesideChain(Around(u, k), p, lo, hi) <=> k = j - 1
  <2>1. Around(u, k) = <<k, Number(u, k)>> /\ Around(u, k)[1] = k BY DEF Around, Number
  <2>2. BesideChain(Around(u, k), p, lo, hi)
          <=> k \in lo .. hi - 1 /\ Around(u, k) = Buddy(<<k, p[k]>>)
    BY <2>1 DEF BesideChain
  <2>3. ASSUME k \in lo .. hi - 1, Around(u, k) = Buddy(<<k, p[k]>>) PROVE k = j - 1
    <3>1. Number(u, k + 1) = p[k + 1] /\ Number(u, k) # p[k]
      BY <2>3, BesideAbove
    <3>2. k + 1 \in lo .. hi BY <2>3, ChainLevels
    <3>3. j <= k + 1 /\ ~(j <= k) BY <1>5, <3>1, <3>2
    <3> QED BY <1>1, <1>4, <3>3
  <2>4. ASSUME k = j - 1
        PROVE  k \in lo .. hi - 1 /\ Around(u, k) = Buddy(<<k, p[k]>>)
    <3>1. k \in lo .. hi - 1 /\ k + 1 = j /\ ~(j <= k) BY <1>1, <1>4, <2>4
    <3>2. k \in Level /\ k # Top BY <3>1, ChainLevels
    <3>3. Number(u, k) # p[k] BY <1>5, <3>1
    <3>4. Number(u, j) = Number(u, k) \div 2 BY <3>1, <3>2, NumberHalves
    <3>5. p[j] = p[k] \div 2 BY <3>1 DEF IsChain
    <3> DEFINE c == <<k, p[k]>>
    <3>6. c \in Here /\ c[1] = k /\ c[2] = p[k] BY DEF IsChain
    <3>7. Number(u, k) \in Nat BY <3>2, NumberIs, 0 \in Nat
    <3>8. Number(u, k) \div 2 = c[2] \div 2 BY <1>4, <3>4, <3>5, <3>6
    <3> HIDE DEF c
    <3>9. Number(u, k) = c[2] \/ <<c[1], Number(u, k)>> = Buddy(c)
      BY <3>2, <3>6, <3>7, <3>8, BuddyIsHere
    <3> QED BY <2>1, <3>1, <3>3, <3>6, <3>9 DEF c
  <2> QED BY <2>2, <2>3, <2>4
<1> QED BY <1>4, <1>6, <1>7

-----------------------------------------------------------------------------
(* Splitting and joining.                                                  *)

\* What is true of the array between calls: the blocks that are free or in use
\* cover each unit once, and no two free ones are the halves of a block.
Tree(f) ==
  /\ f \in [Cell -> CellState]
  /\ \A c \in Cell : f[c] # "INAVAILABLE" => c \in Here
  /\ \A u \in Usable : \E j \in Level : \A l \in Level :
       f[Around(u, l)] # "INAVAILABLE" <=> l = j
  /\ \A c \in Cell : c[1] # Top /\ f[c] = "AVAILABLE" => f[Buddy(c)] # "AVAILABLE"

\* The array f with the highest block of a chain split down to the lowest, which
\* is taken into use,
Opened(f, g, p, lo, hi) ==
  \A d \in Cell :
    g[d] = IF d = <<lo, p[lo]>> THEN "OCCUPIED"
           ELSE IF OnChain(d, p, lo, hi) THEN "INAVAILABLE"
           ELSE IF BesideChain(d, p, lo, hi) THEN "AVAILABLE"
           ELSE f[d]

\* and with the lowest set free and joined with the other halves.
Closed(f, g, p, lo, hi) ==
  \A d \in Cell :
    g[d] = IF d = <<hi, p[hi]>> THEN "AVAILABLE"
           ELSE IF OnChain(d, p, lo, hi) \/ BesideChain(d, p, lo, hi) THEN "INAVAILABLE"
           ELSE f[d]

\* The tree g is f with one more block in use, or with one less.
TakesBlock(f, g, x) ==
  /\ Tree(g) /\ x \in Cell /\ x \in Here
  /\ f[x] # "OCCUPIED"
  /\ \A d \in Cell : g[d] = "OCCUPIED" <=> f[d] = "OCCUPIED" \/ d = x

FreesBlock(f, g, x) ==
  /\ Tree(g)
  /\ \A d \in Cell : g[d] = "OCCUPIED" <=> f[d] = "OCCUPIED" /\ d # x

\* The blocks of a chain and the other halves have their units in the highest.
LEMMA ChainInside ==
  ASSUME NEW p, NEW lo, NEW hi, IsChain(p, lo, hi), NEW d,
         OnChain(d, p, lo, hi) \/ BesideChain(d, p, lo, hi)
  PROVE  /\ d \in Here /\ d \in Cell /\ d[1] \in lo .. hi
         /\ \A u : InZone(u) /\ Around(u, d[1]) = d => Number(u, hi) = p[hi]
<1>1. CASE OnChain(d, p, lo, hi)
  <2>1. d[1] \in lo .. hi /\ d = <<d[1], p[d[1]]>> BY <1>1 DEF OnChain
  <2>2. d \in Here BY <2>1 DEF IsChain
  <2>3. ASSUME NEW u, InZone(u), Around(u, d[1]) = d PROVE Number(u, hi) = p[hi]
    <3>1. Number(u, d[1]) = p[d[1]] BY <2>1, <2>3 DEF Around, Number
    <3>2. hi \in d[1] .. hi BY <2>1, ChainLevels
    <3> QED BY <2>1, <2>3, <3>1, <3>2, ChainAbove
  <2> QED BY <2>1, <2>2, <2>3, Cells
<1>2. CASE BesideChain(d, p, lo, hi)
  <2> DEFINE k == d[1]
             c == <<k, p[k]>>
  <2>1. k \in lo .. hi - 1 /\ d = Buddy(c) BY <1>2 DEF BesideChain
  <2>2. k \in Level /\ k # Top /\ k \in lo .. hi /\ k + 1 \in lo .. hi
    BY <2>1, ChainLevels
  <2>3. c \in Here /\ c[1] = k BY <2>2 DEF IsChain
  <2>4. d \in Here
    <3> HIDE DEF c, k
    <3> QED BY <2>1, <2>2, <2>3, BuddyIsHere
  <2>5. ASSUME NEW u, InZone(u), Around(u, k) = d PROVE Number(u, hi) = p[hi]
    <3>1. Around(u, k) = Buddy(<<k, p[k]>>) BY <2>1, <2>5
    <3> HIDE DEF k
    <3>2. Number(u, k + 1) = p[k + 1] BY <2>1, <2>5, <3>1, BesideAbove
    <3>3. hi \in k + 1 .. hi BY <2>2, ChainLevels
    <3> QED BY <2>2, <2>5, <3>2, <3>3, ChainAbove
  <2> QED BY <2>2, <2>4, <2>5, Cells
<1> QED BY <1>1, <1>2

\* A unit outside a chain's highest block is in none of its blocks.
LEMMA ChainOutside ==
  ASSUME NEW p, NEW lo, NEW hi, IsChain(p, lo, hi), NEW u, InZone(u),
         Number(u, hi) # p[hi], NEW l \in Level
  PROVE  ~OnChain(Around(u, l), p, lo, hi) /\ ~BesideChain(Around(u, l), p, lo, hi)
<1>1. Around(u, l)[1] = l BY DEF Around
<1> QED BY <1>1, ChainInside

\* The lowest and the highest block.
LEMMA ChainEnds ==
  ASSUME NEW p, NEW lo, NEW hi, IsChain(p, lo, hi)
  PROVE  /\ OnChain(<<lo, p[lo]>>, p, lo, hi) /\ <<lo, p[lo]>> \in Cell
         /\ OnChain(<<hi, p[hi]>>, p, lo, hi) /\ <<hi, p[hi]>> \in Cell
<1>1. OnChain(<<lo, p[lo]>>, p, lo, hi) BY ChainLevels DEF OnChain
<1>2. OnChain(<<hi, p[hi]>>, p, lo, hi) BY ChainLevels DEF OnChain
<1> QED BY <1>1, <1>2, ChainInside

\* Splitting a free block keeps the tree, and takes one block into use.
LEMMA OpeningKeepsTree ==
  ASSUME NEW f, NEW g, NEW p, NEW lo, NEW hi, IsChain(p, lo, hi), Tree(f),
         g \in [Cell -> CellState], Opened(f, g, p, lo, hi),
         f[<<hi, p[hi]>>] = "AVAILABLE"
  PROVE  TakesBlock(f, g, <<lo, p[lo]>>)
<1> DEFINE low == <<lo, p[lo]>>
           on(d) == OnChain(d, p, lo, hi)
           beside(d) == BesideChain(d, p, lo, hi)
<1>1. \A d \in Cell :
        g[d] = IF d = low THEN "OCCUPIED"
               ELSE IF on(d) THEN "INAVAILABLE"
               ELSE IF beside(d) THEN "AVAILABLE"
               ELSE f[d]
  BY DEF Opened
<1>2. on(low) /\ low \in Cell /\ <<hi, p[hi]>> \in Cell BY ChainEnds
<1>3. \A d : on(d) \/ beside(d) =>
        /\ d \in Here /\ d \in Cell /\ d[1] \in lo .. hi
        /\ \A u : InZone(u) /\ Around(u, d[1]) = d => Number(u, hi) = p[hi]
  BY ChainInside
<1>4. lo \in Nat /\ hi \in Nat /\ lo \in lo .. hi /\ hi \in lo .. hi
      /\ \A k \in lo .. hi : k \in Level
  BY ChainLevels
<1>5. ASSUME NEW c \in Cell, g[c] # "INAVAILABLE" PROVE c \in Here
  <2>1. CASE on(c) \/ beside(c) BY <1>3, <2>1
  <2>2. CASE ~(on(c) \/ beside(c))
    <3>1. g[c] = f[c] BY <1>1, <1>2, <2>2
    <3> QED BY <1>5, <3>1 DEF Tree
  <2> QED BY <2>1, <2>2
\* The units of the block that is split are covered by it only.
<1>6. ASSUME NEW u \in Usable, Number(u, hi) = p[hi], NEW l \in Level
      PROVE  f[Around(u, l)] # "INAVAILABLE" <=> l = hi
  <2>1. PICK j \in Level : \A i \in Level : f[Around(u, i)] # "INAVAILABLE" <=> i = j
    BY DEF Tree
  <2>2. Around(u, hi) = <<hi, p[hi]>> BY <1>6 DEF Around, Number
  <2>3. hi = j BY <1>4, <2>1, <2>2
  <2> QED BY <2>1, <2>3
<1>7. ASSUME NEW u \in Usable
      PROVE  \E j \in Level : \A l \in Level : g[Around(u, l)] # "INAVAILABLE" <=> l = j
  <2>0. InZone(u) BY UsableUnits
  <2>1. \A l \in Level : Around(u, l) \in Cell /\ Around(u, l)[1] = l
    BY Cells DEF Here, Around
  <2>2. CASE Number(u, hi) # p[hi]
    <3>1. \A l \in Level : ~on(Around(u, l)) /\ ~beside(Around(u, l))
      BY <2>0, <2>2, ChainOutside
    <3>2. \A l \in Level : g[Around(u, l)] = f[Around(u, l)] BY <1>1, <1>2, <2>1, <3>1
    <3> QED BY <3>2 DEF Tree
  <2>3. CASE Number(u, hi) = p[hi]
    <3>1. PICK j \in lo .. hi :
            /\ \A k \in lo .. hi : on(Around(u, k)) <=> j <= k
            /\ \A k \in lo .. hi : beside(Around(u, k)) <=> k = j - 1
      BY <2>0, <2>3, ChainSplits
    <3> DEFINE i == IF j = lo THEN lo ELSE j - 1
    <3>2. i \in lo .. hi /\ i \in Level /\ j \in Nat BY <1>4, <3>1
    <3>3. ASSUME NEW l \in Level PROVE g[Around(u, l)] # "INAVAILABLE" <=> l = i
      <4>0. l \in Nat BY Levels
      <4>1. CASE l \notin lo .. hi
        <5>1. ~on(Around(u, l)) /\ ~beside(Around(u, l)) BY <1>3, <2>1, <4>1
        <5>2. g[Around(u, l)] = f[Around(u, l)] BY <1>1, <1>2, <2>1, <5>1
        <5>3. l # hi /\ l # i BY <1>4, <3>2, <4>1
        <5> QED BY <1>6, <2>3, <5>2, <5>3
      <4>2. CASE l \in lo .. hi /\ j <= l
        <5>1. on(Around(u, l)) BY <3>1, <4>2
        <5>2. Around(u, l) = low <=> l = lo
          <6>1. Around(u, l) = <<l, p[l]>> BY <2>1, <5>1 DEF OnChain
          <6> QED BY <6>1
        <5>3. g[Around(u, l)] # "INAVAILABLE" <=> l = lo BY <1>1, <2>1, <5>1, <5>2
        <5>4. l = lo <=> l = i BY <1>4, <3>1, <3>2, <4>0, <4>2
        <5> QED BY <5>3, <5>4
      <4>3. CASE l \in lo .. hi /\ ~(j <= l)
        <5>1. ~on(Around(u, l)) /\ (beside(Around(u, l)) <=> l = j - 1) BY <3>1, <4>3
        <5>2. l # hi /\ j # lo BY <1>4, <3>1, <3>2, <4>0, <4>3
        <5>3. f[Around(u, l)] = "INAVAILABLE" BY <1>6, <2>3, <5>2
        <5>4. Around(u, l) # low BY <1>2, <5>1
        <5>5. g[Around(u, l)] = IF beside(Around(u, l)) THEN "AVAILABLE" ELSE f[Around(u, l)]
          BY <1>1, <2>1, <5>1, <5>4
        <5>6. g[Around(u, l)] # "INAVAILABLE" <=> beside(Around(u, l)) BY <5>3, <5>5
        <5> QED BY <5>1, <5>2, <5>6
      <4> QED BY <4>1, <4>2, <4>3
    <3> HIDE DEF i
    <3> QED BY <3>2, <3>3
  <2> QED BY <2>2, <2>3
<1>8. ASSUME NEW c \in Cell, c[1] # Top, g[c] = "AVAILABLE", g[Buddy(c)] = "AVAILABLE"
      PROVE  FALSE
  <2>1. c \in Here BY <1>5, <1>8
  <2>2. Buddy(c) \in Here /\ Buddy(c)[1] = c[1] /\ Buddy(Buddy(c)) = c
    BY <1>8, <2>1, BuddyIsHere
  <2>3. Buddy(c) \in Cell BY <2>2, Cells
  <2>4. ASSUME NEW d \in Here, d[1] # Top, beside(d), g[Buddy(d)] = "AVAILABLE"
        PROVE  FALSE
    <3> DEFINE e == <<d[1], p[d[1]]>>
    <3>1. d[1] \in lo .. hi - 1 /\ d = Buddy(e) BY <2>4 DEF BesideChain
    <3>2. d[1] \in lo .. hi BY <3>1, ChainLevels
    <3>3. e \in Here /\ e[1] = d[1] /\ on(e) BY <3>2 DEF IsChain, OnChain
    <3> HIDE DEF e
    <3>4. Buddy(d) = e BY <2>4, <3>1, <3>3, BuddyIsHere
    <3>5. e \in Cell BY <3>3, Cells
    <3>6. g[e] # "AVAILABLE" BY <1>1, <3>3, <3>5
    <3> QED BY <2>4, <3>4, <3>6
  <2>5. ~beside(c) BY <1>8, <2>1, <2>4
  <2>6. ~beside(Buddy(c)) BY <1>8, <2>2, <2>4
  <2>7. f[c] = "AVAILABLE" BY <1>1, <1>8, <2>5
  <2>8. f[Buddy(c)] = "AVAILABLE" BY <1>1, <1>8, <2>3, <2>6
  <2> QED BY <1>8, <2>7, <2>8 DEF Tree
<1>9. ASSUME NEW d, on(d) \/ beside(d) PROVE f[d] # "OCCUPIED"
  <2>1. /\ d \in Here /\ d[1] \in Level
        /\ \A u : InZone(u) /\ Around(u, d[1]) = d => Number(u, hi) = p[hi]
    BY <1>3, <1>4, <1>9
  <2> DEFINE u == Block(d).addr
  <2>2. u \in Usable /\ InZone(u) /\ Around(u, d[1]) = d
    BY <2>1, HereBlock, UsableUnits
  <2> HIDE DEF u
  <2>3. Number(u, hi) = p[hi] BY <2>1, <2>2
  <2>4. f[d] # "INAVAILABLE" => d[1] = hi BY <1>6, <2>1, <2>2, <2>3
  <2>5. d[1] = hi => d = <<hi, p[hi]>> BY <2>2, <2>3 DEF Around, Number
  <2> QED BY <2>4, <2>5
<1>11. ASSUME NEW d \in Cell PROVE g[d] = "OCCUPIED" <=> f[d] = "OCCUPIED" \/ d = low
  <2>1. CASE on(d) \/ beside(d) BY <1>1, <1>9, <2>1
  <2>2. CASE ~(on(d) \/ beside(d)) BY <1>1, <1>2, <2>2
  <2> QED BY <2>1, <2>2
<1>10. Tree(g) BY <1>5, <1>7, <1>8 DEF Tree
<1>12. low \in Here BY <1>2, <1>3
<1> QED BY <1>2, <1>9, <1>10, <1>11, <1>12 DEF TakesBlock

\* Joining a block that is set free with its buddies keeps the tree.
LEMMA ClosingKeepsTree ==
  ASSUME NEW f, NEW g, NEW p, NEW lo, NEW hi, IsChain(p, lo, hi), Tree(f),
         g \in [Cell -> CellState], Closed(f, g, p, lo, hi),
         f[<<lo, p[lo]>>] # "INAVAILABLE",
         \A k \in lo .. hi - 1 : f[Buddy(<<k, p[k]>>)] = "AVAILABLE",
         hi = Top \/ f[Buddy(<<hi, p[hi]>>)] # "AVAILABLE"
  PROVE  FreesBlock(f, g, <<lo, p[lo]>>)
<1> DEFINE low == <<lo, p[lo]>>
           top == <<hi, p[hi]>>
           on(d) == OnChain(d, p, lo, hi)
           beside(d) == BesideChain(d, p, lo, hi)
<1>1. \A d \in Cell :
        g[d] = IF d = top THEN "AVAILABLE"
               ELSE IF on(d) \/ beside(d) THEN "INAVAILABLE"
               ELSE f[d]
  BY DEF Closed
<1>2. on(low) /\ low \in Cell /\ on(top) /\ top \in Cell BY ChainEnds
<1>3. \A d : on(d) \/ beside(d) =>
        /\ d \in Here /\ d \in Cell /\ d[1] \in lo .. hi
        /\ \A u : InZone(u) /\ Around(u, d[1]) = d => Number(u, hi) = p[hi]
  BY ChainInside
<1>4. lo \in Nat /\ hi \in Nat /\ lo \in lo .. hi /\ hi \in lo .. hi
      /\ \A k \in lo .. hi : k \in Level
  BY ChainLevels
<1>5. ASSUME NEW c \in Cell, g[c] # "INAVAILABLE" PROVE c \in Here
  <2>1. CASE on(c) \/ beside(c) BY <1>3, <2>1
  <2>2. CASE ~(on(c) \/ beside(c))
    <3>1. g[c] = f[c] BY <1>1, <1>2, <2>2
    <3> QED BY <1>5, <3>1 DEF Tree
  <2> QED BY <2>1, <2>2
\* The units of the block that is made are covered by one of those it is made of.
<1>6. ASSUME NEW u \in Usable, Number(u, hi) = p[hi]
      PROVE  \E i \in lo .. hi : /\ \A l \in Level : f[Around(u, l)] # "INAVAILABLE" <=> l = i
                                 /\ Around(u, i) = low \/ beside(Around(u, i))
  <2>0. InZone(u) BY UsableUnits
  <2>1. PICK m \in Level : \A l \in Level : f[Around(u, l)] # "INAVAILABLE" <=> l = m
    BY DEF Tree
  <2>2. PICK j \in lo .. hi :
            /\ \A k \in lo .. hi : on(Around(u, k)) <=> j <= k
            /\ \A k \in lo .. hi : beside(Around(u, k)) <=> k = j - 1
    BY <1>6, <2>0, ChainSplits
  <2>3. CASE j = lo
    <3>1. on(Around(u, lo)) BY <1>4, <2>2, <2>3
    <3>2. Around(u, lo) = low BY <3>1 DEF OnChain, Around
    <3>3. lo = m BY <1>4, <2>1, <3>2
    <3> QED BY <1>4, <2>1, <3>2, <3>3
  <2>4. CASE j # lo
    <3> DEFINE i == j - 1
    <3>1. i \in lo .. hi - 1 /\ i \in lo .. hi BY <1>4, <2>2, <2>4
    <3>2. beside(Around(u, i)) BY <2>2, <3>1
    <3>3. Around(u, i)[1] = i BY DEF Around
    <3>4. Around(u, i) = Buddy(<<i, p[i]>>) BY <3>2, <3>3 DEF BesideChain
    <3>5. f[Around(u, i)] = "AVAILABLE" BY <3>1, <3>4
    <3>6. i = m BY <1>4, <2>1, <3>1, <3>5
    <3> QED BY <2>1, <3>1, <3>2, <3>6
  <2> QED BY <2>3, <2>4
<1>7. ASSUME NEW u \in Usable
      PROVE  \E j \in Level : \A l \in Level : g[Around(u, l)] # "INAVAILABLE" <=> l = j
  <2>0. InZone(u) BY UsableUnits
  <2>1. \A l \in Level : Around(u, l) \in Cell /\ Around(u, l)[1] = l
    BY Cells DEF Here, Around
  <2>2. CASE Number(u, hi) # p[hi]
    <3>1. \A l \in Level : ~on(Around(u, l)) /\ ~beside(Around(u, l))
      BY <2>0, <2>2, ChainOutside
    <3>2. \A l \in Level : g[Around(u, l)] = f[Around(u, l)] BY <1>1, <1>2, <2>1, <3>1
    <3> QED BY <3>2 DEF Tree
  <2>3. CASE Number(u, hi) = p[hi]
    <3>1. PICK i \in lo .. hi :
            /\ \A l \in Level : f[Around(u, l)] # "INAVAILABLE" <=> l = i
            /\ Around(u, i) = low \/ beside(Around(u, i))
      BY <1>6, <2>3
    <3>2. Around(u, hi) = top BY <2>3 DEF Around, Number
    <3>3. ASSUME NEW l \in Level PROVE g[Around(u, l)] # "INAVAILABLE" <=> l = hi
      <4>1. CASE l = hi BY <1>1, <1>2, <3>2, <4>1
      <4>2. CASE l # hi
        <5>1. Around(u, l) # top BY <2>1, <4>2
        <5>2. CASE l = i BY <1>1, <1>2, <2>1, <3>1, <4>2, <5>1, <5>2
        <5>3. CASE l # i
          <6>1. f[Around(u, l)] = "INAVAILABLE" BY <3>1, <5>3
          <6> QED BY <1>1, <2>1, <4>2, <5>1, <6>1
        <5> QED BY <5>2, <5>3
      <4> QED BY <4>1, <4>2
    <3> QED BY <1>4, <3>3
  <2> QED BY <2>2, <2>3
<1>8. ASSUME NEW c \in Cell, c[1] # Top, g[c] = "AVAILABLE", g[Buddy(c)] = "AVAILABLE"
      PROVE  FALSE
  <2>1. c \in Here BY <1>5, <1>8
  <2>2. Buddy(c) \in Here /\ Buddy(c)[1] = c[1] /\ Buddy(Buddy(c)) = c /\ Buddy(c) # c
    BY <1>8, <2>1, BuddyIsHere
  <2>3. Buddy(c) \in Cell BY <2>2, Cells
  <2>4. ASSUME NEW d \in Cell, d[1] = hi, d # top, g[d] = "AVAILABLE"
        PROVE  f[d] = "AVAILABLE"
    <3>1. ~on(d) BY <2>4 DEF OnChain
    <3>2. ~beside(d) BY <1>4, <2>4 DEF BesideChain
    <3> QED BY <1>1, <2>4, <3>1, <3>2
  <2>5. c # top
    <3>1. SUFFICES ASSUME c = top PROVE FALSE OBVIOUS
    <3>2. c[1] = hi BY <3>1
    <3>3. f[Buddy(c)] = "AVAILABLE" BY <1>8, <2>2, <2>3, <2>4, <3>1, <3>2
    <3> QED BY <1>8, <3>1, <3>2, <3>3
  <2>6. Buddy(c) # top
    <3>1. SUFFICES ASSUME Buddy(c) = top PROVE FALSE OBVIOUS
    <3>2. c[1] = hi BY <2>2, <3>1
    <3>3. f[c] = "AVAILABLE" BY <1>8, <2>4, <2>5, <3>2
    <3>4. Buddy(top) = c BY <2>2, <3>1
    <3> QED BY <1>8, <3>2, <3>3, <3>4
  <2>7. f[c] = "AVAILABLE" BY <1>1, <1>8, <2>5
  <2>8. f[Buddy(c)] = "AVAILABLE" BY <1>1, <1>8, <2>3, <2>6
  <2> QED BY <1>8, <2>7, <2>8 DEF Tree
<1>9. ASSUME NEW d \in Cell PROVE g[d] = "OCCUPIED" <=> f[d] = "OCCUPIED" /\ d # low
  <2>1. CASE ~(on(d) \/ beside(d)) BY <1>1, <1>2, <2>1
  <2>2. CASE beside(d)
    <3>1. d = Buddy(<<d[1], p[d[1]]>>) /\ d[1] \in lo .. hi - 1 BY <2>2 DEF BesideChain
    <3>2. f[d] = "AVAILABLE" BY <3>1
    <3> QED BY <1>1, <2>2, <3>2
  <2>3. CASE on(d)
    <3>1. g[d] # "OCCUPIED" BY <1>1, <2>3
    <3>2. ASSUME d # low PROVE f[d] = "INAVAILABLE"
      <4> DEFINE u == Block(low).addr
      <4>1. low \in Here /\ low[1] = lo /\ lo \in Level BY <1>2, <1>3, <1>4
      <4>2. u \in Usable /\ InZone(u) /\ Around(u, lo) = low
        <5> HIDE DEF low
        <5> QED BY <4>1, HereBlock, UsableUnits
      <4> HIDE DEF u
      <4>3. Number(u, lo) = p[lo] BY <4>2 DEF Around, Number
      <4>4. d[1] \in lo .. hi /\ d = <<d[1], p[d[1]]>> BY <2>3 DEF OnChain
      <4>5. Number(u, d[1]) = p[d[1]] BY <1>4, <4>2, <4>3, <4>4, ChainAbove
      <4>6. Around(u, d[1]) = d BY <4>4, <4>5 DEF Around, Number
      <4>7. d[1] # lo BY <3>2, <4>4
      <4>8. PICK m \in Level : \A l \in Level : f[Around(u, l)] # "INAVAILABLE" <=> l = m
        BY <4>2 DEF Tree
      <4>9. lo = m BY <4>1, <4>2, <4>8
      <4> QED BY <1>4, <4>4, <4>6, <4>7, <4>8, <4>9
    <3> QED BY <3>1, <3>2
  <2> QED BY <2>1, <2>2, <2>3
<1>10. Tree(g) BY <1>5, <1>7, <1>8 DEF Tree
<1> QED BY <1>9, <1>10 DEF FreesBlock

-----------------------------------------------------------------------------
(* What the operations do to the array.                                    *)

\* The block that covers a unit is found, and it is the only one.
LEMMA CoordsAre ==
  ASSUME Tree(avail), NEW u \in Usable
  PROVE  /\ CoordsOf(u) \in Here /\ CoordsOf(u) \in Cell
         /\ CoordsOf(u) = Around(u, CoordsOf(u)[1])
         /\ avail[CoordsOf(u)] # "INAVAILABLE"
         /\ \A l \in Level : avail[Around(u, l)] # "INAVAILABLE" => Around(u, l) = CoordsOf(u)
<1> DEFINE lowest(i) == /\ avail[Around(u, i)] # "INAVAILABLE"
                        /\ \A k \in 0 .. i - 1 : avail[Around(u, k)] = "INAVAILABLE"
<1>1. PICK j \in Level : \A l \in Level : avail[Around(u, l)] # "INAVAILABLE" <=> l = j
  BY DEF Tree
<1>2. lowest(j)
  <2>1. \A k \in 0 .. j - 1 : k \in Level /\ k # j BY Levels DEF Level
  <2> QED BY <1>1, <2>1
<1> DEFINE i == CHOOSE i \in Level : lowest(i)
<1>3. i \in Level /\ lowest(i)
  <2> HIDE DEF lowest
  <2> QED BY <1>2
<1>4. CoordsOf(u) = Around(u, i) BY DEF CoordsOf
<1> HIDE DEF i
<1>5. i = j BY <1>1, <1>3
<1>6. Around(u, i)[1] = i BY DEF Around
<1>7. Around(u, i) \in Here BY <1>3 DEF Here
<1> HIDE DEF lowest
<1>8. \A l \in Level : avail[Around(u, l)] # "INAVAILABLE" => Around(u, l) = Around(u, i)
  BY <1>1, <1>5
<1>9. avail[Around(u, i)] # "INAVAILABLE" BY <1>1, <1>5
<1> QED BY <1>4, <1>6, <1>7, <1>8, <1>9, Cells

\* Two blocks that are free or in use and have a unit in common are the same.
LEMMA SameBlock ==
  ASSUME NEW f, Tree(f), NEW u \in Usable, NEW c, NEW d,
         c[1] \in Level, d[1] \in Level, Around(u, c[1]) = c, Around(u, d[1]) = d,
         f[c] # "INAVAILABLE", f[d] # "INAVAILABLE"
  PROVE  c = d
<1>1. PICK j \in Level : \A l \in Level : f[Around(u, l)] # "INAVAILABLE" <=> l = j
  BY DEF Tree
<1> QED BY <1>1

\* The path of a split: in each block the half that is taken.
IsPath(p, c, n, al, r) ==
  p = [k \in 0 .. c[1] |->
         IF k = c[1] THEN c[2]
         ELSE IF HalfFits(n, al, <<k, 2 * p[k + 1]>>, r) THEN 2 * p[k + 1]
         ELSE 2 * p[k + 1] + 1]

\* There is such a path.
LEMMA PathExists ==
  ASSUME NEW c, c[1] \in Nat, NEW n, NEW al, NEW r
  PROVE  \E p : IsPath(p, c, n, al, r)
<1> DEFINE h == c[1]
           Next1(k, x) == IF HalfFits(n, al, <<k, 2 * x>>, r) THEN 2 * x ELSE 2 * x + 1
           Part(g, m) == g = [k \in m .. h |-> IF k = h THEN c[2] ELSE Next1(k, g[k + 1])]
           good == {m \in 0 .. h : \E g : Part(g, m)}
<1>1. h \in Nat /\ 0 \in Nat /\ h \in 0 .. h OBVIOUS
<1> HIDE DEF h, Next1
<1>2. h \in good
  <2> DEFINE g == [k \in h .. h |-> c[2]]
  <2>1. Part(g, h)
    <3>1. \A k \in h .. h : k = h BY <1>1
    <3>2. [k \in h .. h |-> c[2]]
            = [k \in h .. h |-> IF k = h THEN c[2] ELSE Next1(k, g[k + 1])]
      BY <3>1
    <3> QED BY <3>2
  <2> HIDE DEF g, Part
  <2> QED BY <1>1, <2>1
<1>3. ASSUME NEW m \in 0 .. h - 1, m + 1 \in good PROVE m \in good
  <2>0. m \in Nat /\ m + 1 \in 0 .. h /\ m \in 0 .. h /\ m # h BY <1>1
  <2>1. PICK g : Part(g, m + 1) BY <1>3
  <2> DEFINE f == [k \in m .. h |-> IF k = m THEN Next1(m, g[m + 1]) ELSE g[k]]
  <2>2. ASSUME NEW k \in m .. h
        PROVE  f[k] = IF k = h THEN c[2] ELSE Next1(k, f[k + 1])
    <3>1. CASE k = m
      <4>1. k # h /\ k + 1 \in m .. h /\ k + 1 # m /\ k + 1 = m + 1 BY <1>1, <2>0, <3>1
      <4>2. f[k] = Next1(m, g[m + 1]) /\ f[k + 1] = g[m + 1] BY <3>1, <4>1
      <4> QED BY <3>1, <4>1, <4>2
    <3>2. CASE k # m
      <4>1. k \in m + 1 .. h BY <1>1, <2>0, <3>2
      <4>2. f[k] = g[k] /\ g[k] = IF k = h THEN c[2] ELSE Next1(k, g[k + 1])
        BY <2>1, <3>2, <4>1
      <4>3. CASE k = h BY <4>2, <4>3
      <4>4. CASE k # h
        <5>1. k + 1 \in m .. h /\ k + 1 # m BY <1>1, <2>0, <4>1, <4>4
        <5>2. f[k + 1] = g[k + 1] BY <5>1
        <5> QED BY <4>2, <4>4, <5>2
      <4> QED BY <4>3, <4>4
    <3> QED BY <3>1, <3>2
  <2>3. Part(f, m)
    <3>1. f = [k \in m .. h |-> f[k]] OBVIOUS
    <3> HIDE DEF f
    <3>2. [k \in m .. h |-> f[k]]
            = [k \in m .. h |-> IF k = h THEN c[2] ELSE Next1(k, f[k + 1])]
      BY <2>2
    <3> QED BY <3>1, <3>2
  <2> HIDE DEF f, Part
  <2> QED BY <2>0, <2>3
<1>4. 0 \in good
  <2> HIDE DEF good
  <2>1. \A m \in 0 .. h : m \in good BY <1>1, <1>2, <1>3, Downwards
  <2>2. 0 \in 0 .. h BY <1>1
  <2> QED BY <2>1, <2>2
<1>5. PICK g : Part(g, 0) BY <1>4
<1>6. IsPath(g, c, n, al, r) BY <1>5 DEF IsPath, h, Next1
<1> QED BY <1>6

\* How far down a path a block of n units fits.
Fits(p, n, al, k) == CheckFit(n, al, Block(<<k, p[k]>>))

\* A split follows a chain of halves to the last one in which the request fits.
SplitAlong(p, lo, c, n, al, r) ==
  /\ IsChain(p, lo, c[1]) /\ p[c[1]] = c[2]
  /\ Split(c, n, al, r).cell = <<lo, p[lo]>>
  /\ Split(c, n, al, r).avail \in [Cell -> CellState]
  /\ Opened(avail, Split(c, n, al, r).avail, p, lo, c[1])
  /\ \A k \in lo .. c[1] - 1 :
       /\ Fits(p, n, al, k)
       /\ p[k] = IF HalfFits(n, al, <<k, 2 * p[k + 1]>>, r)
                 THEN 2 * p[k + 1] ELSE 2 * p[k + 1] + 1

LEMMA SplitOpens ==
  ASSUME NEW c \in Here, NEW n, NEW al, NEW r, avail \in [Cell -> CellState]
  PROVE  \E p, lo : SplitAlong(p, lo, c, n, al, r)
<1> DEFINE h == c[1]
           Lowest(p, k) == /\ \A l \in k .. h - 1 : Fits(p, n, al, l)
                           /\ k = 0 \/ ~Fits(p, n, al, k - 1)
           p == CHOOSE g : IsPath(g, c, n, al, r)
           lo == CHOOSE k \in 0 .. h : Lowest(p, k)
           top(d) == d = <<lo, p[lo]>>
           on(d) == d[1] \in lo .. h /\ d[2] = p[d[1]]
           below(d) == d[1] \in lo .. h - 1 /\ d[2] \div 2 = p[d[1] + 1]
           new == [d \in Cell |-> IF top(d) THEN "OCCUPIED"
                                  ELSE IF on(d) THEN "INAVAILABLE"
                                  ELSE IF below(d) THEN "AVAILABLE"
                                  ELSE avail[d]]
<1>1. c = <<h, c[2]>> /\ h \in Level /\ c[2] \in Nat /\ h \in Nat BY HereBlock, Levels
<1>2. Split(c, n, al, r) = [cell |-> <<lo, p[lo]>>, avail |-> new]
  BY DEF Split, IsPath, Fits
<1>3. IsPath(p, c, n, al, r)
  <2>1. \E g : IsPath(g, c, n, al, r) BY <1>1, PathExists
  <2> QED BY <2>1
<1> HIDE DEF p
<1>4. /\ p[h] = c[2]
      /\ \A k \in 0 .. h - 1 :
           p[k] = IF HalfFits(n, al, <<k, 2 * p[k + 1]>>, r)
                  THEN 2 * p[k + 1] ELSE 2 * p[k + 1] + 1
  <2>1. \A k \in 0 .. h :
          p[k] = IF k = h THEN c[2]
                 ELSE IF HalfFits(n, al, <<k, 2 * p[k + 1]>>, r)
                 THEN 2 * p[k + 1] ELSE 2 * p[k + 1] + 1
    BY <1>3 DEF IsPath
  <2>2. h \in 0 .. h /\ \A k \in 0 .. h - 1 : k \in 0 .. h /\ k # h BY <1>1
  <2> HIDE DEF h
  <2> QED BY <2>1, <2>2
<1>5. lo \in 0 .. h /\ Lowest(p, lo)
  <2> DEFINE ok == {k \in 0 .. h : \A l \in k .. h - 1 : Fits(p, n, al, l)}
  <2>1. h \in ok
    <3>1. h \in 0 .. h /\ h .. h - 1 = {} BY <1>1
    <3> QED BY <3>1
  <2>2. ok \subseteq Nat BY <1>1
  <2>3. PICK k \in ok : \A l \in ok : k <= l
    <3> HIDE DEF ok
    <3> QED BY <2>1, <2>2, HasLeast
  <2>4. k \in 0 .. h /\ \A l \in k .. h - 1 : Fits(p, n, al, l) BY <2>3
  <2>5. ASSUME k # 0, Fits(p, n, al, k - 1) PROVE FALSE
    <3>1. k - 1 \in 0 .. h /\ ~(k <= k - 1) BY <1>1, <2>4, <2>5
    <3>2. \A l \in k - 1 .. h - 1 : l = k - 1 \/ l \in k .. h - 1 BY <1>1, <2>4
    <3>3. k - 1 \in ok BY <2>4, <2>5, <3>1, <3>2
    <3> QED BY <2>3, <3>1, <3>3
  <2>6. Lowest(p, k) BY <2>4, <2>5
  <2> HIDE DEF Lowest
  <2> QED BY <2>4, <2>6
<1> HIDE DEF lo, Lowest
<1>6. /\ lo \in Nat /\ lo <= h
      /\ \A k \in 0 .. h - 1 : k \in Nat /\ (k + 1) - 1 = k /\ k + 1 # 0 /\ k + 1 \in 0 .. h
      /\ lo \in Level /\ \A k \in lo .. h : k \in 0 .. h
      /\ \A k \in lo .. h - 1 : k \in 0 .. h - 1 /\ k + 1 \in lo .. h /\ k \in lo .. h
  BY <1>1, <1>5, Levels DEF Level
<1>7. IsChain(p, lo, h)
  <2> DEFINE good == {k \in 0 .. h : <<k, p[k]>> \in Here /\ p[k] \in Nat}
  <2>1. h \in good BY <1>1, <1>4
  <2>2. ASSUME NEW k \in 0 .. h - 1, k + 1 \in good
        PROVE  k \in good /\ p[k] \div 2 = p[k + 1]
    <3> DEFINE e == <<k + 1, p[k + 1]>>
    <3>1. e \in Here /\ e[1] = k + 1 /\ e[2] = p[k + 1] /\ p[k + 1] \in Nat BY <2>2
    <3>2. p[k] \in {2 * e[2], 2 * e[2] + 1} BY <1>4, <3>1
    <3>3. e[1] # 0 /\ e[1] - 1 = k BY <1>6, <3>1
    <3> HIDE DEF e
    <3>4. <<k, p[k]>> \in Here /\ p[k] \in Nat /\ p[k] \div 2 = e[2]
      BY <3>1, <3>2, <3>3, HalvesAreHere
    <3>5. k \in 0 .. h BY <1>1
    <3> QED BY <3>1, <3>4, <3>5
  <2> HIDE DEF good
  <2>3. 0 \in Nat OBVIOUS
  <2>4. \A k \in 0 .. h : k \in good BY <1>1, <2>1, <2>2, <2>3, Downwards
  <2>5. \A k \in 0 .. h - 1 : p[k] \div 2 = p[k + 1] BY <1>6, <2>2, <2>4
  <2>6. \A k \in 0 .. h : <<k, p[k]>> \in Here /\ p[k] \in Nat BY <2>4 DEF good
  <2>7. lo \in Level /\ h \in Level /\ lo <= h BY <1>1, <1>6
  <2>8. \A k \in lo .. h : <<k, p[k]>> \in Here /\ p[k] \in Nat BY <1>6, <2>6
  <2>9. \A k \in lo .. h - 1 : p[k + 1] = p[k] \div 2 BY <1>6, <2>5
  <2> HIDE DEF h
  <2> QED BY <2>7, <2>8, <2>9 DEF IsChain
<1>8. ASSUME NEW d \in Cell
      PROVE  /\ on(d) <=> OnChain(d, p, lo, h)
             /\ ~on(d) => (below(d) <=> BesideChain(d, p, lo, h))
  <2>1. d = <<d[1], d[2]>> /\ d[1] \in Level /\ d[2] \in Nat BY Cells
  <2>2. on(d) <=> OnChain(d, p, lo, h) BY <2>1 DEF OnChain
  <2>3. ASSUME ~on(d) PROVE below(d) <=> BesideChain(d, p, lo, h)
    <3> DEFINE k == d[1]
               e == <<k, p[k]>>
    <3>1. SUFFICES ASSUME k \in lo .. h - 1
                   PROVE  d[2] \div 2 = p[k + 1] <=> d = Buddy(e)
      BY DEF BesideChain
    <3>2. k \in lo .. h /\ k # Top BY <1>7, <3>1, ChainLevels
    <3>3. e \in Here /\ e[1] = k /\ e[2] = p[k] /\ p[k + 1] = p[k] \div 2
      BY <1>7, <3>1, <3>2 DEF IsChain
    <3>4. d[2] # p[k] BY <2>3, <3>2
    <3> HIDE DEF e
    <3>5. /\ Buddy(e)[2] \div 2 = e[2] \div 2
          /\ \A z \in Nat : z \div 2 = e[2] \div 2 => z = e[2] \/ <<e[1], z>> = Buddy(e)
      BY <3>2, <3>3, BuddyIsHere
    <3>6. d[2] \div 2 = p[k + 1] => <<k, d[2]>> = Buddy(e) BY <2>1, <3>3, <3>4, <3>5
    <3>7. d = Buddy(e) => d[2] \div 2 = p[k + 1] BY <3>3, <3>5
    <3> QED BY <2>1, <3>6, <3>7
  <2> QED BY <2>2, <2>3
<1> HIDE DEF on, below
<1>9. new \in [Cell -> CellState]
  <2>1. \A d \in Cell : avail[d] \in CellState OBVIOUS
  <2> QED BY <2>1 DEF CellState
<1>10. Opened(avail, new, p, lo, h)
  <2>1. \A d \in Cell :
          new[d] = IF top(d) THEN "OCCUPIED"
                   ELSE IF on(d) THEN "INAVAILABLE"
                   ELSE IF below(d) THEN "AVAILABLE"
                   ELSE avail[d]
    OBVIOUS
  <2> HIDE DEF new
  <2>2. ASSUME NEW d \in Cell
        PROVE  new[d] = IF d = <<lo, p[lo]>> THEN "OCCUPIED"
                        ELSE IF OnChain(d, p, lo, h) THEN "INAVAILABLE"
                        ELSE IF BesideChain(d, p, lo, h) THEN "AVAILABLE"
                        ELSE avail[d]
    BY <1>8, <2>1
  <2> HIDE DEF h
  <2> QED BY <2>2 DEF Opened
<1>11. \A k \in lo .. h - 1 : Fits(p, n, al, k) BY <1>5 DEF Lowest
<1>12. Split(c, n, al, r).cell = <<lo, p[lo]>> /\ Split(c, n, al, r).avail = new
  <2> HIDE DEF new
  <2> QED BY <1>2
<1> HIDE DEF new
<1>13. \A k \in lo .. h - 1 :
         p[k] = IF HalfFits(n, al, <<k, 2 * p[k + 1]>>, r)
                  THEN 2 * p[k + 1] ELSE 2 * p[k + 1] + 1
  BY <1>4, <1>6
<1> QED BY <1>4, <1>7, <1>9, <1>10, <1>11, <1>12, <1>13 DEF SplitAlong

\* The blocks around a block, one of each level above, are a chain.
Ancestors(c, hi) == [k \in c[1] .. hi |-> Ancestor(c, k)[2]]

AncestorsAlong(p, c, hi) ==
  /\ IsChain(p, c[1], hi) /\ p[c[1]] = c[2]
  /\ \A k \in c[1] .. hi : Ancestor(c, k) = <<k, p[k]>>

LEMMA AncestorsChain ==
  ASSUME NEW c \in Here, NEW hi \in Level, c[1] <= hi
  PROVE  AncestorsAlong(Ancestors(c, hi), c, hi)
<1> DEFINE lo == c[1]
           p == Ancestors(c, hi)
           u == Block(c).addr
           good == {k \in lo .. hi : Number(u, k) = c[2] \div Size[k - lo]}
<1>1. /\ lo \in Level /\ lo \in Nat /\ hi \in Nat /\ c = <<lo, c[2]>> /\ c[2] \in Nat
      /\ lo \in lo .. hi
  BY HereBlock, Levels
<1>2. u \in Usable /\ InZone(u) /\ Around(u, lo) = c BY HereBlock, UsableUnits
<1>3. \A k \in lo .. hi : /\ Ancestor(c, k) = <<k, c[2] \div Size[k - lo]>>
                          /\ p[k] = c[2] \div Size[k - lo]
  BY DEF Ancestor, Ancestors
<1> HIDE DEF u, p
<1>4. Number(u, lo) = c[2] BY <1>1, <1>2 DEF Around, Number
<1>5. lo \in good
  <2>1. c[2] \div 1 = c[2] BY <1>1, SMT
  <2>2. lo - lo = 0 BY <1>1
  <2> QED BY <1>1, <1>4, <2>1, <2>2, Sizes
<1>6. ASSUME NEW k \in lo .. hi - 1, k \in good PROVE k + 1 \in good
  <2>1. /\ k \in Level /\ k < hi /\ k + 1 \in lo .. hi /\ k - lo \in Level /\ k - lo < hi
        /\ (k + 1) - lo = (k - lo) + 1
    BY <1>1, Levels DEF Level
  <2>2. k # Top BY <2>1, NextLevel
  <2>3. Size[(k + 1) - lo] = 2 * Size[k - lo] BY <2>1, NextLevel
  <2>4. Size[k - lo] \in Nat \ {0} BY <2>1, Levels
  <2>5. Number(u, k + 1) = Number(u, k) \div 2 BY <1>2, <2>1, <2>2, NumberHalves
  <2>6. Number(u, k) = c[2] \div Size[k - lo] BY <1>6
  <2>7. c[2] \div (2 * Size[k - lo]) = (c[2] \div Size[k - lo]) \div 2
    BY <1>1, <2>4, QuotientHalves
  <2>8. Number(u, k + 1) = c[2] \div Size[(k + 1) - lo] BY <2>3, <2>5, <2>6, <2>7
  <2> QED BY <2>1, <2>8
<1>7. \A k \in lo .. hi : k \in good
  <2> HIDE DEF good, lo
  <2> QED BY <1>1, <1>5, <1>6, Upwards
<1>8. \A k \in lo .. hi : p[k] = Number(u, k) BY <1>3, <1>7
<1>9. \A k \in lo .. hi : k \in Level /\ (k \in lo .. hi - 1 => k # Top /\ k + 1 \in lo .. hi)
  <2>1. ASSUME NEW k \in lo .. hi PROVE k \in Level BY <1>1, Levels DEF Level
  <2>2. ASSUME NEW k \in lo .. hi - 1 PROVE k # Top /\ k + 1 \in lo .. hi
    <3>1. k \in Level /\ k < hi /\ k + 1 \in lo .. hi BY <1>1, Levels DEF Level
    <3> QED BY <3>1, NextLevel
  <2> QED BY <2>1, <2>2
<1>10. \A k \in lo .. hi : <<k, p[k]>> \in Here /\ p[k] \in Nat
  <2>1. ASSUME NEW k \in lo .. hi PROVE <<k, p[k]>> \in Here /\ p[k] \in Nat
    <3>1. <<k, p[k]>> = Around(u, k) BY <1>8 DEF Around, Number
    <3>2. k \in Level BY <1>9
    <3>3. Number(u, k) \in Nat BY <1>2, <3>2, NumberIs, 0 \in Nat
    <3>4. Around(u, k) \in Here BY <1>2, <3>2 DEF Here
    <3> QED BY <1>8, <3>1, <3>3, <3>4
  <2> QED BY <2>1
<1>11. \A k \in lo .. hi - 1 : p[k + 1] = p[k] \div 2
  <2>1. ASSUME NEW k \in lo .. hi - 1 PROVE p[k + 1] = p[k] \div 2
    <3>1. k \in lo .. hi BY <1>1
    <3>2. k \in Level /\ k # Top /\ k + 1 \in lo .. hi BY <1>9, <3>1
    <3> QED BY <1>2, <1>8, <3>1, <3>2, NumberHalves
  <2> QED BY <2>1
<1>12. IsChain(p, lo, hi)
  <2> HIDE DEF lo
  <2> QED BY <1>1, <1>10, <1>11 DEF IsChain, lo
<1>13. p[lo] = c[2] BY <1>1, <1>4, <1>8
<1>14. \A k \in lo .. hi : Ancestor(c, k) = <<k, p[k]>> BY <1>3
<1> QED BY <1>12, <1>13, <1>14 DEF AncestorsAlong, p

\* Merging joins a block along the chain of the blocks around it, as long as the
\* other half is free.
LEMMA MergeCloses ==
  ASSUME NEW c \in Here, avail \in [Cell -> CellState]
  PROVE  \E p, hi :
           /\ IsChain(p, c[1], hi) /\ p[c[1]] = c[2]
           /\ Merge(c) \in [Cell -> CellState]
           /\ Closed(avail, Merge(c), p, c[1], hi)
           /\ \A k \in c[1] .. hi - 1 : avail[Buddy(<<k, p[k]>>)] = "AVAILABLE"
           /\ hi = Top \/ avail[Buddy(<<hi, p[hi]>>)] # "AVAILABLE"
<1> DEFINE lo == c[1]
           stops(k) == k = Top \/ avail[Buddy(Ancestor(c, k))] # "AVAILABLE"
           highest(k) == /\ \A l \in lo .. k - 1 : avail[Buddy(Ancestor(c, l))] = "AVAILABLE"
                         /\ stops(k)
           hi == CHOOSE k \in lo .. Top : highest(k)
           joined(d) == \E k \in lo .. hi - 1 : d \in {Ancestor(c, k), Buddy(Ancestor(c, k))}
           p == Ancestors(c, hi)
<1>1. lo \in Level /\ lo \in Nat /\ Top \in Nat /\ lo \in lo .. Top /\ Top \in lo .. Top
  BY HereBlock, Levels DEF Level
<1>2. hi \in lo .. Top /\ highest(hi)
  <2> DEFINE ends == {k \in lo .. Top : stops(k)}
  <2>1. Top \in ends BY <1>1
  <2>2. ends \subseteq Nat BY <1>1
  <2>3. PICK k \in ends : \A l \in ends : k <= l
    <3> HIDE DEF ends
    <3> QED BY <2>1, <2>2, HasLeast
  <2>4. k \in lo .. Top /\ stops(k) BY <2>3
  <2>5. ASSUME NEW l \in lo .. k - 1 PROVE avail[Buddy(Ancestor(c, l))] = "AVAILABLE"
    <3>1. l \in lo .. Top /\ ~(k <= l) BY <1>1, <2>4
    <3>2. l \notin ends BY <2>3, <3>1
    <3> QED BY <3>1, <3>2
  <2>6. highest(k) BY <2>4, <2>5
  <2> HIDE DEF highest
  <2> QED BY <2>4, <2>6
<1>3. Merge(c) = [d \in Cell |-> IF d = Ancestor(c, hi) THEN "AVAILABLE"
                                 ELSE IF joined(d) THEN "INAVAILABLE"
                                 ELSE avail[d]]
  BY DEF Merge
<1> HIDE DEF hi
<1>4. hi \in Level /\ hi \in Nat /\ lo <= hi /\ hi \in lo .. hi BY <1>1, <1>2, Levels DEF Level
<1>5. /\ IsChain(p, lo, hi) /\ p[lo] = c[2]
      /\ \A k \in lo .. hi : Ancestor(c, k) = <<k, p[k]>>
  <2>1. AncestorsAlong(p, c, hi) BY <1>4, AncestorsChain
  <2> HIDE DEF p
  <2> QED BY <2>1 DEF AncestorsAlong
<1> HIDE DEF p
<1>6. \A k \in lo .. hi - 1 : k \in lo .. hi BY <1>1, <1>4
<1>7. \A k \in lo .. hi - 1 : avail[Buddy(<<k, p[k]>>)] = "AVAILABLE"
  BY <1>2, <1>5, <1>6
<1>8. hi = Top \/ avail[Buddy(<<hi, p[hi]>>)] # "AVAILABLE" BY <1>2, <1>4, <1>5
<1>9. Merge(c) \in [Cell -> CellState]
  <2>1. \A d \in Cell : avail[d] \in CellState OBVIOUS
  <2> HIDE DEF joined
  <2> QED BY <1>3, <2>1 DEF CellState
<1>10. ASSUME NEW d \in Cell, d # <<hi, p[hi]>>
       PROVE  joined(d) <=> OnChain(d, p, lo, hi) \/ BesideChain(d, p, lo, hi)
  <2>1. ASSUME joined(d) PROVE OnChain(d, p, lo, hi) \/ BesideChain(d, p, lo, hi)
    <3>1. PICK k \in lo .. hi - 1 : d \in {Ancestor(c, k), Buddy(Ancestor(c, k))} BY <2>1
    <3>2. Ancestor(c, k) = <<k, p[k]>> /\ k \in lo .. hi BY <1>5, <1>6
    <3>3. CASE d = <<k, p[k]>> BY <3>2, <3>3 DEF OnChain
    <3>4. CASE d = Buddy(<<k, p[k]>>)
      <4>1. d[1] = k BY <3>4 DEF Buddy
      <4> QED BY <3>4, <4>1 DEF BesideChain
    <3> QED BY <3>1, <3>2, <3>3, <3>4
  <2>2. ASSUME OnChain(d, p, lo, hi) PROVE joined(d)
    <3>1. d[1] \in lo .. hi /\ d = <<d[1], p[d[1]]>> BY <2>2 DEF OnChain
    <3>2. d[1] # hi BY <1>10, <3>1
    <3>3. d[1] \in lo .. hi - 1 BY <1>1, <1>4, <3>1, <3>2
    <3> QED BY <1>5, <3>1, <3>3
  <2>3. ASSUME BesideChain(d, p, lo, hi) PROVE joined(d)
    <3>1. d[1] \in lo .. hi - 1 /\ d = Buddy(<<d[1], p[d[1]]>>) BY <2>3 DEF BesideChain
    <3>2. Ancestor(c, d[1]) = <<d[1], p[d[1]]>> BY <1>5, <1>6, <3>1
    <3> QED BY <3>1, <3>2
  <2> QED BY <2>1, <2>2, <2>3
<1>11. Closed(avail, Merge(c), p, lo, hi)
  <2>1. Ancestor(c, hi) = <<hi, p[hi]>> BY <1>4, <1>5
  <2> HIDE DEF joined
  <2>2. \A d \in Cell : Merge(c)[d] = IF d = <<hi, p[hi]>> THEN "AVAILABLE"
                                      ELSE IF joined(d) THEN "INAVAILABLE"
                                      ELSE avail[d]
    BY <1>3, <2>1
  <2> HIDE DEF lo
  <2> QED BY <1>10, <2>2 DEF Closed
<1> QED BY <1>5, <1>7, <1>8, <1>9, <1>11

-----------------------------------------------------------------------------
(* The zone at any time.                                                   *)

\* Callers hold ranges of usable units.
GrantsUsable ==
  /\ granted \subseteq [addr : Usable, size : Nat \ {0}]
  /\ \A r \in granted : r.addr + r.size - 1 \in Usable

BuddyGood == Tree(avail) /\ GrantsUsable

\* Each range a caller holds is in a block in use, and each of these has one.
OneGrantEach ==
  /\ \A r \in granted : \E c \in Cell : avail[c] = "OCCUPIED" /\ Inside(r, Block(c))
  /\ \A c \in Cell : avail[c] = "OCCUPIED" =>
       \E r \in granted : \A s \in granted : Inside(s, Block(c)) <=> s = r

\* All units of a range inside a block are usable, and the block is around them.
LEMMA InsideBlock ==
  ASSUME NEW c \in Here, NEW r \in [addr : Nat, size : Nat \ {0}], Inside(r, Block(c)),
         NEW v \in Nat, r.addr <= v, v < r.addr + r.size
  PROVE  v \in Usable /\ Around(v, c[1]) = c
<1> DEFINE a == r.addr
           n == r.size
           b == Block(c).addr
           s == Block(c).size
<1>1. a \in Nat /\ n \in Nat \ {0} OBVIOUS
<1>2. /\ b \in Usable /\ s = Size[c[1]] /\ c[1] \in Level
      /\ \A w : InZone(w) => (Around(w, c[1]) = c <=> b <= w /\ w < b + s)
      /\ \A w : InZone(w) /\ Around(w, c[1]) = c => w \in Usable
  BY HereBlock
<1>3. InZone(b) BY <1>2, UsableUnits
<1>4. b \in Nat /\ Start <= b /\ s \in Nat /\ Start \in Nat
  BY <1>2, <1>3, Levels, ZoneAssumption DEF InZone
<1>5. b <= a /\ a + n <= b + s BY DEF Inside
<1>6. a <= v /\ v < a + n OBVIOUS
<1> HIDE DEF a, n, b, s
<1>7. InZone(v) /\ b <= v /\ v < b + s BY <1>1, <1>4, <1>5, <1>6, SMT DEF InZone
<1> QED BY <1>2, <1>7

\* The first and the last unit.
LEMMA InsideEnds ==
  ASSUME NEW c \in Here, NEW r \in [addr : Nat, size : Nat \ {0}], Inside(r, Block(c))
  PROVE  /\ r.addr \in Usable /\ Around(r.addr, c[1]) = c
         /\ r.addr + r.size - 1 \in Usable /\ Around(r.addr + r.size - 1, c[1]) = c
         /\ r \in [addr : Usable, size : Nat \ {0}]
<1> DEFINE a == r.addr
           n == r.size
           v == r.addr + r.size - 1
<1>1. a \in Nat /\ n \in Nat \ {0} /\ r = [addr |-> a, size |-> n] OBVIOUS
<1>2. a <= a /\ a < a + n /\ v \in Nat /\ a <= v /\ v < a + n
  <2>1. v = a + n - 1 OBVIOUS
  <2> HIDE DEF a, n, v
  <2> QED BY <1>1, <2>1, SMT
<1>3. a \in Usable /\ Around(a, c[1]) = c BY <1>1, <1>2, InsideBlock
<1>4. v \in Usable /\ Around(v, c[1]) = c BY <1>1, <1>2, InsideBlock
<1> QED BY <1>1, <1>3, <1>4

\* A block around a unit is inside the blocks around it on higher levels.
LEMMA Nested ==
  ASSUME NEW c \in Here, NEW d \in Here, d[1] <= c[1], NEW u \in Usable,
         Around(u, c[1]) = c, Around(u, d[1]) = d
  PROVE  /\ Inside(Block(d), Block(c))
         /\ \A v \in Usable : Around(v, d[1]) = d => Around(v, c[1]) = c
<1> DEFINE k == d[1]
           l == c[1]
           b == Block(d).addr
           s == Block(d).size
           e == b + s - 1
<1>1. /\ k \in Level /\ l \in Level /\ b \in Usable /\ s = Size[k]
      /\ \A v : InZone(v) => (Around(v, k) = d <=> b <= v /\ v < b + s)
      /\ \A v : InZone(v) => (Around(v, l) = c <=> /\ Block(c).addr <= v
                                                  /\ v < Block(c).addr + Block(c).size)
      /\ Block(c).addr \in Usable /\ Block(c).size = Size[l]
  BY HereBlock
<1>2. InZone(u) /\ InZone(b) /\ InZone(Block(c).addr) BY <1>1, UsableUnits
<1>3. b \in Nat /\ Start <= b /\ s \in Nat \ {0} /\ Start \in Nat
      /\ Block(c).addr \in Nat /\ Block(c).size \in Nat
  BY <1>1, <1>2, Levels, ZoneAssumption DEF InZone
<1>4. InZone(e) /\ b <= e /\ e < b + s /\ b < b + s
  <2>1. e = b + s - 1 OBVIOUS
  <2> HIDE DEF e, b, s
  <2> QED BY <1>3, <2>1, SMT DEF InZone
<1>5. ASSUME NEW v, InZone(v), Around(v, k) = d PROVE Around(v, l) = c
  <2>1. Number(v, k) = Number(u, k) BY <1>5 DEF Around, Number
  <2>2. Number(v, l) = Number(u, l) BY <1>1, <1>2, <1>5, <2>1, TogetherAbove
  <2> QED BY <2>2 DEF Around, Number
<1>6. Around(b, k) = d /\ Around(e, k) = d
  <2> HIDE DEF b, e, s, k
  <2>1. b <= b BY <1>3
  <2> QED BY <1>1, <1>2, <1>4, <2>1
<1>7. Around(b, l) = c /\ Around(e, l) = c BY <1>2, <1>4, <1>5, <1>6
<1> DEFINE x == Block(c).addr
           y == Block(c).size
<1>8. x <= b /\ e < x + y BY <1>1, <1>2, <1>4, <1>7
<1>9. x <= b /\ b + s <= x + y
  <2>1. e = b + s - 1 /\ x \in Nat /\ y \in Nat BY <1>3
  <2> HIDE DEF e, b, s, x, y
  <2> QED BY <1>3, <1>8, <2>1, SMT
<1>10. Inside(Block(d), Block(c)) BY <1>9 DEF Inside
<1>11. \A v \in Usable : Around(v, k) = d => Around(v, l) = c BY <1>5, UsableUnits
<1> QED BY <1>10, <1>11

\* At first there is one free block.
LEMMA InitGood == ASSUME Init PROVE BuddyGood /\ OneGrantEach
<1>1. /\ Top \in Level /\ Size[Top] \in Nat \ {0} /\ Units \in Nat
      /\ Size[Top] <= Units /\ Units < 2 * Size[Top]
  BY Levels, ZoneAssumption
<1>2. avail = [c \in Cell |-> IF c[1] = Top THEN "AVAILABLE" ELSE "INAVAILABLE"]
      /\ granted = {}
  BY DEF Init
<1>3. avail \in [Cell -> CellState] BY <1>2 DEF CellState
<1>4. ASSUME NEW c \in Cell, c[1] = Top PROVE c = <<Top, 0>>
  <2>1. PICK i \in Level : c \in {<<i, j>> : j \in 0 .. (Units \div Size[i]) - 1}
    BY DEF Cell
  <2>2. PICK j \in 0 .. (Units \div Size[i]) - 1 : c = <<i, j>> BY <2>1
  <2>3. i = Top BY <1>4, <2>2
  <2>4. Units \div Size[Top] = 1
    <3>1. 1 * Size[Top] = Size[Top] BY <1>1, SMT
    <3>2. Units < Size[Top] + Size[Top] BY <1>1, SMT
    <3> QED BY <1>1, <3>1, <3>2, Quotient, 1 \in Nat
  <2>5. j = 0 BY <2>2, <2>3, <2>4
  <2> QED BY <2>2, <2>3, <2>5
<1>5. \A u \in Usable : Around(u, Top) = <<Top, 0>>
  BY UsableUnits DEF Around, Number
<1>6. Start \in Usable BY <1>1, ZoneAssumption DEF Usable
<1>7. <<Top, 0>> \in Here BY <1>1, <1>5, <1>6 DEF Here
<1>8. \A c \in Cell : avail[c] # "INAVAILABLE" => c \in Here BY <1>2, <1>4, <1>7
<1>9. ASSUME NEW u \in Usable, NEW l \in Level
      PROVE  avail[Around(u, l)] # "INAVAILABLE" <=> l = Top
  <2>1. Around(u, l) \in Cell /\ Around(u, l)[1] = l BY Cells DEF Here, Around
  <2> QED BY <1>2, <2>1
<1>10. Tree(avail)
  <2>1. \A u \in Usable : \E j \in Level : \A l \in Level :
          avail[Around(u, l)] # "INAVAILABLE" <=> l = j
    BY <1>1, <1>9
  <2>2. \A c \in Cell : c[1] # Top => avail[c] # "AVAILABLE" BY <1>2
  <2> QED BY <1>3, <1>8, <2>1, <2>2 DEF Tree
<1>11. \A c \in Cell : avail[c] # "OCCUPIED" BY <1>2
<1> QED BY <1>2, <1>10, <1>11 DEF BuddyGood, GrantsUsable, OneGrantEach

\* A block is taken into use for a range inside it.
Taken(x, g) ==
  /\ TakesBlock(avail, avail', x)
  /\ granted' = granted \union {g}
  /\ g \in [addr : Nat, size : Nat \ {0}]
  /\ Inside(g, Block(x))

\* What CheckFit finds room for is inside the block.
LEMMA FitIsInside ==
  ASSUME NEW c \in Here, NEW n \in Nat \ {0}, NEW al \in {0, 1}, CheckFit(n, al, Block(c))
  PROVE  LET g == [addr |-> AlignUp(Block(c).addr, al), size |-> n]
         IN  g \in [addr : Nat, size : Nat \ {0}] /\ Inside(g, Block(c))
<1> DEFINE b == Block(c).addr
           s == Block(c).size
           a == AlignUp(b, al)
           g == [addr |-> a, size |-> n]
<1>1. b \in Usable /\ s = Size[c[1]] /\ c[1] \in Level BY HereBlock
<1>2. b \in Nat /\ s \in Nat BY <1>1, UsableUnits, Levels DEF InZone
<1>3. s >= n /\ b + s - a >= n BY DEF CheckFit
<1> HIDE DEF b, s
<1>4. a \in Nat /\ b <= a
  <2>1. CASE al = 0 BY <1>2, <2>1 DEF AlignUp
  <2>2. CASE al = 1
    <3>1. (b + 1) % 1 = 0 BY <1>2, SMT
    <3> QED BY <1>2, <2>2, <3>1 DEF AlignUp
  <2> QED BY <2>1, <2>2
<1> HIDE DEF a
<1>5. a + n <= b + s BY <1>2, <1>3, <1>4, SMT
<1>6. g.addr = a /\ g.size = n /\ g \in [addr : Nat, size : Nat \ {0}] BY <1>4
<1> HIDE DEF g
<1>7. Inside(g, Block(c)) BY <1>4, <1>5, <1>6 DEF Inside, b, s
<1> QED BY <1>6, <1>7 DEF g, a, b

\* An allocation takes a block.
LEMMA AllocateTakes ==
  ASSUME BuddyGood, NEW n \in Request, NEW al \in Align, Allocate(n, al)
  PROVE  \E x, g : Taken(x, g)
<1>1. PICK c \in Candidates(n, al) :
        /\ avail' = Split(c, n, al, {}).avail
        /\ granted' = granted \union
                        {[addr |-> AlignUp(Block(Split(c, n, al, {}).cell).addr, al),
                          size |-> n]}
  BY DEF Allocate
<1>2. c \in Cell /\ FirstFree(c[1], c[2]) /\ CheckFit(n, al, Block(c)) BY DEF Candidates
<1>3. Tree(avail) /\ avail \in [Cell -> CellState] BY DEF BuddyGood, Tree
<1>4. c = <<c[1], c[2]>> /\ avail[c] = "AVAILABLE" BY <1>2, Cells DEF FirstFree
<1>5. c \in Here BY <1>2, <1>3, <1>4 DEF Tree
<1>6. PICK p, lo : SplitAlong(p, lo, c, n, al, {}) BY <1>3, <1>5, SplitOpens
<1> DEFINE x == <<lo, p[lo]>>
           g == [addr |-> AlignUp(Block(x).addr, al), size |-> n]
<1>7. /\ IsChain(p, lo, c[1]) /\ p[c[1]] = c[2]
      /\ avail' \in [Cell -> CellState] /\ Opened(avail, avail', p, lo, c[1])
      /\ granted' = granted \union {g}
      /\ \A k \in lo .. c[1] - 1 : Fits(p, n, al, k)
  BY <1>1, <1>6 DEF SplitAlong
<1>8. avail[<<c[1], p[c[1]]>>] = "AVAILABLE" BY <1>4, <1>7
<1>9. TakesBlock(avail, avail', x)
  <2> HIDE DEF g
  <2> QED BY <1>3, <1>7, <1>8, OpeningKeepsTree
<1>10. x \in Here
  <2> HIDE DEF x, g
  <2> QED BY <1>9 DEF TakesBlock
<1>11. CheckFit(n, al, Block(x))
  <2>1. CASE lo = c[1] BY <1>2, <1>4, <1>7, <2>1
  <2>2. CASE lo # c[1]
    <3>1. lo \in lo .. c[1] - 1 BY <1>7, <2>2, ChainLevels
    <3> QED BY <1>7, <3>1 DEF Fits
  <2> QED BY <2>1, <2>2
<1>12. n \in Nat \ {0} /\ al \in {0, 1} BY ZoneAssumption
<1>13. g \in [addr : Nat, size : Nat \ {0}] /\ Inside(g, Block(x))
  <2> HIDE DEF x
  <2> QED BY <1>10, <1>11, <1>12, FitIsInside
<1>14. Taken(x, g)
  <2> HIDE DEF x, g
  <2> QED BY <1>7, <1>9, <1>13 DEF Taken
<1> QED BY <1>14

\* Reserving a range takes a block, whatever range it is.
LEMMA ReserveSplits ==
  ASSUME BuddyGood, NEW r \in Reservable, Reserve(r)
  PROVE  \E p, lo : /\ SplitAlong(p, lo, CoordsOf(r.addr), r.size, 0, {r})
                    /\ TakesBlock(avail, avail', <<lo, p[lo]>>)
<1> DEFINE c == CoordsOf(r.addr)
<1>1. r.addr \in Usable BY ZoneAssumption
<1>2. Tree(avail) /\ avail \in [Cell -> CellState] BY DEF BuddyGood, Tree
<1>3. c \in Here BY <1>1, <1>2, CoordsAre
<1>4. avail[c] = "AVAILABLE" /\ avail' = Split(c, r.size, 0, {r}).avail BY DEF Reserve
<1> HIDE DEF c
<1>5. PICK p, lo : SplitAlong(p, lo, c, r.size, 0, {r}) BY <1>2, <1>3, SplitOpens
<1>6. /\ IsChain(p, lo, c[1]) /\ p[c[1]] = c[2]
      /\ avail' \in [Cell -> CellState] /\ Opened(avail, avail', p, lo, c[1])
  BY <1>4, <1>5 DEF SplitAlong
<1>7. c = <<c[1], c[2]>> BY <1>3, HereBlock
<1>8. avail[<<c[1], p[c[1]]>>] = "AVAILABLE" BY <1>4, <1>6, <1>7
<1>9. TakesBlock(avail, avail', <<lo, p[lo]>>) BY <1>2, <1>6, <1>8, OpeningKeepsTree
<1> QED BY <1>5, <1>9 DEF c

\* A range that lies in one of the smallest blocks that can hold it, and not
\* across two of them.
InOneBlock(r) == \E c \in Cell : Inside(r, Block(c)) /\ Block(c).size < 2 * r.size

\* If it does, the path of the split leads to the block around it.
LEMMA ReserveTakes ==
  ASSUME BuddyGood, NEW r \in Reservable, Reserve(r), InOneBlock(r)
  PROVE  \E x : Taken(x, r)
<1> DEFINE a == r.addr
           n == r.size
           c == CoordsOf(a)
           h == c[1]
           last == a + n - 1
<1>1. /\ a \in Usable /\ n \in Nat \ {0} /\ r \in [addr : Nat, size : Nat \ {0}]
      /\ last \in Usable
  <2>1. r \in [addr : Usable, size : Nat \ {0}] /\ r.addr + r.size - 1 \in Usable
    BY ZoneAssumption
  <2>2. r.addr \in Nat BY <2>1, UsableUnits DEF InZone
  <2> QED BY <2>1, <2>2
<1>2. InZone(a) BY <1>1, UsableUnits
<1>3. Tree(avail) BY DEF BuddyGood
<1>4. c \in Here /\ c = Around(a, h) BY <1>1, <1>3, CoordsAre
<1>5. h \in Level /\ c = <<h, c[2]>> BY <1>4, HereBlock
<1>6. PICK p, lo : /\ SplitAlong(p, lo, c, n, 0, {r})
                   /\ TakesBlock(avail, avail', <<lo, p[lo]>>)
  BY ReserveSplits
<1>7. /\ IsChain(p, lo, h) /\ p[h] = c[2]
      /\ \A k \in lo .. h - 1 :
           /\ Fits(p, n, 0, k)
           /\ p[k] = IF HalfFits(n, 0, <<k, 2 * p[k + 1]>>, {r})
                     THEN 2 * p[k + 1] ELSE 2 * p[k + 1] + 1
  BY <1>6 DEF SplitAlong
<1>8. PICK d \in Cell : Inside(r, Block(d)) /\ Block(d).size < 2 * n BY DEF InOneBlock
<1>9. d[1] \in Level /\ Block(d).size = Size[d[1]] BY Cells DEF Block
<1>10. Around(a, d[1]) = d
  <2> DEFINE b == Block(d).addr
             s == Block(d).size
  <2>1. Inside([addr |-> a, size |-> 1], Block(d)) <=> Around(a, d[1]) = d BY <1>1, Cells
  <2>2. b <= a /\ a + n <= b + s BY <1>8 DEF Inside
  <2>3. a \in Nat /\ b \in Int /\ s \in Nat
    <3>1. d[2] \in Nat /\ Size[d[1]] \in Nat /\ Start \in Nat /\ d[1] \in Level
      BY Cells, Levels, ZoneAssumption
    <3> DEFINE m == d[2] * Size[d[1]]
    <3>2. m \in Nat BY <3>1, SMT
    <3>3. b = Start + m BY DEF Block
    <3> HIDE DEF m, b
    <3> QED BY <1>2, <1>9, <3>1, <3>2, <3>3 DEF InZone
  <2> HIDE DEF a, b, n, s
  <2>4. b <= a /\ a + 1 <= b + s BY <1>1, <2>2, <2>3, SMT
  <2>5. Inside([addr |-> a, size |-> 1], Block(d)) BY <2>4 DEF Inside, b, s
  <2> QED BY <2>1, <2>5
<1>11. d \in Here BY <1>1, <1>9, <1>10 DEF Here
<1> HIDE DEF h
\* Where a half is large enough, the block around the range's first unit holds it.
<1>12. ASSUME NEW k \in Level, n <= Size[k] PROVE Inside(r, Block(Around(a, k)))
  <2>1. d[1] <= k
    <3> DEFINE j == d[1]
    <3>0. j \in Nat /\ k \in Nat BY <1>9, Levels
    <3>1. SUFFICES ASSUME k < d[1] PROVE FALSE
      <4>1. ~(k < j) => j <= k
        <5> HIDE DEF j
        <5> QED BY <3>0
      <4> QED BY <4>1
    <3>2. k + 1 \in Level /\ Size[k + 1] = 2 * Size[k] BY <1>9, <3>1, NextLevel
    <3>3. k + 1 <= d[1]
      <4>1. k < j BY <3>1
      <4> HIDE DEF j
      <4>2. k + 1 <= j BY <3>0, <4>1
      <4> QED BY <4>2 DEF j
    <3>4. Size[k + 1] <= Size[d[1]] BY <1>9, <3>2, <3>3, SizesGrow
    <3>5. Size[d[1]] \in Nat /\ Size[k] \in Nat BY <1>9, Levels
    <3> HIDE DEF n, j
    <3> QED BY <1>1, <1>8, <1>9, <1>12, <3>2, <3>4, <3>5, SMT
  <2> DEFINE e == Around(a, k)
  <2>2. e \in Here /\ e[1] = k /\ Around(a, e[1]) = e BY <1>1 DEF Here, Around
  <2>3. \A v \in Usable : Around(v, d[1]) = d => Around(v, k) = e
    <3> HIDE DEF e, a
    <3> QED BY <1>1, <1>10, <1>11, <2>1, <2>2, Nested
  <2>4. Around(last, d[1]) = d BY <1>1, <1>8, <1>11, InsideEnds
  <2>5. Around(last, k) = e BY <1>1, <2>3, <2>4
  <2> DEFINE b == Block(e).addr
             s == Block(e).size
  <2>6. /\ b \in Usable /\ s = Size[k]
        /\ \A v : InZone(v) => (Around(v, k) = e <=> b <= v /\ v < b + s)
    <3> HIDE DEF e
    <3> QED BY <2>2, HereBlock
  <2>7. InZone(last) BY <1>1, UsableUnits
  <2>8. b <= a /\ last < b + s
    <3>0. Around(a, k) = e OBVIOUS
    <3> HIDE DEF e, b, s, a, last
    <3> QED BY <1>2, <2>5, <2>6, <2>7, <3>0
  <2>9. b \in Nat /\ s \in Nat /\ a \in Nat /\ last = a + n - 1
    <3>1. InZone(b) BY <2>6, UsableUnits
    <3> QED BY <1>2, <2>6, <3>1, Levels DEF InZone
  <2>10. b <= a /\ a + n <= b + s
    <3> HIDE DEF b, s, a, n, last
    <3> QED BY <1>1, <2>8, <2>9, SMT
  <2> QED BY <2>10 DEF Inside
<1> HIDE DEF c
<1>13. \A k \in lo .. h : k \in Level /\ k \in Nat BY <1>7, ChainLevels
<1>14. ASSUME NEW k \in lo .. h - 1 PROVE k \in lo .. h /\ n <= Size[k]
  <2>1. k \in lo .. h BY <1>7, ChainLevels
  <2>2. CheckFit(n, 0, Block(<<k, p[k]>>)) BY <1>7 DEF Fits
  <2>3. Block(<<k, p[k]>>).size = Size[k] BY DEF Block
  <2>4. n \in Nat /\ Size[k] \in Nat BY <1>1, <1>13, <2>1, Levels
  <2> HIDE DEF n
  <2> QED BY <2>1, <2>2, <2>3, <2>4 DEF CheckFit
<1> DEFINE good == {k \in lo .. h : p[k] = Number(a, k)}
<1>15. h \in good
  <2>1. c[2] = Number(a, h) BY <1>4 DEF Around, Number
  <2>2. h \in lo .. h BY <1>7, ChainLevels
  <2> QED BY <1>7, <2>1, <2>2
<1>16. ASSUME NEW k \in lo .. h - 1, k + 1 \in good PROVE k \in good
  <2> DEFINE x == Number(a, k)
             q == p[k + 1]
             left == <<k, 2 * q>>
  <2>1. k \in Level /\ k # Top /\ k + 1 \in lo .. h /\ k \in lo .. h /\ (k + 1) - 1 = k
    BY <1>7, ChainLevels
  <2>2. q = Number(a, k + 1) /\ q = x \div 2 BY <1>2, <1>16, <2>1, NumberHalves
  <2>3. x \in Nat BY <1>2, <2>1, NumberIs, 0 \in Nat
  <2>4. Inside(r, Block(<<k, x>>)) BY <1>12, <1>14, <2>1 DEF Around, Number
  <2>5. p[k] = IF HalfFits(n, 0, left, {r}) THEN 2 * q ELSE 2 * q + 1 BY <1>7
  <2> HIDE DEF x, q
  <2>6. x = 2 * q \/ x = 2 * q + 1 BY <2>2, <2>3, Half
  <2>7. CASE x = 2 * q
    <3>1. Inside(r, Block(left)) BY <2>4, <2>7
    <3>2. CheckFit(n, 0, Block(left))
      <4> DEFINE b == Block(left).addr
      <4>1. Block(left).size = Size[k] /\ b = Start + left[2] * Size[k] BY DEF Block
      <4>2. n <= Size[k] /\ Size[k] \in Nat /\ n \in Nat BY <1>1, <1>14, <2>1, Levels
      <4>3. b \in Int
        <5>1. left[2] \in Nat /\ Size[k] \in Nat /\ Start \in Nat
          BY <2>3, <2>7, <4>2, ZoneAssumption
        <5> DEFINE m == left[2] * Size[k]
        <5>2. m \in Nat BY <5>1, SMT
        <5>3. b = Start + m BY <4>1
        <5> HIDE DEF m, b
        <5> QED BY <5>1, <5>2, <5>3
      <4> HIDE DEF b, n, left
      <4>4. AlignUp(b, 0) = b BY DEF AlignUp
      <4>5. b + Size[k] - b >= n BY <4>2, <4>3, SMT
      <4> QED BY <4>1, <4>2, <4>4, <4>5 DEF CheckFit, b
    <3>3. HalfFits(n, 0, left, {r}) BY <3>1, <3>2 DEF HalfFits
    <3> HIDE DEF left
    <3> QED BY <2>1, <2>5, <2>7, <3>3 DEF x
  <2>8. CASE x = 2 * q + 1
    <3>1. ~Inside(r, Block(left))
      <4>1. SUFFICES ASSUME Inside(r, Block(left)) PROVE FALSE OBVIOUS
      <4> DEFINE up == <<k + 1, q>>
      <4>2. up \in Here /\ up[1] = k + 1 /\ up[2] = q BY <1>7, <2>1 DEF IsChain, q
      <4>3. up[1] # 0 /\ up[1] - 1 = k BY <1>13, <2>1, <4>2
      <4> HIDE DEF up
      <4>4. <<up[1] - 1, 2 * up[2]>> \in Here BY <4>2, <4>3, HalvesAreHere
      <4>5. left \in Here /\ left[1] = k /\ left[2] = 2 * q BY <4>2, <4>3, <4>4
      <4> HIDE DEF left
      <4>6. Around(a, left[1]) = left BY <1>1, <4>1, <4>5, InsideEnds
      <4>7. left[2] = x BY <4>5, <4>6 DEF Around, Number, x
      <4>8. q \in Nat BY <2>2, <2>3, Half
      <4> QED BY <2>8, <4>5, <4>7, <4>8
    <3>2. ~HalfFits(n, 0, left, {r}) BY <3>1 DEF HalfFits
    <3> HIDE DEF left
    <3> QED BY <2>1, <2>5, <2>8, <3>2 DEF x
  <2> QED BY <2>6, <2>7, <2>8
<1>17. lo \in Nat /\ h \in Nat /\ lo \in lo .. h BY <1>7, ChainLevels
<1>18. \A k \in lo .. h : k \in good
  <2> HIDE DEF good
  <2> QED BY <1>15, <1>16, <1>17, Downwards
<1> DEFINE x == <<lo, p[lo]>>
<1>19. x = Around(a, lo) BY <1>17, <1>18 DEF Around, Number
<1>20. Inside(r, Block(x))
  <2>1. CASE lo # h
    <3>1. lo \in lo .. h - 1 BY <1>7, <1>17, <2>1 DEF IsChain
    <3>2. Inside(r, Block(Around(a, lo))) BY <1>12, <1>13, <1>14, <1>17, <3>1
    <3> QED BY <1>19, <3>2
  <2>2. CASE lo = h
    <3>1. x = c BY <1>4, <1>19, <2>2
    <3>2. r.addr + r.size <= Block(c).addr + Block(c).size BY DEF Reserve, c
    <3>3. Block(c).addr <= r.addr
      <4>1. Around(a, c[1]) = c BY <1>4 DEF h
      <4> HIDE DEF a
      <4>2. Block(c).addr <= a BY <1>2, <1>4, <4>1, HereBlock
      <4> QED BY <4>2 DEF a
    <3> QED BY <3>1, <3>2, <3>3 DEF Inside
  <2> QED BY <2>1, <2>2
<1>21. granted' = granted \union {r} BY DEF Reserve
<1>22. Taken(x, r)
  <2> HIDE DEF x, a, n, good
  <2> QED BY <1>1, <1>6, <1>20, <1>21 DEF Taken, x
<1> QED BY <1>22

\* Giving a range back frees the block around its first unit.
LEMMA DeallocateFrees ==
  ASSUME BuddyGood, NEW r \in granted, Deallocate(r)
  PROVE  FreesBlock(avail, avail', CoordsOf(r.addr))
<1> DEFINE c == CoordsOf(r.addr)
<1>1. r.addr \in Usable BY DEF BuddyGood, GrantsUsable
<1>2. Tree(avail) /\ avail \in [Cell -> CellState] BY DEF BuddyGood, Tree
<1>3. c \in Here /\ avail[c] # "INAVAILABLE" BY <1>1, <1>2, CoordsAre
<1>4. avail' = Merge(c) BY DEF Deallocate
<1> HIDE DEF c
<1>5. c = <<c[1], c[2]>> BY <1>3, HereBlock
<1>6. PICK p, hi :
        /\ IsChain(p, c[1], hi) /\ p[c[1]] = c[2]
        /\ avail' \in [Cell -> CellState]
        /\ Closed(avail, avail', p, c[1], hi)
        /\ \A k \in c[1] .. hi - 1 : avail[Buddy(<<k, p[k]>>)] = "AVAILABLE"
        /\ hi = Top \/ avail[Buddy(<<hi, p[hi]>>)] # "AVAILABLE"
  BY <1>2, <1>3, <1>4, MergeCloses
<1>7. <<c[1], p[c[1]]>> = c BY <1>5, <1>6
<1>8. avail[<<c[1], p[c[1]]>>] # "INAVAILABLE" BY <1>3, <1>7
<1>9. FreesBlock(avail, avail', <<c[1], p[c[1]]>>)
  BY <1>2, <1>6, <1>8, ClosingKeepsTree
<1> QED BY <1>7, <1>9 DEF c

-----------------------------------------------------------------------------
(* What callers hold.                                                      *)

\* A range is in one block that is free or in use.
LEMMA InsideOne ==
  ASSUME NEW f, Tree(f), NEW c \in Here, NEW d \in Here,
         f[c] # "INAVAILABLE", f[d] # "INAVAILABLE",
         NEW r \in [addr : Nat, size : Nat \ {0}], Inside(r, Block(c)), Inside(r, Block(d))
  PROVE  c = d
<1>1. r.addr \in Usable /\ Around(r.addr, c[1]) = c BY InsideEnds
<1>2. Around(r.addr, d[1]) = d BY InsideEnds
<1>3. c[1] \in Level /\ d[1] \in Level BY HereBlock
<1> QED BY <1>1, <1>2, <1>3, SameBlock

\* Ranges that overlap are in the same block.
LEMMA OverlapInOne ==
  ASSUME NEW f, Tree(f), NEW c \in Here, NEW d \in Here,
         f[c] # "INAVAILABLE", f[d] # "INAVAILABLE",
         NEW r \in [addr : Nat, size : Nat \ {0}], Inside(r, Block(c)),
         NEW s \in [addr : Nat, size : Nat \ {0}], Inside(s, Block(d)),
         Heap!Overlap(r, s)
  PROVE  c = d
<1> DEFINE a == r.addr
           n == r.size
           b == s.addr
           m == s.size
<1>1. a \in Nat /\ n \in Nat \ {0} /\ b \in Nat /\ m \in Nat \ {0} OBVIOUS
<1>2. a < b + m /\ b < a + n BY DEF Heap!Overlap
<1>3. \E v \in Nat : a <= v /\ v < a + n /\ b <= v /\ v < b + m
  <2> HIDE DEF a, n, b, m
  <2>1. CASE a <= b
    <3>1. b <= b /\ b < b + m BY <1>1
    <3> QED BY <1>1, <1>2, <2>1, <3>1
  <2>2. CASE b <= a
    <3>1. a <= a /\ a < a + n BY <1>1
    <3> QED BY <1>1, <1>2, <2>2, <3>1
  <2> QED BY <1>1, <2>1, <2>2
<1>4. PICK v \in Nat : r.addr <= v /\ v < r.addr + r.size
                       /\ s.addr <= v /\ v < s.addr + s.size
  BY <1>3
<1>5. v \in Usable /\ Around(v, c[1]) = c BY <1>4, InsideBlock
<1>6. Around(v, d[1]) = d BY <1>4, InsideBlock
<1>7. c[1] \in Level /\ d[1] \in Level BY HereBlock
<1> QED BY <1>5, <1>6, <1>7, SameBlock

\* Ranges of usable units have natural numbers for addresses.
LEMMA GrantsAreRanges ==
  ASSUME GrantsUsable
  PROVE  \A r \in granted : r \in [addr : Nat, size : Nat \ {0}] /\ r.addr \in Usable
<1> SUFFICES ASSUME NEW r \in granted
             PROVE  r \in [addr : Nat, size : Nat \ {0}] /\ r.addr \in Usable
  OBVIOUS
<1>1. r \in [addr : Usable, size : Nat \ {0}] BY DEF GrantsUsable
<1>2. r.addr \in Nat BY <1>1, UsableUnits DEF InZone
<1> QED BY <1>1, <1>2

\* Taking a block into use keeps the zone good,
LEMMA TakenGood ==
  ASSUME BuddyGood, NEW x, NEW g, Taken(x, g)
  PROVE  BuddyGood'
<1>1. Tree(avail') /\ x \in Here BY DEF Taken, TakesBlock
<1>2. g \in [addr : Nat, size : Nat \ {0}] /\ Inside(g, Block(x))
      /\ granted' = granted \union {g}
  BY DEF Taken
<1>3. g \in [addr : Usable, size : Nat \ {0}] /\ g.addr + g.size - 1 \in Usable
  BY <1>1, <1>2, InsideEnds
<1>4. GrantsUsable' BY <1>2, <1>3 DEF BuddyGood, GrantsUsable
<1> QED BY <1>1, <1>4 DEF BuddyGood

\* and the new range apart from all others.
LEMMA TakenApart ==
  ASSUME BuddyGood, OneGrantEach, NEW x, NEW g, Taken(x, g)
  PROVE  OneGrantEach' /\ \A s \in granted : ~Heap!Overlap(g, s)
<1>1. /\ Tree(avail') /\ x \in Cell /\ x \in Here /\ avail[x] # "OCCUPIED"
      /\ \A d \in Cell : avail'[d] = "OCCUPIED" <=> avail[d] = "OCCUPIED" \/ d = x
  BY DEF Taken, TakesBlock
<1>2. g \in [addr : Nat, size : Nat \ {0}] /\ Inside(g, Block(x))
      /\ granted' = granted \union {g}
  BY DEF Taken
<1>3. Tree(avail) /\ GrantsUsable BY DEF BuddyGood
<1>4. \A d \in Cell : avail[d] = "OCCUPIED" =>
        d \in Here /\ d # x /\ avail'[d] = "OCCUPIED"
  BY <1>1, <1>3 DEF Tree
<1>5. avail'[x] = "OCCUPIED" BY <1>1
<1>6. ASSUME NEW s \in granted PROVE ~Heap!Overlap(g, s) /\ ~Inside(s, Block(x))
  <2>1. PICK d \in Cell : avail[d] = "OCCUPIED" /\ Inside(s, Block(d)) BY DEF OneGrantEach
  <2>2. d \in Here /\ d # x /\ avail'[d] = "OCCUPIED" BY <1>4, <2>1
  <2>3. s \in [addr : Nat, size : Nat \ {0}] BY <1>3, GrantsAreRanges
  <2>4. avail'[d] # "INAVAILABLE" /\ avail'[x] # "INAVAILABLE" BY <1>5, <2>2
  <2>5. ASSUME Heap!Overlap(g, s) PROVE FALSE
    <3>1. x = d BY <1>1, <1>2, <2>1, <2>2, <2>3, <2>4, <2>5, OverlapInOne
    <3> QED BY <2>2, <3>1
  <2>6. ASSUME Inside(s, Block(x)) PROVE FALSE
    <3>1. x = d BY <1>1, <2>1, <2>2, <2>3, <2>4, <2>6, InsideOne
    <3> QED BY <2>2, <3>1
  <2> QED BY <2>5, <2>6
<1>7. ASSUME NEW d \in Cell, avail[d] = "OCCUPIED" PROVE ~Inside(g, Block(d))
  <2>1. d \in Here /\ d # x /\ avail'[d] = "OCCUPIED" BY <1>4, <1>7
  <2>2. avail'[d] # "INAVAILABLE" /\ avail'[x] # "INAVAILABLE" BY <1>5, <2>1
  <2>3. ASSUME Inside(g, Block(d)) PROVE FALSE
    <3>1. x = d BY <1>1, <1>2, <2>1, <2>2, <2>3, InsideOne
    <3> QED BY <2>1, <3>1
  <2> QED BY <2>3
<1>8. \A r \in granted' : \E c \in Cell : avail'[c] = "OCCUPIED" /\ Inside(r, Block(c))
  <2> TAKE r \in granted'
  <2>1. CASE r = g BY <1>1, <1>2, <1>5, <2>1
  <2>2. CASE r \in granted BY <1>4, <2>2 DEF OneGrantEach
  <2> QED BY <1>2, <2>1, <2>2
<1>9. \A c \in Cell : avail'[c] = "OCCUPIED" =>
        \E r \in granted' : \A s \in granted' : Inside(s, Block(c)) <=> s = r
  <2> SUFFICES ASSUME NEW c \in Cell, avail'[c] = "OCCUPIED"
               PROVE  \E r \in granted' : \A s \in granted' : Inside(s, Block(c)) <=> s = r
    OBVIOUS
  <2>1. CASE c = x BY <1>2, <1>6, <2>1
  <2>2. CASE avail[c] = "OCCUPIED"
    <3>1. PICK r \in granted : \A s \in granted : Inside(s, Block(c)) <=> s = r
      BY <2>2 DEF OneGrantEach
    <3>2. ~Inside(g, Block(c)) BY <1>7, <2>2
    <3> QED BY <1>2, <3>1, <3>2
  <2> QED BY <1>1, <2>1, <2>2
<1>10. OneGrantEach' BY <1>8, <1>9 DEF OneGrantEach
<1> QED BY <1>6, <1>10

\* Giving a range back keeps the zone good,
LEMMA GivenBackGood ==
  ASSUME BuddyGood, NEW r \in granted, Deallocate(r)
  PROVE  BuddyGood'
<1>1. Tree(avail') BY DeallocateFrees DEF FreesBlock
<1>2. granted' = granted \ {r} BY DEF Deallocate
<1>3. GrantsUsable' BY <1>2 DEF BuddyGood, GrantsUsable
<1> QED BY <1>1, <1>3 DEF BuddyGood

\* and frees its own block.
LEMMA GivenBackApart ==
  ASSUME BuddyGood, OneGrantEach, NEW r \in granted, Deallocate(r)
  PROVE  OneGrantEach'
<1> DEFINE c == CoordsOf(r.addr)
<1>1. \A d \in Cell : avail'[d] = "OCCUPIED" <=> avail[d] = "OCCUPIED" /\ d # c
  BY DeallocateFrees DEF FreesBlock
<1>2. granted' = granted \ {r} BY DEF Deallocate
<1>3. Tree(avail) /\ GrantsUsable BY DEF BuddyGood
<1>4. ASSUME NEW d \in Cell, avail[d] = "OCCUPIED", Inside(r, Block(d)) PROVE d = c
  <2>1. d \in Here /\ d[1] \in Level BY <1>3, <1>4, HereBlock DEF Tree
  <2>2. r \in [addr : Nat, size : Nat \ {0}] /\ r.addr \in Usable
    BY <1>3, GrantsAreRanges
  <2>3. Around(r.addr, d[1]) = d BY <1>4, <2>1, <2>2, InsideEnds
  <2>4. avail[Around(r.addr, d[1])] # "INAVAILABLE" BY <1>4, <2>3
  <2> QED BY <1>3, <2>1, <2>2, <2>3, <2>4, CoordsAre
<1> HIDE DEF c
<1>5. \A s \in granted' : \E d \in Cell : avail'[d] = "OCCUPIED" /\ Inside(s, Block(d))
  <2> TAKE s \in granted'
  <2>1. s \in granted /\ s # r BY <1>2
  <2>2. PICK d \in Cell : avail[d] = "OCCUPIED" /\ Inside(s, Block(d))
    BY <2>1 DEF OneGrantEach
  <2>3. d # c
    <3>1. SUFFICES ASSUME d = c PROVE FALSE OBVIOUS
    <3>2. PICK e \in Cell : avail[e] = "OCCUPIED" /\ Inside(r, Block(e)) BY DEF OneGrantEach
    <3>3. e = d BY <1>4, <3>1, <3>2
    <3>4. PICK q \in granted : \A t \in granted : Inside(t, Block(d)) <=> t = q
      BY <2>2 DEF OneGrantEach
    <3> QED BY <2>1, <2>2, <3>2, <3>3, <3>4
  <2> QED BY <1>1, <2>2, <2>3
<1>6. \A d \in Cell : avail'[d] = "OCCUPIED" =>
        \E q \in granted' : \A s \in granted' : Inside(s, Block(d)) <=> s = q
  <2> SUFFICES ASSUME NEW d \in Cell, avail'[d] = "OCCUPIED"
               PROVE  \E q \in granted' : \A s \in granted' : Inside(s, Block(d)) <=> s = q
    OBVIOUS
  <2>1. avail[d] = "OCCUPIED" /\ d # c BY <1>1
  <2>2. PICK q \in granted : \A s \in granted : Inside(s, Block(d)) <=> s = q
    BY <2>1 DEF OneGrantEach
  <2>3. q # r BY <1>4, <2>1, <2>2
  <2> QED BY <1>2, <2>2, <2>3
<1> QED BY <1>5, <1>6 DEF OneGrantEach

-----------------------------------------------------------------------------
(* The zone is good in every state.                                        *)

\* No step breaks it, whatever callers reserve.
LEMMA BuddyGoodStep == BuddyGood /\ [Next]_buddyVars => BuddyGood'
<1> SUFFICES ASSUME BuddyGood, [Next]_buddyVars PROVE BuddyGood'
  OBVIOUS
<1>1. ASSUME NEW n \in Request, NEW al \in Align, Allocate(n, al) PROVE BuddyGood'
  BY <1>1, AllocateTakes, TakenGood
<1>2. ASSUME NEW r \in Reservable, Reserve(r) PROVE BuddyGood'
  <2>1. Tree(avail') BY <1>2, ReserveSplits DEF TakesBlock
  <2>2. granted' = granted \union {r} BY <1>2 DEF Reserve
  <2>3. r \in [addr : Usable, size : Nat \ {0}] /\ r.addr + r.size - 1 \in Usable
    BY ZoneAssumption
  <2>4. GrantsUsable' BY <2>2, <2>3 DEF BuddyGood, GrantsUsable
  <2> QED BY <2>1, <2>4 DEF BuddyGood
<1>3. ASSUME NEW r \in granted, Deallocate(r) PROVE BuddyGood'
  BY <1>3, GivenBackGood
<1>4. CASE UNCHANGED buddyVars
  BY <1>4 DEF buddyVars, BuddyGood, GrantsUsable, Tree
<1> QED BY <1>1, <1>2, <1>3, <1>4 DEF Next

\* In every state the cells that are not INAVAILABLE are a tree that was split:
\* each usable unit has one of them around it, two halves are never both free
\* (SplitLargeSpace and MergeBuddy, MemoryBuddyAllocator.cpp), and callers hold
\* usable units.
THEOREM BuddyGoodCorrect == Spec => []BuddyGood
<1>1. Init => BuddyGood BY InitGood
<1>2. BuddyGood /\ [Next]_buddyVars => BuddyGood' BY BuddyGoodStep
<1> QED BY <1>1, <1>2, PTL DEF Spec

\* The blocks that are free or in use cover each unit once.
LEMMA GoodCovers == BuddyGood => UnitsCoveredOnce
<1> SUFFICES ASSUME BuddyGood PROVE UnitsCoveredOnce
  OBVIOUS
<1>1. Tree(avail) /\ GrantsUsable BY DEF BuddyGood
<1>2. TypeOK
  <2>1. avail \in [Cell -> CellState] BY <1>1 DEF Tree
  <2>2. \A r \in granted : r.addr \in Usable /\ r.addr + r.size - 1 \in Usable
    BY <1>1 DEF GrantsUsable
  <2> QED BY <2>1, <2>2 DEF TypeOK
<1>3. ASSUME NEW u \in Usable
      PROVE  Cardinality({c \in Cell : /\ avail[c] # "INAVAILABLE"
                                       /\ Inside([addr |-> u, size |-> 1], Block(c))}) = 1
  <2> DEFINE S == {c \in Cell : /\ avail[c] # "INAVAILABLE"
                                /\ Inside([addr |-> u, size |-> 1], Block(c))}
             d == CoordsOf(u)
  <2>1. /\ d \in Cell /\ d = Around(u, d[1]) /\ avail[d] # "INAVAILABLE"
        /\ \A l \in Level : avail[Around(u, l)] # "INAVAILABLE" => Around(u, l) = d
    BY <1>1, CoordsAre
  <2> HIDE DEF d
  <2>2. \A c \in Cell : c[1] \in Level /\ (Inside([addr |-> u, size |-> 1], Block(c))
                                             <=> Around(u, c[1]) = c)
    BY Cells
  <2>3. S = {d} BY <2>1, <2>2
  <2> HIDE DEF S
  <2>4. Cardinality(S) = 1 BY <2>3, FS_Singleton
  <2> QED BY <2>4 DEF S
<1> QED BY <1>2, <1>3 DEF UnitsCoveredOnce

\* In every state each usable unit is in exactly one block that is free or in
\* use: SplitLargeSpace and MergeBuddy (MemoryBuddyAllocator.cpp) neither lose
\* nor double one.
THEOREM UnitsCoveredOnceCorrect == Spec => []UnitsCoveredOnce
<1>1. BuddyGood => UnitsCoveredOnce BY GoodCovers
<1> QED BY <1>1, BuddyGoodCorrect, PTL

-----------------------------------------------------------------------------
(* Free regions.                                                           *)

\* The cells before a cell of a level are cells.
LEMMA CellsBefore ==
  ASSUME NEW c \in Cell, NEW j \in Nat, j <= c[2]
  PROVE  <<c[1], j>> \in Cell
<1>1. PICK i \in Level : c \in {<<i, m>> : m \in 0 .. (Units \div Size[i]) - 1}
  BY DEF Cell
<1>2. PICK m \in 0 .. (Units \div Size[i]) - 1 : c = <<i, m>> BY <1>1
<1>3. Units \div Size[i] \in Nat BY Levels, Quotient, ZoneAssumption, 0 \in Nat
<1>4. j <= m BY <1>2
<1>5. j \in 0 .. (Units \div Size[i]) - 1
  <2> DEFINE q == Units \div Size[i]
  <2>1. q \in Nat /\ m \in 0 .. q - 1 BY <1>3
  <2> HIDE DEF q
  <2>2. j \in 0 .. q - 1 BY <1>4, <2>1
  <2> QED BY <2>2 DEF q
<1>6. <<i, j>> \in Cell BY <1>5 DEF Cell
<1> QED BY <1>2, <1>6

\* A free block is enough for an allocation of its size, or of a smaller one.
LEMMA FreeIsEnough ==
  ASSUME BuddyGood, NEW d \in Cell, avail[d] = "AVAILABLE", NEW i \in Level, i <= d[1]
  PROVE  Candidates(Size[i], 0) # {}
<1> DEFINE k == d[1]
           S == {j \in Nat : avail[<<k, j>>] = "AVAILABLE"}
<1>1. d = <<d[1], d[2]>> /\ k \in Level /\ d[2] \in Nat BY Cells
<1>2. d[2] \in S BY <1>1
<1>3. PICK j \in S : \A m \in S : j <= m
  <2> HIDE DEF S
  <2>1. S \subseteq Nat BY DEF S
  <2> QED BY <1>2, <2>1, HasLeast
<1>4. j \in Nat /\ avail[<<k, j>>] = "AVAILABLE" /\ j <= d[2] BY <1>2, <1>3
<1>5. \A m \in 0 .. j - 1 : avail[<<k, m>>] # "AVAILABLE"
  <2> SUFFICES ASSUME NEW m \in 0 .. j - 1, avail[<<k, m>>] = "AVAILABLE" PROVE FALSE
    OBVIOUS
  <2>1. m \in Nat /\ m < j BY <1>4
  <2>2. m \in S BY <2>1
  <2>3. j <= m BY <1>3, <2>2
  <2> QED BY <1>4, <2>1, <2>3
<1> DEFINE e == <<k, j>>
<1>6. e \in Cell BY <1>4, CellsBefore
<1>7. e \in Here BY <1>4, <1>6 DEF BuddyGood, Tree
<1>8. CheckFit(Size[i], 0, Block(e))
  <2> DEFINE b == Block(e).addr
  <2>1. b \in Usable /\ Block(e).size = Size[e[1]] /\ e[1] = k
    <3>1. e[1] = k OBVIOUS
    <3> HIDE DEF e
    <3> QED BY <1>7, <3>1, HereBlock
  <2>2. b \in Nat BY <2>1, UsableUnits DEF InZone
  <2>3. Size[i] <= Size[k] BY <1>1, SizesGrow
  <2>4. Size[i] \in Nat /\ Size[k] \in Nat BY <1>1, Levels
  <2> HIDE DEF b, k, e
  <2>5. AlignUp(b, 0) = b BY DEF AlignUp
  <2>6. b + Size[k] - b >= Size[i] BY <2>2, <2>3, <2>4, SMT
  <2> QED BY <2>1, <2>3, <2>4, <2>5, <2>6 DEF CheckFit, b
<1>9. FirstFree(e[1], e[2]) BY <1>4, <1>5 DEF FirstFree
<1>10. e \in Candidates(Size[i], 0)
  <2> HIDE DEF e, k
  <2> QED BY <1>6, <1>8, <1>9 DEF Candidates
<1> QED BY <1>10

\* Where nothing is in use, the halves have been joined.
LEMMA GoodRegions == BuddyGood => FreeRegionIsAllocatable
<1> SUFFICES ASSUME BuddyGood, NEW c \in Cell,
                    Block(c).addr + Block(c).size - 1 \in Usable,
                    \A d \in Cell : avail[d] = "OCCUPIED" =>
                      ~(Inside(Block(d), Block(c)) \/ Inside(Block(c), Block(d)))
             PROVE  Candidates(Block(c).size, 0) # {}
  BY DEF FreeRegionIsAllocatable
<1> DEFINE i == c[1]
           last == Block(c).addr + Block(c).size - 1
<1>1. Tree(avail) BY DEF BuddyGood
<1>2. i \in Level /\ Block(c).size = Size[i] /\ Block(c).addr = Start + c[2] * Size[i]
      /\ c[2] \in Nat
  BY Cells DEF Block
<1>3. c \in Here
  <2>1. Inside([addr |-> last, size |-> 1], Block(c)) <=> Around(last, i) = c BY Cells
  <2>2. Inside([addr |-> last, size |-> 1], Block(c))
    <3> DEFINE b == Block(c).addr
               s == Block(c).size
    <3>1. s \in Nat \ {0} BY <1>2, Levels
    <3>2. b \in Nat
      <4> DEFINE m == c[2] * Size[i]
      <4>1. m \in Nat
        <5>1. Size[i] \in Nat BY <1>2, Levels
        <5> QED BY <1>2, <5>1, SMT
      <4> HIDE DEF m
      <4>2. b = Start + m BY <1>2 DEF m
      <4> HIDE DEF b
      <4> QED BY <4>1, <4>2, ZoneAssumption
    <3>3. last = b + s - 1 OBVIOUS
    <3> HIDE DEF b, s, last
    <3>4. b <= last /\ last + 1 <= b + s BY <3>1, <3>2, <3>3, SMT
    <3> QED BY <3>4 DEF Inside, b, s
  <2> QED BY <1>2, <2>1, <2>2 DEF Here
<1> DEFINE K == {k \in Level : \E u \in Usable :
                   Around(u, i) = c /\ avail[Around(u, k)] # "INAVAILABLE"}
<1>4. PICK k \in K : \A l \in K : k <= l
  <2>1. PICK u \in Usable : Around(u, i) = c
    <3>1. Block(c).addr \in Usable /\ Around(Block(c).addr, i) = c BY <1>3, HereBlock
    <3> QED BY <3>1
  <2>2. CoordsOf(u) = Around(u, CoordsOf(u)[1]) /\ avail[CoordsOf(u)] # "INAVAILABLE"
        /\ CoordsOf(u)[1] \in Level
    BY <1>1, CoordsAre, HereBlock
  <2>3. CoordsOf(u)[1] \in K BY <2>1, <2>2
  <2>4. K \subseteq Nat BY Levels
  <2> HIDE DEF K
  <2> QED BY <2>3, <2>4, HasLeast
<1>5. PICK u \in Usable : Around(u, i) = c /\ avail[Around(u, k)] # "INAVAILABLE"
  OBVIOUS
<1>6. k \in Level /\ k \in Nat /\ i \in Nat BY <1>2, Levels
<1> DEFINE d == Around(u, k)
<1>7. d \in Here /\ d \in Cell /\ d[1] = k /\ Around(u, d[1]) = d /\ avail[d] # "INAVAILABLE"
  BY <1>5, <1>6, Cells DEF Here, Around
<1> HIDE DEF d
<1>8. CASE i <= k
  <2>1. Inside(Block(c), Block(d)) BY <1>3, <1>5, <1>7, <1>8, Nested
  <2>2. avail[d] = "AVAILABLE" BY <1>1, <1>7, <2>1 DEF Tree, CellState
  <2>3. Candidates(Size[i], 0) # {} BY <1>2, <1>7, <1>8, <2>2, FreeIsEnough
  <2> QED BY <1>2, <2>3
<1>9. CASE k < i
  <2>1. d[1] <= c[1] BY <1>6, <1>7, <1>9
  <2>2. Inside(Block(d), Block(c)) BY <1>3, <1>5, <1>7, <2>1, Nested
  <2>3. avail[d] = "AVAILABLE" BY <1>1, <1>7, <2>2 DEF Tree, CellState
  <2>4. k # Top /\ k + 1 \in Level BY <1>2, <1>6, <1>9, NextLevel
  <2> DEFINE e == Buddy(d)
             w == Block(e).addr
  <2>5. e \in Here /\ e[1] = k /\ e[2] \in Nat /\ e[2] \div 2 = d[2] \div 2
    BY <1>7, <2>4, BuddyIsHere
  <2> HIDE DEF e
  <2>6. w \in Usable /\ Around(w, k) = e BY <2>5, HereBlock
  <2> HIDE DEF w
  <2>7. InZone(u) /\ InZone(w) BY <2>6, UsableUnits
  <2>8. Number(u, k) = d[2] /\ Number(w, k) = e[2] BY <1>7, <2>6 DEF Around, Number
  <2>9. Number(w, k + 1) = Number(u, k + 1)
    BY <1>6, <2>4, <2>5, <2>7, <2>8, NumberHalves
  <2>10. ASSUME NEW l \in Level, k < l PROVE Around(w, l) = Around(u, l)
    <3>1. l \in Nat BY Levels
    <3>2. k + 1 <= l BY <1>6, <2>10, <3>1
    <3>3. Number(w, l) = Number(u, l) BY <2>4, <2>7, <2>9, <3>2, TogetherAbove
    <3> QED BY <3>3 DEF Around, Number
  <2>11. Around(w, i) = c BY <1>2, <1>5, <1>9, <2>10
  <2>12. PICK j \in Level : avail[Around(w, j)] # "INAVAILABLE" BY <1>1, <2>6 DEF Tree
  <2>13. j \in K BY <2>6, <2>11, <2>12
  <2> HIDE DEF K
  <2>14. k <= j /\ j \in Nat BY <1>4, <2>13, Levels
  <2>15. CASE j = k
    <3>1. avail[e] # "INAVAILABLE" /\ e \in Cell BY <2>5, <2>6, <2>12, <2>15, Cells
    <3>2. e[1] <= c[1] BY <1>7, <2>1, <2>5
    <3>3. Around(w, c[1]) = c /\ Around(w, e[1]) = e BY <2>5, <2>6, <2>11
    <3>4. Inside(Block(e), Block(c)) BY <1>3, <2>5, <2>6, <3>2, <3>3, Nested
    <3>5. avail[e] = "AVAILABLE" BY <1>1, <3>1, <3>4 DEF Tree, CellState
    <3>6. avail[Buddy(d)] # "AVAILABLE" BY <1>1, <1>7, <2>3, <2>4 DEF Tree
    <3> QED BY <3>5, <3>6 DEF e
  <2>16. CASE k < j
    <3>1. avail[Around(u, j)] # "INAVAILABLE" BY <2>10, <2>12, <2>16
    <3>2. Around(u, j) = CoordsOf(u) BY <1>1, <3>1, CoordsAre
    <3>3. avail[Around(u, k)] # "INAVAILABLE" BY <1>5
    <3>4. Around(u, k) = CoordsOf(u) BY <1>1, <1>6, <3>3, CoordsAre
    <3>5. j = k BY <3>2, <3>4 DEF Around
    <3> QED BY <1>6, <2>16, <3>5
  <2>17. j = k \/ k < j BY <1>6, <2>14
  <2> QED BY <2>15, <2>16, <2>17
<1>10. i <= k \/ k < i
  <2> HIDE DEF i
  <2> QED BY <1>6
<1> QED BY <1>8, <1>9, <1>10

\* In every state, an aligned region no unit of which is in use can be had by the
\* next Allocate of its size: MergeBuddy (MemoryBuddyAllocator.cpp) has joined all
\* of it, or it is part of a larger free block.
THEOREM FreeRegionIsAllocatableCorrect == Spec => []FreeRegionIsAllocatable
<1>1. BuddyGood => FreeRegionIsAllocatable BY GoodRegions
<1> QED BY <1>1, BuddyGoodCorrect, PTL

-----------------------------------------------------------------------------
(* What callers are promised, if what they reserve lies in one block.      *)

ReservesBlocks == \A r \in Reservable : InOneBlock(r)

\* Each step takes a block for a range, gives one back or changes nothing.
LEMMA BuddySteps ==
  ASSUME ReservesBlocks, BuddyGood, [Next]_buddyVars
  PROVE  \/ \E x, g : Taken(x, g)
         \/ \E r \in granted : Deallocate(r)
         \/ UNCHANGED buddyVars
<1>1. ASSUME NEW n \in Request, NEW al \in Align, Allocate(n, al)
      PROVE  \E x, g : Taken(x, g)
  BY <1>1, AllocateTakes
<1>2. ASSUME NEW r \in Reservable, Reserve(r) PROVE \E x : Taken(x, r)
  BY <1>2, ReserveTakes DEF ReservesBlocks
<1> QED BY <1>1, <1>2 DEF Next

\* Blocks in use and ranges stay in correspondence.
LEMMA OneGrantEachStep ==
  ASSUME ReservesBlocks
  PROVE  BuddyGood /\ OneGrantEach /\ [Next]_buddyVars => OneGrantEach'
<1> SUFFICES ASSUME BuddyGood, OneGrantEach, [Next]_buddyVars PROVE OneGrantEach'
  OBVIOUS
<1>1. ASSUME NEW x, NEW g, Taken(x, g) PROVE OneGrantEach' BY <1>1, TakenApart
<1>2. ASSUME NEW r \in granted, Deallocate(r) PROVE OneGrantEach'
  BY <1>2, GivenBackApart
<1>3. CASE UNCHANGED buddyVars BY <1>3 DEF buddyVars, OneGrantEach
<1> QED BY <1>1, <1>2, <1>3, BuddySteps

\* In every state each range a caller holds is inside a block in use, and each
\* block in use has one of them inside.
LEMMA OneGrantEachCorrect ==
  ASSUME ReservesBlocks PROVE Spec => [](BuddyGood /\ OneGrantEach)
<1>1. Init => BuddyGood /\ OneGrantEach BY InitGood
<1>2. BuddyGood /\ OneGrantEach /\ [Next]_buddyVars => (BuddyGood /\ OneGrantEach)'
  BY BuddyGoodStep, OneGrantEachStep
<1> QED BY <1>1, <1>2, PTL DEF Spec

\* If the ranges that are reserved lie in one block each, then in every state the
\* block marked for a caller is around what it asked for, and around nothing that
\* another caller holds.  SplitLargeSpace (MemoryBuddyAllocator.cpp:243-246) tests
\* only the left half for the range, so a range across two blocks may get a block
\* that does not contain it: the theorem needs its hypothesis.
THEOREM GrantsAreBlocksCorrect ==
  ASSUME ReservesBlocks PROVE Spec => []GrantsAreBlocks
<1>1. OneGrantEach => GrantsAreBlocks
  <2> SUFFICES ASSUME OneGrantEach, NEW c \in Cell, avail[c] = "OCCUPIED"
               PROVE  Cardinality({r \in granted : Inside(r, Block(c))}) = 1
    BY DEF OneGrantEach, GrantsAreBlocks
  <2> DEFINE S == {r \in granted : Inside(r, Block(c))}
  <2>1. PICK r \in granted : \A s \in granted : Inside(s, Block(c)) <=> s = r
    BY DEF OneGrantEach
  <2>2. S = {r} BY <2>1
  <2> HIDE DEF S
  <2>3. Cardinality(S) = 1 BY <2>2, FS_Singleton
  <2> QED BY <2>3 DEF S
<1> QED BY <1>1, OneGrantEachCorrect, PTL

\* A range of usable units is one of the zone's.
LEMMA UsableRanges ==
  ASSUME NEW g \in [addr : Usable, size : Nat \ {0}], g.addr + g.size - 1 \in Usable
  PROVE  g \in Heap!Ranges
<1> DEFINE a == g.addr
           n == g.size
           top == Size[Top]
<1>1. /\ top \in Nat /\ top <= Units /\ Units \in Nat /\ Start \in Nat
  BY Levels, ZoneAssumption
<1>2. a \in Start .. Start + top - 1 /\ n \in Nat \ {0}
      /\ a + n - 1 \in Start .. Start + top - 1 /\ g = [addr |-> a, size |-> n]
  BY DEF Usable
<1> HIDE DEF a, n, top
<1>3. /\ a \in Start .. (Start + Units) - 1 /\ n \in 1 .. (Start + Units) - Start
      /\ a + n <= Start + Units
  BY <1>1, <1>2, SMT
<1>4. g.addr = a /\ g.size = n BY <1>2
<1> QED BY <1>2, <1>3, <1>4 DEF Heap!Ranges

\* The buddy allocator implements Heap, if what is reserved lies in one block: a
\* step of Allocate, Reserve, Deallocate or Dereserve (MemoryBuddyAllocator.cpp)
\* grants a range of the zone apart from all others, or takes one back whole.
THEOREM BuddyImplementsHeap ==
  ASSUME ReservesBlocks PROVE Spec => ImplementsHeap
<1>1. Init => Heap!HeapInit BY DEF Init, Heap!HeapInit
<1>2. BuddyGood /\ OneGrantEach /\ [Next]_buddyVars => [Heap!HeapNext]_granted
  <2> SUFFICES ASSUME BuddyGood, OneGrantEach, [Next]_buddyVars
               PROVE  Heap!HeapNext \/ UNCHANGED granted
    OBVIOUS
  <2>1. ASSUME NEW x, NEW g, Taken(x, g) PROVE Heap!HeapNext
    <3>1. \A s \in granted : ~Heap!Overlap(g, s) BY <2>1, TakenApart
    <3>2. /\ granted' = granted \union {g} /\ g \in [addr : Nat, size : Nat \ {0}]
          /\ Inside(g, Block(x)) /\ x \in Here
      BY <2>1 DEF Taken, TakesBlock
    <3>3. g \in [addr : Usable, size : Nat \ {0}] /\ g.addr + g.size - 1 \in Usable
      BY <3>2, InsideEnds
    <3>4. g \in Heap!Ranges BY <3>3, UsableRanges
    <3>5. Heap!Grant(g) BY <3>1, <3>2 DEF Heap!Grant
    <3> QED BY <3>4, <3>5 DEF Heap!HeapNext
  <2>2. ASSUME NEW r \in granted, Deallocate(r) PROVE Heap!HeapNext
    <3>1. r \in [addr : Usable, size : Nat \ {0}] /\ r.addr + r.size - 1 \in Usable
      BY DEF BuddyGood, GrantsUsable
    <3>2. r \in Heap!Ranges BY <3>1, UsableRanges
    <3>3. Heap!GiveBack(r) BY <2>2 DEF Deallocate, Heap!GiveBack
    <3> QED BY <3>2, <3>3 DEF Heap!HeapNext
  <2>3. CASE UNCHANGED buddyVars BY <2>3 DEF buddyVars
  <2> QED BY <2>1, <2>2, <2>3, BuddySteps
<1> QED BY <1>1, <1>2, OneGrantEachCorrect, PTL DEF Spec, ImplementsHeap, Heap!HeapSpec
=============================================================================
