--------------------------- MODULE LibraryProofs ----------------------------
(***************************************************************************)
(* Proofs about the C library, for memories, strings and numbers of any    *)
(* size: its functions that search, compare and copy memory, and those     *)
(* that print numbers and read them.                                       *)
(*                                                                         *)
(* A loop is a recursive function.  That there is one, and what it ends    *)
(* with, is found by counting its rounds (CountUp, FromBelow).  Of a copy, *)
(* one byte more is there in each round (Part); a search ends at the first *)
(* place where it may stop (Ends).  Between calls of strtok, BetweenCalls  *)
(* says what is left.                                                      *)
(*                                                                         *)
(* Digits show a number if reading them, one after the other, gives it     *)
(* (Shown).  What number prints is laid out in six parts (Laid); from      *)
(* there, strtol finds the digits and the base (LineReads), and the length *)
(* and the blanks are counted (NumberFills).  For vsprintf, parsing a      *)
(* format gives back the directive it was made of (VsprintfPrints).        *)
(***************************************************************************)
EXTENDS Strings, Numbers, FiniteSetTheorems, SequenceTheorems, NaturalsInduction,
        WellFoundedInduction, TLAPS

-----------------------------------------------------------------------------
(* Counting.                                                               *)

\* A least element is what Min chooses.
LEMMA TheLeast ==
  ASSUME NEW S, S \subseteq Nat, NEW least \in S, \A y \in S : least <= y
  PROVE  Min(S) = least
<1> DEFINE Lowest(x) == \A y \in S : x <= y
<1>1. ASSUME NEW x \in S, Lowest(x) PROVE x = least
  <2>1. x <= least /\ least <= x BY <1>1
  <2> QED BY <2>1, SMT
<1>2. Lowest(least) OBVIOUS
<1>3. Min(S) = CHOOSE x \in S : Lowest(x) BY Zenon DEF Min
<1> HIDE DEF Lowest
<1> QED BY <1>1, <1>2, <1>3, Zenon

\* A set of numbers that is not empty has a least element.
LEMMA HasLeast ==
  ASSUME NEW S, S \subseteq Nat, S # {}
  PROVE  \E x \in S : \A y \in S : x <= y
<1>1. PICK x \in S : \A y \in S : ~ (<<y, x>> \in OpToRel(<, Nat))
  BY WFMin, NatLessThanWellFounded
<1>2. ASSUME NEW y \in S PROVE x <= y
  <2>1. ~(y < x) BY <1>1 DEF OpToRel
  <2> QED BY <2>1
<1> QED BY <1>2

\* What holds at 0, and after each round if it held before, holds after them all.
LEMMA CountUp ==
  ASSUME NEW n \in Nat, NEW good, 0 \in good,
         \A i \in 0 .. n - 1 : i \in good => i + 1 \in good
  PROVE  \A i \in 0 .. n : i \in good
<1> DEFINE bad == {i \in 0 .. n : i \notin good}
<1> SUFFICES ASSUME bad # {} PROVE FALSE OBVIOUS
<1>1. bad \subseteq Nat OBVIOUS
<1> HIDE DEF bad
<1>2. PICK x \in bad : \A y \in bad : x <= y BY <1>1, HasLeast
<1>3. x \in 0 .. n /\ x \notin good /\ x # 0 BY <1>2 DEF bad
<1>4. x - 1 \in 0 .. n - 1 /\ ~(x <= x - 1) BY <1>3
<1>5. x - 1 \in good BY <1>2, <1>4 DEF bad
<1>6. (x - 1) + 1 = x BY <1>3
<1> QED BY <1>3, <1>4, <1>5, <1>6

\* Min chooses an element, and no other is less.
LEMMA MinIsLeast ==
  ASSUME NEW S, S \subseteq Nat, S # {}
  PROVE  Min(S) \in S /\ \A y \in S : Min(S) <= y
<1>1. PICK x \in S : \A y \in S : x <= y BY HasLeast
<1>2. Min(S) = x BY <1>1, TheLeast
<1> QED BY <1>1, <1>2

-----------------------------------------------------------------------------
(* Bytes that are looked for.                                              *)

\* repne scasb stops at the first byte that is c, or after n.
LEMMA ScasIs ==
  ASSUME NEW m, NEW a, NEW c, NEW n \in Nat
  PROVE  /\ Scas(m, a, c, n) \in 0 .. n
         /\ Scas(m, a, c, n) < n => m[a + Scas(m, a, c, n)] = c
         /\ \A i \in 0 .. n - 1 : m[a + i] = c => Scas(m, a, c, n) <= i
<1> DEFINE places == {n} \union {i \in 0 .. n - 1 : m[a + i] = c}
<1>1. Scas(m, a, c, n) = Min(places) BY DEF Scas
<1>2. places \subseteq Nat /\ places # {} OBVIOUS
<1>3. \A y \in places : y = n \/ (y \in 0 .. n - 1 /\ m[a + y] = c) OBVIOUS
<1>4. n \in places /\ \A i \in 0 .. n - 1 : m[a + i] = c => i \in places OBVIOUS
<1> HIDE DEF places
<1>5. Min(places) \in places /\ \A y \in places : Min(places) <= y
  BY <1>2, MinIsLeast
<1>6. Min(places) \in Nat BY <1>2, <1>5
<1> QED BY <1>1, <1>3, <1>4, <1>5, <1>6

\* A string has its length to its first 0.
HasLength(m, a, l) ==
  /\ a \in Address /\ l \in Nat /\ a + l <= Size
  /\ m[a + l] = 0
  /\ \A i \in 0 .. l - 1 : m[a + i] # 0

LEMMA StrlenIs ==
  ASSUME NEW m, NEW a, IsString(m, a)
  PROVE  HasLength(m, a, strlen(m, a))
<1>0. Size \in Nat BY MemoryAssumption
<1>1. a \in Nat /\ 1 <= a /\ a <= Size /\ a \in Address
  BY <1>0 DEF IsString, Address
<1> DEFINE n == Size + 1 - a
           l == strlen(m, a)
<1>2. n \in Nat BY <1>0, <1>1
<1>3. l = Scas(m, a, 0, n) BY DEF strlen
<1>4. PICK b \in a .. Size : m[b] = 0 BY DEF IsString
<1>5. b - a \in 0 .. n - 1 /\ a + (b - a) = b BY <1>0, <1>1
<1> HIDE DEF n, l
<1>6. /\ l \in 0 .. n /\ (l < n => m[a + l] = 0)
      /\ \A i \in 0 .. n - 1 : m[a + i] = 0 => l <= i
  BY <1>2, <1>3, ScasIs
<1>7. l \in Nat /\ l <= b - a /\ l < n BY <1>2, <1>4, <1>5, <1>6
<1>8. a + l <= Size BY <1>0, <1>1, <1>7 DEF n
<1>9. ASSUME NEW i \in 0 .. l - 1 PROVE m[a + i] # 0
  <2>1. i \in 0 .. n - 1 /\ ~(l <= i) BY <1>2, <1>7
  <2> QED BY <1>6, <2>1
<1> QED BY <1>1, <1>6, <1>7, <1>8, <1>9 DEF HasLength, l

\* That tells what it is.
LEMMA LengthIsStrlen ==
  ASSUME NEW m, NEW a, NEW l, HasLength(m, a, l)
  PROVE  IsString(m, a) /\ strlen(m, a) = l
<1>0. Size \in Nat BY MemoryAssumption
<1>1. a \in Nat /\ l \in Nat /\ a \in Address /\ a + l <= Size BY DEF HasLength, Address
<1>2. IsString(m, a)
  <2>1. a + l \in a .. Size BY <1>0, <1>1
  <2> QED BY <1>1, <2>1 DEF IsString, HasLength
<1> DEFINE k == strlen(m, a)
<1>3. HasLength(m, a, k) BY <1>2, StrlenIs
<1> HIDE DEF k
<1>4. k \in Nat /\ m[a + k] = 0 /\ \A i \in 0 .. k - 1 : m[a + i] # 0
  BY <1>3 DEF HasLength
<1>5. m[a + l] = 0 /\ \A i \in 0 .. l - 1 : m[a + i] # 0 BY DEF HasLength
<1>6. ~(k < l)
  <2>1. k < l => k \in 0 .. l - 1 BY <1>1, <1>4
  <2> QED BY <1>4, <1>5, <2>1
<1>7. ~(l < k)
  <2>1. l < k => l \in 0 .. k - 1 BY <1>1, <1>4
  <2> QED BY <1>4, <1>5, <2>1
<1>8. k = l BY <1>1, <1>4, <1>6, <1>7
<1> QED BY <1>2, <1>8 DEF k

-----------------------------------------------------------------------------
(* Copies.                                                                 *)

\* The bytes from the lo-th to before the hi-th are copied.
Part(m, d, s, lo, hi) ==
  [a \in Address |-> IF d + lo <= a /\ a < d + hi THEN m[s + a - d] ELSE m[a]]

Moved(m, d, s, n) == Part(m, d, s, 0, n)

\* One more byte at one end.
OneMore(m, d, s, lo, hi, x, lo2, hi2) ==
  Part(m, d, s, lo2, hi2)
    = [Part(m, d, s, lo, hi) EXCEPT ![d + x] = Part(m, d, s, lo, hi)[s + x]]

LEMMA PartGrows ==
  ASSUME NEW m, NEW d, NEW s, NEW n, NEW lo, NEW hi, NEW x, NEW lo2, NEW hi2,
         Fits(d, n), Fits(s, n),
         lo \in 0 .. n, hi \in 0 .. n, x \in 0 .. n - 1,
         \/ x = hi /\ lo <= hi /\ lo2 = lo /\ hi2 = hi + 1
         \/ x = lo - 1 /\ lo <= hi /\ lo2 = lo - 1 /\ hi2 = hi,
         ~(d + lo <= s + x /\ s + x < d + hi)
  PROVE  OneMore(m, d, s, lo, hi, x, lo2, hi2)
<1>0. Size \in Nat BY MemoryAssumption
<1>1. /\ d \in Nat /\ s \in Nat /\ n \in Nat /\ 1 <= d /\ 1 <= s
      /\ d + n - 1 <= Size /\ s + n - 1 <= Size
  BY <1>0 DEF Fits, Address
<1>2. d + x \in Address /\ s + x \in Address BY <1>0, <1>1 DEF Address
<1>3. Part(m, d, s, lo, hi)[s + x] = m[s + x] BY <1>2 DEF Part
<1>4. ASSUME NEW a \in Address
      PROVE  Part(m, d, s, lo2, hi2)[a]
               = IF a = d + x THEN m[s + x] ELSE Part(m, d, s, lo, hi)[a]
  <2>1. a \in Nat BY DEF Address
  <2>2. (d + lo2 <= a /\ a < d + hi2) <=> (d + lo <= a /\ a < d + hi) \/ a = d + x
    BY <1>1, <2>1
  <2>3. a = d + x => s + a - d = s + x BY <1>1, <2>1
  <2> QED BY <2>2, <2>3 DEF Part
<1>5. Part(m, d, s, lo2, hi2) = [a \in Address |-> Part(m, d, s, lo2, hi2)[a]]
  BY DEF Part
<1>6. Part(m, d, s, lo, hi) = [a \in Address |-> Part(m, d, s, lo, hi)[a]]
  BY DEF Part
<1> QED BY <1>2, <1>3, <1>4, <1>5, <1>6 DEF OneMore

\* No byte copied: nothing changed.
LEMMA NoPart ==
  ASSUME NEW V, NEW m \in [Address -> V], NEW d \in Address, NEW s, NEW i \in Nat
  PROVE  Part(m, d, s, i, i) = m
<1>1. \A a \in Address : ~(d + i <= a /\ a < d + i) BY DEF Address
<1>2. Part(m, d, s, i, i) = [a \in Address |-> m[a]] BY <1>1 DEF Part
<1> QED BY <1>2

\* Upward, where the target does not begin inside of the source.
LEMMA MovsUpMoves ==
  ASSUME NEW V, NEW m \in [Address -> V], NEW d, NEW s, NEW n,
         Fits(d, n), Fits(s, n), d <= s \/ s + n <= d
  PROVE  MovsUp(m, d, s, n) = Moved(m, d, s, n)
<1>1. d \in Nat /\ s \in Nat /\ n \in Nat /\ d \in Address BY DEF Fits, Address
<1> DEFINE IsAfter(f) ==
             f = [i \in 0 .. n |->
                    IF i = 0 THEN m
                    ELSE [f[i - 1] EXCEPT ![d + i - 1] = f[i - 1][s + i - 1]]]
           P(i) == Part(m, d, s, 0, i)
           g == [i \in 0 .. n |-> P(i)]
           after == CHOOSE f : IsAfter(f)
<1>2. MovsUp(m, d, s, n) = after[n] BY DEF MovsUp
<1>3. P(0) = m BY <1>1, NoPart
<1>4. ASSUME NEW i \in 0 .. n, i # 0
      PROVE  P(i) = [P(i - 1) EXCEPT ![d + i - 1] = P(i - 1)[s + i - 1]]
  <2> DEFINE x == i - 1
  <2>1. /\ x \in 0 .. n - 1 /\ x \in 0 .. n /\ 0 \in 0 .. n /\ 0 <= x /\ i = x + 1
        /\ ~(d + 0 <= s + x /\ s + x < d + x)
        /\ d + i - 1 = d + x /\ s + i - 1 = s + x
    BY <1>1, <1>4
  <2> HIDE DEF x
  <2>2. Part(m, d, s, 0, i) = [Part(m, d, s, 0, x) EXCEPT ![d + x] = Part(m, d, s, 0, x)[s + x]]
    <3>1. Fits(d, n) /\ Fits(s, n) OBVIOUS
    <3>2. OneMore(m, d, s, 0, x, x, 0, i) BY <2>1, <3>1, PartGrows
    <3> QED BY <3>2 DEF OneMore
  <2> QED BY <2>1, <2>2 DEF x
<1>5. IsAfter(g)
  <2>1. ASSUME NEW i \in 0 .. n
        PROVE  g[i] = IF i = 0 THEN m
                      ELSE [g[i - 1] EXCEPT ![d + i - 1] = g[i - 1][s + i - 1]]
    <3>1. i # 0 => i - 1 \in 0 .. n BY <1>1
    <3> HIDE DEF P
    <3>2. g[i] = P(i) /\ (i # 0 => g[i - 1] = P(i - 1)) BY <3>1
    <3> QED BY <1>3, <1>4, <3>2
  <2>2. g = [i \in 0 .. n |-> g[i]] OBVIOUS
  <2> HIDE DEF g
  <2> QED BY <2>1, <2>2
<1>6. IsAfter(after)
  <2> HIDE DEF IsAfter, g
  <2> QED BY <1>5
<1>7. \A i \in 0 .. n :
        after[i] = IF i = 0 THEN m
                   ELSE [after[i - 1] EXCEPT ![d + i - 1] = after[i - 1][s + i - 1]]
  <2> HIDE DEF after
  <2> QED BY <1>6
<1> HIDE DEF IsAfter, after, g
<1> DEFINE good == {i \in 0 .. n : after[i] = P(i)}
<1>8. 0 \in good
  <2>1. 0 \in 0 .. n BY <1>1
  <2> HIDE DEF P
  <2> QED BY <1>3, <1>7, <2>1
<1>9. ASSUME NEW i \in 0 .. n - 1, i \in good PROVE i + 1 \in good
  <2> DEFINE j == i + 1
  <2>1. j \in 0 .. n /\ j # 0 /\ j - 1 = i BY <1>1
  <2> HIDE DEF P, j
  <2>2. after[i] = P(i) BY <1>9
  <2> HIDE DEF good
  <2>3. after[j] = P(j) BY <1>4, <1>7, <2>1, <2>2
  <2> QED BY <2>1, <2>3 DEF j, good
<1>10. \A i \in 0 .. n : i \in good
  <2> HIDE DEF good
  <2> QED BY <1>1, <1>8, <1>9, CountUp
<1>11. after[n] = P(n)
  <2>1. n \in 0 .. n BY <1>1
  <2> HIDE DEF P
  <2> QED BY <1>10, <2>1
<1> QED BY <1>2, <1>11 DEF Moved

\* Downward, where the source does not begin inside of the target.
LEMMA MovsDownMoves ==
  ASSUME NEW V, NEW m \in [Address -> V], NEW d, NEW s, NEW n,
         Fits(d, n), Fits(s, n), s <= d \/ d + n <= s
  PROVE  MovsDown(m, d, s, n) = Moved(m, d, s, n)
<1>1. d \in Nat /\ s \in Nat /\ n \in Nat /\ d \in Address BY DEF Fits, Address
<1> DEFINE IsAfter(f) ==
             f = [i \in 0 .. n |->
                    IF i = 0 THEN m
                    ELSE [f[i - 1] EXCEPT ![d + n - i] = f[i - 1][s + n - i]]]
           P(i) == Part(m, d, s, n - i, n)
           g == [i \in 0 .. n |-> P(i)]
           after == CHOOSE f : IsAfter(f)
<1>2. MovsDown(m, d, s, n) = after[n] BY DEF MovsDown
<1>3. P(0) = m
  <2>1. n - 0 = n BY <1>1
  <2>2. Part(m, d, s, n, n) = m BY <1>1, NoPart
  <2> QED BY <2>1, <2>2
<1>4. ASSUME NEW i \in 0 .. n, i # 0
      PROVE  P(i) = [P(i - 1) EXCEPT ![d + n - i] = P(i - 1)[s + n - i]]
  <2> DEFINE x == n - i
             lo == n - (i - 1)
  <2>1. /\ x \in 0 .. n - 1 /\ lo \in 0 .. n /\ n \in 0 .. n /\ x = lo - 1 /\ lo <= n
        /\ ~(d + lo <= s + x /\ s + x < d + n)
        /\ d + n - i = d + x /\ s + n - i = s + x
    BY <1>1, <1>4
  <2> HIDE DEF x, lo
  <2>2. Part(m, d, s, x, n) = [Part(m, d, s, lo, n) EXCEPT ![d + x] = Part(m, d, s, lo, n)[s + x]]
    <3>1. Fits(d, n) /\ Fits(s, n) OBVIOUS
    <3>2. OneMore(m, d, s, lo, n, x, x, n) BY <2>1, <3>1, PartGrows
    <3> QED BY <3>2 DEF OneMore
  <2>3. P(i) = Part(m, d, s, x, n) /\ P(i - 1) = Part(m, d, s, lo, n) BY DEF x, lo
  <2> HIDE DEF P
  <2> QED BY <2>1, <2>2, <2>3
<1>5. IsAfter(g)
  <2>1. ASSUME NEW i \in 0 .. n
        PROVE  g[i] = IF i = 0 THEN m
                      ELSE [g[i - 1] EXCEPT ![d + n - i] = g[i - 1][s + n - i]]
    <3>1. i # 0 => i - 1 \in 0 .. n BY <1>1
    <3> HIDE DEF P
    <3>2. g[i] = P(i) /\ (i # 0 => g[i - 1] = P(i - 1)) BY <3>1
    <3> QED BY <1>3, <1>4, <3>2
  <2>2. g = [i \in 0 .. n |-> g[i]] OBVIOUS
  <2> HIDE DEF g
  <2> QED BY <2>1, <2>2
<1>6. IsAfter(after)
  <2> HIDE DEF IsAfter, g
  <2> QED BY <1>5
<1>7. \A i \in 0 .. n :
        after[i] = IF i = 0 THEN m
                   ELSE [after[i - 1] EXCEPT ![d + n - i] = after[i - 1][s + n - i]]
  <2> HIDE DEF after
  <2> QED BY <1>6
<1> HIDE DEF IsAfter, after, g
<1> DEFINE good == {i \in 0 .. n : after[i] = P(i)}
<1>8. 0 \in good
  <2>1. 0 \in 0 .. n BY <1>1
  <2> HIDE DEF P
  <2> QED BY <1>3, <1>7, <2>1
<1>9. ASSUME NEW i \in 0 .. n - 1, i \in good PROVE i + 1 \in good
  <2> DEFINE j == i + 1
  <2>1. j \in 0 .. n /\ j # 0 /\ j - 1 = i BY <1>1
  <2> HIDE DEF P, j
  <2>2. after[i] = P(i) BY <1>9
  <2> HIDE DEF good
  <2>3. after[j] = P(j) BY <1>4, <1>7, <2>1, <2>2
  <2> QED BY <2>1, <2>3 DEF j, good
<1>10. \A i \in 0 .. n : i \in good
  <2> HIDE DEF good
  <2> QED BY <1>1, <1>8, <1>9, CountUp
<1>11. after[n] = P(n) /\ n - n = 0
  <2>1. n \in 0 .. n BY <1>1
  <2> HIDE DEF P
  <2> QED BY <1>10, <2>1
<1> QED BY <1>2, <1>11 DEF Moved

\* memmove copies as it should whatever overlaps.
LEMMA MemmoveMoves ==
  ASSUME NEW V, NEW m \in [Address -> V], NEW d, NEW s, NEW n, Fits(d, n), Fits(s, n)
  PROVE  memmove(m, d, s, n) = Moved(m, d, s, n)
<1>1. d \in Nat /\ s \in Nat /\ n \in Nat BY DEF Fits, Address
<1>2. CASE d < s
  <2>1. d <= s BY <1>1, <1>2
  <2>2. MovsUp(m, d, s, n) = Moved(m, d, s, n) BY <2>1, MovsUpMoves
  <2> QED BY <1>2, <2>2 DEF memmove
<1>3. CASE ~(d < s)
  <2>1. s <= d BY <1>1, <1>3
  <2>2. MovsDown(m, d, s, n) = Moved(m, d, s, n) BY <2>1, MovsDownMoves
  <2> QED BY <1>3, <2>2 DEF memmove
<1> QED BY <1>2, <1>3

\* The less of two numbers.
LEMMA MinOfTwo ==
  ASSUME NEW x \in Nat, NEW y \in Nat
  PROVE  Min({x, y}) = IF x <= y THEN x ELSE y
<1>1. CASE x <= y
  <2>1. {x, y} \subseteq Nat /\ x \in {x, y} /\ \A z \in {x, y} : x <= z BY <1>1
  <2> QED BY <1>1, <2>1, TheLeast
<1>2. CASE ~(x <= y)
  <2>1. {x, y} \subseteq Nat /\ y \in {x, y} /\ \A z \in {x, y} : y <= z BY <1>2
  <2> QED BY <1>2, <2>1, TheLeast
<1> QED BY <1>1, <1>2

\* What strncpy leaves.
PaddedCopy(m, d, s, n) ==
  [a \in Address |->
     IF a < d \/ d + n <= a THEN m[a]
     ELSE IF a - d < strlen(m, s) THEN m[s + a - d] ELSE 0]

\* strncpy copies the string and fills the rest of n bytes.
LEMMA StrncpyPads ==
  ASSUME NEW V, NEW m \in [Address -> V], NEW d, NEW s, NEW n,
         Fits(d, n), Fits(s, n), IsString(m, s), Apart(d, n, s, strlen(m, s) + 1)
  PROVE  strncpy(m, d, s, n) = PaddedCopy(m, d, s, n)
<1> DEFINE l == strlen(m, s)
           k == Min({n, l + 1})
<1>1. d \in Nat /\ s \in Nat /\ n \in Nat /\ d \in Address /\ s \in Address
      /\ d + n - 1 <= Size /\ s + n - 1 <= Size /\ Size \in Nat
  BY MemoryAssumption DEF Fits, Address
<1>2. l \in Nat /\ m[s + l] = 0 /\ (d + n <= s \/ s + (l + 1) <= d)
  BY StrlenIs DEF HasLength, Apart
<1>3. strncpy(m, d, s, n) = Stos(MovsUp(m, d, s, k), d + k, 0, n - k) BY DEF strncpy
<1> HIDE DEF l
<1>4. k = IF n <= l + 1 THEN n ELSE l + 1
  <2>1. l + 1 \in Nat BY <1>2
  <2> QED BY <1>1, <2>1, MinOfTwo
<1> HIDE DEF k
<1>5. k \in Nat /\ k <= n /\ k <= l + 1 BY <1>1, <1>2, <1>4
<1>6. Fits(d, k) /\ Fits(s, k) BY <1>1, <1>5 DEF Fits
<1>7. d <= s \/ s + k <= d BY <1>1, <1>2, <1>5
<1>8. MovsUp(m, d, s, k) = Part(m, d, s, 0, k) BY <1>6, <1>7, MovsUpMoves DEF Moved
<1> DEFINE r == Stos(Part(m, d, s, 0, k), d + k, 0, n - k)
           p == PaddedCopy(m, d, s, n)
<1>9. ASSUME NEW a \in Address PROVE r[a] = p[a]
  <2>1. a \in Nat BY DEF Address
  <2>2. r[a] = IF d + k <= a /\ a < (d + k) + (n - k) THEN 0
               ELSE IF d + 0 <= a /\ a < d + k THEN m[s + a - d] ELSE m[a]
    BY DEF Stos, Part
  <2>3. p[a] = IF a < d \/ d + n <= a THEN m[a]
               ELSE IF a - d < l THEN m[s + a - d] ELSE 0
    BY DEF PaddedCopy, l
  <2> HIDE DEF r, p
  <2>4. CASE a < d \/ d + n <= a
    <3>1. ~(d + k <= a /\ a < (d + k) + (n - k)) /\ ~(d + 0 <= a /\ a < d + k)
      BY <1>1, <1>5, <2>1, <2>4
    <3> QED BY <2>2, <2>3, <2>4, <3>1
  <2>5. CASE d <= a /\ a < d + k
    <3>1. ~(d + k <= a) /\ d + 0 <= a /\ ~(a < d \/ d + n <= a)
      BY <1>1, <1>5, <2>1, <2>5
    <3>2. r[a] = m[s + a - d] BY <2>2, <2>5, <3>1
    <3>3. ~(a - d < l) => s + a - d = s + l BY <1>1, <1>2, <1>5, <2>1, <2>5
    <3> QED BY <1>2, <2>3, <3>1, <3>2, <3>3
  <2>6. CASE d + k <= a /\ a < d + n
    <3>1. a < (d + k) + (n - k) /\ ~(a < d \/ d + n <= a) /\ ~(a - d < l)
      BY <1>1, <1>2, <1>4, <1>5, <2>1, <2>6
    <3> QED BY <2>2, <2>3, <2>6, <3>1
  <2>7. a < d \/ d + n <= a \/ (d <= a /\ a < d + k) \/ (d + k <= a /\ a < d + n)
    BY <1>1, <1>5, <2>1
  <2> QED BY <2>4, <2>5, <2>6, <2>7
<1>10. r = [a \in Address |-> r[a]] BY DEF Stos
<1>11. p = [a \in Address |-> p[a]] BY DEF PaddedCopy
<1>12. r = p
  <2> HIDE DEF r, p
  <2> QED BY <1>9, <1>10, <1>11
<1> QED BY <1>3, <1>8, <1>12

-----------------------------------------------------------------------------
(* Strings behind strings.                                                 *)

\* The string at an address, as a sequence.
IsText(V, x, m, a, l) ==
  x \in Seq(V) /\ Len(x) = l /\ \A i \in 1 .. l : x[i] = m[a + i - 1]

LEMMA StringAtIs ==
  ASSUME NEW V, NEW m, NEW a, NEW l, m \in [Address -> V], HasLength(m, a, l)
  PROVE  IsText(V, StringAt(m, a), m, a, l)
<1>1. l \in Nat /\ a \in Nat /\ 1 <= a /\ a + l <= Size /\ Size \in Nat
  BY MemoryAssumption DEF HasLength, Address
<1>2. strlen(m, a) = l BY LengthIsStrlen
<1>3. \A i \in 1 .. l : a + i - 1 \in Address BY <1>1 DEF Address
<1>4. StringAt(m, a) = [i \in 1 .. l |-> m[a + i - 1]] BY <1>2 DEF StringAt
<1>5. StringAt(m, a) \in [1 .. l -> V] BY <1>3, <1>4
<1>6. StringAt(m, a) \in Seq(V) BY <1>1, <1>5, SeqDef
<1>7. DOMAIN StringAt(m, a) = 1 .. Len(StringAt(m, a)) /\ Len(StringAt(m, a)) \in Nat
  BY <1>6, LenProperties
<1>8. 1 .. Len(StringAt(m, a)) = 1 .. l BY <1>5, <1>7
<1>9. Len(StringAt(m, a)) = l
  <2> DEFINE L == Len(StringAt(m, a))
  <2> HIDE DEF L
  <2>1. L \in Nat /\ \A i : i \in 1 .. L <=> i \in 1 .. l BY <1>7, <1>8 DEF L
  <2>2. (L # 0 => L \in 1 .. l) /\ (l # 0 => l \in 1 .. L) BY <1>1, <2>1
  <2>3. L = l BY <1>1, <2>1, <2>2
  <2> QED BY <2>3 DEF L
<1> QED BY <1>4, <1>6, <1>9 DEF IsText

\* A memory in which the string at d, of length l, is followed by q bytes of the
\* one at s and a 0, while those before d and from "upTo" on are as in m.
Joined(r, m, d, l, s, q, upTo) ==
  \A a \in Address :
    r[a] = IF a < d + l \/ upTo <= a THEN m[a]
           ELSE IF a < d + l + q THEN m[s + a - (d + l)]
           ELSE IF a = d + l + q THEN 0 ELSE r[a]

\* Then the string at d is the one and the first q bytes of the other.
IsBoth(r, m, d, s, q) ==
  StringAt(r, d) = StringAt(m, d) \o SubSeq(StringAt(m, s), 1, q)

LEMMA JoinedStrings ==
  ASSUME NEW V, NEW m, NEW r, NEW d, NEW l, NEW s, NEW w, NEW q, NEW upTo,
         m \in [Address -> V], r \in [Address -> V],
         HasLength(m, d, l), HasLength(m, s, w), q \in 0 .. w,
         upTo \in Nat, d + l + q < upTo, d + l + q <= Size,
         Joined(r, m, d, l, s, q, upTo)
  PROVE  IsBoth(r, m, d, s, q)
<1>1. /\ d \in Nat /\ s \in Nat /\ l \in Nat /\ w \in Nat /\ q \in Nat /\ q <= w
      /\ 1 <= d /\ 1 <= s /\ d + l <= Size /\ s + w <= Size /\ d \in Address
      /\ Size \in Nat
  BY MemoryAssumption DEF HasLength, Address
<1>2. \A i \in 0 .. l - 1 : m[d + i] # 0 BY DEF HasLength
<1>3. \A i \in 0 .. w - 1 : m[s + i] # 0 BY DEF HasLength
<1> DEFINE e == d + l
           L == l + q
<1>4. /\ e \in Nat /\ L \in Nat /\ d + L = e + q /\ d + L <= Size /\ d + L \in Address
      /\ d + l + q = d + L
  BY <1>1 DEF Address
<1>5. \A a \in Address :
        r[a] = IF a < e \/ upTo <= a THEN m[a]
               ELSE IF a < e + q THEN m[s + a - e]
               ELSE IF a = e + q THEN 0 ELSE r[a]
  BY <1>1, <1>4 DEF Joined
<1>6. d + L < upTo BY <1>4
<1> HIDE DEF e
<1>7. r[d + L] = 0
  <2>1. ~(d + L < e \/ upTo <= d + L) /\ ~(d + L < e + q) /\ d + L = e + q
    BY <1>1, <1>4, <1>6
  <2> QED BY <1>4, <1>5, <2>1
<1>8. ASSUME NEW i \in 0 .. L - 1
      PROVE  r[d + i] = IF i < l THEN m[d + i] ELSE m[s + (i - l)]
  <2>1. /\ i \in Nat /\ d + i \in Address /\ (d + i < e <=> i < l) /\ ~(upTo <= d + i)
        /\ d + i < e + q /\ s + (d + i) - e = s + (i - l)
    BY <1>1, <1>4, <1>6 DEF Address, e
  <2> DEFINE a == d + i
  <2>2. a \in Address /\ (a < e <=> i < l) /\ ~(upTo <= a) /\ a < e + q
        /\ s + a - e = s + (i - l)
    BY <2>1
  <2> HIDE DEF a
  <2>3. r[a] = IF i < l THEN m[a] ELSE m[s + (i - l)] BY <1>5, <2>2
  <2> QED BY <2>3 DEF a
<1> HIDE DEF L
<1>9. ASSUME NEW i \in 0 .. L - 1 PROVE r[d + i] # 0
  <2>1. i < l => i \in 0 .. l - 1 BY <1>1
  <2>2. ~(i < l) => i - l \in 0 .. w - 1 BY <1>1, <1>4 DEF L
  <2> QED BY <1>2, <1>3, <1>8, <2>1, <2>2
<1>10. HasLength(r, d, L) BY <1>1, <1>4, <1>7, <1>9 DEF HasLength
<1> DEFINE x == StringAt(r, d)
           v == StringAt(m, d)
           u == SubSeq(StringAt(m, s), 1, q)
<1>11. x \in Seq(V) /\ Len(x) = L /\ \A i \in 1 .. L : x[i] = r[d + i - 1]
  <2>1. IsText(V, x, r, d, L) BY <1>10, StringAtIs
  <2> QED BY <2>1 DEF IsText
<1>12. v \in Seq(V) /\ Len(v) = l /\ \A i \in 1 .. l : v[i] = m[d + i - 1]
  <2>1. IsText(V, v, m, d, l) BY StringAtIs
  <2> QED BY <2>1 DEF IsText
<1>13. u \in Seq(V) /\ Len(u) = q /\ \A i \in 1 .. q : u[i] = m[s + i - 1]
  <2> DEFINE z == StringAt(m, s)
  <2>1. z \in Seq(V) /\ Len(z) = w /\ \A i \in 1 .. w : z[i] = m[s + i - 1]
    <3>1. IsText(V, z, m, s, w) BY StringAtIs
    <3> QED BY <3>1 DEF IsText
  <2> HIDE DEF z
  <2>2. \A i \in 1 .. q : i \in 1 .. w /\ z[i] \in V BY <1>1, <2>1, ElementOfSeq
  <2>3. /\ SubSeq(z, 1, q) \in Seq(V)
        /\ Len(SubSeq(z, 1, q)) = IF 1 <= q THEN q - 1 + 1 ELSE 0
        /\ \A i \in 1 .. q - 1 + 1 : SubSeq(z, 1, q)[i] = z[1 + i - 1]
    BY <1>1, <2>2, SubSeqProperties
  <2>4. Len(SubSeq(z, 1, q)) = q BY <1>1, <2>3
  <2>5. \A i \in 1 .. q : SubSeq(z, 1, q)[i] = z[i] BY <1>1, <2>3
  <2> QED BY <2>1, <2>2, <2>3, <2>4, <2>5 DEF z
<1> HIDE DEF x, v, u
<1>14. /\ v \o u \in Seq(V) /\ Len(v \o u) = l + q
       /\ \A i \in 1 .. l + q : (v \o u)[i] = IF i <= l THEN v[i] ELSE u[i - l]
  BY <1>12, <1>13, ConcatProperties
<1>15. ASSUME NEW i \in 1 .. L PROVE x[i] = (v \o u)[i]
  <2> DEFINE j == i - 1
  <2>1. j \in 0 .. L - 1 /\ d + i - 1 = d + j /\ (j < l <=> i <= l) /\ i \in 1 .. l + q
    BY <1>1, <1>4 DEF L
  <2>2. x[i] = IF i <= l THEN m[d + j] ELSE m[s + (j - l)]
    <3> HIDE DEF j
    <3> QED BY <1>8, <1>11, <2>1
  <2>3. CASE i <= l
    <3>1. i \in 1 .. l BY <1>1, <2>3
    <3> QED BY <1>12, <1>14, <2>1, <2>2, <2>3, <3>1
  <2>4. CASE ~(i <= l)
    <3>1. i - l \in 1 .. q /\ s + (i - l) - 1 = s + (j - l) BY <1>1, <2>1, <2>4
    <3>2. u[i - l] = m[s + (i - l) - 1] BY <1>13, <3>1
    <3> QED BY <1>14, <2>1, <2>2, <2>4, <3>1, <3>2
  <2> QED BY <2>3, <2>4
<1>16. Len(x) = Len(v \o u) BY <1>11, <1>14 DEF L
<1>17. x = v \o u BY <1>11, <1>14, <1>15, <1>16, SeqEqual
<1> QED BY <1>17 DEF IsBoth, x, v, u

\* A copy of bytes of the memory is a memory.
LEMMA PartTyped ==
  ASSUME NEW V, NEW m, NEW d, NEW s, NEW n, m \in [Address -> V], d \in Address, Fits(s, n)
  PROVE  Moved(m, d, s, n) \in [Address -> V]
<1>1. d \in Nat /\ s \in Nat /\ n \in Nat /\ 1 <= s /\ s + n - 1 <= Size /\ Size \in Nat
  BY MemoryAssumption DEF Fits, Address
<1>2. ASSUME NEW a \in Address, d + 0 <= a, a < d + n PROVE m[s + a - d] \in V
  <2>1. a \in Nat BY DEF Address
  <2>2. s + a - d \in Address BY <1>1, <1>2, <2>1 DEF Address
  <2> QED BY <2>2
<1> QED BY <1>2 DEF Moved, Part

\* strncat puts at most n bytes of the string at s behind the one at d, a 0, and
\* another one where n is more than there is.
LEMMA StrncatJoins ==
  ASSUME NEW V, NEW m, NEW d, NEW s, NEW n, NEW l, NEW w, NEW q,
         m \in [Address -> V], 0 \in V, n \in Nat,
         HasLength(m, d, l), HasLength(m, s, w),
         q = IF n <= w THEN n ELSE w,
         Fits(d, l + q + 1), Apart(d, l + q + 1, s, w + 1)
  PROVE  /\ strncat(m, d, s, n) \in [Address -> V]
         /\ Joined(strncat(m, d, s, n), m, d, l, s, q, d + (l + q + 2))
         /\ \A a \in Address : a = d + (l + q + 1) =>
              strncat(m, d, s, n)[a] = IF n > w THEN 0 ELSE m[a]
<1>1. /\ d \in Nat /\ s \in Nat /\ l \in Nat /\ w \in Nat /\ 1 <= d /\ 1 <= s
      /\ d + l <= Size /\ s + w <= Size /\ d \in Address /\ s \in Address /\ Size \in Nat
      /\ d + (l + q + 1) - 1 <= Size
      /\ d + (l + q + 1) <= s \/ s + (w + 1) <= d
      /\ m[s + w] = 0 /\ q \in Nat
  BY MemoryAssumption DEF HasLength, Address, Fits, Apart
<1> DEFINE e == d + l
           k == Min({n, w + 1})
           r == strncat(m, d, s, n)
<1>2. strlen(m, d) = l /\ strlen(m, s) = w BY LengthIsStrlen
<1>3. r = Stos(MovsUp(m, e, s, k), e + k, 0, 1) BY <1>2 DEF strncat
<1>4. k = IF n <= w + 1 THEN n ELSE w + 1
  <2>1. w + 1 \in Nat BY <1>1
  <2> QED BY <2>1, MinOfTwo
<1>5. e \in Address /\ e \in Nat BY <1>1 DEF Address
<1> HIDE DEF k
<1>6. k \in Nat /\ k <= q + 1 /\ k <= w + 1 BY <1>1, <1>4
<1>7. Fits(e, k) /\ Fits(s, k) /\ (e <= s \/ s + k <= e) BY <1>1, <1>5, <1>6 DEF Fits
<1>8. MovsUp(m, e, s, k) = Moved(m, e, s, k)
  <2> HIDE DEF e
  <2> QED BY <1>7, MovsUpMoves
<1> DEFINE c == Moved(m, e, s, k)
<1>9. c \in [Address -> V]
  <2> HIDE DEF e
  <2> QED BY <1>5, <1>7, PartTyped
<1>10. r \in [Address -> V] BY <1>3, <1>8, <1>9 DEF Stos
<1>11. ASSUME NEW a \in Address
       PROVE  r[a] = IF e + k <= a /\ a < (e + k) + 1 THEN 0
                     ELSE IF e + 0 <= a /\ a < e + k THEN m[s + a - e] ELSE m[a]
  BY <1>3, <1>8 DEF Stos, Moved, Part
<1> DEFINE upTo == d + (l + q + 2)
<1>12. e + k < upTo /\ upTo \in Nat BY <1>1, <1>6
<1>13. /\ q \in Nat /\ q <= k /\ (k = q \/ (k = q + 1 /\ q = w))
       /\ (k = q <=> ~(n > w)) /\ upTo = e + q + 2
  BY <1>1, <1>4
<1>14. e = d + l OBVIOUS
<1> HIDE DEF r, c, upTo, e
<1>15. ASSUME NEW a \in Address
       PROVE  r[a] = IF a < e \/ upTo <= a THEN m[a]
                     ELSE IF a < e + q THEN m[s + a - e]
                     ELSE IF a = e + q THEN 0 ELSE r[a]
  <2>1. a \in Nat BY DEF Address
  <2>2. CASE a < e \/ upTo <= a
    <3>1. ~(e + k <= a /\ a < (e + k) + 1) /\ ~(e + 0 <= a /\ a < e + k)
      BY <1>5, <1>6, <1>12, <2>1, <2>2
    <3> QED BY <1>11, <2>2, <3>1
  <2>3. CASE ~(a < e \/ upTo <= a) /\ a < e + q
    <3>1. ~(e + k <= a) /\ e + 0 <= a /\ a < e + k
      BY <1>5, <1>6, <1>13, <2>1, <2>3
    <3> QED BY <1>11, <2>3, <3>1
  <2>4. CASE ~(a < e \/ upTo <= a) /\ ~(a < e + q) /\ a = e + q
    <3>1. CASE k = q
      <4>1. e + k <= a /\ a < (e + k) + 1 BY <1>5, <1>6, <2>1, <2>4, <3>1
      <4>2. r[a] = 0 BY <1>11, <4>1
      <4> QED BY <2>4, <4>2
    <3>2. CASE k = q + 1 /\ q = w
      <4>1. ~(e + k <= a) /\ e + 0 <= a /\ a < e + k /\ s + a - e = s + w
        BY <1>1, <1>5, <1>6, <2>1, <2>4, <3>2
      <4>2. r[a] = m[s + w] BY <1>11, <4>1
      <4> QED BY <1>1, <2>4, <4>2
    <3> QED BY <1>13, <3>1, <3>2
  <2> QED BY <2>2, <2>3, <2>4
<1>16. Joined(r, m, d, l, s, q, upTo) BY <1>14, <1>15 DEF Joined
<1>17. ASSUME NEW a \in Address, a = e + q + 1
       PROVE  r[a] = IF n > w THEN 0 ELSE m[a]
  <2>1. a \in Nat BY DEF Address
  <2>2. CASE n > w
    <3>1. e + k <= a /\ a < (e + k) + 1 BY <1>5, <1>6, <1>13, <1>17, <2>1, <2>2
    <3> QED BY <1>11, <2>2, <3>1
  <2>3. CASE ~(n > w)
    <3>1. ~(e + k <= a /\ a < (e + k) + 1) /\ ~(e + 0 <= a /\ a < e + k)
      BY <1>5, <1>6, <1>13, <1>17, <2>1, <2>3
    <3> QED BY <1>11, <2>3, <3>1
  <2> QED BY <2>2, <2>3
<1>18. d + (l + q + 1) = e + q + 1 BY <1>1, <1>14
<1> QED BY <1>10, <1>16, <1>17, <1>18 DEF r, upTo

\* strcat puts it all there.
LEMMA StrcatJoins ==
  ASSUME NEW V, NEW m, NEW d, NEW s, NEW l, NEW w,
         m \in [Address -> V], HasLength(m, d, l), HasLength(m, s, w),
         Fits(d, l + w + 1), Apart(d, l + w + 1, s, w + 1)
  PROVE  /\ strcat(m, d, s) \in [Address -> V]
         /\ Joined(strcat(m, d, s), m, d, l, s, w, d + (l + w + 1))
<1>1. /\ d \in Nat /\ s \in Nat /\ l \in Nat /\ w \in Nat /\ 1 <= d /\ 1 <= s
      /\ d + l <= Size /\ s + w <= Size /\ d \in Address /\ s \in Address /\ Size \in Nat
      /\ d + (l + w + 1) - 1 <= Size
      /\ d + (l + w + 1) <= s \/ s + (w + 1) <= d
      /\ m[s + w] = 0
  BY MemoryAssumption DEF HasLength, Address, Fits, Apart
<1> DEFINE e == d + l
           k == w + 1
           r == strcat(m, d, s)
           upTo == d + (l + w + 1)
<1>2. strlen(m, d) = l /\ strlen(m, s) = w BY LengthIsStrlen
<1>3. r = MovsUp(m, e, s, k) BY <1>2 DEF strcat, strcpy
<1>4. e \in Address /\ e \in Nat /\ k \in Nat /\ e + k = upTo /\ e = d + l
  BY <1>1 DEF Address
<1>5. Fits(e, k) /\ Fits(s, k) /\ (e <= s \/ s + k <= e) BY <1>1, <1>4 DEF Fits
<1>6. r = Moved(m, e, s, k)
  <2> HIDE DEF e, k
  <2> QED BY <1>3, <1>5, MovsUpMoves
<1>7. r \in [Address -> V]
  <2> HIDE DEF e, k, r
  <2> QED BY <1>4, <1>5, <1>6, PartTyped
<1>8. \A a \in Address :
         r[a] = IF e + 0 <= a /\ a < e + k THEN m[s + a - e] ELSE m[a]
  BY <1>6 DEF Moved, Part
<1>9. e + k = (e + w) + 1 BY <1>1, <1>4
<1> HIDE DEF r, e, k, upTo
<1>10. ASSUME NEW a \in Address
       PROVE  r[a] = IF a < e \/ upTo <= a THEN m[a]
                     ELSE IF a < e + w THEN m[s + a - e]
                     ELSE IF a = e + w THEN 0 ELSE r[a]
  <2>1. a \in Nat BY DEF Address
  <2>2. CASE a < e \/ upTo <= a
    <3>1. ~(e + 0 <= a /\ a < e + k) BY <1>4, <2>1, <2>2
    <3> QED BY <1>8, <2>2, <3>1
  <2>3. CASE ~(a < e \/ upTo <= a)
    <3>1. e + 0 <= a /\ a < e + k BY <1>4, <2>1, <2>3
    <3>2. r[a] = m[s + a - e] BY <1>8, <3>1
    <3>3. a = e + w => s + a - e = s + w BY <1>1, <1>4, <2>1
    <3> QED BY <1>1, <2>3, <3>2, <3>3
  <2> QED BY <2>2, <2>3
<1>11. Joined(r, m, d, l, s, w, upTo) BY <1>4, <1>10 DEF Joined
<1> QED BY <1>7, <1>11 DEF r, upTo

\* Arithmetic of a string of length l, behind which q bytes come.
Behind(d, l, q) ==
  /\ d + l + q < d + (l + q + 2) /\ d + (l + q + 2) \in Nat /\ d + l + q <= Size
  /\ d + l + q < d + (l + q + 1) /\ d + (l + q + 1) \in Nat

LEMMA RoomBehind ==
  ASSUME NEW d \in Nat, NEW l \in Nat, NEW q \in Nat, Fits(d, l + q + 1)
  PROVE  Behind(d, l, q)
<1>1. d + (l + q + 1) - 1 <= Size /\ Size \in Nat BY MemoryAssumption DEF Fits
<1> QED BY <1>1 DEF Behind

\* Both strings one behind the other, and every byte around them as it was, but for e.
JoinedExactly(r, m, d, l, s, q, e) ==
  /\ IsBoth(r, m, d, s, q)
  /\ \A a \in Address : (a < d \/ d + (l + q + 1) <= a) =>
       r[a] = IF a = d + (l + q + 1) THEN e ELSE m[a]

\* What strncat leaves: the byte behind is a 0 exactly if it stopped at the end of the
\* second string.
LEMMA StrncatExact ==
  ASSUME NEW V, NEW m, NEW d, NEW s, NEW n, NEW l, NEW w, NEW q,
         m \in [Address -> V], 0 \in V, n \in Nat,
         HasLength(m, d, l), HasLength(m, s, w), w \in Nat,
         q = IF n <= w THEN n ELSE w,
         Fits(d, l + q + 1), Apart(d, l + q + 1, s, w + 1)
  PROVE  JoinedExactly(strncat(m, d, s, n), m, d, l, s, q,
                       IF n > w THEN 0 ELSE m[d + (l + q + 1)])
<1> DEFINE r == strncat(m, d, s, n)
           e == IF n > w THEN 0 ELSE m[d + (l + q + 1)]
<1>1. /\ r \in [Address -> V] /\ Joined(r, m, d, l, s, q, d + (l + q + 2))
      /\ \A a \in Address : a = d + (l + q + 1) => r[a] = IF n > w THEN 0 ELSE m[a]
  BY StrncatJoins
<1>2. d \in Nat /\ l \in Nat /\ q \in Nat /\ q \in 0 .. w BY DEF HasLength, Address
<1>3. Behind(d, l, q) BY <1>2, RoomBehind
<1> HIDE DEF r
<1>4. IsBoth(r, m, d, s, q) BY <1>1, <1>2, <1>3, JoinedStrings DEF Behind
<1>5. ASSUME NEW a \in Address, a < d \/ d + (l + q + 1) <= a
      PROVE  r[a] = IF a = d + (l + q + 1) THEN e ELSE m[a]
  <2>1. a \in Nat BY DEF Address
  <2>2. CASE a = d + (l + q + 1) BY <1>1, <2>2
  <2>3. CASE a # d + (l + q + 1)
    <3>1. a < d \/ d + (l + q + 2) <= a BY <1>2, <1>5, <2>1, <2>3
    <3>2. a < d + l \/ d + (l + q + 2) <= a BY <1>2, <2>1, <3>1
    <3>3. r[a] = m[a]
      <4>1. CASE d + (l + q + 2) <= a BY <1>1, <4>1 DEF Joined
      <4>2. CASE a < d + l BY <1>1, <4>2 DEF Joined
      <4> QED BY <3>2, <4>1, <4>2
    <3> QED BY <2>3, <3>3
  <2> QED BY <2>2, <2>3
<1> QED BY <1>4, <1>5 DEF JoinedExactly, r, e

\* What strcat leaves.
LEMMA StrcatExact ==
  ASSUME NEW V, NEW m, NEW d, NEW s, NEW l, NEW w,
         m \in [Address -> V], 0 \in V,
         HasLength(m, d, l), HasLength(m, s, w), w \in Nat,
         Fits(d, l + w + 1), Apart(d, l + w + 1, s, w + 1)
  PROVE  JoinedExactly(strcat(m, d, s), m, d, l, s, w, m[d + (l + w + 1)])
<1> DEFINE r == strcat(m, d, s)
<1>1. r \in [Address -> V] /\ Joined(r, m, d, l, s, w, d + (l + w + 1))
  BY StrcatJoins
<1>2. d \in Nat /\ l \in Nat /\ w \in 0 .. w BY DEF HasLength, Address
<1>3. Behind(d, l, w) BY <1>2, RoomBehind
<1> HIDE DEF r
<1>4. IsBoth(r, m, d, s, w) BY <1>1, <1>2, <1>3, JoinedStrings DEF Behind
<1>5. ASSUME NEW a \in Address, a < d \/ d + (l + w + 1) <= a PROVE r[a] = m[a]
  <2>1. a \in Nat BY DEF Address
  <2>2. a < d + l \/ d + (l + w + 1) <= a BY <1>2, <1>5, <2>1
  <2> QED BY <1>1, <2>2 DEF Joined
<1> QED BY <1>4, <1>5 DEF JoinedExactly, r

\* strncat appends what it should, and changes nothing else but one byte behind it;
\* strcat appends all, and changes nothing else.
Appends(m, d, s, n, v, w, q) ==
  /\ StringAt(strncat(m, d, s, n), d) = v \o SubSeq(w, 1, q)
  /\ \A a \in {x \in Address : x < d \/ d + (Len(v) + q + 1) <= x} :
       strncat(m, d, s, n)[a] =
         IF n > Len(w) /\ a = d + (Len(v) + q + 1) THEN 0 ELSE m[a]
  /\ n >= Len(w) =>
       /\ StringAt(strcat(m, d, s), d) = v \o w
       /\ \A a \in {x \in Address : x < d \/ d + (Len(v) + q + 1) <= x} :
            strcat(m, d, s)[a] = m[a]

LEMMA ConcatIsExact ==
  ASSUME NEW V, NEW m, NEW d, NEW s, NEW n, NEW v, NEW z, NEW q,
         m \in [Address -> V], 0 \in V, n \in Nat, IsString(m, d), IsString(m, s),
         v = StringAt(m, d), z = StringAt(m, s), q = Min({n, Len(z)}),
         Fits(d, Len(v) + q + 1), Apart(d, Len(v) + q + 1, s, Len(z) + 1)
  PROVE  Appends(m, d, s, n, v, z, q)
<1> DEFINE l == strlen(m, d)
           w == strlen(m, s)
           r == strncat(m, d, s, n)
           c == strcat(m, d, s)
<1>1. HasLength(m, d, l) /\ HasLength(m, s, w) BY StrlenIs
<1>2. Len(v) = l /\ Len(z) = w /\ z \in Seq(V)
  <2>1. IsText(V, v, m, d, l) /\ IsText(V, z, m, s, w) BY <1>1, StringAtIs
  <2> QED BY <2>1 DEF IsText
<1> HIDE DEF l, w, r, c
<1>3. n \in Nat /\ w \in Nat BY <1>1 DEF HasLength
<1>4. q = IF n <= w THEN n ELSE w BY <1>2, <1>3, MinOfTwo
<1>5. Fits(d, l + q + 1) /\ Apart(d, l + q + 1, s, w + 1) BY <1>2
<1>6. JoinedExactly(r, m, d, l, s, q, IF n > w THEN 0 ELSE m[d + (l + q + 1)])
  BY <1>1, <1>3, <1>4, <1>5, StrncatExact DEF r
<1>7. StringAt(r, d) = v \o SubSeq(z, 1, q) BY <1>6 DEF JoinedExactly, IsBoth
<1>8. \A a \in Address : (a < d \/ d + (l + q + 1) <= a) =>
        r[a] = IF n > w /\ a = d + (l + q + 1) THEN 0 ELSE m[a]
  BY <1>6 DEF JoinedExactly
<1>9. ASSUME n >= w
      PROVE  /\ StringAt(c, d) = v \o z
             /\ \A a \in Address : (a < d \/ d + (l + q + 1) <= a) => c[a] = m[a]
  <2>1. q = w BY <1>3, <1>4, <1>9
  <2>2. Fits(d, l + w + 1) /\ Apart(d, l + w + 1, s, w + 1) BY <1>5, <2>1
  <2>3. JoinedExactly(c, m, d, l, s, w, m[d + (l + w + 1)])
    BY <1>1, <1>3, <2>2, StrcatExact DEF c
  <2>4. StringAt(c, d) = v \o SubSeq(z, 1, w) BY <2>3 DEF JoinedExactly, IsBoth
  <2>5. SubSeq(z, 1, w) = z BY <1>2, SubSeqFull
  <2>6. \A a \in Address : (a < d \/ d + (l + q + 1) <= a) => c[a] = m[a]
    BY <2>1, <2>3 DEF JoinedExactly
  <2> QED BY <2>4, <2>5, <2>6
<1> QED BY <1>2, <1>7, <1>8, <1>9 DEF Appends, r, c

-----------------------------------------------------------------------------
(* What a program leaves in memory.                                        *)

BytesAreBytes == mem \in [Address -> Char]

\* strtok writes nothing but a 0.
LEMMA StrtokTyped ==
  ASSUME NEW m, NEW s, NEW ct, NEW saved, m \in [Address -> Char]
  PROVE  strtok(m, s, ct, saved).mem \in [Address -> Char]
<1>1. \E a : strtok(m, s, ct, saved).mem \in {m, [m EXCEPT ![a] = 0]}
  BY DEF strtok, Token
<1> QED BY <1>1, MemoryAssumption

\* No call leaves anything but bytes.
LEMMA BytesStep == BytesAreBytes /\ [StringsNext]_stringVars => BytesAreBytes'
<1> SUFFICES ASSUME BytesAreBytes, [StringsNext]_stringVars PROVE BytesAreBytes'
  OBVIOUS
<1>1. mem \in [Address -> Char] /\ 0 \in Char BY MemoryAssumption DEF BytesAreBytes
<1>2. ASSUME NEW d \in Address, NEW n \in 0 .. Size, NEW c \in Char, Fill(d, c, n)
      PROVE  BytesAreBytes'
  <2>1. mem' = Stos(mem, d, c, n) BY <1>2 DEF Fill, Write, memset
  <2> QED BY <1>1, <2>1 DEF BytesAreBytes, Stos
<1>3. ASSUME NEW d \in Address, NEW n \in 0 .. Size, NEW s \in Address, Move(d, s, n)
      PROVE  BytesAreBytes'
  <2>1. mem' = memmove(mem, d, s, n) /\ Fits(d, n) /\ Fits(s, n) BY <1>3 DEF Move, Write
  <2>2. mem' = Moved(mem, d, s, n) BY <1>1, <2>1, MemmoveMoves
  <2>3. Moved(mem, d, s, n) \in [Address -> Char] BY <1>1, <2>1, PartTyped
  <2> QED BY <2>2, <2>3 DEF BytesAreBytes
<1>4. ASSUME NEW d \in Address, NEW n \in 0 .. Size, NEW s \in Address, Concatenate(d, s, n)
      PROVE  BytesAreBytes'
  <2> DEFINE l == strlen(mem, d)
             w == strlen(mem, s)
             q == Min({n, w})
  <2>1. /\ mem' = strncat(mem, d, s, n) /\ IsString(mem, d) /\ IsString(mem, s)
        /\ Fits(d, l + q + 1) /\ Apart(d, l + q + 1, s, w + 1)
    BY <1>4 DEF Concatenate, Write
  <2>2. HasLength(mem, d, l) /\ HasLength(mem, s, w) BY <2>1, StrlenIs
  <2>3. n \in Nat BY MemoryAssumption
  <2> HIDE DEF l, w
  <2>5. w \in Nat BY <2>2 DEF HasLength
  <2>6. q = IF n <= w THEN n ELSE w BY <2>3, <2>5, MinOfTwo
  <2>4. strncat(mem, d, s, n) \in [Address -> Char]
    BY <1>1, <2>1, <2>2, <2>3, <2>6, StrncatJoins
  <2> QED BY <2>1, <2>4 DEF BytesAreBytes
<1>5. ASSUME NEW s \in Address, NEW ct \in Address, FirstToken(s, ct) PROVE BytesAreBytes'
  <2>1. mem' = strtok(mem, s, ct, save).mem BY <1>5 DEF FirstToken
  <2> QED BY <1>1, <2>1, StrtokTyped DEF BytesAreBytes
<1>6. CASE NextToken
  <2>1. mem' = strtok(mem, NULL, text.delim, save).mem BY <1>6 DEF NextToken
  <2> QED BY <1>1, <2>1, StrtokTyped DEF BytesAreBytes
<1>7. CASE UNCHANGED stringVars BY <1>7 DEF stringVars, BytesAreBytes
<1> QED BY <1>2, <1>3, <1>4, <1>5, <1>6, <1>7 DEF StringsNext

LEMMA AlwaysBytes == StringsSpec => []BytesAreBytes
<1>1. StringsInit => BytesAreBytes
  BY MemoryAssumption DEF StringsInit, BytesAreBytes
<1> QED BY <1>1, BytesStep, PTL DEF StringsSpec

\* A copy leaves in its place what was to be copied, although it goes byte by
\* byte and memmove's ranges overlap, and changes nothing else; but strncat, if it
\* may copy more than there is, puts a second 0 behind the first, into a byte that
\* C does not ask its caller to provide (string.h 27-86, 341-366).
THEOREM CopiesAreExactCorrect == StringsSpec => []CopiesAreExact
<1>1. BytesAreBytes => CopiesAreExact
  <2> SUFFICES ASSUME BytesAreBytes, NEW d \in Address, NEW s \in Address
      PROVE
        /\ \A n \in {k \in 0 .. Size : Fits(d, k) /\ Fits(s, k)} :
             LET moved == [a \in Address |->
                   IF d <= a /\ a < d + n THEN mem[s + a - d] ELSE mem[a]]
             IN  /\ memmove(mem, d, s, n) = moved
                 /\ Apart(d, n, s, n) => memcpy(mem, d, s, n) = moved
                 /\ IsString(mem, s) /\ Apart(d, n, s, strlen(mem, s) + 1) =>
                      strncpy(mem, d, s, n) = [a \in Address |->
                        IF a < d \/ d + n <= a THEN mem[a]
                        ELSE IF a - d < strlen(mem, s) THEN mem[s + a - d] ELSE 0]
        /\ IsString(mem, d) /\ IsString(mem, s) =>
             \A n \in 0 .. Size :
               LET v == StringAt(mem, d)
                   w == StringAt(mem, s)
                   q == Min({n, Len(w)})
                   all == Len(v) + q + 1
               IN  Fits(d, all) /\ Apart(d, all, s, Len(w) + 1) =>
                     Appends(mem, d, s, n, v, w, q)
    BY DEF CopiesAreExact, Appends
  <2>1. mem \in [Address -> Char] /\ 0 \in Char BY MemoryAssumption DEF BytesAreBytes
  <2>2. d \in Nat /\ s \in Nat BY DEF Address
  <2>3. ASSUME NEW n \in 0 .. Size, Fits(d, n), Fits(s, n)
        PROVE  LET moved == [a \in Address |->
                     IF d <= a /\ a < d + n THEN mem[s + a - d] ELSE mem[a]]
               IN  /\ memmove(mem, d, s, n) = moved
                   /\ Apart(d, n, s, n) => memcpy(mem, d, s, n) = moved
                   /\ IsString(mem, s) /\ Apart(d, n, s, strlen(mem, s) + 1) =>
                        strncpy(mem, d, s, n) = [a \in Address |->
                          IF a < d \/ d + n <= a THEN mem[a]
                          ELSE IF a - d < strlen(mem, s) THEN mem[s + a - d] ELSE 0]
    <3> DEFINE moved == [a \in Address |->
                  IF d <= a /\ a < d + n THEN mem[s + a - d] ELSE mem[a]]
    <3>0. n \in Nat BY MemoryAssumption
    <3>1. Moved(mem, d, s, n) = moved
      <4>1. d + 0 = d BY <2>2
      <4> QED BY <4>1 DEF Moved, Part
    <3> HIDE DEF moved
    <3>2. memmove(mem, d, s, n) = moved BY <2>1, <2>3, <3>1, MemmoveMoves
    <3>3. ASSUME Apart(d, n, s, n) PROVE memcpy(mem, d, s, n) = moved
      <4>1. d <= s \/ s + n <= d BY <2>2, <3>0, <3>3 DEF Apart
      <4>2. MovsUp(mem, d, s, n) = Moved(mem, d, s, n) BY <2>1, <2>3, <4>1, MovsUpMoves
      <4> QED BY <3>1, <4>2 DEF memcpy
    <3>4. ASSUME IsString(mem, s), Apart(d, n, s, strlen(mem, s) + 1)
          PROVE  strncpy(mem, d, s, n) = PaddedCopy(mem, d, s, n)
      BY <2>1, <2>3, <3>4, StrncpyPads
    <3> QED BY <3>2, <3>3, <3>4 DEF moved, PaddedCopy
  <2>4. ASSUME IsString(mem, d), IsString(mem, s), NEW n \in 0 .. Size,
               NEW v, v = StringAt(mem, d), NEW w, w = StringAt(mem, s),
               NEW q, q = Min({n, Len(w)}),
               Fits(d, Len(v) + q + 1), Apart(d, Len(v) + q + 1, s, Len(w) + 1)
        PROVE  Appends(mem, d, s, n, v, w, q)
    <3>1. n \in Nat BY MemoryAssumption
    <3> QED BY <2>1, <2>4, <3>1, ConcatIsExact
  <2> QED BY <2>3, <2>4
<1> QED BY <1>1, AlwaysBytes, PTL

-----------------------------------------------------------------------------
(* Loops.                                                                  *)

\* A loop that goes up to the first place where it stops, and down to the last.
IsLoop(f, lo, hi, stop, val) ==
  f = [a \in lo .. hi |-> IF a \in stop THEN val[a] ELSE f[a + 1]]

IsLoopDown(f, lo, hi, stop, val) ==
  f = [a \in lo .. hi |-> IF a \in stop THEN val[a] ELSE f[a - 1]]

\* If it stops at the end there is such a function.
LEMMA LoopExists ==
  ASSUME NEW lo \in Nat, NEW hi \in Nat, NEW stop, NEW val, hi \in stop
  PROVE  \E f : IsLoop(f, lo, hi, stop, val)
<1> DEFINE Ahead(a) == {b \in a .. hi : b \in stop}
           f == [a \in lo .. hi |-> val[Min(Ahead(a))]]
<1>1. ASSUME NEW a \in lo .. hi PROVE f[a] = IF a \in stop THEN val[a] ELSE f[a + 1]
  <2>1. a \in Nat /\ a <= hi OBVIOUS
  <2>2. Ahead(a) \subseteq Nat BY <2>1
  <2>3. CASE a \in stop
    <3>1. a \in Ahead(a) /\ \A y \in Ahead(a) : a <= y BY <2>1, <2>3
    <3> HIDE DEF Ahead
    <3>2. Min(Ahead(a)) = a BY <2>2, <3>1, TheLeast
    <3> QED BY <2>3, <3>2
  <2>4. CASE a \notin stop
    <3>1. a # hi BY <2>4
    <3>2. a + 1 \in lo .. hi BY <2>1, <3>1
    <3>3. \A b : b \in a .. hi <=> b = a \/ b \in a + 1 .. hi BY <2>1
    <3>4. Ahead(a) = Ahead(a + 1) BY <2>4, <3>3
    <3> HIDE DEF Ahead
    <3>5. f[a] = val[Min(Ahead(a))] /\ f[a + 1] = val[Min(Ahead(a + 1))] BY <3>2
    <3> QED BY <2>4, <3>4, <3>5
  <2> QED BY <2>3, <2>4
<1>2. f = [a \in lo .. hi |-> f[a]] OBVIOUS
<1> HIDE DEF f
<1>3. IsLoop(f, lo, hi, stop, val) BY <1>1, <1>2 DEF IsLoop
<1> QED BY <1>3

\* It ends with the value of the first place where it stops.
Ends(f, a, val, b) == f[a] = val[b]

LEMMA LoopEnds ==
  ASSUME NEW f, NEW lo, NEW hi, NEW stop, NEW val, NEW b,
         lo \in Nat, hi \in Nat, IsLoop(f, lo, hi, stop, val),
         b \in lo .. hi, b \in stop, \A a \in lo .. b - 1 : a \notin stop
  PROVE  Ends(f, lo, val, b)
<1> DEFINE n == b - lo
           good == {i \in 0 .. n : f[b - i] = val[b]}
<1>1. b \in Nat /\ n \in Nat /\ b - n = lo OBVIOUS
<1>2. \A a \in lo .. hi : f[a] = IF a \in stop THEN val[a] ELSE f[a + 1]
  BY DEF IsLoop
<1>3. 0 \in good
  <2>1. b - 0 = b /\ 0 \in 0 .. n BY <1>1
  <2>2. f[b] = val[b] BY <1>2
  <2> QED BY <2>1, <2>2
<1>4. ASSUME NEW i \in 0 .. n - 1, i \in good PROVE i + 1 \in good
  <2> DEFINE a == b - (i + 1)
  <2>1. a \in lo .. b - 1 /\ a \in lo .. hi /\ a + 1 = b - i /\ i + 1 \in 0 .. n
    BY <1>1
  <2>2. f[b - i] = val[b] BY <1>4
  <2> HIDE DEF a
  <2>3. f[a] = val[b] BY <1>2, <2>1, <2>2
  <2> QED BY <2>1, <2>3 DEF a
<1>5. n \in 0 .. n BY <1>1
<1> HIDE DEF n
<1>6. \A i \in 0 .. n : i \in good
  <2> HIDE DEF good
  <2> QED BY <1>1, <1>3, <1>4, CountUp
<1> QED BY <1>1, <1>5, <1>6 DEF Ends

LEMMA LoopDownExists ==
  ASSUME NEW lo \in Nat, NEW hi \in Nat, NEW stop, NEW val, lo \in stop
  PROVE  \E f : IsLoopDown(f, lo, hi, stop, val)
<1> DEFINE back == {i \in Nat : hi - i \in stop}
           Least(a) == Min({i \in back : hi - a <= i})
           f == [a \in lo .. hi |-> val[hi - Least(a)]]
<1>1. ASSUME NEW a \in lo .. hi PROVE f[a] = IF a \in stop THEN val[a] ELSE f[a - 1]
  <2>1. a \in Nat /\ a <= hi /\ hi - a \in Nat /\ hi - (hi - a) = a OBVIOUS
  <2> DEFINE S == {i \in back : hi - a <= i}
  <2>2. S \subseteq Nat OBVIOUS
  <2>3. CASE a \in stop
    <3>1. hi - a \in S /\ \A y \in S : hi - a <= y BY <2>1, <2>3
    <3> HIDE DEF S
    <3>2. Min(S) = hi - a BY <2>2, <3>1, TheLeast
    <3>3. f[a] = val[hi - Min(S)] BY DEF S
    <3> QED BY <2>1, <2>3, <3>2, <3>3
  <2>4. CASE a \notin stop
    <3>1. a # lo BY <2>4
    <3>2. a - 1 \in lo .. hi BY <2>1, <3>1
    <3>3. \A i \in back : i \in Nat /\ i # hi - a BY <2>1, <2>4
    <3>4. \A i \in back : hi - a <= i <=> hi - (a - 1) <= i BY <2>1, <3>3
    <3>5. S = {i \in back : hi - (a - 1) <= i} BY <3>4
    <3>6. Least(a) = Least(a - 1) BY <3>5
    <3> HIDE DEF Least
    <3>7. f[a] = val[hi - Least(a)] /\ f[a - 1] = val[hi - Least(a - 1)] BY <3>2
    <3> QED BY <2>4, <3>6, <3>7
  <2> QED BY <2>3, <2>4
<1>2. f = [a \in lo .. hi |-> f[a]] OBVIOUS
<1> HIDE DEF f
<1>3. IsLoopDown(f, lo, hi, stop, val) BY <1>1, <1>2 DEF IsLoopDown
<1> QED BY <1>3

LEMMA LoopDownEnds ==
  ASSUME NEW f, NEW lo, NEW hi, NEW stop, NEW val, NEW x, NEW b,
         lo \in Nat, hi \in Nat, IsLoopDown(f, lo, hi, stop, val),
         x \in lo .. hi, b \in lo .. x, b \in stop, \A a \in b + 1 .. x : a \notin stop
  PROVE  Ends(f, x, val, b)
<1> DEFINE n == x - b
           good == {i \in 0 .. n : f[b + i] = val[b]}
<1>1. b \in Nat /\ n \in Nat /\ b + n = x OBVIOUS
<1>2. \A a \in lo .. hi : f[a] = IF a \in stop THEN val[a] ELSE f[a - 1]
  BY DEF IsLoopDown
<1>3. 0 \in good
  <2>1. b + 0 = b /\ 0 \in 0 .. n /\ b \in lo .. hi BY <1>1
  <2>2. f[b] = val[b] BY <1>2, <2>1
  <2> QED BY <2>1, <2>2
<1>4. ASSUME NEW i \in 0 .. n - 1, i \in good PROVE i + 1 \in good
  <2> DEFINE a == b + (i + 1)
  <2>1. a \in b + 1 .. x /\ a \in lo .. hi /\ a - 1 = b + i /\ i + 1 \in 0 .. n
    BY <1>1
  <2>2. f[b + i] = val[b] BY <1>4
  <2> HIDE DEF a
  <2>3. f[a] = val[b] BY <1>2, <2>1, <2>2
  <2> QED BY <2>1, <2>3 DEF a
<1>5. n \in 0 .. n BY <1>1
<1> HIDE DEF n
<1>6. \A i \in 0 .. n : i \in good
  <2> HIDE DEF good
  <2> QED BY <1>1, <1>3, <1>4, CountUp
<1> QED BY <1>1, <1>5, <1>6 DEF Ends

\* The first place of a text, of length l, in a set; l + 1 if there is none.
LEMMA FirstPlace ==
  ASSUME NEW l \in Nat, NEW S, S \subseteq 1 .. l
  PROVE  /\ Min({l + 1} \union S) \in 1 .. l + 1
         /\ Min({l + 1} \union S) # l + 1 => Min({l + 1} \union S) \in S
         /\ \A i \in 1 .. Min({l + 1} \union S) - 1 : i \notin S
<1> DEFINE T == {l + 1} \union S
<1>1. T \subseteq Nat /\ T # {} /\ T \subseteq 1 .. l + 1 /\ S \subseteq T OBVIOUS
<1>2. \A y \in T : y = l + 1 \/ y \in S OBVIOUS
<1> HIDE DEF T
<1>3. Min(T) \in T /\ \A y \in T : Min(T) <= y BY <1>1, MinIsLeast
<1>4. Min(T) \in 1 .. l + 1 BY <1>1, <1>3
<1>5. ASSUME NEW i \in 1 .. Min(T) - 1 PROVE i \notin S
  <2>1. ~(Min(T) <= i) BY <1>4
  <2> QED BY <1>1, <1>3, <2>1
<1>6. Min(T) # l + 1 => Min(T) \in S BY <1>2, <1>3
<1> QED BY <1>4, <1>5, <1>6 DEF T

\* A loop over a text and its 0 ends at the first place where it stops, or at the 0.
LEMMA LoopFinds ==
  ASSUME NEW f, NEW s, NEW l, NEW stop, NEW val, NEW S,
         s \in Nat, l \in Nat, S \subseteq 1 .. l,
         IsLoop(f, s, s + l, stop, val),
         s + l \in stop, \A i \in 1 .. l : s + i - 1 \in stop <=> i \in S
  PROVE  Ends(f, s, val, s + Min({l + 1} \union S) - 1)
<1> DEFINE k == Min({l + 1} \union S)
           b == s + k - 1
<1>1. k \in 1 .. l + 1 /\ (k # l + 1 => k \in S) /\ \A i \in 1 .. k - 1 : i \notin S
  BY FirstPlace
<1> HIDE DEF k
<1>2. b \in s .. s + l /\ (k = l + 1 => b = s + l) /\ s + l \in Nat BY <1>1
<1>3. b \in stop
  <2>1. CASE k = l + 1 BY <1>2, <2>1
  <2>2. CASE k # l + 1
    <3>1. k \in 1 .. l BY <1>1, <2>2
    <3> QED BY <1>1, <2>2, <3>1
  <2> QED BY <2>1, <2>2
<1>4. ASSUME NEW a \in s .. b - 1 PROVE a \notin stop
  <2> DEFINE i == a - s + 1
  <2>1. i \in 1 .. k - 1 /\ i \in 1 .. l /\ s + i - 1 = a BY <1>1
  <2> HIDE DEF i
  <2> QED BY <1>1, <2>1
<1> HIDE DEF b
<1> DEFINE hi == s + l
<1>6. /\ s \in Nat /\ hi \in Nat /\ IsLoop(f, s, hi, stop, val)
      /\ b \in s .. hi /\ \A a \in s .. b - 1 : a \notin stop
  BY <1>2, <1>4
<1> HIDE DEF hi
<1>5. Ends(f, s, val, b) BY <1>3, <1>6, LoopEnds
<1> QED BY <1>5 DEF b, k

-----------------------------------------------------------------------------
(* Searches.                                                               *)

\* The string v, of length l, at s.
Text(m, s, v, l) ==
  /\ m \in [Address -> Char]
  /\ HasLength(m, s, l)
  /\ v = StringAt(m, s)

LEMMA TextFacts ==
  ASSUME NEW m, NEW s, NEW v, NEW l, Text(m, s, v, l)
  PROVE  /\ s \in Nat /\ l \in Nat /\ 1 <= s /\ s + l <= Size /\ Size \in Nat
         /\ strlen(m, s) = l /\ m[s + l] = 0
         /\ v \in Seq(Char) /\ Len(v) = l /\ DOMAIN v = 1 .. l
         /\ \A i \in 1 .. l : v[i] = m[s + i - 1] /\ v[i] # 0 /\ v[i] \in Char
<1>1. HasLength(m, s, l) /\ v = StringAt(m, s) /\ m \in [Address -> Char] BY DEF Text
<1>2. /\ s \in Nat /\ l \in Nat /\ 1 <= s /\ s + l <= Size /\ Size \in Nat /\ m[s + l] = 0
      /\ \A i \in 0 .. l - 1 : m[s + i] # 0
  BY <1>1, MemoryAssumption DEF HasLength, Address
<1>3. strlen(m, s) = l BY <1>1, LengthIsStrlen
<1>4. IsText(Char, v, m, s, l) BY <1>1, StringAtIs
<1>5. v \in Seq(Char) /\ Len(v) = l /\ \A i \in 1 .. l : v[i] = m[s + i - 1]
  BY <1>4 DEF IsText
<1>6. DOMAIN v = 1 .. l BY <1>5, LenProperties
<1>7. ASSUME NEW i \in 1 .. l PROVE v[i] # 0 /\ v[i] \in Char
  <2>1. i - 1 \in 0 .. l - 1 /\ s + i - 1 = s + (i - 1) BY <1>2
  <2>2. v[i] # 0 BY <1>2, <1>5, <2>1
  <2> QED BY <1>5, <2>2, ElementOfSeq
<1> QED BY <1>2, <1>3, <1>5, <1>6, <1>7

\* The first of some places of a text, as an address.
FirstOf(s, v, S) == PlaceOf(s, v, Min({Len(v) + 1} \union S))

\* strchr finds the first c.
LEMMA StrchrFinds ==
  ASSUME NEW m, NEW s, NEW v, NEW l, NEW c, Text(m, s, v, l), c # 0
  PROVE  strchr(m, s, c) = FirstOf(s, v, {i \in 1 .. l : v[i] = c})
<1>1. /\ s \in Nat /\ l \in Nat /\ strlen(m, s) = l /\ m[s + l] = 0 /\ Len(v) = l
      /\ \A i \in 1 .. l : v[i] = m[s + i - 1] /\ v[i] # 0
  BY TextFacts
<1> DEFINE X(f) == f = [a \in s .. s + l |->
                         IF m[a] = c THEN a ELSE IF m[a] = 0 THEN NULL ELSE f[a + 1]]
           g == CHOOSE f : X(f)
           stop == {a \in s .. s + l : m[a] = c \/ m[a] = 0}
           val == [a \in s .. s + l |-> IF m[a] = c THEN a ELSE NULL]
           S == {i \in 1 .. l : v[i] = c}
           k == Min({l + 1} \union S)
<1>2. strchr(m, s, c) = g[s] BY <1>1 DEF strchr
<1>3. \A f : IsLoop(f, s, s + l, stop, val) <=> X(f) BY DEF IsLoop
<1>4. s + l \in Nat /\ s + l \in stop /\ S \subseteq 1 .. l BY <1>1
<1>5. \A i \in 1 .. l : s + i - 1 \in stop <=> i \in S
  <2>1. \A i \in 1 .. l : s + i - 1 \in s .. s + l BY <1>1
  <2> QED BY <1>1, <2>1
<1>6. val[s + k - 1] = PlaceOf(s, v, k)
  <2>1. k \in 1 .. l + 1 /\ (k # l + 1 => k \in S) BY <1>1, FirstPlace
  <2> HIDE DEF k
  <2>2. s + k - 1 \in s .. s + l /\ (k > l <=> k = l + 1) /\ (k = l + 1 => s + k - 1 = s + l)
    BY <1>1, <2>1
  <2>3. k # l + 1 => m[s + k - 1] = c BY <1>1, <2>1
  <2>4. k = l + 1 => m[s + k - 1] # c BY <1>1, <2>2
  <2> QED BY <1>1, <2>2, <2>3, <2>4 DEF PlaceOf
<1> HIDE DEF stop, val, S, X
<1>7. \E f : IsLoop(f, s, s + l, stop, val) BY <1>1, <1>4, LoopExists
<1>8. IsLoop(g, s, s + l, stop, val)
  <2>1. \E f : X(f) BY <1>3, <1>7
  <2>2. X(g) BY <2>1
  <2> HIDE DEF g
  <2> QED BY <1>3, <2>2
<1> HIDE DEF g
<1>9. Ends(g, s, val, s + k - 1) BY <1>1, <1>4, <1>5, <1>8, LoopFinds
<1> QED BY <1>1, <1>2, <1>6, <1>9 DEF Ends, FirstOf, S

\* The characters of a set.
LEMMA SetIs ==
  ASSUME NEW m, NEW s, NEW v, NEW l, Text(m, s, v, l)
  PROVE  Set(m, s) = {v[i] : i \in DOMAIN v} /\ 0 \notin Set(m, s)
<1>1. /\ s \in Nat /\ l \in Nat /\ strlen(m, s) = l /\ DOMAIN v = 1 .. l
      /\ \A i \in 1 .. l : v[i] = m[s + i - 1] /\ v[i] # 0
  BY TextFacts
<1>2. Set(m, s) = {m[s + i] : i \in 0 .. l - 1} BY <1>1 DEF Set
<1>3. ASSUME NEW i \in 0 .. l - 1 PROVE i + 1 \in 1 .. l /\ m[s + i] = v[i + 1]
  <2>1. i + 1 \in 1 .. l /\ s + (i + 1) - 1 = s + i BY <1>1
  <2> QED BY <1>1, <2>1
<1>4. ASSUME NEW i \in 1 .. l PROVE i - 1 \in 0 .. l - 1 /\ v[i] = m[s + (i - 1)]
  <2>1. i - 1 \in 0 .. l - 1 /\ s + (i - 1) = s + i - 1 BY <1>1
  <2> QED BY <1>1, <2>1
<1>5. {m[s + i] : i \in 0 .. l - 1} \subseteq {v[i] : i \in 1 .. l} BY <1>3
<1>6. {v[i] : i \in 1 .. l} \subseteq {m[s + i] : i \in 0 .. l - 1} BY <1>4
<1>7. 0 \notin {v[i] : i \in 1 .. l} BY <1>1
<1> QED BY <1>1, <1>2, <1>5, <1>6, <1>7

\* strspn and strcspn stop at the first character that is not to be passed over.
IsSpan(g, m, s, l, passed) ==
  g = [a \in s .. s + l |-> IF m[a] \in passed THEN g[a + 1] ELSE a]

LEMMA SpanIsLoop ==
  ASSUME NEW m, NEW s, NEW l, NEW passed, NEW g, s \in Nat, l \in Nat
  PROVE  IsSpan(g, m, s, l, passed)
           <=> IsLoop(g, s, s + l, {a \in s .. s + l : m[a] \notin passed},
                      [a \in s .. s + l |-> a])
<1> DEFINE stop == {a \in s .. s + l : m[a] \notin passed}
           val == [a \in s .. s + l |-> a]
<1>1. \A a \in s .. s + l : a \in stop <=> m[a] \notin passed OBVIOUS
<1>2. \A a \in s .. s + l : val[a] = a OBVIOUS
<1> HIDE DEF stop, val
<1>3. [a \in s .. s + l |-> IF m[a] \in passed THEN g[a + 1] ELSE a]
        = [a \in s .. s + l |-> IF a \in stop THEN val[a] ELSE g[a + 1]]
  BY <1>1, <1>2
<1> QED BY <1>3 DEF IsSpan, IsLoop, stop, val

LEMMA SpanFinds ==
  ASSUME NEW m, NEW s, NEW v, NEW l, NEW passed, NEW g,
         Text(m, s, v, l), 0 \notin passed, IsSpan(g, m, s, l, passed)
  PROVE  g[s] = s + Min({l + 1} \union {i \in 1 .. l : v[i] \notin passed}) - 1
<1>1. /\ s \in Nat /\ l \in Nat /\ m[s + l] = 0
      /\ \A i \in 1 .. l : v[i] = m[s + i - 1]
  BY TextFacts
<1> DEFINE stop == {a \in s .. s + l : m[a] \notin passed}
           val == [a \in s .. s + l |-> a]
           S == {i \in 1 .. l : v[i] \notin passed}
           k == Min({l + 1} \union S)
<1>2. IsLoop(g, s, s + l, stop, val) BY <1>1, SpanIsLoop
<1>3. s + l \in stop /\ S \subseteq 1 .. l BY <1>1
<1>4. \A i \in 1 .. l : s + i - 1 \in stop <=> i \in S
  <2>1. \A i \in 1 .. l : s + i - 1 \in s .. s + l BY <1>1
  <2> QED BY <1>1, <2>1
<1>5. val[s + k - 1] = s + k - 1
  <2>1. k \in 1 .. l + 1 BY <1>1, FirstPlace
  <2> HIDE DEF k
  <2>2. s + k - 1 \in s .. s + l BY <1>1, <2>1
  <2> QED BY <2>2
<1> HIDE DEF stop, val, S
<1>6. Ends(g, s, val, s + k - 1) BY <1>1, <1>2, <1>3, <1>4, LoopFinds
<1> QED BY <1>5, <1>6 DEF Ends, S

LEMMA SpanExists ==
  ASSUME NEW m, NEW s, NEW v, NEW l, NEW passed, Text(m, s, v, l), 0 \notin passed
  PROVE  \E g : IsSpan(g, m, s, l, passed)
<1>1. s \in Nat /\ l \in Nat /\ s + l \in Nat /\ m[s + l] = 0 BY TextFacts
<1> DEFINE stop == {a \in s .. s + l : m[a] \notin passed}
           val == [a \in s .. s + l |-> a]
<1>2. s + l \in stop BY <1>1
<1>3. \A g : IsSpan(g, m, s, l, passed) <=> IsLoop(g, s, s + l, stop, val)
  BY <1>1, SpanIsLoop
<1> HIDE DEF stop, val
<1>4. \E g : IsLoop(g, s, s + l, stop, val) BY <1>1, <1>2, LoopExists
<1> QED BY <1>3, <1>4

\* strspn passes over the characters of a set.
LEMMA StrspnFinds ==
  ASSUME NEW m, NEW s, NEW v, NEW l, NEW ct, NEW of,
         Text(m, s, v, l), of = Set(m, ct), 0 \notin of
  PROVE  strspn(m, s, ct) = Min({l + 1} \union {i \in 1 .. l : v[i] \notin of}) - 1
<1>1. s \in Nat /\ l \in Nat /\ strlen(m, s) = l BY TextFacts
<1> DEFINE X(f) == f = [a \in s .. s + l |->
                         IF m[a] # 0 /\ m[a] \in of THEN f[a + 1] ELSE a]
           g == CHOOSE f : X(f)
           k == Min({l + 1} \union {i \in 1 .. l : v[i] \notin of})
<1>2. strspn(m, s, ct) = g[s] - s BY <1>1 DEF strspn
<1>3. \A f : IsSpan(f, m, s, l, of) <=> X(f)
  <2>1. \A a \in s .. s + l : m[a] # 0 /\ m[a] \in of <=> m[a] \in of OBVIOUS
  <2> QED BY <2>1 DEF IsSpan
<1> HIDE DEF X
<1>4. IsSpan(g, m, s, l, of)
  <2>1. \E f : X(f) BY <1>3, SpanExists
  <2>2. X(g) BY <2>1
  <2> HIDE DEF g
  <2> QED BY <1>3, <2>2
<1> HIDE DEF g
<1>5. g[s] = s + k - 1 BY <1>4, SpanFinds
<1>6. k \in Nat
  <2> DEFINE S == {i \in 1 .. l : v[i] \notin of}
  <2>1. S \subseteq 1 .. l /\ k = Min({l + 1} \union S) OBVIOUS
  <2> HIDE DEF S, k
  <2>2. k \in 1 .. l + 1 BY <1>1, <2>1, FirstPlace
  <2> QED BY <1>1, <2>2
<1> HIDE DEF k
<1>7. g[s] - s = k - 1 BY <1>1, <1>5, <1>6
<1> QED BY <1>2, <1>7 DEF k

\* strcspn passes over all others.
LEMMA StrcspnFinds ==
  ASSUME NEW m, NEW s, NEW v, NEW l, NEW ct, NEW of,
         Text(m, s, v, l), of = Set(m, ct)
  PROVE  strcspn(m, s, ct) = Min({l + 1} \union {i \in 1 .. l : v[i] \in of}) - 1
<1>1. /\ s \in Nat /\ l \in Nat /\ 1 <= s /\ s + l <= Size /\ Size \in Nat
      /\ strlen(m, s) = l /\ m \in [Address -> Char]
      /\ \A i \in 1 .. l : v[i] # 0 /\ v[i] \in Char
  BY TextFacts DEF Text
<1> DEFINE others == Char \ ({0} \union of)
           X(f) == f = [a \in s .. s + l |->
                         IF m[a] # 0 /\ m[a] \notin of THEN f[a + 1] ELSE a]
           g == CHOOSE f : X(f)
           k == Min({l + 1} \union {i \in 1 .. l : v[i] \in of})
<1>2. strcspn(m, s, ct) = g[s] - s BY <1>1 DEF strcspn
<1>3. \A f : IsSpan(f, m, s, l, others) <=> X(f)
  <2>1. \A a \in s .. s + l : m[a] \in Char
    <3>1. \A a \in s .. s + l : a \in Address BY <1>1 DEF Address
    <3> QED BY <1>1, <3>1
  <2>2. \A a \in s .. s + l : m[a] # 0 /\ m[a] \notin of <=> m[a] \in others BY <2>1
  <2> HIDE DEF others
  <2>3. \A f : [a \in s .. s + l |-> IF m[a] \in others THEN f[a + 1] ELSE a]
             = [a \in s .. s + l |-> IF m[a] # 0 /\ m[a] \notin of THEN f[a + 1] ELSE a]
    BY <2>2
  <2> QED BY <2>3 DEF IsSpan
<1>4. {i \in 1 .. l : v[i] \notin others} = {i \in 1 .. l : v[i] \in of} BY <1>1
<1>5. 0 \notin others OBVIOUS
<1> HIDE DEF X, others
<1>6. IsSpan(g, m, s, l, others)
  <2>1. \E f : X(f) BY <1>3, <1>5, SpanExists
  <2>2. X(g) BY <2>1
  <2> HIDE DEF g
  <2> QED BY <1>3, <2>2
<1> HIDE DEF g
<1>7. g[s] = s + Min({l + 1} \union {i \in 1 .. l : v[i] \notin others}) - 1
  BY <1>5, <1>6, SpanFinds
<1>8. g[s] = s + k - 1 BY <1>4, <1>7
<1>9. k \in Nat
  <2> DEFINE S == {i \in 1 .. l : v[i] \in of}
  <2>1. S \subseteq 1 .. l /\ k = Min({l + 1} \union S) OBVIOUS
  <2> HIDE DEF S, k
  <2>2. k \in 1 .. l + 1 BY <1>1, <2>1, FirstPlace
  <2> QED BY <1>1, <2>2
<1> HIDE DEF k
<1>10. g[s] - s = k - 1 BY <1>1, <1>8, <1>9
<1> QED BY <1>2, <1>10 DEF k

\* strpbrk finds the first character of a set.
LEMMA StrpbrkFinds ==
  ASSUME NEW m, NEW s, NEW v, NEW l, NEW ct, NEW of,
         Text(m, s, v, l), of = Set(m, ct), 0 \notin of
  PROVE  strpbrk(m, s, ct) = FirstOf(s, v, {i \in 1 .. l : v[i] \in of})
<1>1. /\ s \in Nat /\ l \in Nat /\ strlen(m, s) = l /\ m[s + l] = 0 /\ Len(v) = l
      /\ \A i \in 1 .. l : v[i] = m[s + i - 1] /\ v[i] # 0
  BY TextFacts
<1> DEFINE X(f) == f = [a \in s .. s + l |->
                         IF m[a] = 0 THEN NULL ELSE IF m[a] \in of THEN a ELSE f[a + 1]]
           g == CHOOSE f : X(f)
           stop == {a \in s .. s + l : m[a] \in of \/ m[a] = 0}
           val == [a \in s .. s + l |-> IF m[a] = 0 THEN NULL ELSE a]
           S == {i \in 1 .. l : v[i] \in of}
           k == Min({l + 1} \union S)
<1>2. strpbrk(m, s, ct) = g[s] BY <1>1 DEF strpbrk
<1>3. \A f : IsLoop(f, s, s + l, stop, val) <=> X(f) BY DEF IsLoop
<1>4. s + l \in Nat /\ s + l \in stop /\ S \subseteq 1 .. l BY <1>1
<1>5. \A i \in 1 .. l : s + i - 1 \in stop <=> i \in S
  <2>1. \A i \in 1 .. l : s + i - 1 \in s .. s + l BY <1>1
  <2> QED BY <1>1, <2>1
<1>6. val[s + k - 1] = PlaceOf(s, v, k)
  <2>1. k \in 1 .. l + 1 /\ (k # l + 1 => k \in S) BY <1>1, FirstPlace
  <2> HIDE DEF k
  <2>2. s + k - 1 \in s .. s + l /\ (k > l <=> k = l + 1) /\ (k = l + 1 => s + k - 1 = s + l)
    BY <1>1, <2>1
  <2>3. k # l + 1 => m[s + k - 1] # 0 BY <1>1, <2>1
  <2>4. k = l + 1 => m[s + k - 1] = 0 BY <1>1, <2>2
  <2> QED BY <1>1, <2>2, <2>3, <2>4 DEF PlaceOf
<1> HIDE DEF stop, val, S, X
<1>7. \E f : IsLoop(f, s, s + l, stop, val) BY <1>1, <1>4, LoopExists
<1>8. IsLoop(g, s, s + l, stop, val)
  <2>1. \E f : X(f) BY <1>3, <1>7
  <2>2. X(g) BY <2>1
  <2> HIDE DEF g
  <2> QED BY <1>3, <2>2
<1> HIDE DEF g
<1>9. Ends(g, s, val, s + k - 1) BY <1>1, <1>4, <1>5, <1>8, LoopFinds
<1> QED BY <1>1, <1>2, <1>6, <1>9 DEF Ends, FirstOf, S

\* Where a string occurs, byte by byte.
Occurs(v, i, w, l, n) == \A j \in 0 .. n - 1 : i + j <= l /\ v[i + j] = w[j + 1]

LEMMA MatchingIs ==
  ASSUME NEW m, NEW a, NEW ct, NEW n, n \in Nat, a \in Nat
  PROVE  Matching(m, a, ct, n) = n
           <=> \A j \in 0 .. n - 1 : a + j <= Size /\ m[a + j] = m[ct + j]
<1> DEFINE T == {n} \union {i \in 0 .. n - 1 : a + i > Size \/ m[a + i] # m[ct + i]}
<1>1. Matching(m, a, ct, n) = Min(T) BY DEF Matching
<1>2. T \subseteq Nat /\ T # {} /\ n \in T OBVIOUS
<1>3. \A y \in T : y # n => y \in 0 .. n - 1 OBVIOUS
<1>4. \A j \in 0 .. n - 1 : j \in T <=> (a + j > Size \/ m[a + j] # m[ct + j]) OBVIOUS
<1> HIDE DEF T
<1>5. Min(T) \in T /\ \A y \in T : Min(T) <= y BY <1>2, MinIsLeast
<1>6. Min(T) = n <=> \A j \in 0 .. n - 1 : j \notin T
  <2>1. ASSUME Min(T) = n, NEW j \in 0 .. n - 1 PROVE j \notin T
    <3>1. ~(n <= j) OBVIOUS
    <3> QED BY <1>5, <2>1, <3>1
  <2> QED BY <1>3, <1>5, <2>1
<1>7. \A j \in 0 .. n - 1 : ~(a + j > Size) <=> a + j <= Size BY MemoryAssumption
<1> QED BY <1>1, <1>4, <1>6, <1>7

LEMMA PrefixIs ==
  ASSUME NEW v, NEW w, NEW i, v \in Seq(Char), w \in Seq(Char), Len(w) # 0,
         i \in 1 .. Len(v)
  PROVE  IsPrefix(w, SubSeq(v, i, Len(v))) <=> Occurs(v, i, w, Len(v), Len(w))
<1> DEFINE l == Len(v)
           n == Len(w)
           u == SubSeq(v, i, l)
<1>1. l \in Nat /\ n \in Nat /\ n # 0 /\ i \in Nat /\ 1 <= i /\ i <= l BY LenProperties
<1>2. /\ u \in Seq(Char) /\ Len(u) = l - i + 1
      /\ \A j \in 1 .. l - i + 1 : u[j] = v[i + j - 1]
  <2>1. \A j \in i .. l : v[j] \in Char BY <1>1, ElementOfSeq
  <2>2. /\ u \in Seq(Char) /\ Len(u) = IF i <= l THEN l - i + 1 ELSE 0
        /\ \A j \in 1 .. l - i + 1 : u[j] = v[i + j - 1]
    <3>1. i \in Int /\ l \in Int BY <1>1
    <3> HIDE DEF l
    <3> QED BY <2>1, <3>1, SubSeqProperties
  <2> QED BY <1>1, <2>2
<1>3. SubSeq(w, 1, n) = w BY SubSeqFull
<1>4. IsPrefix(w, u) <=> n <= l - i + 1 /\ w = SubSeq(u, 1, n)
  BY <1>2, <1>3 DEF IsPrefix
<1> HIDE DEF u
<1>5. n <= l - i + 1 =>
        /\ SubSeq(u, 1, n) \in Seq(Char) /\ Len(SubSeq(u, 1, n)) = n
        /\ \A j \in 1 .. n : SubSeq(u, 1, n)[j] = v[i + j - 1]
  <2> SUFFICES ASSUME n <= l - i + 1
               PROVE  /\ SubSeq(u, 1, n) \in Seq(Char) /\ Len(SubSeq(u, 1, n)) = n
                      /\ \A j \in 1 .. n : SubSeq(u, 1, n)[j] = v[i + j - 1]
    OBVIOUS
  <2>1. \A j \in 1 .. n : j \in 1 .. l - i + 1 /\ j \in 1 .. Len(u) BY <1>1, <1>2
  <2>2. \A j \in 1 .. n : u[j] \in Char BY <1>2, <2>1, ElementOfSeq
  <2> HIDE DEF n
  <2>3. /\ SubSeq(u, 1, n) \in Seq(Char)
        /\ Len(SubSeq(u, 1, n)) = IF 1 <= n THEN n - 1 + 1 ELSE 0
        /\ \A j \in 1 .. n - 1 + 1 : SubSeq(u, 1, n)[j] = u[1 + j - 1]
    BY <1>1, <2>2, SubSeqProperties
  <2>4. Len(SubSeq(u, 1, n)) = n BY <1>1, <2>3
  <2>5. \A j \in 1 .. n : SubSeq(u, 1, n)[j] = u[j]
    <3>1. \A j \in 1 .. n : j \in 1 .. n - 1 + 1 /\ 1 + j - 1 = j BY <1>1
    <3> QED BY <2>3, <3>1
  <2> QED BY <1>2, <2>1, <2>3, <2>4, <2>5
<1>6. ASSUME n <= l - i + 1
      PROVE  w = SubSeq(u, 1, n) <=> \A j \in 1 .. n : v[i + j - 1] = w[j]
  <2>1. w \in Seq(Char) OBVIOUS
  <2> DEFINE x == SubSeq(u, 1, n)
  <2>2. x \in Seq(Char) /\ Len(x) = Len(w) /\ \A j \in 1 .. n : x[j] = v[i + j - 1]
    BY <1>5, <1>6
  <2> HIDE DEF x
  <2>3. (\A j \in 1 .. Len(w) : w[j] = x[j]) => w = x BY <2>1, <2>2, SeqEqual
  <2>4. w = x <=> \A j \in 1 .. n : v[i + j - 1] = w[j] BY <2>2, <2>3
  <2> QED BY <2>4 DEF x
<1>7. ASSUME n <= l - i + 1
      PROVE  (\A j \in 1 .. n : v[i + j - 1] = w[j]) <=> Occurs(v, i, w, l, n)
  <2> HIDE DEF n, l
  <2>1. ASSUME NEW j \in 0 .. n - 1
        PROVE  i + j <= l /\ j + 1 \in 1 .. n /\ i + (j + 1) - 1 = i + j
    BY <1>1, <1>7
  <2>2. ASSUME NEW j \in 1 .. n
        PROVE  j - 1 \in 0 .. n - 1 /\ i + (j - 1) = i + j - 1 /\ (j - 1) + 1 = j
    BY <1>1
  <2>3. (\A j \in 1 .. n : v[i + j - 1] = w[j]) => Occurs(v, i, w, l, n)
    BY <2>1 DEF Occurs
  <2>4. Occurs(v, i, w, l, n) => (\A j \in 1 .. n : v[i + j - 1] = w[j])
    <3> SUFFICES ASSUME Occurs(v, i, w, l, n), NEW j \in 1 .. n PROVE v[i + j - 1] = w[j]
      OBVIOUS
    <3>1. v[i + (j - 1)] = w[(j - 1) + 1] BY <2>2 DEF Occurs
    <3> QED BY <2>2, <3>1
  <2> QED BY <2>3, <2>4
<1>8. Occurs(v, i, w, l, n) => n <= l - i + 1
  <2>1. n - 1 \in 0 .. n - 1 BY <1>1
  <2> HIDE DEF n, l
  <2>2. Occurs(v, i, w, l, n) => i + (n - 1) <= l BY <2>1 DEF Occurs
  <2> QED BY <1>1, <2>2
<1> QED BY <1>4, <1>6, <1>7, <1>8 DEF u

\* A match in memory is one of the strings: the 0 of the longer one differs.
LEMMA MatchOccurs ==
  ASSUME NEW m, NEW s, NEW v, NEW l, NEW ct, NEW w, NEW n, NEW i,
         Text(m, s, v, l), Text(m, ct, w, n), i \in 1 .. l
  PROVE  Matching(m, s + i - 1, ct, n) = n <=> Occurs(v, i, w, l, n)
<1>1. /\ s \in Nat /\ l \in Nat /\ m[s + l] = 0 /\ s + l <= Size /\ Size \in Nat
      /\ \A j \in 1 .. l : v[j] = m[s + j - 1]
  BY TextFacts
<1>2. /\ ct \in Nat /\ n \in Nat
      /\ \A j \in 1 .. n : w[j] = m[ct + j - 1] /\ w[j] # 0
  BY TextFacts
<1> DEFINE a == s + i - 1
<1>3. a \in Nat /\ i \in Nat BY <1>1
<1>4. ASSUME NEW j \in 0 .. n - 1 PROVE m[ct + j] = w[j + 1] /\ w[j + 1] # 0
  <2>1. j + 1 \in 1 .. n /\ ct + (j + 1) - 1 = ct + j BY <1>2
  <2> QED BY <1>2, <2>1
<1>5. ASSUME NEW j \in 0 .. n - 1, i + j <= l
      PROVE  a + j <= Size /\ v[i + j] = m[a + j]
  <2>1. i + j \in 1 .. l /\ s + (i + j) - 1 = a + j /\ a + j <= Size BY <1>1, <1>2, <1>5
  <2> QED BY <1>1, <2>1
<1>6. ASSUME NEW j \in 0 .. n - 1, ~(i + j <= l)
      PROVE  \E h \in 0 .. n - 1 : m[a + h] = 0
  <2> DEFINE h == l + 1 - i
  <2>1. h \in 0 .. n - 1 /\ a + h = s + l BY <1>1, <1>2, <1>6
  <2> HIDE DEF h, a
  <2> QED BY <1>1, <2>1
<1> HIDE DEF a
<1>7. Matching(m, a, ct, n) = n
        <=> \A j \in 0 .. n - 1 : a + j <= Size /\ m[a + j] = m[ct + j]
  <2>1. n \in Nat /\ a \in Nat BY <1>2, <1>3
  <2> QED BY <2>1, MatchingIs
<1>8. ASSUME \A j \in 0 .. n - 1 : a + j <= Size /\ m[a + j] = m[ct + j]
      PROVE  Occurs(v, i, w, l, n)
  <2>1. \A j \in 0 .. n - 1 : m[a + j] # 0 BY <1>4, <1>8
  <2>2. \A j \in 0 .. n - 1 : i + j <= l BY <1>6, <2>1
  <2> QED BY <1>4, <1>5, <1>8, <2>2 DEF Occurs
<1>9. ASSUME Occurs(v, i, w, l, n), NEW j \in 0 .. n - 1
      PROVE  a + j <= Size /\ m[a + j] = m[ct + j]
  BY <1>4, <1>5, <1>9 DEF Occurs
<1> QED BY <1>7, <1>8, <1>9 DEF a

\* Where the match breaks off at the 0 of the string, the pattern is longer than
\* what is left of it, and occurs nowhere behind (string.h 253-255).
LEMMA NoLaterMatch ==
  ASSUME NEW m, NEW s, NEW v, NEW l, NEW ct, NEW w, NEW n, NEW i, NEW j,
         Text(m, s, v, l), Text(m, ct, w, n), i \in 1 .. l, j \in i .. l,
         Matching(m, s + i - 1, ct, n) # n,
         m[s + i - 1 + Matching(m, s + i - 1, ct, n)] = 0
  PROVE  ~Occurs(v, j, w, l, n)
<1>1. /\ s \in Nat /\ l \in Nat /\ m[s + l] = 0 /\ s + l <= Size /\ Size \in Nat
      /\ \A h \in 1 .. l : v[h] = m[s + h - 1] /\ v[h] # 0
  BY TextFacts
<1>2. /\ ct \in Nat /\ n \in Nat
      /\ \A h \in 1 .. n : w[h] = m[ct + h - 1] /\ w[h] # 0
  BY TextFacts
<1> DEFINE a == s + i - 1
           T == {n} \union {h \in 0 .. n - 1 : a + h > Size \/ m[a + h] # m[ct + h]}
           k == Matching(m, a, ct, n)
<1>3. a \in Nat /\ i \in Nat /\ i >= 1 /\ i <= l /\ a + (l - i + 1) = s + l BY <1>1
<1>4. k = Min(T) BY DEF Matching
<1>5. T \subseteq Nat /\ T # {} BY <1>2
<1>6. /\ \A h \in T : h # n => h \in 0 .. n - 1
      /\ \A h \in 0 .. n - 1 : a + h > Size \/ m[a + h] # m[ct + h] => h \in T
  OBVIOUS
<1>7. k # n /\ m[a + k] = 0 OBVIOUS
<1> HIDE DEF T, k
<1>8. k \in T /\ \A h \in T : k <= h BY <1>4, <1>5, MinIsLeast
<1>9. k \in 0 .. n - 1 BY <1>6, <1>7, <1>8
<1>10. ~(k < l - i + 1)
  <2> SUFFICES ASSUME k < l - i + 1 PROVE FALSE OBVIOUS
  <2> DEFINE h == i + k
  <2>1. h \in 1 .. l /\ s + h - 1 = a + k BY <1>1, <1>3, <1>9
  <2> HIDE DEF h, a
  <2>2. m[s + h - 1] # 0 BY <1>1, <2>1
  <2> QED BY <1>7, <2>1, <2>2
<1>11. ~(k > l - i + 1)
  <2> SUFFICES ASSUME k > l - i + 1 PROVE FALSE OBVIOUS
  <2> DEFINE h == l - i + 1
  <2>1. h \in 0 .. n - 1 /\ ~(k <= h) /\ a + h = s + l BY <1>1, <1>2, <1>3, <1>9
  <2>2. h + 1 \in 1 .. n /\ ct + (h + 1) - 1 = ct + h BY <1>2, <2>1
  <2> HIDE DEF h, a
  <2>3. m[a + h] = m[ct + h] BY <1>6, <1>8, <2>1
  <2>4. m[ct + h] # 0 BY <1>2, <2>2
  <2> QED BY <1>1, <2>1, <2>3, <2>4
<1>12. k = l - i + 1 BY <1>1, <1>3, <1>9, <1>10, <1>11
<1>13. n - 1 \in 0 .. n - 1 /\ ~(j + (n - 1) <= l) BY <1>1, <1>2, <1>3, <1>9, <1>12
<1> QED BY <1>13 DEF Occurs

\* strstr finds the first occurrence.
LEMMA StrstrFinds ==
  ASSUME NEW m, NEW s, NEW v, NEW l, NEW ct, NEW w, NEW n,
         Text(m, s, v, l), Text(m, ct, w, n)
  PROVE  strstr(m, s, ct)
           = IF n = 0 THEN s ELSE FirstOf(s, v, {i \in 1 .. l : Occurs(v, i, w, l, n)})
<1>1. /\ s \in Nat /\ l \in Nat /\ strlen(m, s) = l /\ m[s + l] = 0 /\ Len(v) = l
      /\ \A i \in 1 .. l : v[i] = m[s + i - 1] /\ v[i] # 0
  BY TextFacts
<1>2. /\ strlen(m, ct) = n /\ n \in Nat /\ ct \in Nat
      /\ \A j \in 1 .. n : w[j] = m[ct + j - 1] /\ w[j] # 0
  BY TextFacts
<1> DEFINE At(a) == Matching(m, a, ct, n) = n
           Broken(a) == m[a + Matching(m, a, ct, n)] = 0
           X(f) == f = [a \in s .. s + l |->
                         IF Matching(m, a, ct, n) = n THEN a
                         ELSE IF m[a + Matching(m, a, ct, n)] = 0 THEN NULL ELSE f[a + 1]]
           g == CHOOSE f : X(f)
           stop == {a \in s .. s + l : At(a) \/ Broken(a)}
           val == [a \in s .. s + l |-> IF At(a) THEN a ELSE NULL]
           S == {i \in 1 .. l : Occurs(v, i, w, l, n)}
           T == {i \in 1 .. l : s + i - 1 \in stop}
           k == Min({l + 1} \union T)
           first == Min({l + 1} \union S)
<1>3. strstr(m, s, ct) = g[s] BY <1>1, <1>2 DEF strstr
<1>4. \A f : IsLoop(f, s, s + l, stop, val) <=> X(f) BY DEF IsLoop
<1>8. n # 0 => ~At(s + l) /\ Matching(m, s + l, ct, n) = 0
  <2> SUFFICES ASSUME n # 0 PROVE ~At(s + l) /\ Matching(m, s + l, ct, n) = 0 OBVIOUS
  <2> DEFINE U == {n} \union {h \in 0 .. n - 1 : s + l + h > Size \/ m[s + l + h] # m[ct + h]}
  <2>1. 0 \in 0 .. n - 1 /\ 1 \in 1 .. n /\ (s + l) + 0 = s + l /\ ct + 0 = ct + 1 - 1
    BY <1>1, <1>2
  <2>2. m[s + l + 0] # m[ct + 0] BY <1>1, <1>2, <2>1
  <2>3. 0 \in U /\ U \subseteq Nat /\ \A y \in U : 0 <= y BY <1>2, <2>1, <2>2
  <2>4. Matching(m, s + l, ct, n) = Min(U) BY DEF Matching
  <2> HIDE DEF U
  <2>5. Min(U) = 0 BY <2>3, TheLeast
  <2> QED BY <2>4, <2>5
<1>9. n = 0 => At(s) /\ At(s + l)
  <2> SUFFICES ASSUME n = 0 PROVE Matching(m, s, ct, n) = n /\ Matching(m, s + l, ct, n) = n
    OBVIOUS
  <2>1. \A j \in 0 .. n - 1 : s + j <= Size /\ m[s + j] = m[ct + j] OBVIOUS
  <2>2. \A j \in 0 .. n - 1 : (s + l) + j <= Size /\ m[(s + l) + j] = m[ct + j] OBVIOUS
  <2>3. s \in Nat /\ s + l \in Nat BY <1>1
  <2> QED BY <1>2, <2>1, <2>2, <2>3, MatchingIs
<1>5. s + l \in Nat /\ s + l \in stop /\ S \subseteq 1 .. l /\ s \in s .. s + l
  <2>1. s + l + 0 = s + l BY <1>1
  <2>2. n # 0 => Broken(s + l) BY <1>1, <1>8, <2>1
  <2> HIDE DEF At, Broken
  <2> QED BY <1>1, <1>9, <2>2
<1>6. \A i \in 1 .. l : At(s + i - 1) <=> i \in S
  <2> SUFFICES ASSUME NEW i \in 1 .. l PROVE At(s + i - 1) <=> Occurs(v, i, w, l, n)
    OBVIOUS
  <2>1. Matching(m, s + i - 1, ct, n) = n <=> Occurs(v, i, w, l, n) BY MatchOccurs
  <2> QED BY <2>1
<1>7. T \subseteq 1 .. l /\ (\A i \in 1 .. l : s + i - 1 \in stop <=> i \in T) /\ S \subseteq T
  <2>1. \A i \in 1 .. l : s + i - 1 \in s .. s + l BY <1>1
  <2>2. \A i \in S : i \in 1 .. l BY <1>5
  <2> HIDE DEF At, S, Broken
  <2> QED BY <1>6, <2>1, <2>2
<1>b. ASSUME NEW i \in 1 .. l, i \in T, i \notin S, NEW j \in i .. l PROVE j \notin S
  <2>1. ~At(s + i - 1) BY <1>6, <1>b
  <2>2. Broken(s + i - 1) BY <1>b, <2>1
  <2>3. ~Occurs(v, j, w, l, n) BY <1>b, <2>1, <2>2, NoLaterMatch
  <2> QED BY <2>3
<1>c. \A i \in 1 .. l + 1 :
        s + i - 1 \in s .. s + l /\ val[s + i - 1] = IF At(s + i - 1) THEN s + i - 1 ELSE NULL
  <2>1. \A i \in 1 .. l + 1 : s + i - 1 \in s .. s + l BY <1>1
  <2> HIDE DEF At
  <2> QED BY <2>1
<1> HIDE DEF At, Broken, S, T, stop, val
<1>10. n # 0 => val[s + k - 1] = PlaceOf(s, v, first)
  <2> SUFFICES ASSUME n # 0 PROVE val[s + k - 1] = PlaceOf(s, v, first) OBVIOUS
  <2>1. /\ k \in 1 .. l + 1 /\ (k # l + 1 => k \in T)
        /\ \A i \in 1 .. k - 1 : i \notin T
    BY <1>1, <1>7, FirstPlace
  <2>2. /\ first \in 1 .. l + 1 /\ (first # l + 1 => first \in S)
        /\ \A i \in 1 .. first - 1 : i \notin S
    BY <1>1, <1>5, FirstPlace
  <2> HIDE DEF k, first
  <2>3. CASE k # l + 1 /\ k \in S
    <3>1. k \in 1 .. l /\ At(s + k - 1) BY <1>1, <1>6, <2>1, <2>3
    <3>2. ~(k < first)
      <4>1. k < first => k \in 1 .. first - 1 BY <2>1, <2>2
      <4> QED BY <2>2, <2>3, <4>1
    <3>3. ~(first < k)
      <4>1. first < k => first \in 1 .. k - 1 /\ first # l + 1 BY <1>1, <2>1, <2>2
      <4> QED BY <1>7, <2>1, <2>2, <4>1
    <3>4. first = k /\ ~(k > l) BY <1>1, <2>1, <2>2, <3>1, <3>2, <3>3
    <3> QED BY <1>1, <1>c, <2>1, <3>1, <3>4 DEF PlaceOf
  <2>4. CASE k = l + 1 \/ k \notin S
    <3>1. first = l + 1
      <4> SUFFICES ASSUME first # l + 1 PROVE FALSE OBVIOUS
      <4>1. first \in S /\ first \in T /\ first \in 1 .. l BY <1>1, <1>7, <2>2
      <4>2. ~(first < k)
        <5>1. first < k => first \in 1 .. k - 1 BY <2>1, <4>1
        <5> QED BY <2>1, <4>1, <5>1
      <4>3. k \in 1 .. l /\ k \in T /\ k \notin S /\ first \in k .. l
        BY <1>1, <2>1, <2>4, <4>1, <4>2
      <4> QED BY <1>b, <4>1, <4>3
    <3>2. ~At(s + k - 1)
      <4>1. CASE k = l + 1
        <5>1. s + k - 1 = s + l BY <1>1, <4>1
        <5> QED BY <1>8, <5>1
      <4>2. CASE k # l + 1
        <5>1. k \in 1 .. l /\ k \notin S BY <1>1, <2>1, <2>4, <4>2
        <5> QED BY <1>6, <5>1
      <4> QED BY <4>1, <4>2
    <3>3. first > l BY <1>1, <3>1
    <3> QED BY <1>1, <1>c, <2>1, <3>2, <3>3 DEF PlaceOf
  <2> QED BY <2>3, <2>4
<1>11. n = 0 => s \in stop /\ val[s] = s BY <1>5, <1>9 DEF stop, val
<1> HIDE DEF X, k
<1>12. \E f : IsLoop(f, s, s + l, stop, val) BY <1>1, <1>5, LoopExists
<1>13. IsLoop(g, s, s + l, stop, val)
  <2>1. \E f : X(f) BY <1>4, <1>12
  <2>2. X(g) BY <2>1
  <2> HIDE DEF g
  <2> QED BY <1>4, <2>2
<1> HIDE DEF g
<1>14. CASE n # 0
  <2>1. Ends(g, s, val, s + k - 1) BY <1>1, <1>5, <1>7, <1>13, LoopFinds DEF k
  <2> QED BY <1>1, <1>3, <1>10, <1>14, <2>1 DEF Ends, FirstOf, S
<1>15. CASE n = 0
  <2>1. s \in stop /\ \A a \in s .. s - 1 : a \notin stop BY <1>1, <1>11, <1>15
  <2> DEFINE hi == s + l
  <2>2. s \in Nat /\ hi \in Nat /\ IsLoop(g, s, hi, stop, val) /\ s \in s .. hi
    BY <1>1, <1>5, <1>13
  <2> HIDE DEF hi
  <2>3. Ends(g, s, val, s) BY <2>1, <2>2, LoopEnds
  <2> QED BY <1>3, <1>11, <1>15, <2>3 DEF Ends
<1> QED BY <1>14, <1>15

-----------------------------------------------------------------------------
(* Comparisons.                                                            *)

\* The first b bytes of two places are the same.
Alike(m, cs, ct, b) == \A a \in 0 .. b - 1 : m[cs + a] = m[ct + a]

\* The first b bytes have no 0 among them.
NoZero(m, ct, b) == \A a \in 0 .. b - 1 : m[ct + a] # 0

\* strncmp ends at the first difference, at a common 0 and after n bytes.
LEMMA StrncmpEnds ==
  ASSUME NEW m, NEW cs, NEW ct, NEW n \in Nat, NEW b \in 0 .. n,
         Alike(m, cs, ct, b), NoZero(m, ct, b),
         b = n \/ m[cs + b] # m[ct + b] \/ m[ct + b] = 0
  PROVE  strncmp(m, cs, ct, n) =
           IF b # n /\ m[cs + b] # m[ct + b] THEN Order(m[ct + b], m[cs + b]) ELSE 0
<1> DEFINE X(f) == f = [i \in 0 .. n |->
                     IF i = n THEN 0
                     ELSE IF m[cs + i] # m[ct + i] THEN Order(m[ct + i], m[cs + i])
                     ELSE IF m[ct + i] = 0 THEN 0 ELSE f[i + 1]]
           g == CHOOSE f : X(f)
           stop == {i \in 0 .. n : i = n \/ m[cs + i] # m[ct + i] \/ m[ct + i] = 0}
           val == [i \in 0 .. n |->
                     IF i # n /\ m[cs + i] # m[ct + i]
                     THEN Order(m[ct + i], m[cs + i]) ELSE 0]
<1>1. strncmp(m, cs, ct, n) = g[0] BY DEF strncmp
<1>2. \A f : IsLoop(f, 0, n, stop, val) <=> X(f)
  <2>1. \A f, i : i \in 0 .. n =>
          (IF i \in stop THEN val[i] ELSE f[i + 1]) =
            (IF i = n THEN 0
             ELSE IF m[cs + i] # m[ct + i] THEN Order(m[ct + i], m[cs + i])
             ELSE IF m[ct + i] = 0 THEN 0 ELSE f[i + 1])
    OBVIOUS
  <2> HIDE DEF stop, val
  <2>2. \A f : [i \in 0 .. n |-> IF i \in stop THEN val[i] ELSE f[i + 1]] =
               [i \in 0 .. n |->
                  IF i = n THEN 0
                  ELSE IF m[cs + i] # m[ct + i] THEN Order(m[ct + i], m[cs + i])
                  ELSE IF m[ct + i] = 0 THEN 0 ELSE f[i + 1]]
    BY <2>1
  <2> QED BY <2>2 DEF IsLoop
<1>3. n \in stop /\ b \in stop OBVIOUS
<1>4. \A a \in 0 .. b - 1 : a \notin stop
  <2>1. \A a \in 0 .. b - 1 : a # n OBVIOUS
  <2> QED BY <2>1 DEF Alike, NoZero
<1>5. val[b] = IF b # n /\ m[cs + b] # m[ct + b] THEN Order(m[ct + b], m[cs + b]) ELSE 0
  OBVIOUS
<1> HIDE DEF stop, val, X
<1>6. \E f : IsLoop(f, 0, n, stop, val) BY <1>3, LoopExists
<1>7. IsLoop(g, 0, n, stop, val)
  <2>1. \E f : X(f) BY <1>2, <1>6
  <2>2. X(g) BY <2>1
  <2> HIDE DEF g
  <2> QED BY <1>2, <2>2
<1> HIDE DEF g
<1>8. Ends(g, 0, val, b) BY <1>3, <1>4, <1>7, LoopEnds
<1> QED BY <1>1, <1>5, <1>8 DEF Ends

\* memcmp ends at the first difference and with the last byte.
LEMMA MemcmpEnds ==
  ASSUME NEW m, NEW cs, NEW ct, NEW n \in Nat \ {0}, NEW b \in 0 .. n - 1,
         Alike(m, cs, ct, b), b = n - 1 \/ m[cs + b] # m[ct + b]
  PROVE  memcmp(m, cs, ct, n) =
           IF m[cs + b] # m[ct + b] THEN Order(m[ct + b], m[cs + b]) ELSE 0
<1> DEFINE X(f) == f = [i \in 0 .. n - 1 |->
                     IF m[cs + i] # m[ct + i] THEN Order(m[ct + i], m[cs + i])
                     ELSE IF i = n - 1 THEN 0 ELSE f[i + 1]]
           g == CHOOSE f : X(f)
           last == n - 1
           stop == {i \in 0 .. last : m[cs + i] # m[ct + i] \/ i = last}
           val == [i \in 0 .. last |->
                     IF m[cs + i] # m[ct + i] THEN Order(m[ct + i], m[cs + i]) ELSE 0]
<1>1. memcmp(m, cs, ct, n) = g[0] BY DEF memcmp
<1>2. \A f : IsLoop(f, 0, last, stop, val) <=> X(f)
  <2>1. \A f, i : i \in 0 .. last =>
          (IF i \in stop THEN val[i] ELSE f[i + 1]) =
            (IF m[cs + i] # m[ct + i] THEN Order(m[ct + i], m[cs + i])
             ELSE IF i = last THEN 0 ELSE f[i + 1])
    <3> HIDE DEF last
    <3> QED OBVIOUS
  <2> HIDE DEF stop, val
  <2>2. \A f : [i \in 0 .. last |-> IF i \in stop THEN val[i] ELSE f[i + 1]] =
               [i \in 0 .. last |->
                  IF m[cs + i] # m[ct + i] THEN Order(m[ct + i], m[cs + i])
                  ELSE IF i = last THEN 0 ELSE f[i + 1]]
    BY <2>1
  <2> QED BY <2>2 DEF IsLoop
<1>3. last \in Nat /\ last \in stop /\ b \in stop OBVIOUS
<1>4. \A a \in 0 .. b - 1 : a \notin stop
  <2>1. \A a \in 0 .. b - 1 : a # last OBVIOUS
  <2> HIDE DEF last
  <2> QED BY <2>1 DEF Alike
<1>5. val[b] = IF m[cs + b] # m[ct + b] THEN Order(m[ct + b], m[cs + b]) ELSE 0
  OBVIOUS
<1>9. b \in 0 .. last OBVIOUS
<1> HIDE DEF stop, val, X, last
<1>6. \E f : IsLoop(f, 0, last, stop, val) BY <1>3, LoopExists
<1>7. IsLoop(g, 0, last, stop, val)
  <2>1. \E f : X(f) BY <1>2, <1>6
  <2>2. X(g) BY <2>1
  <2> HIDE DEF g
  <2> QED BY <1>2, <2>2
<1> HIDE DEF g
<1>8. Ends(g, 0, val, b) BY <1>3, <1>4, <1>7, <1>9, LoopEnds
<1> QED BY <1>1, <1>5, <1>8 DEF Ends

\* A sequence with a 0 behind it shows the bytes from a to b further.
Shows(x, m, a, b) ==
  /\ x \in Seq(Char) /\ b \in Nat /\ b <= Len(x)
  /\ \A j \in 0 .. b : Append(x, 0)[j + 1] = m[a + j]

LEMMA TextShows ==
  ASSUME NEW x, NEW m, NEW a, NEW h, NEW b, a \in Nat, h \in Nat, IsText(Char, x, m, a, h),
         b \in 0 .. h, b = h => m[a + h] = 0
  PROVE  Shows(x, m, a, b)
<1>1. x \in Seq(Char) /\ Len(x) = h /\ \A i \in 1 .. h : x[i] = m[a + i - 1]
  BY DEF IsText
<1>2. 0 \in Char BY MemoryAssumption
<1>3. /\ \A i \in 1 .. h : Append(x, 0)[i] = x[i]
      /\ Append(x, 0)[h + 1] = 0
  BY <1>1, <1>2, AppendProperties
<1> DEFINE X == Append(x, 0)
<1> HIDE DEF X
<1>4. ASSUME NEW j \in 0 .. b PROVE X[j + 1] = m[a + j]
  <2>1. CASE j = h
    <3>1. b = h BY <2>1
    <3>2. m[a + h] = 0 BY <3>1
    <3> QED BY <1>3, <2>1, <3>2 DEF X
  <2>2. CASE j # h
    <3>1. j + 1 \in 1 .. h /\ a + (j + 1) - 1 = a + j BY <2>2
    <3> QED BY <1>1, <1>3, <3>1 DEF X
  <2> QED BY <2>1, <2>2
<1> QED BY <1>1, <1>4 DEF Shows, X

\* The sign by unsigned bytes, turned round where one of them is below 128 and the
\* other is not, is that of signed ones.
LEMMA SignedOrder ==
  ASSUME NEW a \in -128 .. 127, NEW c \in -128 .. 127, a # c
  PROVE  ((a % 256 > c % 256) = ((a % 256 < 128) = (c % 256 < 128))) <=> a > c
<1>1. a % 256 = IF a < 0 THEN a + 256 ELSE a BY SMT
<1>2. c % 256 = IF c < 0 THEN c + 256 ELSE c BY SMT
<1> DEFINE x == a % 256
           y == c % 256
<1>3. x = IF a < 0 THEN a + 256 ELSE a BY <1>1
<1>4. y = IF c < 0 THEN c + 256 ELSE c BY <1>2
<1> HIDE DEF x, y
<1>5. ((x > y) <=> ((x < 128) <=> (y < 128))) <=> a > c BY <1>3, <1>4, SMT
<1>6. ((x < 128) = (y < 128)) <=> ((x < 128) <=> (y < 128)) BY SMT
<1>7. ((x > y) = ((x < 128) = (y < 128))) <=> ((x > y) <=> ((x < 128) <=> (y < 128)))
  BY <1>6, SMT
<1> QED BY <1>5, <1>7 DEF x, y

\* What a comparison returns of the first bytes that differ.
SignOf(a, c) ==
  IF (a % 256 > c % 256) = ((a % 256 < 128) = (c % 256 < 128)) THEN 1 ELSE -1

\* The sign of the first difference.
LEMMA ComparedDiffers ==
  ASSUME NEW x, NEW y, NEW m, NEW cs, NEW ct, NEW b,
         Shows(x, m, cs, b), Shows(y, m, ct, b), Alike(m, cs, ct, b),
         m[cs + b] # m[ct + b]
  PROVE  Compared(x, y) = Order(m[ct + b], m[cs + b])
<1> DEFINE X == Append(x, 0)
           Y == Append(y, 0)
           p == Len(x)
           q == Len(y)
<1>1. /\ x \in Seq(Char) /\ y \in Seq(Char) /\ b \in Nat /\ b <= p /\ b <= q
      /\ \A j \in 0 .. b : X[j + 1] = m[cs + j] /\ Y[j + 1] = m[ct + j]
  BY DEF Shows
<1>2. p \in Nat /\ q \in Nat BY <1>1, LenProperties
<1>3. X[b + 1] \in Char /\ Y[b + 1] \in Char
  <2>1. 0 \in Char BY MemoryAssumption
  <2>2. /\ X \in Seq(Char) /\ Len(X) = p + 1 /\ Y \in Seq(Char) /\ Len(Y) = q + 1
    BY <1>1, <2>1, AppendProperties
  <2>3. b + 1 \in 1 .. Len(X) /\ b + 1 \in 1 .. Len(Y) BY <1>1, <1>2, <2>2
  <2> HIDE DEF X, Y
  <2> QED BY <2>2, <2>3, ElementOfSeq
<1> DEFINE S == {j \in 1 .. p + 1 : j > q + 1 \/ X[j] # Y[j]}
           T == S \union {p + 2}
           i == Min(T)
<1>4. Compared(x, y) = IF i = p + 2 THEN 0 ELSE SignOf(X[i], Y[i])
  BY Zenon DEF Compared, SignOf
<1>5. X[b + 1] = m[cs + b] /\ Y[b + 1] = m[ct + b] BY <1>1
<1> HIDE DEF X, Y, p, q
<1>6. b + 1 \in S
  <2>1. b + 1 \in 1 .. p + 1 BY <1>1, <1>2
  <2> QED BY <1>5, <2>1
<1>7. ASSUME NEW j \in T PROVE b + 1 <= j
  <2>1. CASE j = p + 2 BY <1>1, <1>2, <2>1
  <2>2. CASE j \in S
    <3> SUFFICES ASSUME ~(b + 1 <= j) PROVE FALSE OBVIOUS
    <3>1. j \in 1 .. p + 1 /\ j \in 1 .. b BY <1>1, <1>2, <2>2
    <3>2. ~(j > q + 1) BY <1>1, <1>2, <3>1
    <3> DEFINE h == j - 1
    <3>3. h \in 0 .. b - 1 /\ h \in 0 .. b /\ h + 1 = j BY <1>1, <3>1
    <3> HIDE DEF h
    <3>4. X[h + 1] = Y[h + 1] BY <1>1, <3>3 DEF Alike
    <3> QED BY <2>2, <3>2, <3>3, <3>4
  <2> QED BY <2>1, <2>2
<1>8. T \subseteq Nat /\ b + 1 \in T BY <1>2, <1>6
<1> HIDE DEF S, T
<1>9. i = b + 1 BY <1>7, <1>8, TheLeast
<1> HIDE DEF i
<1>10. b + 1 # p + 2 BY <1>1, <1>2
<1>11. Compared(x, y) = SignOf(X[b + 1], Y[b + 1]) BY <1>4, <1>9, <1>10
<1> DEFINE a == X[b + 1]
           c == Y[b + 1]
<1>12. a \in -128 .. 127 /\ c \in -128 .. 127 /\ a # c BY <1>3, <1>5, MemoryAssumption
<1>13. a = m[cs + b] /\ c = m[ct + b] /\ Compared(x, y) = SignOf(a, c) BY <1>5, <1>11
<1> HIDE DEF a, c
<1>14. SignOf(a, c) = IF a > c THEN 1 ELSE -1
  <2>1. ((a % 256 > c % 256) = ((a % 256 < 128) = (c % 256 < 128))) <=> a > c
    BY <1>12, SignedOrder
  <2> QED BY <2>1, Zenon DEF SignOf
<1>15. a > c <=> c < a BY <1>12
<1> QED BY <1>13, <1>14, <1>15 DEF Order

\* Equal ones compare equal.
LEMMA ComparedSame ==
  ASSUME NEW x, NEW y, NEW m, NEW cs, NEW ct, NEW h, h \in Nat, cs \in Nat, ct \in Nat,
         IsText(Char, x, m, cs, h), IsText(Char, y, m, ct, h), Alike(m, cs, ct, h)
  PROVE  Compared(x, y) = 0
<1>1. /\ x \in Seq(Char) /\ Len(x) = h /\ y \in Seq(Char) /\ Len(y) = h
      /\ \A i \in 1 .. h : x[i] = m[cs + i - 1] /\ y[i] = m[ct + i - 1]
  BY DEF IsText
<1> DEFINE X == Append(x, 0)
           Y == Append(y, 0)
<1>2. /\ \A i \in 1 .. h : X[i] = x[i] /\ Y[i] = y[i]
      /\ X[h + 1] = 0 /\ Y[h + 1] = 0
  <2>1. 0 \in Char BY MemoryAssumption
  <2> QED BY <1>1, <2>1, AppendProperties
<1> DEFINE S == {j \in 1 .. h + 1 : j > h + 1 \/ X[j] # Y[j]}
           i == Min(S \union {h + 2})
<1>3. Compared(x, y) = IF i = h + 2 THEN 0 ELSE SignOf(X[i], Y[i])
  <2> DEFINE p == Len(x)
             q == Len(y)
             k == Min({j \in 1 .. p + 1 : j > q + 1 \/ X[j] # Y[j]} \union {p + 2})
  <2>1. Compared(x, y) = IF k = p + 2 THEN 0 ELSE SignOf(X[k], Y[k])
    BY Zenon DEF Compared, SignOf
  <2>2. p = h /\ q = h BY <1>1
  <2> HIDE DEF p, q, X, Y
  <2> QED BY <2>1, <2>2
<1> HIDE DEF X, Y
<1>4. ASSUME NEW j \in 1 .. h + 1 PROVE ~(j > h + 1 \/ X[j] # Y[j])
  <2>1. CASE j = h + 1 BY <1>2, <2>1
  <2>2. CASE j # h + 1
    <3> DEFINE k == j - 1
    <3>1. j \in 1 .. h /\ k \in 0 .. h - 1 /\ cs + j - 1 = cs + k /\ ct + j - 1 = ct + k
      BY <2>2
    <3> HIDE DEF k
    <3>2. m[cs + k] = m[ct + k] BY <3>1 DEF Alike
    <3>3. x[j] = m[cs + k] /\ y[j] = m[ct + k] BY <1>1, <3>1
    <3>4. X[j] = Y[j] BY <1>2, <3>1, <3>2, <3>3
    <3>5. ~(j > h + 1) BY <3>1
    <3> QED BY <3>4, <3>5
  <2> QED BY <2>1, <2>2
<1>5. S \union {h + 2} = {h + 2} BY <1>4
<1>6. i = h + 2
  <2> DEFINE z == h + 2
  <2>1. z \in Nat OBVIOUS
  <2> HIDE DEF S, z
  <2>2. {z} \subseteq Nat /\ z \in {z} /\ \A y1 \in {z} : z <= y1 BY <2>1
  <2>3. Min({z}) = z BY <2>2, TheLeast
  <2> QED BY <1>5, <2>3 DEF z
<1> QED BY <1>3, <1>6

\* Two places are the same so far, or there is a first difference.
LEMMA FirstDifference ==
  ASSUME NEW m, NEW cs, NEW ct, NEW n \in Nat
  PROVE  \/ Alike(m, cs, ct, n)
         \/ \E b \in 0 .. n - 1 : Alike(m, cs, ct, b) /\ m[cs + b] # m[ct + b]
<1> SUFFICES ASSUME ~Alike(m, cs, ct, n)
             PROVE  \E b \in 0 .. n - 1 : Alike(m, cs, ct, b) /\ m[cs + b] # m[ct + b]
  OBVIOUS
<1> DEFINE D == {b \in 0 .. n - 1 : m[cs + b] # m[ct + b]}
<1>1. D \subseteq Nat /\ D # {} BY DEF Alike
<1>2. \A b \in D : b \in 0 .. n - 1 /\ m[cs + b] # m[ct + b] OBVIOUS
<1>3. \A a \in 0 .. n - 1 : a \notin D => m[cs + a] = m[ct + a] OBVIOUS
<1> HIDE DEF D
<1>4. PICK b \in D : \A y \in D : b <= y BY <1>1, HasLeast
<1>5. Alike(m, cs, ct, b)
  <2> SUFFICES ASSUME NEW a \in 0 .. b - 1 PROVE m[cs + a] = m[ct + a] BY DEF Alike
  <2>1. a \in 0 .. n - 1 /\ ~(b <= a) BY <1>2
  <2> QED BY <1>3, <1>4, <2>1
<1> QED BY <1>2, <1>5

\* A string and its beginnings, with its 0 or without, as bytes of the memory.
LEMMA BeginningsAre ==
  ASSUME NEW m, NEW s, NEW v, NEW l, NEW h, Text(m, s, v, l), h \in 0 .. l + 1
  PROVE  /\ IsText(Char, v, m, s, l)
         /\ IsText(Char, SubSeq(Append(v, 0), 1, h), m, s, h)
         /\ h <= l => IsText(Char, SubSeq(v, 1, h), m, s, h)
<1>1. /\ s \in Nat /\ l \in Nat /\ m[s + l] = 0 /\ v \in Seq(Char) /\ Len(v) = l
      /\ \A i \in 1 .. l : v[i] = m[s + i - 1]
  BY TextFacts
<1>2. h \in Nat /\ h <= l + 1 BY <1>1
<1> DEFINE V == Append(v, 0)
<1>3. /\ V \in Seq(Char) /\ Len(V) = l + 1
      /\ \A i \in 1 .. l : V[i] = v[i]
      /\ V[l + 1] = 0
  <2>1. 0 \in Char BY MemoryAssumption
  <2> QED BY <1>1, <2>1, AppendProperties
<1> HIDE DEF V
<1>4. ASSUME NEW i \in 1 .. l + 1 PROVE V[i] = m[s + i - 1]
  <2>1. CASE i = l + 1
    <3>1. s + i - 1 = s + l BY <1>1, <2>1
    <3> QED BY <1>1, <1>3, <2>1, <3>1
  <2>2. CASE i # l + 1
    <3>1. i \in 1 .. l BY <1>1, <2>2
    <3> QED BY <1>1, <1>3, <3>1
  <2> QED BY <2>1, <2>2
<1>5. ASSUME NEW u, NEW n, u \in Seq(Char), n \in Nat, Len(u) = n, h <= n,
             \A i \in 1 .. n : u[i] = m[s + i - 1]
      PROVE  IsText(Char, SubSeq(u, 1, h), m, s, h)
  <2>1. \A j \in 1 .. h : j \in 1 .. n /\ j \in 1 .. Len(u) BY <1>2, <1>5
  <2>2. \A j \in 1 .. h : u[j] \in Char BY <1>5, <2>1, ElementOfSeq
  <2>3. /\ SubSeq(u, 1, h) \in Seq(Char)
        /\ Len(SubSeq(u, 1, h)) = IF 1 <= h THEN h - 1 + 1 ELSE 0
        /\ \A j \in 1 .. h - 1 + 1 : SubSeq(u, 1, h)[j] = u[1 + j - 1]
    BY <1>2, <2>2, SubSeqProperties
  <2>4. Len(SubSeq(u, 1, h)) = h BY <1>2, <2>3
  <2>5. \A j \in 1 .. h : SubSeq(u, 1, h)[j] = u[j]
    <3>1. \A j \in 1 .. h : j \in 1 .. h - 1 + 1 /\ 1 + j - 1 = j BY <1>2
    <3> QED BY <2>3, <3>1
  <2> QED BY <1>5, <2>1, <2>3, <2>4, <2>5 DEF IsText
<1>6. IsText(Char, v, m, s, l) BY <1>1 DEF IsText
<1>7. IsText(Char, SubSeq(V, 1, h), m, s, h)
  <2> DEFINE n == l + 1
  <2>1. n \in Nat /\ Len(V) = n /\ h <= n /\ \A i \in 1 .. n : V[i] = m[s + i - 1]
    BY <1>1, <1>2, <1>3, <1>4
  <2> HIDE DEF n
  <2> QED BY <1>3, <1>5, <2>1
<1>8. h <= l => IsText(Char, SubSeq(v, 1, h), m, s, h) BY <1>1, <1>5
<1> QED BY <1>6, <1>7, <1>8 DEF V

\* Two strings that are the same until the shorter one ends, with its 0, end there.
LEMMA SameLength ==
  ASSUME NEW m, NEW s, NEW v, NEW l, NEW ct, NEW w, NEW k, NEW p,
         Text(m, s, v, l), Text(m, ct, w, k), p = IF l <= k THEN l ELSE k,
         Alike(m, s, ct, p + 1)
  PROVE  l = p /\ k = p
<1>1. l \in Nat /\ m[s + l] = 0 /\ \A i \in 0 .. l - 1 : m[s + i] # 0
  BY TextFacts DEF Text, HasLength
<1>2. k \in Nat /\ m[ct + k] = 0 /\ \A i \in 0 .. k - 1 : m[ct + i] # 0
  BY TextFacts DEF Text, HasLength
<1>3. p \in 0 .. p + 1 - 1 /\ p \in Nat BY <1>1, <1>2
<1>4. m[s + p] = m[ct + p] BY <1>3 DEF Alike
<1>5. ~(l < k)
  <2> SUFFICES ASSUME l < k PROVE FALSE OBVIOUS
  <2>1. l \in 0 .. k - 1 /\ p = l BY <1>1, <1>2
  <2> QED BY <1>1, <1>2, <1>4, <2>1
<1>6. ~(k < l)
  <2> SUFFICES ASSUME k < l PROVE FALSE OBVIOUS
  <2>1. k \in 0 .. l - 1 /\ p = k BY <1>1, <1>2
  <2> QED BY <1>1, <1>2, <1>4, <2>1
<1> QED BY <1>1, <1>2, <1>5, <1>6

\* The bytes before the first difference of two strings are not 0.
LEMMA NoZeroBefore ==
  ASSUME NEW m, NEW ct, NEW w, NEW k, NEW b, Text(m, ct, w, k), b \in 0 .. k
  PROVE  NoZero(m, ct, b)
<1>1. k \in Nat /\ \A i \in 0 .. k - 1 : m[ct + i] # 0
  BY TextFacts DEF Text, HasLength
<1>2. \A a \in 0 .. b - 1 : a \in 0 .. k - 1 BY <1>1
<1> QED BY <1>1, <1>2 DEF NoZero

\* strncmp of more bytes than both strings have compares the strings, as strcmp does.
LEMMA StrncmpCompares ==
  ASSUME NEW m, NEW s, NEW v, NEW l, NEW ct, NEW w, NEW k, NEW n,
         Text(m, s, v, l), Text(m, ct, w, k), n \in Nat, l < n, k < n
  PROVE  strncmp(m, s, ct, n) = Compared(v, w)
<1>1. l \in Nat /\ s \in Nat /\ m[s + l] = 0 BY TextFacts
<1>2. k \in Nat /\ ct \in Nat /\ m[ct + k] = 0 BY TextFacts
<1>3. IsText(Char, v, m, s, l) /\ IsText(Char, w, m, ct, k)
  <2>1. 0 \in 0 .. l + 1 /\ 0 \in 0 .. k + 1 BY <1>1, <1>2
  <2> QED BY <2>1, BeginningsAre
<1> DEFINE p == IF l <= k THEN l ELSE k
           q == p + 1
<1>4. p \in Nat /\ q \in Nat /\ p <= l /\ p <= k /\ p < n BY <1>1, <1>2
<1>5. CASE Alike(m, s, ct, q)
  <2>1. l = p /\ k = p BY <1>5, SameLength
  <2>2. Alike(m, s, ct, l)
    <3>1. \A a \in 0 .. l - 1 : a \in 0 .. q - 1 BY <1>4, <2>1
    <3> HIDE DEF q
    <3> QED BY <1>5, <3>1 DEF Alike
  <2>3. Compared(v, w) = 0 BY <1>1, <1>2, <1>3, <2>1, <2>2, ComparedSame
  <2>4. NoZero(m, ct, l) /\ l \in 0 .. n
    <3>1. l \in 0 .. k BY <1>1, <2>1
    <3> QED BY <1>1, <3>1, NoZeroBefore
  <2>5. m[ct + l] = 0 /\ m[s + l] = m[ct + l] BY <1>1, <1>2, <2>1
  <2>6. strncmp(m, s, ct, n) = 0 BY <2>2, <2>4, <2>5, StrncmpEnds
  <2> QED BY <2>3, <2>6
<1>6. ASSUME NEW b \in 0 .. q - 1, Alike(m, s, ct, b), m[s + b] # m[ct + b]
      PROVE  strncmp(m, s, ct, n) = Compared(v, w)
  <2>0. b \in Nat /\ b <= p
    <3> HIDE DEF p
    <3> QED BY <1>4
  <2>1. b \in 0 .. l /\ b \in 0 .. k /\ b \in 0 .. n /\ b # n
    <3> HIDE DEF p
    <3> QED BY <1>1, <1>2, <1>4, <2>0
  <2>2. Shows(v, m, s, b) BY <1>1, <1>3, <2>1, TextShows
  <2>3. Shows(w, m, ct, b) BY <1>2, <1>3, <2>1, TextShows
  <2>4. Compared(v, w) = Order(m[ct + b], m[s + b]) BY <1>6, <2>2, <2>3, ComparedDiffers
  <2>5. NoZero(m, ct, b) BY <2>1, NoZeroBefore
  <2>6. strncmp(m, s, ct, n) = Order(m[ct + b], m[s + b]) BY <1>6, <2>1, <2>5, StrncmpEnds
  <2> QED BY <2>4, <2>6
<1> HIDE DEF q
<1> QED BY <1>4, <1>5, <1>6, FirstDifference

\* Of fewer bytes, it compares the beginnings, with the 0 of a string that ends.
LEMMA StrncmpComparesSome ==
  ASSUME NEW m, NEW s, NEW v, NEW l, NEW ct, NEW w, NEW k, NEW n,
         NEW x, NEW y, NEW hx, NEW hy,
         Text(m, s, v, l), Text(m, ct, w, k), n \in Nat, ~(l < n /\ k < n),
         hx = (IF n <= l + 1 THEN n ELSE l + 1), hy = (IF n <= k + 1 THEN n ELSE k + 1),
         IsText(Char, x, m, s, hx), IsText(Char, y, m, ct, hy)
  PROVE  strncmp(m, s, ct, n) = Compared(x, y)
<1>1. l \in Nat /\ s \in Nat /\ hx \in Nat BY TextFacts
<1>2. k \in Nat /\ ct \in Nat /\ hy \in Nat BY TextFacts
<1> DEFINE p == IF l <= k THEN l ELSE k
           q == IF n <= p THEN n ELSE p + 1
<1>3. p \in Nat /\ q \in Nat /\ p <= l /\ p <= k /\ q <= n /\ q <= p + 1 BY <1>1, <1>2
<1>4. CASE Alike(m, s, ct, q)
  <2>1. n <= p
    <3> SUFFICES ASSUME ~(n <= p) PROVE FALSE OBVIOUS
    <3>1. Alike(m, s, ct, p + 1) BY <1>4
    <3>2. l = p /\ k = p BY <3>1, SameLength
    <3> QED BY <1>1, <1>2, <3>2
  <2>2. hx = n /\ hy = n /\ q = n BY <1>1, <1>2, <1>3, <2>1
  <2>3. Compared(x, y) = 0 BY <1>1, <1>2, <1>4, <2>2, ComparedSame
  <2>4. n \in 0 .. k /\ n \in 0 .. n BY <1>1, <1>2, <1>3, <2>1
  <2>5. NoZero(m, ct, n) BY <2>4, NoZeroBefore
  <2>6. strncmp(m, s, ct, n) = 0 BY <1>4, <2>2, <2>4, <2>5, StrncmpEnds
  <2> QED BY <2>3, <2>6
<1>5. ASSUME NEW b \in 0 .. q - 1, Alike(m, s, ct, b), m[s + b] # m[ct + b]
      PROVE  strncmp(m, s, ct, n) = Compared(x, y)
  <2>0. b \in Nat /\ b < n /\ b <= l /\ b <= k
    <3>1. b \in 0 .. q - 1 OBVIOUS
    <3> HIDE DEF p, q
    <3> QED BY <1>1, <1>2, <1>3, <3>1
  <2>1. b \in 0 .. k /\ b \in 0 .. n /\ b # n /\ b \in 0 .. hx /\ b # hx /\ b \in 0 .. hy /\ b # hy
    BY <1>1, <1>2, <2>0
  <2>2. Shows(x, m, s, b) BY <1>1, <2>1, TextShows
  <2>3. Shows(y, m, ct, b) BY <1>2, <2>1, TextShows
  <2>4. Compared(x, y) = Order(m[ct + b], m[s + b]) BY <1>5, <2>2, <2>3, ComparedDiffers
  <2>5. NoZero(m, ct, b) BY <2>1, NoZeroBefore
  <2>6. strncmp(m, s, ct, n) = Order(m[ct + b], m[s + b]) BY <1>5, <2>1, <2>5, StrncmpEnds
  <2> QED BY <2>4, <2>6
<1> HIDE DEF q
<1> QED BY <1>3, <1>4, <1>5, FirstDifference

\* memcmp compares as many bytes of each.
LEMMA MemcmpCompares ==
  ASSUME NEW m, NEW s, NEW ct, NEW n, NEW x, NEW y,
         n \in Nat \ {0}, s \in Nat, ct \in Nat,
         IsText(Char, x, m, s, n), IsText(Char, y, m, ct, n)
  PROVE  memcmp(m, s, ct, n) = Compared(x, y)
<1>1. CASE Alike(m, s, ct, n)
  <2>1. Compared(x, y) = 0 BY <1>1, ComparedSame
  <2> DEFINE b == n - 1
  <2>2. b \in 0 .. n - 1 /\ \A a \in 0 .. b - 1 : a \in 0 .. n - 1 OBVIOUS
  <2>3. Alike(m, s, ct, b) /\ m[s + b] = m[ct + b] BY <1>1, <2>2 DEF Alike
  <2>5. b = n - 1 OBVIOUS
  <2> HIDE DEF b
  <2>4. memcmp(m, s, ct, n) = 0 BY <2>2, <2>3, <2>5, MemcmpEnds
  <2> QED BY <2>1, <2>4
<1>2. ASSUME NEW b \in 0 .. n - 1, Alike(m, s, ct, b), m[s + b] # m[ct + b]
      PROVE  memcmp(m, s, ct, n) = Compared(x, y)
  <2>1. b \in 0 .. n /\ b # n OBVIOUS
  <2>2. Shows(x, m, s, b) BY <2>1, TextShows
  <2>3. Shows(y, m, ct, b) BY <2>1, TextShows
  <2>4. Compared(x, y) = Order(m[ct + b], m[s + b]) BY <1>2, <2>2, <2>3, ComparedDiffers
  <2>5. memcmp(m, s, ct, n) = Order(m[ct + b], m[s + b]) BY <1>2, MemcmpEnds
  <2> QED BY <2>4, <2>5
<1> QED BY <1>1, <1>2, FirstDifference

\* The last place of a text with a property: its place, or there is none.
LEMMA LastPlace ==
  ASSUME NEW l \in Nat, NEW C, C \subseteq 1 .. l, C # {}
  PROVE  \E i \in C : \A j \in i + 1 .. l : j \notin C
<1> DEFINE D == {d \in 0 .. l : l - d \in C}
<1>1. D # {}
  <2>1. PICK i \in C : TRUE OBVIOUS
  <2>2. i \in 1 .. l OBVIOUS
  <2>3. l - i \in 0 .. l /\ l - (l - i) = i BY <2>2
  <2> QED BY <2>3
<1>2. D \subseteq Nat /\ \A d \in D : d \in 0 .. l /\ l - d \in C OBVIOUS
<1>3. \A j \in C : l - j \in D
  <2> SUFFICES ASSUME NEW j \in C PROVE l - j \in D OBVIOUS
  <2>1. j \in 1 .. l OBVIOUS
  <2>2. l - j \in 0 .. l /\ l - (l - j) = j BY <2>1
  <2> QED BY <2>2
<1> HIDE DEF D
<1>4. PICK d \in D : \A y \in D : d <= y BY <1>1, <1>2, HasLeast
<1> DEFINE i == l - d
<1>5. i \in C /\ i \in 1 .. l /\ d \in 0 .. l BY <1>2
<1>6. ASSUME NEW j \in i + 1 .. l, j \in C PROVE FALSE
  <2>1. j \in 1 .. l /\ l - j \in D BY <1>3, <1>6
  <2>2. d <= l - j BY <1>4, <2>1
  <2>3. d \in Nat BY <1>5
  <2> QED BY <1>6, <2>1, <2>2, <2>3
<1> HIDE DEF i
<1> QED BY <1>5, <1>6

\* strrchr finds the last c.
LEMMA StrrchrFinds ==
  ASSUME NEW m, NEW s, NEW v, NEW l, NEW c, Text(m, s, v, l), c # 0
  PROVE  strrchr(m, s, c) =
           FirstOf(s, v, {i \in 1 .. l : v[i] = c /\ \A j \in i + 1 .. l : v[j] # c})
<1>1. /\ s \in Nat /\ l \in Nat /\ 1 <= s /\ s + l <= Size /\ Size \in Nat
      /\ strlen(m, s) = l /\ m[s + l] = 0 /\ Len(v) = l
      /\ \A i \in 1 .. l : v[i] = m[s + i - 1] /\ v[i] # 0
  BY TextFacts
<1> DEFINE lo == s - 1
           X(f) == f = [a \in s - 1 .. Size |->
                         IF a < s THEN NULL ELSE IF m[a] = c THEN a ELSE f[a - 1]]
           g == CHOOSE f : X(f)
           stop == {a \in lo .. Size : a < s \/ m[a] = c}
           val == [a \in lo .. Size |-> IF a < s THEN NULL ELSE a]
           C == {i \in 1 .. l : v[i] = c}
           S == {i \in 1 .. l : v[i] = c /\ \A j \in i + 1 .. l : v[j] # c}
           k == Min({l + 1} \union S)
           x == s + l
<1>2. strrchr(m, s, c) = g[x] BY <1>1 DEF strrchr
<1>3. \A f : IsLoopDown(f, lo, Size, stop, val) <=> X(f)
  <2>1. \A f, a : a \in lo .. Size =>
          (IF a \in stop THEN val[a] ELSE f[a - 1]) =
            (IF a < s THEN NULL ELSE IF m[a] = c THEN a ELSE f[a - 1])
    <3> HIDE DEF lo
    <3> QED OBVIOUS
  <2> HIDE DEF stop, val
  <2>2. \A f : [a \in lo .. Size |-> IF a \in stop THEN val[a] ELSE f[a - 1]] =
               [a \in lo .. Size |->
                  IF a < s THEN NULL ELSE IF m[a] = c THEN a ELSE f[a - 1]]
    BY <2>1
  <2> QED BY <2>2 DEF IsLoopDown
<1>4. lo \in Nat /\ lo \in stop /\ x \in lo .. Size /\ lo < s BY <1>1
<1>5. \A a \in s .. x : a \in lo .. Size /\ (a \in stop <=> m[a] = c) /\ val[a] = a
  <2> SUFFICES ASSUME NEW a \in s .. x
               PROVE  a \in lo .. Size /\ (a \in stop <=> m[a] = c) /\ val[a] = a
    OBVIOUS
  <2>1. a \in lo .. Size /\ ~(a < s) BY <1>1
  <2> QED BY <2>1
<1>6. val[lo] = NULL BY <1>1, <1>4
<1>7. S \subseteq 1 .. l OBVIOUS
<1>8. \A i \in S : v[i] = c /\ \A j \in i + 1 .. l : v[j] # c OBVIOUS
<1>9. \A i \in 1 .. l : v[i] = c /\ (\A j \in i + 1 .. l : v[j] # c) => i \in S OBVIOUS
<1>10. \A a \in s .. x : \/ a = x /\ m[a] # c
                         \/ a - s + 1 \in 1 .. l /\ m[a] = v[a - s + 1]
  <2> SUFFICES ASSUME NEW a \in s .. x, a # x
               PROVE  a - s + 1 \in 1 .. l /\ m[a] = v[a - s + 1]
    BY <1>1
  <2> DEFINE i == a - s + 1
  <2>1. i \in 1 .. l /\ s + i - 1 = a BY <1>1
  <2> HIDE DEF i
  <2>2. m[a] = v[i] BY <1>1, <2>1
  <2> QED BY <2>1, <2>2 DEF i
<1> HIDE DEF stop, val, S, X, lo
<1>11. \E f : IsLoopDown(f, lo, Size, stop, val) BY <1>1, <1>4, LoopDownExists
<1>12. IsLoopDown(g, lo, Size, stop, val)
  <2>1. \E f : X(f) BY <1>3, <1>11
  <2>2. X(g) BY <2>1
  <2> HIDE DEF g
  <2> QED BY <1>3, <2>2
<1> HIDE DEF g
<1>13. k \in 1 .. l + 1 /\ (k # l + 1 => k \in S) BY <1>1, <1>7, FirstPlace
<1>14. CASE k # l + 1
  <2> HIDE DEF k
  <2>1. k \in S /\ k \in 1 .. l BY <1>7, <1>13, <1>14
  <2> DEFINE b == s + k - 1
  <2>2. b \in s .. x /\ b \in lo .. x /\ m[b] = c
    <3>1. b \in s .. x /\ b \in Nat BY <1>1, <2>1
    <3>2. b \in lo .. x BY <1>1, <1>4, <3>1 DEF lo
    <3>3. m[b] = c BY <1>1, <1>8, <2>1
    <3> QED BY <3>1, <3>2, <3>3
  <2>3. ASSUME NEW a \in b + 1 .. x PROVE a \notin stop
    <3>1. a \in s .. x BY <1>1, <2>1
    <3>2. m[a] # c
      <4> SUFFICES ASSUME a # x PROVE m[a] # c BY <1>1
      <4> DEFINE j == a - s + 1
      <4>1. j \in 1 .. l /\ m[a] = v[j] BY <1>10, <3>1
      <4>2. j \in k + 1 .. l BY <1>1, <2>1, <4>1
      <4> HIDE DEF j
      <4> QED BY <1>8, <2>1, <4>1, <4>2
    <3> QED BY <1>5, <3>1, <3>2
  <2>4. b \in stop /\ val[b] = b BY <1>5, <2>2
  <2>5. PlaceOf(s, v, k) = b BY <1>1, <2>1 DEF PlaceOf
  <2> HIDE DEF b, x
  <2>6. Ends(g, x, val, b) BY <1>1, <1>4, <1>12, <2>2, <2>3, <2>4, LoopDownEnds
  <2> QED BY <1>1, <1>2, <2>4, <2>5, <2>6 DEF Ends, FirstOf, k, S
<1>15. CASE k = l + 1
  <2>1. S = {}
    <3> SUFFICES ASSUME NEW i \in S PROVE FALSE OBVIOUS
    <3> DEFINE T == {l + 1} \union S
    <3>1. T \subseteq Nat /\ T # {} /\ i \in T /\ i \in 1 .. l BY <1>1, <1>7
    <3>3. k = Min(T) OBVIOUS
    <3> HIDE DEF T, k
    <3>2. k <= i BY <3>1, <3>3, MinIsLeast
    <3> QED BY <1>1, <1>15, <3>1, <3>2
  <2>2. C = {}
    <3> SUFFICES ASSUME C # {} PROVE FALSE OBVIOUS
    <3>1. C \subseteq 1 .. l /\ \A i \in 1 .. l : i \in C <=> v[i] = c OBVIOUS
    <3> HIDE DEF C
    <3>2. PICK i \in C : \A j \in i + 1 .. l : j \notin C BY <1>1, <3>1, LastPlace
    <3>3. i \in 1 .. l /\ v[i] = c BY <3>1
    <3>4. \A j \in i + 1 .. l : v[j] # c
      <4>1. \A j \in i + 1 .. l : j \in 1 .. l BY <1>1, <3>3
      <4> QED BY <3>1, <3>2, <4>1
    <3> QED BY <1>9, <2>1, <3>3, <3>4
  <2>3. ASSUME NEW a \in lo + 1 .. x PROVE a \notin stop
    <3>1. a \in s .. x BY <1>1 DEF lo
    <3>2. m[a] # c BY <1>10, <2>2, <3>1
    <3> QED BY <1>5, <3>1, <3>2
  <2>4. lo \in lo .. x BY <1>1, <1>4
  <2>5. PlaceOf(s, v, k) = NULL BY <1>1, <1>15 DEF PlaceOf
  <2> HIDE DEF x, k
  <2>6. Ends(g, x, val, lo) BY <1>1, <1>4, <1>12, <2>3, <2>4, LoopDownEnds
  <2> QED BY <1>1, <1>2, <1>6, <2>5, <2>6 DEF Ends, FirstOf, k, S
<1> QED BY <1>14, <1>15

\* memchr finds what strchr does, in the bytes it looks at.
LEMMA MemchrFinds ==
  ASSUME NEW m, NEW s, NEW v, NEW l, NEW c, NEW n, Text(m, s, v, l), n \in 1 .. l
  PROVE  memchr(m, s, c, n) =
           IF c \in {v[i] : i \in 1 .. n} THEN strchr(m, s, c) ELSE NULL
<1>1. /\ s \in Nat /\ l \in Nat /\ Len(v) = l
      /\ \A i \in 1 .. l : v[i] = m[s + i - 1] /\ v[i] # 0
  BY TextFacts
<1> DEFINE b == Scas(m, s, c, n)
<1>2. n \in Nat /\ n <= l BY <1>1
<1>3. /\ b \in 0 .. n /\ (b < n => m[s + b] = c)
      /\ \A i \in 0 .. n - 1 : m[s + i] = c => b <= i
  BY <1>2, ScasIs
<1>4. memchr(m, s, c, n) = IF b = n THEN NULL ELSE s + b BY DEF memchr
<1> HIDE DEF b
<1>5. ASSUME NEW i \in 1 .. n, v[i] = c PROVE b < i
  <2> DEFINE j == i - 1
  <2>1. j \in 0 .. n - 1 /\ s + i - 1 = s + j /\ i \in 1 .. l BY <1>1, <1>2
  <2> HIDE DEF j
  <2>2. m[s + j] = c BY <1>1, <1>5, <2>1
  <2>3. b <= j BY <1>3, <2>1, <2>2
  <2> QED BY <1>3, <2>3 DEF j
<1>6. CASE b = n
  <2>1. c \notin {v[i] : i \in 1 .. n} BY <1>2, <1>5, <1>6
  <2> QED BY <1>4, <1>6, <2>1
<1>7. CASE b # n
  <2> DEFINE k == b + 1
             S == {i \in 1 .. l : v[i] = c}
             T == {Len(v) + 1} \union S
  <2>1. k \in 1 .. n /\ k \in 1 .. l /\ s + k - 1 = s + b /\ b < n BY <1>1, <1>2, <1>3, <1>7
  <2>2. v[k] = c BY <1>1, <1>3, <2>1
  <2>3. c # 0 BY <1>1, <2>1, <2>2
  <2>4. strchr(m, s, c) = PlaceOf(s, v, Min(T)) BY <2>3, StrchrFinds DEF FirstOf
  <2>5. T \subseteq Nat /\ k \in T BY <1>1, <2>1, <2>2
  <2>6. ASSUME NEW y \in T PROVE k <= y
    <3>1. CASE y = Len(v) + 1 BY <1>1, <2>1, <3>1
    <3>2. CASE y \in S
      <4>1. CASE y \in 1 .. n
        <5>1. b < y BY <1>5, <3>2, <4>1
        <5> QED BY <1>3, <4>1, <5>1
      <4>2. CASE y \notin 1 .. n
        <5>1. y \in 1 .. l BY <3>2
        <5> QED BY <1>2, <2>1, <4>2, <5>1
      <4> QED BY <4>1, <4>2
    <3> QED BY <3>1, <3>2
  <2> HIDE DEF T
  <2>7. Min(T) = k BY <2>5, <2>6, TheLeast
  <2>8. PlaceOf(s, v, k) = s + b BY <1>1, <2>1 DEF PlaceOf
  <2>9. c \in {v[i] : i \in 1 .. n} BY <2>1, <2>2
  <2> QED BY <1>4, <1>7, <2>4, <2>7, <2>8, <2>9
<1> QED BY <1>6, <1>7

\* The searches return the first or last place, or the length of a prefix, that C
\* says, of empty strings, too, and of a pattern whose beginning occurs before it
\* does; the comparisons return 0 for the same bytes, as C says, and otherwise
\* C's sign exactly if the first bytes that differ are both below 128 or both
\* above (string.h 88-273, 368-398).
THEOREM SearchesAreExactCorrect == StringsSpec => []SearchesAreExact
<1>1. BytesAreBytes => SearchesAreExact
  <2> SUFFICES ASSUME BytesAreBytes, NEW s \in Address, IsString(mem, s)
      PROVE
        LET v == StringAt(mem, s)
        IN  /\ \A n \in 1 .. Len(v), c \in Char :
                 memchr(mem, s, c, n) =
                   IF c \in {v[i] : i \in 1 .. n} THEN strchr(mem, s, c) ELSE NULL
            /\ \A c \in Char \ {0} :
                 /\ strchr(mem, s, c) = PlaceOf(s, v, FirstIn(v, LAMBDA i : v[i] = c))
                 /\ strrchr(mem, s, c) =
                      PlaceOf(s, v, FirstIn(v, LAMBDA i : v[i] = c
                        /\ \A j \in i + 1 .. Len(v) : v[j] # c))
            /\ \A ct \in {a \in Address : IsString(mem, a)} :
                 LET w  == StringAt(mem, ct)
                     of == {w[i] : i \in DOMAIN w}
                 IN  /\ strspn(mem, s, ct) = FirstIn(v, LAMBDA i : v[i] \notin of) - 1
                     /\ strcspn(mem, s, ct) = FirstIn(v, LAMBDA i : v[i] \in of) - 1
                     /\ strpbrk(mem, s, ct) =
                          PlaceOf(s, v, FirstIn(v, LAMBDA i : v[i] \in of))
                     /\ strstr(mem, s, ct) = IF w = <<>> THEN s ELSE
                          PlaceOf(s, v, FirstIn(v, LAMBDA i :
                            IsPrefix(w, SubSeq(v, i, Len(v)))))
                     /\ strcmp(mem, s, ct) = Compared(v, w)
                     /\ \A n \in 1 .. Min({Len(v), Len(w)}) :
                          memcmp(mem, s, ct, n) = Compared(SubSeq(v, 1, n), SubSeq(w, 1, n))
                     /\ \A n \in 0 .. Size : strncmp(mem, s, ct, n) =
                          IF Len(v) < n /\ Len(w) < n THEN Compared(v, w)
                          ELSE Compared(SubSeq(Append(v, 0), 1, Min({n, Len(v) + 1})),
                                        SubSeq(Append(w, 0), 1, Min({n, Len(w) + 1})))
    BY DEF SearchesAreExact
  <2> DEFINE v == StringAt(mem, s)
             l == strlen(mem, s)
  <2>1. Text(mem, s, v, l) BY StrlenIs DEF Text, BytesAreBytes
  <2> HIDE DEF v, l
  <2>2. /\ s \in Nat /\ l \in Nat /\ 1 <= s /\ s + l <= Size /\ Size \in Nat
        /\ Len(v) = l /\ DOMAIN v = 1 .. l /\ v \in Seq(Char)
    BY <2>1, TextFacts
  <2>3. ASSUME NEW n \in 1 .. Len(v), NEW c \in Char
        PROVE  memchr(mem, s, c, n) =
                 IF c \in {v[i] : i \in 1 .. n} THEN strchr(mem, s, c) ELSE NULL
    BY <2>1, <2>2, MemchrFinds
  <2>4. ASSUME NEW c \in Char \ {0}
        PROVE  strchr(mem, s, c) = PlaceOf(s, v, FirstIn(v, LAMBDA i : v[i] = c))
    <3>1. strchr(mem, s, c) = FirstOf(s, v, {i \in 1 .. l : v[i] = c})
      BY <2>1, StrchrFinds
    <3> QED BY <2>2, <3>1 DEF FirstOf, FirstIn
  <2>5. ASSUME NEW c \in Char \ {0}
        PROVE  strrchr(mem, s, c) =
                 PlaceOf(s, v, FirstIn(v, LAMBDA i : v[i] = c
                   /\ \A j \in i + 1 .. Len(v) : v[j] # c))
    <3>1. strrchr(mem, s, c) =
            FirstOf(s, v, {i \in 1 .. l : v[i] = c /\ \A j \in i + 1 .. l : v[j] # c})
      BY <2>1, StrrchrFinds
    <3> QED BY <2>2, <3>1 DEF FirstOf, FirstIn
  <2>6. ASSUME NEW ct \in Address, IsString(mem, ct)
        PROVE
          LET w  == StringAt(mem, ct)
              of == {w[i] : i \in DOMAIN w}
          IN  /\ strspn(mem, s, ct) = FirstIn(v, LAMBDA i : v[i] \notin of) - 1
              /\ strcspn(mem, s, ct) = FirstIn(v, LAMBDA i : v[i] \in of) - 1
              /\ strpbrk(mem, s, ct) =
                   PlaceOf(s, v, FirstIn(v, LAMBDA i : v[i] \in of))
              /\ strstr(mem, s, ct) = IF w = <<>> THEN s ELSE
                   PlaceOf(s, v, FirstIn(v, LAMBDA i :
                     IsPrefix(w, SubSeq(v, i, Len(v)))))
              /\ strcmp(mem, s, ct) = Compared(v, w)
              /\ \A n \in 1 .. Min({Len(v), Len(w)}) :
                   memcmp(mem, s, ct, n) = Compared(SubSeq(v, 1, n), SubSeq(w, 1, n))
              /\ \A n \in 0 .. Size : strncmp(mem, s, ct, n) =
                   IF Len(v) < n /\ Len(w) < n THEN Compared(v, w)
                   ELSE Compared(SubSeq(Append(v, 0), 1, Min({n, Len(v) + 1})),
                                 SubSeq(Append(w, 0), 1, Min({n, Len(w) + 1})))
    <3> DEFINE w == StringAt(mem, ct)
               k == strlen(mem, ct)
    <3>1. Text(mem, ct, w, k) BY <2>6, StrlenIs DEF Text, BytesAreBytes
    <3> HIDE DEF w, k
    <3>2. /\ ct \in Nat /\ k \in Nat /\ 1 <= ct /\ ct + k <= Size
          /\ Len(w) = k /\ DOMAIN w = 1 .. k /\ w \in Seq(Char)
      BY <3>1, TextFacts
    <3> DEFINE of == {w[i] : i \in DOMAIN w}
    <3>3. of = Set(mem, ct) /\ 0 \notin of BY <3>1, SetIs
    <3> HIDE DEF of
    <3>4. strspn(mem, s, ct) = FirstIn(v, LAMBDA i : v[i] \notin of) - 1
      <4>1. strspn(mem, s, ct) = Min({l + 1} \union {i \in 1 .. l : v[i] \notin of}) - 1
        BY <2>1, <3>3, StrspnFinds
      <4> QED BY <2>2, <4>1 DEF FirstIn
    <3>5. strcspn(mem, s, ct) = FirstIn(v, LAMBDA i : v[i] \in of) - 1
      <4>1. strcspn(mem, s, ct) = Min({l + 1} \union {i \in 1 .. l : v[i] \in of}) - 1
        BY <2>1, <3>3, StrcspnFinds
      <4> QED BY <2>2, <4>1 DEF FirstIn
    <3>6. strpbrk(mem, s, ct) = PlaceOf(s, v, FirstIn(v, LAMBDA i : v[i] \in of))
      <4>1. strpbrk(mem, s, ct) = FirstOf(s, v, {i \in 1 .. l : v[i] \in of})
        BY <2>1, <3>3, StrpbrkFinds
      <4> QED BY <2>2, <4>1 DEF FirstOf, FirstIn
    <3>7. strstr(mem, s, ct) = IF w = <<>> THEN s ELSE
            PlaceOf(s, v, FirstIn(v, LAMBDA i : IsPrefix(w, SubSeq(v, i, Len(v)))))
      <4>1. strstr(mem, s, ct) = IF k = 0 THEN s
                                 ELSE FirstOf(s, v, {i \in 1 .. l : Occurs(v, i, w, l, k)})
        BY <2>1, <3>1, StrstrFinds
      <4>2. w = <<>> <=> k = 0 BY <3>2, EmptySeq
      <4>3. ASSUME k # 0
            PROVE  {i \in 1 .. l : Occurs(v, i, w, l, k)}
                     = {i \in DOMAIN v : IsPrefix(w, SubSeq(v, i, Len(v)))}
        <5>1. ASSUME NEW i \in 1 .. l
              PROVE  Occurs(v, i, w, l, k) <=> IsPrefix(w, SubSeq(v, i, Len(v)))
          BY <2>2, <3>2, <4>3, PrefixIs
        <5> QED BY <2>2, <5>1
      <4> QED BY <2>2, <4>1, <4>2, <4>3 DEF FirstOf, FirstIn
    <3>8. strcmp(mem, s, ct) = Compared(v, w)
      <4>1. l < Size /\ k < Size BY <2>2, <3>2
      <4>2. strncmp(mem, s, ct, Size) = Compared(v, w)
        BY <2>1, <2>2, <3>1, <4>1, StrncmpCompares
      <4> QED BY <4>2 DEF strcmp
    <3>9. ASSUME NEW n \in 1 .. Min({Len(v), Len(w)})
          PROVE  memcmp(mem, s, ct, n) = Compared(SubSeq(v, 1, n), SubSeq(w, 1, n))
      <4>1. n \in Nat \ {0} /\ n <= l /\ n <= k
        <5>1. Min({l, k}) = IF l <= k THEN l ELSE k BY <2>2, <3>2, MinOfTwo
        <5> QED BY <2>2, <3>2, <5>1
      <4>2. n \in 0 .. l + 1 /\ n \in 0 .. k + 1 BY <2>2, <3>2, <4>1
      <4>3. IsText(Char, SubSeq(v, 1, n), mem, s, n) BY <2>1, <4>1, <4>2, BeginningsAre
      <4>4. IsText(Char, SubSeq(w, 1, n), mem, ct, n) BY <3>1, <4>1, <4>2, BeginningsAre
      <4> QED BY <2>2, <3>2, <4>1, <4>3, <4>4, MemcmpCompares
    <3>10. ASSUME NEW n \in 0 .. Size
           PROVE  strncmp(mem, s, ct, n) =
                    IF Len(v) < n /\ Len(w) < n THEN Compared(v, w)
                    ELSE Compared(SubSeq(Append(v, 0), 1, Min({n, Len(v) + 1})),
                                  SubSeq(Append(w, 0), 1, Min({n, Len(w) + 1})))
      <4>1. n \in Nat BY <2>2
      <4>2. CASE l < n /\ k < n
        BY <2>1, <2>2, <3>1, <3>2, <4>1, <4>2, StrncmpCompares
      <4>3. CASE ~(l < n /\ k < n)
        <5> DEFINE hx == Min({n, l + 1})
                   hy == Min({n, k + 1})
        <5>1. hx = (IF n <= l + 1 THEN n ELSE l + 1) /\ hy = (IF n <= k + 1 THEN n ELSE k + 1)
          <6>1. l + 1 \in Nat /\ k + 1 \in Nat BY <2>2, <3>2
          <6> QED BY <4>1, <6>1, MinOfTwo
        <5> HIDE DEF hx, hy
        <5>2. hx \in 0 .. l + 1 /\ hy \in 0 .. k + 1 BY <2>2, <3>2, <4>1, <5>1
        <5> DEFINE x == SubSeq(Append(v, 0), 1, hx)
                   y == SubSeq(Append(w, 0), 1, hy)
        <5>3. IsText(Char, x, mem, s, hx) BY <2>1, <5>2, BeginningsAre
        <5>4. IsText(Char, y, mem, ct, hy) BY <3>1, <5>2, BeginningsAre
        <5> HIDE DEF x, y
        <5>5. strncmp(mem, s, ct, n) = Compared(x, y)
          BY <2>1, <3>1, <4>1, <4>3, <5>1, <5>3, <5>4, StrncmpComparesSome
        <5>6. ~(Len(v) < n /\ Len(w) < n) BY <2>2, <3>2, <4>3
        <5> QED BY <2>2, <3>2, <5>5, <5>6 DEF x, y, hx, hy
      <4> QED BY <4>2, <4>3
    <3> QED BY <3>4, <3>5, <3>6, <3>7, <3>8, <3>9, <3>10 DEF w, of
  <2> QED BY <2>3, <2>4, <2>5, <2>6 DEF v
<1> QED BY <1>1, AlwaysBytes, PTL

-----------------------------------------------------------------------------
(* strtok.                                                                 *)

\* The string w at s lies in the memory as it was from its place n on.
Unread(m, s, w, n) ==
  /\ m \in [Address -> Char]
  /\ w \in Seq(Char) /\ \A i \in 1 .. Len(w) : w[i] # 0
  /\ s \in Nat /\ 1 <= s /\ s + Len(w) <= Size /\ m[s + Len(w)] = 0
  /\ n \in 1 .. Len(w) + 1
  /\ \A i \in n .. Len(w) : m[s + i - 1] = w[i]

\* What is left of it is a string.
Left(m, s, n) == StringAt(m, s + n - 1)

LEMMA LeftIsText ==
  ASSUME NEW m, NEW s, NEW w, NEW n, Unread(m, s, w, n)
  PROVE  /\ Text(m, s + n - 1, Left(m, s, n), Len(w) + 1 - n)
         /\ \A i \in 1 .. Len(w) + 1 - n : Left(m, s, n)[i] = w[n + i - 1]
<1> DEFINE L == Len(w)
           a == s + n - 1
           l == L + 1 - n
<1>1. /\ s \in Nat /\ L \in Nat /\ n \in Nat /\ 1 <= s /\ s + L <= Size /\ Size \in Nat
      /\ 1 <= n /\ n <= L + 1 /\ m[s + L] = 0 /\ m \in [Address -> Char]
      /\ \A i \in 1 .. L : w[i] # 0
      /\ \A i \in n .. L : m[s + i - 1] = w[i]
  <2>1. L \in Nat BY LenProperties DEF Unread
  <2> QED BY <2>1, MemoryAssumption DEF Unread
<1> HIDE DEF L
<1>2. l \in Nat /\ a \in Nat /\ 1 <= a /\ a <= Size /\ a + l = s + L BY <1>1
<1>3. ASSUME NEW i \in 1 .. l PROVE m[a + i - 1] = w[n + i - 1] /\ w[n + i - 1] # 0
  <2> DEFINE j == n + i - 1
  <2>1. j \in n .. L /\ j \in 1 .. L /\ s + j - 1 = a + i - 1 BY <1>1
  <2> HIDE DEF j, a
  <2>2. m[s + j - 1] = w[j] /\ w[j] # 0 BY <1>1, <2>1
  <2> QED BY <2>1, <2>2 DEF j
<1>4. HasLength(m, a, l)
  <2>1. ASSUME NEW i \in 0 .. l - 1 PROVE m[a + i] # 0
    <3> DEFINE j == i + 1
    <3>1. j \in 1 .. l /\ a + j - 1 = a + i BY <1>2
    <3> HIDE DEF j, a, l
    <3>2. m[a + j - 1] # 0 BY <1>3, <3>1
    <3> QED BY <3>1, <3>2
  <2>2. m[a + l] = 0 BY <1>1, <1>2
  <2>3. a \in Address BY <1>1, <1>2 DEF Address
  <2>4. a + l <= Size BY <1>1, <1>2
  <2> HIDE DEF a, l
  <2> QED BY <1>2, <2>1, <2>2, <2>3, <2>4 DEF HasLength
<1>5. Text(m, a, Left(m, s, n), l)
  <2>1. Left(m, s, n) = StringAt(m, a) BY DEF Left
  <2> HIDE DEF a, l
  <2> QED BY <1>1, <1>4, <2>1 DEF Text
<1>6. \A i \in 1 .. l : Left(m, s, n)[i] = w[n + i - 1]
  <2> HIDE DEF a, l
  <2>1. \A i \in 1 .. l : Left(m, s, n)[i] = m[a + i - 1] BY <1>5, TextFacts
  <2> QED BY <1>3, <2>1
<1> QED BY <1>5, <1>6 DEF L

\* Where the delimiters, or the characters of a token, that begin at n end.
Ended(w, of, n, p) ==
  /\ p \in n .. Len(w) + 1
  /\ \A i \in n .. p - 1 : w[i] \in of
  /\ p # Len(w) + 1 => w[p] \notin of

LEMMA PassedFrom ==
  ASSUME NEW w, NEW n, NEW u, NEW k, NEW set, NEW of, NEW l,
         l \in Nat, n \in Nat, Len(w) \in Nat, n + l = Len(w) + 1,
         \A i \in 1 .. l : u[i] = w[n + i - 1],
         set \subseteq 1 .. l, \A i \in 1 .. l : i \in set <=> u[i] \notin of,
         k = Min({l + 1} \union set)
  PROVE  k \in Nat /\ Ended(w, of, n, n + k - 1)
<1> DEFINE L == Len(w)
<1>1. L \in Nat /\ n + l = L + 1 OBVIOUS
<1>5. k \in 1 .. l + 1 /\ (k # l + 1 => k \in set) /\ \A i \in 1 .. k - 1 : i \notin set
  BY FirstPlace
<1> HIDE DEF L
<1> DEFINE p == n + k - 1
<1>6. k \in Nat /\ p \in n .. L + 1 /\ (p # L + 1 => k # l + 1) BY <1>1, <1>5
<1>7. ASSUME NEW i \in n .. p - 1 PROVE w[i] \in of
  <2> DEFINE j == i - n + 1
  <2>1. j \in 1 .. k - 1 /\ j \in 1 .. l /\ n + j - 1 = i BY <1>1, <1>5
  <2> HIDE DEF j, p
  <2> QED BY <1>5, <2>1
<1>8. p # L + 1 => w[p] \notin of
  <2> SUFFICES ASSUME p # L + 1 PROVE w[p] \notin of OBVIOUS
  <2>1. k \in set /\ k \in 1 .. l BY <1>5, <1>6
  <2> QED BY <2>1
<1> QED BY <1>6, <1>7, <1>8 DEF Ended, L

\* strspn and strcspn, from there.
LEMMA SpansFrom ==
  ASSUME NEW m, NEW s, NEW w, NEW n, NEW ct, NEW of,
         Unread(m, s, w, n), of = Set(m, ct), 0 \notin of
  PROVE  \E k \in Nat : /\ strspn(m, s + n - 1, ct) = k - 1
                        /\ Ended(w, of, n, n + k - 1)
<1> DEFINE L == Len(w)
           u == Left(m, s, n)
           l == L + 1 - n
           a == s + n - 1
           set == {i \in 1 .. l : u[i] \notin of}
           k == Min({l + 1} \union set)
<1>1. Text(m, a, u, l) /\ \A i \in 1 .. l : u[i] = w[n + i - 1] BY LeftIsText
<1>2. L \in Nat /\ n \in 1 .. L + 1 BY LenProperties DEF Unread
<1> HIDE DEF u
<1>3. k \in Nat /\ Ended(w, of, n, n + k - 1)
  <2>1. l \in Nat /\ n \in Nat /\ Len(w) \in Nat /\ n + l = Len(w) + 1 BY <1>2
  <2>2. set \subseteq 1 .. l /\ \A i \in 1 .. l : i \in set <=> u[i] \notin of OBVIOUS
  <2> HIDE DEF l, L, set
  <2> QED BY <1>1, <2>1, <2>2, PassedFrom
<1> HIDE DEF l, a
<1>4. strspn(m, a, ct) = k - 1 BY <1>1, StrspnFinds
<1> QED BY <1>3, <1>4 DEF a

LEMMA OthersFrom ==
  ASSUME NEW m, NEW s, NEW w, NEW n, NEW ct, NEW of,
         Unread(m, s, w, n), of = Set(m, ct)
  PROVE  \E k \in Nat : /\ strcspn(m, s + n - 1, ct) = k - 1
                        /\ Ended(w, Char \ of, n, n + k - 1)
<1> DEFINE L == Len(w)
           u == Left(m, s, n)
           l == L + 1 - n
           a == s + n - 1
           set == {i \in 1 .. l : u[i] \in of}
           k == Min({l + 1} \union set)
<1>1. Text(m, a, u, l) /\ \A i \in 1 .. l : u[i] = w[n + i - 1] BY LeftIsText
<1>2. L \in Nat /\ n \in 1 .. L + 1 BY LenProperties DEF Unread
<1> HIDE DEF u
<1>3. set = {i \in 1 .. l : u[i] \notin Char \ of}
  <2> HIDE DEF l, a
  <2>1. \A i \in 1 .. l : u[i] \in Char BY <1>1, TextFacts
  <2> QED BY <2>1
<1>4. k \in Nat /\ Ended(w, Char \ of, n, n + k - 1)
  <2> DEFINE rest == Char \ of
  <2>1. l \in Nat /\ n \in Nat /\ Len(w) \in Nat /\ n + l = Len(w) + 1 BY <1>2
  <2>2. set \subseteq 1 .. l /\ \A i \in 1 .. l : i \in set <=> u[i] \notin rest
    BY <1>3
  <2> HIDE DEF l, L, set, rest
  <2>3. k \in Nat /\ Ended(w, rest, n, n + k - 1) BY <1>1, <2>1, <2>2, PassedFrom
  <2> QED BY <2>3 DEF rest
<1> HIDE DEF l, a
<1>5. strcspn(m, a, ct) = k - 1 BY <1>1, StrcspnFinds
<1> QED BY <1>4, <1>5 DEF a

\* A 0 behind a token.
Cut(m, s, q) == [m EXCEPT ![s + q - 1] = 0]

\* What strtok returns: the token from p to q, if there is one.
TokenIs(t, m, s, w, n, of) ==
  \E p : /\ Ended(w, of, n, p)
         /\ p = Len(w) + 1 => t = Token(NULL, NULL, m)
         /\ p # Len(w) + 1 =>
              \E q : /\ Ended(w, Char \ of, p, q)
                     /\ q = Len(w) + 1 => t = Token(s + p - 1, NULL, m)
                     /\ q # Len(w) + 1 =>
                          t = Token(s + p - 1, s + q, Cut(m, s, q))

LEMMA StrtokIs ==
  ASSUME NEW m, NEW s, NEW w, NEW n, NEW ct, NEW of, NEW x, NEW y,
         Unread(m, s, w, n), IsString(m, ct), of = Set(m, ct), of # {},
         (IF x # NULL THEN x ELSE y) = s + n - 1
  PROVE  TokenIs(strtok(m, x, ct, y), m, s, w, n, of)
<1> DEFINE L == Len(w)
           from == IF x # NULL THEN x ELSE y
           start == from + strspn(m, from, ct)
           end == start + strcspn(m, start, ct)
           t == strtok(m, x, ct, y)
<1>1. /\ s \in Nat /\ L \in Nat /\ n \in Nat /\ 1 <= s /\ s + L <= Size /\ Size \in Nat
      /\ 1 <= n /\ n <= L + 1 /\ m[s + L] = 0
      /\ \A i \in 1 .. L : w[i] # 0
      /\ \A i \in n .. L : m[s + i - 1] = w[i]
  <2>1. L \in Nat BY LenProperties DEF Unread
  <2> QED BY <2>1, MemoryAssumption DEF Unread
<1>2. t = IF from = NULL \/ of = {} \/ m[start] = 0 THEN Token(NULL, NULL, m)
          ELSE IF m[end] = 0 THEN Token(start, NULL, m)
          ELSE Token(start, end + 1, [m EXCEPT ![end] = 0])
  BY DEF strtok
<1>3. from = s + n - 1 OBVIOUS
<1>4. from # NULL BY <1>1, <1>3 DEF NULL
<1>5. 0 \notin of
  <2>1. Text(m, ct, StringAt(m, ct), strlen(m, ct))
    <3>1. HasLength(m, ct, strlen(m, ct)) BY StrlenIs
    <3> QED BY <3>1 DEF Text, Unread
  <2> QED BY <2>1, SetIs
<1>6. PICK k \in Nat : strspn(m, s + n - 1, ct) = k - 1 /\ Ended(w, of, n, n + k - 1)
  BY <1>5, SpansFrom
<1> DEFINE p == n + k - 1
<1>7. start = s + p - 1
  <2>1. start = s + n - 1 + (k - 1) BY <1>3, <1>6
  <2> HIDE DEF start
  <2> QED BY <1>1, <2>1
<1>8. p \in n .. L + 1 /\ p \in Nat /\ p >= 1
  <2>1. p \in n .. L + 1 BY <1>6 DEF Ended
  <2> HIDE DEF p, L
  <2> QED BY <1>1, <2>1
<1>9. Ended(w, of, n, p) BY <1>6
<1> HIDE DEF L, from, start, t, p
<1>10. ASSUME NEW i \in n .. L + 1 PROVE m[s + i - 1] = 0 <=> i = L + 1
  <2>1. CASE i = L + 1
    <3>1. s + i - 1 = s + L BY <1>1, <2>1
    <3> QED BY <1>1, <2>1, <3>1
  <2>2. CASE i # L + 1
    <3>1. i \in n .. L /\ i \in 1 .. L BY <1>1, <2>2
    <3> QED BY <1>1, <2>2, <3>1
  <2> QED BY <2>1, <2>2
<1>11. ASSUME p = L + 1 PROVE t = Token(NULL, NULL, m)
  <2>1. m[start] = 0 BY <1>7, <1>8, <1>10, <1>11
  <2> QED BY <1>2, <2>1
<1>12. ASSUME p # L + 1
       PROVE  \E q : /\ Ended(w, Char \ of, p, q)
                     /\ q = L + 1 => t = Token(s + p - 1, NULL, m)
                     /\ q # L + 1 =>
                          t = Token(s + p - 1, s + q, [m EXCEPT ![s + q - 1] = 0])
  <2>1. Unread(m, s, w, p)
    <3>1. \A i \in p .. L : i \in n .. L BY <1>1, <1>8
    <3>2. p \in 1 .. L + 1 BY <1>1, <1>8
    <3> QED BY <1>1, <3>1, <3>2 DEF Unread, L
  <2>2. PICK j \in Nat : strcspn(m, s + p - 1, ct) = j - 1 /\ Ended(w, Char \ of, p, p + j - 1)
    BY <2>1, OthersFrom
  <2> DEFINE q == p + j - 1
  <2>3. end = s + q - 1
    <3>1. end = s + p - 1 + (j - 1) BY <1>7, <2>2
    <3> HIDE DEF end
    <3> QED BY <1>1, <1>8, <3>1
  <2>4. q \in n .. L + 1 /\ q \in Nat
    <3>1. q \in p .. L + 1 BY <2>2 DEF Ended, L
    <3> HIDE DEF q
    <3> QED BY <1>1, <1>8, <3>1
  <2>5. Ended(w, Char \ of, p, q) BY <2>2
  <2> HIDE DEF end, q
  <2>6. m[start] # 0 BY <1>7, <1>8, <1>10, <1>12
  <2>7. t = IF m[end] = 0 THEN Token(start, NULL, m)
            ELSE Token(start, end + 1, [m EXCEPT ![end] = 0])
    BY <1>2, <1>4, <2>6
  <2>8. m[end] = 0 <=> q = L + 1 BY <1>10, <2>3, <2>4
  <2>9. end + 1 = s + q BY <1>1, <2>3, <2>4
  <2>10. q = L + 1 => t = Token(s + p - 1, NULL, m) BY <1>7, <2>7, <2>8
  <2>11. q # L + 1 => t = Token(s + p - 1, s + q, [m EXCEPT ![s + q - 1] = 0])
    BY <1>7, <2>3, <2>7, <2>8, <2>9
  <2> QED BY <2>5, <2>10, <2>11
<1>13. \E h : /\ Ended(w, of, n, h)
              /\ h = L + 1 => t = Token(NULL, NULL, m)
              /\ h # L + 1 =>
                   \E q : /\ Ended(w, Char \ of, h, q)
                          /\ q = L + 1 => t = Token(s + h - 1, NULL, m)
                          /\ q # L + 1 =>
                               t = Token(s + h - 1, s + q, [m EXCEPT ![s + q - 1] = 0])
  BY <1>9, <1>11, <1>12
<1> QED BY <1>13 DEF TokenIs, Cut, L, t

\* The longest parts of a text without a delimiter.
RunsOf(w, of) ==
  {r \in (1 .. Len(w)) \X (1 .. Len(w)) :
     /\ r[1] + r[2] - 1 <= Len(w)
     /\ \A i \in r[1] .. r[1] + r[2] - 1 : w[i] \notin of
     /\ r[1] = 1 \/ w[r[1] - 1] \in of
     /\ r[1] + r[2] > Len(w) \/ w[r[1] + r[2]] \in of}

RunsBefore(w, of, n) == {r \in RunsOf(w, of) : r[1] < n}

OneMoreRun(w, of, n, N, p, q) ==
  /\ RunsBefore(w, of, N) = RunsBefore(w, of, n) \union {<<p, q - p>>}
  /\ <<p, q - p>> \in RunsOf(w, of)

\* After a token there is one more of them, and after none there are no more.
LEMMA RunsGrow ==
  ASSUME NEW w, NEW of, NEW n, NEW p, NEW q, NEW N,
         w \in Seq(Char), n \in 1 .. Len(w) + 1, n = 1 \/ w[n - 1] \in of,
         Ended(w, of, n, p), p # Len(w) + 1, Ended(w, Char \ of, p, q),
         N = (IF q = Len(w) + 1 THEN q ELSE q + 1)
  PROVE  OneMoreRun(w, of, n, N, p, q)
<1> DEFINE L == Len(w)
           run == <<p, q - p>>
<1>1. L \in Nat /\ \A i \in 1 .. L : w[i] \in Char
  BY LenProperties, ElementOfSeq
<1>2. /\ n \in Nat /\ 1 <= n /\ p \in n .. L + 1 /\ \A i \in n .. p - 1 : w[i] \in of
      /\ p # L + 1 => w[p] \notin of
  BY <1>1 DEF Ended
<1>3. /\ q \in p .. L + 1 /\ \A i \in p .. q - 1 : w[i] \in Char \ of
      /\ q # L + 1 => w[q] \notin Char \ of
  BY DEF Ended
<1> HIDE DEF L
<1>4. p \in Nat /\ q \in Nat /\ n <= p /\ p <= L /\ p <= q /\ q <= L + 1 BY <1>1, <1>2, <1>3 DEF L
<1>5. p < q
  <2> SUFFICES ASSUME p = q PROVE FALSE BY <1>4
  <2>1. p \in 1 .. L /\ q # L + 1 BY <1>1, <1>2, <1>4
  <2> QED BY <1>1, <1>2, <1>3, <2>1
<1>6. q # L + 1 => w[q] \in of /\ q \in 1 .. L
  <2> SUFFICES ASSUME q # L + 1 PROVE w[q] \in of /\ q \in 1 .. L OBVIOUS
  <2>1. q \in 1 .. L BY <1>1, <1>2, <1>4
  <2> QED BY <1>1, <1>3, <2>1
<1>7. p = 1 \/ w[p - 1] \in of
  <2>1. CASE p = n BY <2>1
  <2>2. CASE p # n
    <3>1. p - 1 \in n .. p - 1 BY <1>2, <1>4, <2>2
    <3> QED BY <1>2, <3>1
  <2> QED BY <2>1, <2>2
<1>8. run \in RunsOf(w, of)
  <2>1. p \in 1 .. L /\ q - p \in 1 .. L BY <1>1, <1>2, <1>4, <1>5
  <2>2. run[1] = p /\ run[2] = q - p OBVIOUS
  <2>3. p + (q - p) = q /\ p + (q - p) - 1 = q - 1 /\ q - 1 <= L BY <1>1, <1>4
  <2>4. \A i \in p .. q - 1 : w[i] \notin of BY <1>3
  <2>5. q > L \/ w[q] \in of BY <1>1, <1>4, <1>6
  <2>6. run \in (1 .. L) \X (1 .. L) BY <2>1
  <2> HIDE DEF run
  <2>7. run[1] + run[2] = q /\ run[1] + run[2] - 1 = q - 1 BY <2>2, <2>3
  <2> QED BY <1>7, <2>2, <2>3, <2>4, <2>5, <2>6, <2>7 DEF RunsOf, L
<1>9. ASSUME NEW r \in RunsOf(w, of)
      PROVE  /\ r[1] \in 1 .. L /\ r[2] \in 1 .. L /\ r = <<r[1], r[2]>>
             /\ r[1] + r[2] - 1 <= L
             /\ \A i \in r[1] .. r[1] + r[2] - 1 : w[i] \notin of
             /\ r[1] = 1 \/ w[r[1] - 1] \in of
             /\ r[1] + r[2] > L \/ w[r[1] + r[2]] \in of
  BY <1>9 DEF RunsOf, L
<1>10. ASSUME NEW r \in RunsOf(w, of), n <= r[1], r[1] <= q PROVE r = run
  <2> DEFINE a == r[1]
             l == r[2]
             e == a + l
  <2>1. /\ a \in 1 .. L /\ l \in 1 .. L /\ r = <<a, l>> /\ a + l - 1 <= L
        /\ \A i \in a .. a + l - 1 : w[i] \notin of
        /\ a = 1 \/ w[a - 1] \in of
        /\ a + l > L \/ w[a + l] \in of
    BY <1>9
  <2> HIDE DEF a, l
  <2>2. w[a] \notin of
    <3>1. a \in a .. a + l - 1 BY <2>1
    <3> QED BY <2>1, <3>1
  <2>3. a >= n /\ a <= q BY <1>10 DEF a
  <2>4. ~(a < p)
    <3> SUFFICES ASSUME a < p PROVE FALSE OBVIOUS
    <3>1. a \in n .. p - 1 BY <1>2, <1>4, <2>1, <2>3
    <3> QED BY <1>2, <2>2, <3>1
  <2>5. ~(a > p)
    <3> SUFFICES ASSUME a > p PROVE FALSE OBVIOUS
    <3>1. a - 1 \in p .. q - 1 /\ a # 1 BY <1>2, <1>4, <2>1, <2>3
    <3> QED BY <1>3, <2>1, <3>1
  <2>6. a = p BY <1>4, <2>1, <2>4, <2>5
  <2>7. e \in Nat /\ e <= L + 1 /\ a < e /\ (e > L \/ w[e] \in of)
        /\ \A i \in a .. e - 1 : w[i] \notin of
    BY <1>1, <2>1
  <2> HIDE DEF e
  <2>8. ~(e < q)
    <3> SUFFICES ASSUME e < q PROVE FALSE OBVIOUS
    <3>1. e \in p .. q - 1 /\ ~(e > L) BY <1>1, <1>4, <2>6, <2>7
    <3> QED BY <1>3, <2>7, <3>1
  <2>9. ~(e > q)
    <3> SUFFICES ASSUME e > q PROVE FALSE OBVIOUS
    <3>1. q \in a .. e - 1 /\ q # L + 1 BY <1>1, <1>4, <1>5, <2>6, <2>7
    <3> QED BY <1>6, <2>7, <3>1
  <2>10. l = q - p BY <1>4, <2>1, <2>6, <2>7, <2>8, <2>9 DEF e
  <2> QED BY <2>1, <2>6, <2>10
<1>11. run[1] = p OBVIOUS
<1> HIDE DEF run
<1>12. N \in Nat /\ n < N /\ p < N /\ (\A a \in Nat : a < N /\ a <= L => a <= q)
  BY <1>1, <1>2, <1>4, <1>5 DEF L
<1>13. ASSUME NEW r \in RunsBefore(w, of, N) PROVE r \in RunsBefore(w, of, n) \union {run}
  <2>1. r \in RunsOf(w, of) /\ r[1] < N BY DEF RunsBefore
  <2>2. r[1] \in Nat /\ r[1] <= L BY <1>1, <1>9, <2>1
  <2>3. CASE r[1] < n BY <2>1, <2>3 DEF RunsBefore
  <2>4. CASE ~(r[1] < n)
    <3>1. n <= r[1] /\ r[1] <= q BY <1>2, <1>12, <2>1, <2>2, <2>4
    <3> QED BY <1>10, <2>1, <3>1
  <2> QED BY <2>3, <2>4
<1>14. ASSUME NEW r \in RunsBefore(w, of, n) \union {run} PROVE r \in RunsBefore(w, of, N)
  <2>1. CASE r \in RunsBefore(w, of, n)
    <3>1. r \in RunsOf(w, of) /\ r[1] < n BY <2>1 DEF RunsBefore
    <3>2. r[1] \in Nat BY <1>9, <3>1
    <3>3. r[1] < N BY <1>2, <1>12, <3>1, <3>2
    <3> QED BY <3>1, <3>3 DEF RunsBefore
  <2>2. CASE r = run BY <1>8, <1>11, <1>12, <2>2 DEF RunsBefore
  <2> QED BY <2>1, <2>2
<1> QED BY <1>8, <1>13, <1>14 DEF run, OneMoreRun

LEMMA RunsEnd ==
  ASSUME NEW w, NEW of, NEW n, w \in Seq(Char), n \in 1 .. Len(w) + 1,
         Ended(w, of, n, Len(w) + 1)
  PROVE  RunsBefore(w, of, n) = RunsBefore(w, of, Len(w) + 1)
<1> DEFINE L == Len(w)
<1>1. L \in Nat /\ n \in Nat /\ n <= L + 1 BY LenProperties
<1>2. \A i \in n .. L : w[i] \in of
  <2>1. L + 1 - 1 = L BY <1>1
  <2> QED BY <2>1 DEF Ended
<1>3. ASSUME NEW r \in RunsOf(w, of) PROVE r[1] < n /\ r[1] < L + 1
  <2> DEFINE a == r[1]
             l == r[2]
  <2>1. a \in 1 .. L /\ l \in 1 .. L /\ \A i \in a .. a + l - 1 : w[i] \notin of
    BY DEF RunsOf
  <2> HIDE DEF a, l, L
  <2>2. a \in a .. a + l - 1 BY <2>1
  <2>3. ~(a \in n .. L) BY <1>2, <2>1, <2>2
  <2>4. a < n /\ a < L + 1 BY <1>1, <2>1, <2>3
  <2> QED BY <2>4 DEF a
<1> QED BY <1>3 DEF RunsBefore

\* A token is appended: places stay in order.
Listed(tk, w, of, n) ==
  /\ tk \in Seq(Nat \X Nat)
  /\ Range(tk) = RunsBefore(w, of, n)
  /\ \A i, j \in DOMAIN tk : i < j => tk[i][1] < tk[j][1]

LEMMA ListedGrows ==
  ASSUME NEW tk, NEW w, NEW of, NEW n, NEW p, NEW k, NEW N,
         Listed(tk, w, of, n), n \in Nat, p \in Nat, k \in Nat, n <= p,
         RunsBefore(w, of, N) = RunsBefore(w, of, n) \union {<<p, k>>}
  PROVE  Listed(Append(tk, <<p, k>>), w, of, N)
<1> DEFINE l == Len(tk)
           run == <<p, k>>
           tk2 == Append(tk, run)
<1>1. tk \in Seq(Nat \X Nat) /\ l \in Nat /\ DOMAIN tk = 1 .. l
  BY LenProperties DEF Listed
<1>2. run \in Nat \X Nat /\ run[1] = p OBVIOUS
<1> HIDE DEF run
<1>3. /\ tk2 \in Seq(Nat \X Nat) /\ Len(tk2) = l + 1
      /\ \A i \in 1 .. l : tk2[i] = tk[i]
      /\ tk2[l + 1] = run
  BY <1>1, <1>2, AppendProperties
<1>4. DOMAIN tk2 = 1 .. l + 1 BY <1>3, LenProperties
<1> HIDE DEF tk2, l
<1>5. \A i \in 1 .. l + 1 : i \in 1 .. l \/ i = l + 1 BY <1>1
<1>6. Range(tk2) = Range(tk) \union {run}
  <2>1. \A i \in 1 .. l : i \in 1 .. l + 1 BY <1>1
  <2>2. l + 1 \in 1 .. l + 1 BY <1>1
  <2>3. ASSUME NEW x \in Range(tk2) PROVE x \in Range(tk) \union {run}
    BY <1>1, <1>3, <1>4, <1>5 DEF Range
  <2>4. ASSUME NEW x \in Range(tk) \union {run} PROVE x \in Range(tk2)
    <3>1. CASE x \in Range(tk)
      <4>1. PICK i \in 1 .. l : x = tk[i] BY <1>1, <3>1 DEF Range
      <4> QED BY <1>3, <1>4, <2>1, <4>1 DEF Range
    <3>2. CASE x = run BY <1>3, <1>4, <2>2, <3>2 DEF Range
    <3> QED BY <3>1, <3>2
  <2> QED BY <2>3, <2>4
<1>7. ASSUME NEW i \in 1 .. l + 1, NEW j \in 1 .. l + 1, i < j
      PROVE  tk2[i][1] < tk2[j][1]
  <2>1. i \in 1 .. l BY <1>1, <1>7
  <2>2. CASE j \in 1 .. l BY <1>1, <1>3, <1>7, <2>1, <2>2 DEF Listed
  <2>3. CASE j = l + 1
    <3>1. tk[i] \in RunsBefore(w, of, n) BY <1>1, <2>1 DEF Listed, Range
    <3>2. tk[i][1] < n BY <3>1 DEF RunsBefore
    <3>3. tk[i][1] \in Nat
      <4>1. tk[i] \in Nat \X Nat BY <1>1, <2>1, ElementOfSeq DEF l
      <4> QED BY <4>1
    <3>4. tk[i][1] < p BY <3>2, <3>3
    <3> QED BY <1>2, <1>3, <2>1, <2>3, <3>4
  <2> QED BY <1>5, <2>2, <2>3
<1> QED BY <1>3, <1>4, <1>6, <1>7 DEF Listed, tk2, run

\* The string that is taken apart and the delimiters are there, apart.
TakenApart(m, s, ct, w) ==
  /\ m \in [Address -> Char]
  /\ w \in Seq(Char) /\ \A i \in 1 .. Len(w) : w[i] # 0
  /\ s \in Nat /\ 1 <= s /\ s + Len(w) <= Size /\ m[s + Len(w)] = 0
  /\ IsString(m, ct)
  /\ Apart(s, Len(w) + 1, ct, strlen(m, ct) + 1)

\* A 0 in the string leaves the delimiters.
LEMMA CutLeavesDelimiters ==
  ASSUME NEW m, NEW s, NEW ct, NEW w, NEW q,
         TakenApart(m, s, ct, w), q \in 1 .. Len(w)
  PROVE  TakenApart(Cut(m, s, q), s, ct, w) /\ Set(Cut(m, s, q), ct) = Set(m, ct)
<1> DEFINE L == Len(w)
           a == s + q - 1
           r == [m EXCEPT ![a] = 0]
           k == strlen(m, ct)
<1>1. /\ m \in [Address -> Char] /\ s \in Nat /\ 1 <= s /\ s + L <= Size /\ L \in Nat
      /\ m[s + L] = 0 /\ Size \in Nat /\ 0 \in Char
  <2>1. L \in Nat BY LenProperties DEF TakenApart
  <2> QED BY <2>1, MemoryAssumption DEF TakenApart
<1>2. HasLength(m, ct, k) BY StrlenIs DEF TakenApart
<1> HIDE DEF k
<1>3. /\ ct \in Nat /\ k \in Nat /\ ct + k <= Size /\ ct \in Address
      /\ m[ct + k] = 0 /\ \A i \in 0 .. k - 1 : m[ct + i] # 0
  BY <1>1, <1>2 DEF HasLength, Address
<1>4. s + (L + 1) <= ct \/ ct + (k + 1) <= s BY DEF TakenApart, Apart, L, k
<1> HIDE DEF L
<1>5. q \in 1 .. L BY DEF L
<1>6. a \in Nat /\ s <= a /\ a < s + L /\ a \in Address BY <1>1, <1>5 DEF Address
<1> HIDE DEF a
<1>7. r \in [Address -> Char] /\ \A b \in Address : b # a => r[b] = m[b] BY <1>1
<1> HIDE DEF r
<1>8. ASSUME NEW i \in 0 .. k PROVE r[ct + i] = m[ct + i]
  <2>1. ct + i \in Address BY <1>1, <1>3 DEF Address
  <2>2. ct + i # a BY <1>1, <1>3, <1>4, <1>6
  <2> QED BY <1>7, <2>1, <2>2
<1>9. HasLength(r, ct, k)
  <2>1. k \in 0 .. k /\ \A i \in 0 .. k - 1 : i \in 0 .. k BY <1>3
  <2> QED BY <1>3, <1>8, <2>1 DEF HasLength
<1>10. IsString(r, ct) /\ strlen(r, ct) = k BY <1>9, LengthIsStrlen
<1>11. Set(r, ct) = Set(m, ct)
  <2>1. \A i \in 0 .. k - 1 : r[ct + i] = m[ct + i]
    <3>1. \A i \in 0 .. k - 1 : i \in 0 .. k BY <1>3
    <3> QED BY <1>8, <3>1
  <2>2. Set(r, ct) = {r[ct + i] : i \in 0 .. k - 1} BY <1>10 DEF Set
  <2>3. Set(m, ct) = {m[ct + i] : i \in 0 .. k - 1} BY DEF Set, k
  <2> QED BY <2>1, <2>2, <2>3
<1>12. r[s + L] = 0
  <2>1. s + L \in Address /\ s + L # a BY <1>1, <1>6 DEF Address
  <2> QED BY <1>1, <1>7, <2>1
<1>13. TakenApart(r, s, ct, w)
  <2>1. /\ w \in Seq(Char) /\ (\A i \in 1 .. L : w[i] # 0)
        /\ Apart(s, L + 1, ct, k + 1)
    BY DEF TakenApart, L, k
  <2>2. /\ r \in [Address -> Char] /\ s \in Nat /\ 1 <= s /\ s + L <= Size
        /\ r[s + L] = 0 /\ IsString(r, ct) /\ Apart(s, L + 1, ct, strlen(r, ct) + 1)
    BY <1>1, <1>7, <1>10, <1>12, <2>1
  <2> QED BY <2>1, <2>2 DEF TakenApart, L
<1> QED BY <1>11, <1>13 DEF r, a, Cut, k

\* What is known between two calls: which runs were returned, and that behind
\* the last delimiter the string is as it was; "saved" is ___strtok.
BetweenCalls(m, saved, s, ct, w, tk, over) ==
  /\ TakenApart(m, s, ct, w)
  /\ Set(m, ct) = {} => over
  /\ Set(m, ct) # {} =>
       \E n \in 1 .. Len(w) + 1 :
         /\ Listed(tk, w, Set(m, ct), n)
         /\ \/ saved = NULL /\ n = Len(w) + 1
            \/ /\ saved = s + n - 1 /\ ~over
               /\ Unread(m, s, w, n) /\ w[n - 1] \in Set(m, ct)

\* A call that goes on at the place n makes it so.
LEMMA TokenTaken ==
  ASSUME NEW m, NEW s, NEW ct, NEW w, NEW n, NEW x, NEW y, NEW tk, NEW t,
         TakenApart(m, s, ct, w), Set(m, ct) # {},
         Unread(m, s, w, n), n = 1 \/ w[n - 1] \in Set(m, ct),
         Listed(tk, w, Set(m, ct), n),
         (IF x # NULL THEN x ELSE y) = s + n - 1,
         t = strtok(m, x, ct, y)
  PROVE  BetweenCalls(t.mem, t.save, s, ct, w,
           IF t.res = NULL THEN tk
           ELSE Append(tk, <<t.res - s + 1, strlen(t.mem, t.res)>>), t.res = NULL)
<1> DEFINE of == Set(m, ct)
           L == Len(w)
           tk2 == IF t.res = NULL THEN tk
                  ELSE Append(tk, <<t.res - s + 1, strlen(t.mem, t.res)>>)
<1>1. /\ s \in Nat /\ L \in Nat /\ 1 <= s /\ s + L <= Size /\ Size \in Nat
      /\ m \in [Address -> Char] /\ m[s + L] = 0 /\ n \in 1 .. L + 1 /\ w \in Seq(Char)
      /\ \A i \in 1 .. L : w[i] # 0
      /\ \A i \in n .. L : m[s + i - 1] = w[i]
  <2>1. L \in Nat BY LenProperties DEF Unread
  <2> QED BY <2>1, MemoryAssumption DEF Unread
<1>2. IsString(m, ct) BY DEF TakenApart
<1> HIDE DEF of
<1>3. PICK p : /\ Ended(w, of, n, p)
               /\ p = L + 1 => t = Token(NULL, NULL, m)
               /\ p # L + 1 =>
                    \E q : /\ Ended(w, Char \ of, p, q)
                           /\ q = L + 1 => t = Token(s + p - 1, NULL, m)
                           /\ q # L + 1 =>
                                t = Token(s + p - 1, s + q, Cut(m, s, q))
  <2>1. of = Set(m, ct) /\ of # {} BY DEF of
  <2>2. TokenIs(t, m, s, w, n, of) BY <1>2, <2>1, StrtokIs
  <2> QED BY <2>2 DEF TokenIs
<1>4. CASE p = L + 1
  <2>1. t.mem = m /\ t.save = NULL /\ t.res = NULL BY <1>3, <1>4 DEF Token
  <2>2. Listed(tk, w, of, n) BY DEF of
  <2>3. RunsBefore(w, of, n) = RunsBefore(w, of, L + 1) BY <1>1, <1>3, <1>4, RunsEnd
  <2>4. Listed(tk, w, of, L + 1) BY <2>2, <2>3 DEF Listed
  <2>5. L + 1 \in 1 .. L + 1 BY <1>1
  <2> QED BY <2>1, <2>4, <2>5 DEF BetweenCalls, of
<1>5. CASE p # L + 1
  <2>1. PICK q : /\ Ended(w, Char \ of, p, q)
                 /\ q = L + 1 => t = Token(s + p - 1, NULL, m)
                 /\ q # L + 1 =>
                      t = Token(s + p - 1, s + q, Cut(m, s, q))
    BY <1>3, <1>5
  <2> DEFINE N == IF q = L + 1 THEN q ELSE q + 1
  <2>2. /\ RunsBefore(w, of, N) = RunsBefore(w, of, n) \union {<<p, q - p>>}
        /\ <<p, q - p>> \in RunsOf(w, of)
    <3>1. n = 1 \/ w[n - 1] \in of BY DEF of
    <3>2. w \in Seq(Char) /\ n \in 1 .. Len(w) + 1 /\ p # Len(w) + 1 BY <1>1, <1>5
    <3>3. N = IF q = Len(w) + 1 THEN q ELSE q + 1 OBVIOUS
    <3> HIDE DEF N, L
    <3>4. Ended(w, of, n, p) /\ Ended(w, Char \ of, p, q) BY <1>3, <2>1
    <3> HIDE DEF of
    <3>5. OneMoreRun(w, of, n, N, p, q) BY <3>1, <3>2, <3>3, <3>4, RunsGrow
    <3> QED BY <3>5 DEF OneMoreRun
  <2>3. /\ p \in n .. L + 1 /\ q \in p .. L + 1
        /\ \A i \in p .. q - 1 : w[i] \notin of
        /\ q # L + 1 => w[q] \notin Char \ of
    BY <1>3, <2>1 DEF Ended
  <2>4. n \in Nat /\ p \in Nat /\ q \in Nat /\ 1 <= n /\ n <= p /\ p <= L /\ p <= q /\ q <= L + 1
    BY <1>1, <1>5, <2>3
  <2>5. q - p \in Nat BY <2>4
  <2>6. Listed(Append(tk, <<p, q - p>>), w, of, N)
    <3> DEFINE k == q - p
    <3>1. Listed(tk, w, of, n) BY DEF of
    <3>2. RunsBefore(w, of, N) = RunsBefore(w, of, n) \union {<<p, k>>} BY <2>2
    <3>3. k \in Nat BY <2>5
    <3> HIDE DEF k, N
    <3>4. Listed(Append(tk, <<p, k>>), w, of, N) BY <2>4, <3>1, <3>2, <3>3, ListedGrows
    <3> QED BY <3>4 DEF k
  <2> DEFINE a == s + p - 1
  <2>7. a \in Nat /\ a # NULL /\ a - s + 1 = p /\ a \in Address
    BY <1>1, <2>4 DEF NULL, Address
  <2>8. Unread(m, s, w, p)
    <3>1. \A i \in p .. L : i \in n .. L BY <1>1, <2>4
    <3>2. p \in 1 .. L + 1 BY <1>1, <2>4
    <3> QED BY <1>1, <3>1, <3>2 DEF Unread
  <2>9. CASE q = L + 1
    <3>1. t.mem = m /\ t.save = NULL /\ t.res = a BY <2>1, <2>9 DEF Token
    <3> DEFINE k == q - p
    <3>2. HasLength(m, a, k)
      <4>1. Text(m, a, Left(m, s, p), L + 1 - p) BY <2>8, LeftIsText
      <4>2. HasLength(m, a, L + 1 - p) BY <4>1 DEF Text
      <4>3. k = L + 1 - p BY <1>1, <2>4, <2>9
      <4> HIDE DEF k, a
      <4> QED BY <4>2, <4>3
    <3> HIDE DEF a, k
    <3>3. strlen(m, a) = k BY <3>2, LengthIsStrlen
    <3>4. tk2 = Append(tk, <<p, k>>) BY <2>7, <3>1, <3>3
    <3>5. Listed(tk2, w, of, L + 1) BY <2>6, <2>9, <3>4 DEF k
    <3>6. L + 1 \in 1 .. L + 1 BY <1>1
    <3> HIDE DEF tk2
    <3>7. BetweenCalls(t.mem, t.save, s, ct, w, tk2, t.res = NULL)
      BY <3>1, <3>5, <3>6 DEF BetweenCalls, of
    <3> QED BY <3>7 DEF tk2
  <2>10. CASE q # L + 1
    <3> DEFINE b == s + q - 1
               r == Cut(m, s, q)
               k == q - p
    <3>1. t.mem = r /\ t.save = s + q /\ t.res = a BY <2>1, <2>10 DEF Token
    <3>2. q \in 1 .. L BY <1>1, <2>4, <2>10
    <3>3. w[q] \in of
      <4>1. w[q] \in Char BY <1>1, <3>2, ElementOfSeq
      <4> QED BY <2>3, <2>10, <4>1
    <3>4. TakenApart(r, s, ct, w) /\ Set(r, ct) = of
      <4>1. q \in 1 .. Len(w) BY <3>2
      <4>2. TakenApart(r, s, ct, w) /\ Set(r, ct) = Set(m, ct)
        BY <4>1, CutLeavesDelimiters
      <4> QED BY <4>2 DEF of
    <3>5. b \in Address /\ r \in [Address -> Char] /\ r[b] = 0
          /\ \A c \in Address : c # b => r[c] = m[c]
      <4>1. b \in Address BY <1>1, <3>2 DEF Address
      <4>2. 0 \in Char BY MemoryAssumption
      <4>3. r = [m EXCEPT ![b] = 0] BY DEF Cut
      <4> HIDE DEF b, r
      <4> QED BY <1>1, <4>1, <4>2, <4>3
    <3> HIDE DEF r
    <3>6. ASSUME NEW i \in n .. L, i # q PROVE r[s + i - 1] = w[i]
      <4>1. s + i - 1 \in Address /\ s + i - 1 # b BY <1>1, <2>4, <3>6 DEF Address
      <4>2. r[s + i - 1] = m[s + i - 1] BY <3>5, <4>1
      <4> QED BY <1>1, <4>2
    <3>7. HasLength(r, a, k)
      <4>1. k \in Nat /\ a + k = b /\ a + k <= Size BY <1>1, <2>4, <3>2
      <4>2. ASSUME NEW j \in 0 .. k - 1 PROVE r[a + j] # 0
        <5> DEFINE i == p + j
        <5>1. i \in n .. L /\ i \in 1 .. L /\ i # q /\ s + i - 1 = a + j
          BY <1>1, <2>4, <3>2
        <5> HIDE DEF i, a
        <5>2. r[s + i - 1] = w[i] BY <3>6, <5>1
        <5> QED BY <1>1, <5>1, <5>2
      <4>3. r[a + k] = 0 BY <3>5, <4>1
      <4> HIDE DEF a, k, b
      <4> QED BY <2>7, <4>1, <4>2, <4>3 DEF HasLength
    <3>8. Unread(r, s, w, q + 1)
      <4>1. \A i \in q + 1 .. L : i \in n .. L /\ i # q BY <1>1, <2>4
      <4>2. q + 1 \in 1 .. L + 1 BY <3>2, <1>1
      <4>3. r[s + L] = 0 /\ r \in [Address -> Char] BY <3>4, <3>5 DEF TakenApart
      <4> QED BY <1>1, <3>6, <4>1, <4>2, <4>3 DEF Unread
    <3> DEFINE z == q + 1
    <3>9. s + q = s + z - 1 /\ z - 1 = q /\ z \in 1 .. L + 1 BY <1>1, <3>2
    <3> HIDE DEF a, b, k
    <3>10. strlen(r, a) = k BY <3>7, LengthIsStrlen
    <3>11. tk2 = Append(tk, <<p, k>>) BY <2>7, <3>1, <3>10
    <3>12. Listed(tk2, w, of, z) BY <2>6, <2>10, <3>11 DEF k
    <3>13. ~(t.res = NULL) BY <2>7, <3>1
    <3>15. Unread(r, s, w, z) BY <3>8
    <3> HIDE DEF tk2, z
    <3>16. t.save = s + z - 1 /\ w[z - 1] \in of BY <3>1, <3>3, <3>9
    <3>14. BetweenCalls(t.mem, t.save, s, ct, w, tk2, t.res = NULL)
      BY <3>1, <3>4, <3>9, <3>12, <3>13, <3>15, <3>16 DEF BetweenCalls
    <3> QED BY <3>14 DEF tk2
  <2> QED BY <2>9, <2>10
<1> QED BY <1>4, <1>5

\* So it is after every call.
TokensGood ==
  ~NoTokens => BetweenCalls(mem, save, text.at, text.delim, text.was, tokens, done)

LEMMA FirstTokenTaken ==
  ASSUME NEW s \in Address, NEW ct \in Address, BytesAreBytes, FirstToken(s, ct)
  PROVE  TokensGood'
<1> DEFINE w == StringAt(mem, s)
           l == strlen(mem, s)
           t == strtok(mem, s, ct, save)
           of == Set(mem, ct)
<1>1. /\ IsString(mem, s) /\ IsString(mem, ct)
      /\ Apart(s, l + 1, ct, strlen(mem, ct) + 1)
      /\ mem' = t.mem /\ save' = t.save /\ done' = (t.res = NULL)
      /\ text' = [at |-> s, delim |-> ct, was |-> w]
      /\ tokens' = IF t.res = NULL THEN <<>>
                   ELSE << <<t.res - s + 1, strlen(t.mem, t.res)>> >>
  BY DEF FirstToken
<1>2. text'.at = s /\ text'.delim = ct /\ text'.was = w BY <1>1
<1> HIDE DEF w, l, t, of
<1>3. Text(mem, s, w, l)
  <2>1. HasLength(mem, s, l) BY <1>1, StrlenIs DEF l
  <2> QED BY <2>1 DEF Text, BytesAreBytes, w
<1>4. /\ s \in Nat /\ l \in Nat /\ 1 <= s /\ s + l <= Size /\ Size \in Nat
      /\ mem[s + l] = 0 /\ w \in Seq(Char) /\ Len(w) = l
      /\ \A i \in 1 .. l : w[i] = mem[s + i - 1] /\ w[i] # 0
  BY <1>3, TextFacts
<1>5. mem \in [Address -> Char] BY DEF BytesAreBytes
<1>6. TakenApart(mem, s, ct, w) BY <1>1, <1>4, <1>5 DEF TakenApart
<1>7. CASE of = {}
  <2>1. t = Token(NULL, NULL, mem) BY <1>7 DEF t, of, strtok
  <2>2. t.mem = mem /\ t.res = NULL BY <2>1 DEF Token
  <2>3. BetweenCalls(mem', save', s, ct, w, tokens', done')
    BY <1>1, <1>6, <1>7, <2>2 DEF BetweenCalls, of
  <2> QED BY <1>2, <2>3 DEF TokensGood
<1>8. CASE of # {}
  <2>1. Unread(mem, s, w, 1)
    <3>1. 1 \in 1 .. Len(w) + 1 BY <1>4
    <3> QED BY <1>4, <1>5, <3>1 DEF Unread
  <2>2. Listed(<<>>, w, of, 1)
    <3>1. RunsBefore(w, of, 1) = {}
      <4>1. \A r \in RunsOf(w, of) : r[1] \in 1 .. Len(w) BY DEF RunsOf
      <4>2. \A r \in RunsOf(w, of) : ~(r[1] < 1) BY <1>4, <4>1
      <4> QED BY <4>2 DEF RunsBefore
    <3>2. <<>> \in Seq(Nat \X Nat) /\ DOMAIN <<>> = {} OBVIOUS
    <3>3. Range(<<>>) = {} BY <3>2 DEF Range
    <3> QED BY <3>1, <3>2, <3>3 DEF Listed
  <2>3. (IF s # NULL THEN s ELSE save) = s + 1 - 1 BY <1>4 DEF NULL
  <2> DEFINE tk == IF t.res = NULL THEN <<>>
                   ELSE Append(<<>>, <<t.res - s + 1, strlen(t.mem, t.res)>>)
  <2>4. BetweenCalls(t.mem, t.save, s, ct, w, tk, t.res = NULL)
    <3>1. t = strtok(mem, s, ct, save) BY DEF t
    <3>2. Set(mem, ct) # {} /\ Listed(<<>>, w, Set(mem, ct), 1) BY <1>8, <2>2 DEF of
    <3> HIDE DEF t
    <3> QED BY <1>6, <2>1, <2>3, <3>1, <3>2, TokenTaken
  <2>5. tk = tokens'
    <3>1. \A x : Append(<<>>, x) = <<x>> OBVIOUS
    <3> QED BY <1>1, <3>1
  <2> HIDE DEF tk
  <2>6. BetweenCalls(mem', save', s, ct, w, tokens', done')
    BY <1>1, <2>4, <2>5
  <2> QED BY <1>2, <2>6 DEF TokensGood
<1> QED BY <1>7, <1>8

LEMMA NextTokenTaken == TokensGood /\ NextToken => TokensGood'
<1> SUFFICES ASSUME TokensGood, NextToken PROVE TokensGood' OBVIOUS
<1> DEFINE s == text.at
           ct == text.delim
           w == text.was
           of == Set(mem, ct)
           t == strtok(mem, NULL, ct, save)
<1>1. /\ ~NoTokens /\ ~done /\ text' = text
      /\ mem' = t.mem /\ save' = t.save /\ done' = (t.res = NULL)
      /\ tokens' = IF t.res = NULL THEN tokens
                   ELSE Append(tokens, <<t.res - s + 1, strlen(t.mem, t.res)>>)
  BY DEF NextToken
<1>2. s' = s /\ ct' = ct /\ w' = w BY <1>1
<1>3. BetweenCalls(mem, save, s, ct, w, tokens, done) BY <1>1 DEF TokensGood
<1> SUFFICES BetweenCalls(mem', save', s, ct, w, tokens', done')
  BY <1>2 DEF TokensGood
<1> HIDE DEF s, ct, w, t
<1>4. TakenApart(mem, s, ct, w) /\ of # {} BY <1>1, <1>3 DEF BetweenCalls
<1>5. PICK n \in 1 .. Len(w) + 1 :
        /\ Listed(tokens, w, of, n)
        /\ \/ save = NULL /\ n = Len(w) + 1
           \/ /\ save = s + n - 1
              /\ Unread(mem, s, w, n) /\ w[n - 1] \in of
  BY <1>3, <1>4 DEF BetweenCalls
<1>6. CASE save = NULL /\ n = Len(w) + 1
  <2>1. t = Token(NULL, NULL, mem) BY <1>6 DEF t, strtok, NULL
  <2>2. t.mem = mem /\ t.save = NULL /\ t.res = NULL BY <2>1 DEF Token
  <2>3. mem' = mem /\ save' = NULL /\ tokens' = tokens BY <1>1, <2>2
  <2>4. Listed(tokens', w, Set(mem', ct), Len(w) + 1) BY <1>5, <1>6, <2>3
  <2>5. Len(w) + 1 \in 1 .. Len(w) + 1 BY <1>6
  <2>6. Set(mem', ct) # {} BY <1>4, <2>3
  <2>7. TakenApart(mem', s, ct, w) BY <1>4, <2>3
  <2> QED BY <2>3, <2>4, <2>5, <2>6, <2>7 DEF BetweenCalls
<1>7. CASE save = s + n - 1 /\ Unread(mem, s, w, n) /\ w[n - 1] \in of
  <2> DEFINE tk == IF t.res = NULL THEN tokens
                   ELSE Append(tokens, <<t.res - s + 1, strlen(t.mem, t.res)>>)
  <2>1. BetweenCalls(t.mem, t.save, s, ct, w, tk, t.res = NULL)
    <3>1. (IF NULL # NULL THEN NULL ELSE save) = s + n - 1 BY <1>7
    <3>2. t = strtok(mem, NULL, ct, save) BY DEF t
    <3>3. n = 1 \/ w[n - 1] \in Set(mem, ct) BY <1>7
    <3>4. Unread(mem, s, w, n) /\ Listed(tokens, w, Set(mem, ct), n) BY <1>5, <1>7
    <3>5. TakenApart(mem, s, ct, w) /\ Set(mem, ct) # {} BY <1>4
    <3> QED BY <3>1, <3>2, <3>3, <3>4, <3>5, TokenTaken
  <2>2. tk = tokens' BY <1>1
  <2> HIDE DEF tk
  <2> QED BY <1>1, <2>1, <2>2
<1> QED BY <1>5, <1>6, <1>7

\* strtok returns the longest parts of the string without a delimiter, in their
\* order, each once and none left out before it, and all of them before it
\* returns NULL (string.h 277-334), if there are delimiters.
THEOREM TokensAreExactCorrect == StringsSpec => []TokensAreExact
<1>1. StringsInit => TokensGood BY DEF StringsInit, TokensGood, NoTokens
<1>2. BytesAreBytes /\ TokensGood /\ [StringsNext]_stringVars => TokensGood'
  <2> SUFFICES ASSUME BytesAreBytes, TokensGood, [StringsNext]_stringVars PROVE TokensGood'
    OBVIOUS
  <2>1. ASSUME NoTokens, text' = text PROVE TokensGood'
    BY <2>1 DEF TokensGood, NoTokens
  <2>2. ASSUME NEW d \in Address, NEW n \in 0 .. Size, NEW c \in Char, Fill(d, c, n)
        PROVE  TokensGood'
    BY <2>1, <2>2 DEF Fill, Write
  <2>3. ASSUME NEW d \in Address, NEW n \in 0 .. Size, NEW s \in Address, Move(d, s, n)
        PROVE  TokensGood'
    BY <2>1, <2>3 DEF Move, Write
  <2>4. ASSUME NEW d \in Address, NEW n \in 0 .. Size, NEW s \in Address, Concatenate(d, s, n)
        PROVE  TokensGood'
    BY <2>1, <2>4 DEF Concatenate, Write
  <2>5. ASSUME NEW s \in Address, NEW ct \in Address, FirstToken(s, ct) PROVE TokensGood'
    BY <2>5, FirstTokenTaken
  <2>6. CASE NextToken BY <2>6, NextTokenTaken
  <2>7. CASE UNCHANGED stringVars BY <2>7 DEF stringVars, TokensGood, NoTokens
  <2> QED BY <2>2, <2>3, <2>4, <2>5, <2>6, <2>7 DEF StringsNext
<1>3. TokensGood => TokensAreExact
  <2> SUFFICES ASSUME TokensGood, ~NoTokens, Set(mem, text.delim) # {}
      PROVE
        LET w     == text.was
            of    == Set(mem, text.delim)
            found == Range(tokens)
        IN  /\ \A i, j \in DOMAIN tokens : i < j => tokens[i][1] < tokens[j][1]
            /\ found \subseteq RunsOf(w, of)
            /\ \A r \in RunsOf(w, of), t \in found : r[1] < t[1] => r \in found
            /\ done => found = RunsOf(w, of)
    BY DEF TokensAreExact, RunsOf
  <2> DEFINE w == text.was
             of == Set(mem, text.delim)
             L == Len(w)
  <2>1. BetweenCalls(mem, save, text.at, text.delim, w, tokens, done) BY DEF TokensGood
  <2> HIDE DEF w, of
  <2>2. PICK n \in 1 .. L + 1 :
          Listed(tokens, w, of, n) /\ (done => n = L + 1)
    BY <2>1 DEF BetweenCalls, of
  <2>3. L \in Nat
    <3>1. w \in Seq(Char) BY <2>1 DEF BetweenCalls, TakenApart
    <3> QED BY <3>1, LenProperties
  <2>4. Range(tokens) = RunsBefore(w, of, n) BY <2>2 DEF Listed
  <2>5. \A r \in RunsOf(w, of) : r[1] \in 1 .. L BY DEF RunsOf
  <2> HIDE DEF L
  <2>6. ASSUME NEW r \in RunsOf(w, of), NEW t \in Range(tokens), r[1] < t[1]
        PROVE  r \in Range(tokens)
    <3>1. t \in RunsOf(w, of) /\ t[1] < n BY <2>4 DEF RunsBefore
    <3>2. r[1] \in Nat /\ t[1] \in Nat /\ n \in Nat BY <2>3, <2>5, <3>1
    <3>3. r[1] < n BY <2>6, <3>1, <3>2
    <3> QED BY <2>4, <3>3 DEF RunsBefore
  <2>7. ASSUME done PROVE Range(tokens) = RunsOf(w, of)
    <3>1. \A r \in RunsOf(w, of) : r[1] < n BY <2>2, <2>3, <2>5, <2>7
    <3> QED BY <2>4, <3>1 DEF RunsBefore
  <2>8. Range(tokens) \subseteq RunsOf(w, of) BY <2>4 DEF RunsBefore
  <2>9. \A i, j \in DOMAIN tokens : i < j => tokens[i][1] < tokens[j][1]
    BY <2>2 DEF Listed
  <2> QED BY <2>6, <2>7, <2>8, <2>9 DEF w, of
<1> QED BY <1>1, <1>2, <1>3, AlwaysBytes, PTL DEF StringsSpec

-----------------------------------------------------------------------------
(* Digits.                                                                 *)

\* What holds of a number if it holds of all below it holds of every number.
LEMMA FromBelow ==
  ASSUME NEW n \in Nat, NEW good,
         \A i \in 0 .. n : (\A j \in 0 .. i - 1 : j \in good) => i \in good
  PROVE  \A i \in 0 .. n : i \in good
<1> DEFINE bad == {i \in 0 .. n : i \notin good}
<1> SUFFICES ASSUME bad # {} PROVE FALSE OBVIOUS
<1>1. bad \subseteq Nat OBVIOUS
<1> HIDE DEF bad
<1>2. PICK x \in bad : \A y \in bad : x <= y BY <1>1, HasLeast
<1>3. x \in 0 .. n /\ x \notin good BY <1>2 DEF bad
<1>4. ASSUME NEW j \in 0 .. x - 1 PROVE j \in good
  <2>1. j \in 0 .. n /\ ~(x <= j) BY <1>3
  <2> QED BY <1>2, <2>1 DEF bad
<1> QED BY <1>3, <1>4

\* The bases the library prints in, and the characters it prints digits with.
Bases == {8, 10, 16}
DigitChar == {"0", "1", "2", "3", "4", "5", "6", "7", "8", "9",
              "a", "b", "c", "d", "e", "f", "A", "B", "C", "D", "E", "F"}
Tables == {Upper, Lower}

\* Digits are none of the characters that stand around numbers.
LEMMA OtherCharacters ==
  ASSUME NEW c \in DigitChar
  PROVE  c \notin {" ", "%", "", "-", "+", "#", ".", "x", "X", "h", "l", "L", "*"}
BY Zenon DEF DigitChar

\* A remainder and a quotient by a base.
LEMMA ByBase ==
  ASSUME NEW n \in Nat, NEW base \in Bases
  PROVE  /\ n \div base \in Nat /\ n % base \in 0 .. base - 1
         /\ n = (n \div base) * base + (n % base)
         /\ n # 0 => n \div base < n
         /\ n = 0 => n \div base = 0
<1> DEFINE q == n \div base
           r == n % base
<1>1. base \in Nat /\ base >= 2 BY DEF Bases
<1>2. n = base * q + r /\ r \in 0 .. base - 1 /\ q \in Nat BY <1>1, SMT
<1> HIDE DEF q, r
<1>3. base = 8 \/ base = 10 \/ base = 16 BY DEF Bases
<1>4. n = q * base + r /\ (n # 0 => q < n) /\ (n = 0 => q = 0)
  BY <1>2, <1>3, SMT
<1> QED BY <1>2, <1>4 DEF q, r

\* The characters of the digits, and what isdigit and isalpha make of them.
LEMMA Characters ==
  ASSUME NEW d \in 0 .. 15, NEW c, c = Upper[d + 1] \/ c = Lower[d + 1]
  PROVE  /\ c \in DigitChar
         /\ \A i \in 1 .. 36 : (Upper[i] = c \/ Lower[i] = c) <=> i = d + 1
<1>1. \/ d = 0 \/ d = 1 \/ d = 2 \/ d = 3 \/ d = 4 \/ d = 5 \/ d = 6 \/ d = 7
      \/ d = 8 \/ d = 9 \/ d = 10 \/ d = 11 \/ d = 12 \/ d = 13 \/ d = 14 \/ d = 15
  OBVIOUS
<1>a. CASE d \in 0 .. 3
  BY <1>1, <1>a, SMTT(60) DEF Upper, Lower, DigitChar
<1>b. CASE d \in 4 .. 7
  BY <1>1, <1>b, SMTT(60) DEF Upper, Lower, DigitChar
<1>c. CASE d \in 8 .. 11
  BY <1>1, <1>c, SMTT(60) DEF Upper, Lower, DigitChar
<1>d. CASE d \in 12 .. 15
  BY <1>1, <1>d, SMTT(60) DEF Upper, Lower, DigitChar
<1> QED BY <1>a, <1>b, <1>c, <1>d

\* isdigit and isalpha see the digit that was printed.
LEMMA DigitIs ==
  ASSUME NEW d \in 0 .. 15, NEW table \in Tables, NEW c, c = table[d + 1]
  PROVE  Value(c) = d /\ c \in DigitChar
<1> DEFINE at == {i \in 1 .. 36 : Upper[i] = c \/ Lower[i] = c}
<1>1. c = Upper[d + 1] \/ c = Lower[d + 1] BY Zenon DEF Tables
<1>2. c \in DigitChar /\ \A i \in 1 .. 36 : (Upper[i] = c \/ Lower[i] = c) <=> i = d + 1
  BY <1>1, Characters
<1>3. d + 1 \in 1 .. 36 OBVIOUS
<1>4. at \subseteq Nat /\ d + 1 \in at /\ \A y \in at : y = d + 1 BY <1>2, <1>3
<1>5. Value(c) = IF at = {} THEN 99 ELSE Min(at) - 1 BY DEF Value
<1> HIDE DEF at
<1>6. Min(at) = d + 1
  <2>1. \A y \in at : d + 1 <= y BY <1>4
  <2> QED BY <1>4, <2>1, TheLeast
<1>7. at # {} BY <1>4
<1>8. Value(c) = (d + 1) - 1 BY <1>5, <1>6, <1>7
<1> QED BY <1>2, <1>8

\* The characters of the two tables.
Printed == {"0", "1", "2", "3", "4", "5", "6", "7", "8", "9",
            "a", "b", "c", "d", "e", "f", "g", "h", "i", "j", "k", "l", "m",
            "n", "o", "p", "q", "r", "s", "t", "u", "v", "w", "x", "y", "z",
            "A", "B", "C", "D", "E", "F", "G", "H", "I", "J", "K", "L", "M",
            "N", "O", "P", "Q", "R", "S", "T", "U", "V", "W", "X", "Y", "Z"}

\* The characters of the tables can all be printed.
LEMMA TablesPrint == \A i \in 1 .. 36 : Lower[i] \in Printed /\ Upper[i] \in Printed
<1>1. \A i \in 1 .. 36 : Lower[i] \in Printed BY SMTT(60) DEF Lower, Printed
<1>2. \A i \in 1 .. 36 : Upper[i] \in Printed BY SMTT(60) DEF Upper, Printed
<1> QED BY <1>1, <1>2

\* What may stand behind a number is no digit.
LEMMA NoDigit ==
  ASSUME NEW c \in {" ", "%", ""}
  PROVE  Value(c) = 99
<1> DEFINE at == {i \in 1 .. 36 : Upper[i] = c \/ Lower[i] = c}
<1>1. \A i \in 1 .. 36 : Lower[i] \in Printed /\ Upper[i] \in Printed
  BY TablesPrint
<1>2. c \notin Printed BY Zenon DEF Printed
<1>3. at = {} BY <1>1, <1>2
<1>4. Value(c) = IF at = {} THEN 99 ELSE Min(at) - 1 BY DEF Value
<1> QED BY <1>3, <1>4

\* The texts that the loop of number leaves for the numbers up to n.
IsDigits(f, n, base, table) ==
  f = [i \in 0 .. n |-> IF i = 0 THEN <<>>
                        ELSE Append(f[i \div base], table[(i % base) + 1])]

\* The recursion of Digits defines a function: it goes from i to i \div base.
LEMMA DigitsExist ==
  ASSUME NEW n \in Nat, NEW base \in Bases, NEW table
  PROVE  \E f : IsDigits(f, n, base, table)
<1> DEFINE good == {k \in 0 .. n : \E f : IsDigits(f, k, base, table)}
<1>1. 0 \in good
  <2> DEFINE g == [i \in 0 .. 0 |-> <<>>]
  <2>1. g = [i \in 0 .. 0 |-> IF i = 0 THEN <<>>
                              ELSE Append(g[i \div base], table[(i % base) + 1])]
    <3>1. \A i \in 0 .. 0 : i = 0 OBVIOUS
    <3> QED BY <3>1, Zenon
  <2> HIDE DEF g
  <2>2. IsDigits(g, 0, base, table) BY <2>1 DEF IsDigits
  <2>3. 0 \in 0 .. n OBVIOUS
  <2> QED BY <2>2, <2>3
<1>2. ASSUME NEW k \in 0 .. n - 1, k \in good PROVE k + 1 \in good
  <2>1. PICK f : IsDigits(f, k, base, table) BY <1>2
  <2> DEFINE last == Append(f[(k + 1) \div base], table[((k + 1) % base) + 1])
             g == [i \in 0 .. k + 1 |-> IF i = k + 1 THEN last ELSE f[i]]
  <2>2. \A i \in 0 .. k : f[i] = IF i = 0 THEN <<>>
                                 ELSE Append(f[i \div base], table[(i % base) + 1])
    BY <2>1 DEF IsDigits
  <2>3. ASSUME NEW i \in 0 .. k + 1
        PROVE  g[i] = IF i = 0 THEN <<>>
                      ELSE Append(g[i \div base], table[(i % base) + 1])
    <3>1. CASE i = 0
      <4>1. i \in 0 .. k /\ i # k + 1 BY <3>1
      <4>2. g[i] = f[i] BY <4>1
      <4> QED BY <2>2, <3>1, <4>1, <4>2
    <3>2. CASE i # 0
      <4>1. i \in Nat /\ k \in Nat OBVIOUS
      <4>2. i \div base \in 0 .. i - 1
        <5> DEFINE q == i \div base
        <5>1. q \in Nat /\ q < i BY <3>2, <4>1, ByBase
        <5> HIDE DEF q
        <5>2. q \in 0 .. i - 1 BY <4>1, <5>1
        <5> QED BY <5>2 DEF q
      <4> DEFINE q == i \div base
      <4>3. q \in 0 .. i - 1 BY <4>2
      <4>4. g[i] = IF i = k + 1 THEN last ELSE f[i] OBVIOUS
      <4> HIDE DEF q, last
      <4>5. g[q] = f[q]
        <5>1. q \in 0 .. k + 1 /\ q # k + 1 BY <4>1, <4>3
        <5> QED BY <5>1
      <4>6. g[i] = Append(f[q], table[(i % base) + 1])
        <5>1. CASE i = k + 1 BY <4>4, <5>1 DEF last, q
        <5>2. CASE i # k + 1
          <6>1. i \in 0 .. k BY <4>1, <5>2
          <6> QED BY <2>2, <3>2, <4>4, <5>2, <6>1 DEF q
        <5> QED BY <5>1, <5>2
      <4>7. g[i] = Append(g[q], table[(i % base) + 1]) BY <4>5, <4>6
      <4> HIDE DEF g
      <4> QED BY <3>2, <4>7 DEF q
    <3> QED BY <3>1, <3>2
  <2>4. g = [i \in 0 .. k + 1 |-> g[i]] OBVIOUS
  <2> HIDE DEF g
  <2>5. IsDigits(g, k + 1, base, table) BY <2>3, <2>4, Zenon DEF IsDigits
  <2>6. k + 1 \in 0 .. n OBVIOUS
  <2> QED BY <2>5, <2>6
<1> HIDE DEF good
<1>3. \A k \in 0 .. n : k \in good BY <1>1, <1>2, CountUp
<1>4. n \in 0 .. n OBVIOUS
<1>5. n \in good BY <1>3, <1>4
<1> QED BY <1>5 DEF good

\* One of them is what Digits returns.
LEMMA DigitsAre ==
  ASSUME NEW n \in Nat, NEW base \in Bases, NEW table
  PROVE  \E f : /\ IsDigits(f, n, base, table)
                /\ Digits(n, base, table) = IF n = 0 THEN <<"0">> ELSE f[n]
<1> DEFINE from == CHOOSE f : IsDigits(f, n, base, table)
<1>1. IsDigits(from, n, base, table)
  <2>1. \E f : IsDigits(f, n, base, table) BY DigitsExist
  <2> QED BY <2>1
<1>2. Digits(n, base, table) = IF n = 0 THEN <<"0">> ELSE from[n]
  BY DEF Digits, IsDigits
<1> QED BY <1>1, <1>2

\* What is read of a text, digit by digit.
Reads(v, d, base) ==
  /\ v \in [0 .. Len(d) -> Nat] /\ v[0] = 0
  /\ \A j \in 1 .. Len(d) : /\ Value(d[j]) \in 0 .. base - 1
                            /\ v[j] = v[j - 1] * base + Value(d[j])

\* A text shows a number: in digits of the base, no 0 first, that read as it.
Shown(d, n, base, table) ==
  /\ d \in Seq(DigitChar) /\ Len(d) >= 1
  /\ \A j \in 1 .. Len(d) : \E k \in 0 .. base - 1 : d[j] = table[k + 1]
  /\ n # 0 => d[1] # "0"
  /\ \E v : Reads(v, d, base) /\ v[Len(d)] = n

\* A number below the base is shown by one character of the table.
LEMMA FirstDigit ==
  ASSUME NEW base \in Bases, NEW table \in Tables, NEW r \in 0 .. base - 1
  PROVE  Shown(<<table[r + 1]>>, r, base, table)
<1> DEFINE c == table[r + 1]
           d == <<c>>
           v == [j \in 0 .. 1 |-> IF j = 0 THEN 0 ELSE r]
<1>1. r \in 0 .. 15 /\ base \in Nat /\ r \in Nat BY DEF Bases
<1>2. Value(c) = r /\ c \in DigitChar BY <1>1, DigitIs
<1>3. r # 0 => c # "0"
  <2>1. table[1] = "0" BY DEF Tables, Upper, Lower
  <2>2. 0 \in 0 .. 15 /\ "0" = table[0 + 1] BY <2>1
  <2>3. Value("0") = 0 BY <2>2, DigitIs
  <2> QED BY <1>2, <2>3
<1>4. \E k \in 0 .. base - 1 : c = table[k + 1] OBVIOUS
<1> HIDE DEF c
<1>5. d \in Seq(DigitChar) /\ Len(d) = 1 /\ d[1] = c BY <1>2
<1> HIDE DEF d
<1>6. v \in [0 .. 1 -> Nat] /\ v[0] = 0 /\ v[1] = r BY <1>1
<1> HIDE DEF v
<1>7. Reads(v, d, base)
  <2>1. ASSUME NEW j \in 1 .. Len(d)
        PROVE  Value(d[j]) \in 0 .. base - 1 /\ v[j] = v[j - 1] * base + Value(d[j])
    <3>1. j = 1 /\ j - 1 = 0 BY <1>5
    <3>2. Value(d[j]) = r BY <1>2, <1>5, <3>1
    <3>3. 0 * base = 0 /\ 0 + r = r BY <1>1
    <3>4. v[j] = r /\ v[j - 1] = 0 BY <1>6, <3>1
    <3> QED BY <3>2, <3>3, <3>4
  <2> QED BY <1>5, <1>6, <2>1 DEF Reads
<1>8. v[Len(d)] = r BY <1>5, <1>6
<1>9. \A j \in 1 .. Len(d) : d[j] = c BY <1>5
<1>10. Shown(d, r, base, table) BY <1>3, <1>4, <1>5, <1>7, <1>8, <1>9 DEF Shown
<1> QED BY <1>10 DEF d, c

\* One digit more, behind the others.
LEMMA NextDigit ==
  ASSUME NEW base \in Bases, NEW table \in Tables, NEW r \in 0 .. base - 1,
         NEW q \in Nat \ {0}, NEW e, Shown(e, q, base, table)
  PROVE  Shown(Append(e, table[r + 1]), q * base + r, base, table)
<1> DEFINE c == table[r + 1]
           d == Append(e, c)
           l == Len(e)
<1>1. r \in 0 .. 15 /\ base \in Nat /\ r \in Nat BY DEF Bases
<1>2. Value(c) = r /\ c \in DigitChar BY <1>1, DigitIs
<1>3. \E k \in 0 .. base - 1 : c = table[k + 1] OBVIOUS
<1>4. PICK u : Reads(u, e, base) /\ u[Len(e)] = q BY DEF Shown
<1>5. e \in Seq(DigitChar) /\ l \in Nat /\ l >= 1 BY DEF Shown
<1> DEFINE v == [j \in 0 .. l + 1 |-> IF j = l + 1 THEN q * base + r ELSE u[j]]
<1> HIDE DEF c
<1>6. /\ d \in Seq(DigitChar) /\ Len(d) = l + 1 /\ d[l + 1] = c
      /\ \A j \in 1 .. l : d[j] = e[j]
  BY <1>2, <1>5
<1>7. /\ u \in [0 .. l -> Nat] /\ u[0] = 0 /\ u[l] = q
      /\ \A j \in 1 .. l : Value(e[j]) \in 0 .. base - 1 /\ u[j] = u[j - 1] * base + Value(e[j])
  BY <1>4 DEF Reads
<1> HIDE DEF d, l
<1> DEFINE n == q * base + r
<1>8. n \in Nat BY <1>1, SMT
<1>n. n # 0
  <2>1. q >= 1 /\ (base = 8 \/ base = 10 \/ base = 16) BY DEF Bases
  <2> QED BY <1>1, <2>1, SMT
<1> HIDE DEF n
<1>9. /\ v \in [0 .. l + 1 -> Nat] /\ v[0] = 0 /\ v[l + 1] = n
      /\ \A j \in 0 .. l : v[j] = u[j]
  <2>1. \A j \in 0 .. l : j # l + 1 /\ j \in 0 .. l + 1 BY <1>5
  <2>2. l + 1 \in 0 .. l + 1 /\ 0 \in 0 .. l BY <1>5
  <2>3. \A j \in 0 .. l + 1 : j = l + 1 \/ j \in 0 .. l BY <1>5
  <2> QED BY <1>7, <1>8, <2>1, <2>2, <2>3 DEF n
<1> HIDE DEF v
<1>10. ASSUME NEW j \in 1 .. Len(d)
       PROVE  Value(d[j]) \in 0 .. base - 1 /\ v[j] = v[j - 1] * base + Value(d[j])
  <2>1. CASE j = l + 1
    <3>1. j - 1 = l /\ l \in 0 .. l BY <1>5, <2>1
    <3>2. v[j - 1] = q /\ v[j] = n BY <1>7, <1>9, <2>1, <3>1
    <3>3. Value(d[j]) = r BY <1>2, <1>6, <2>1
    <3> QED BY <3>2, <3>3 DEF n
  <2>2. CASE j # l + 1
    <3>1. j \in 1 .. l /\ j \in 0 .. l /\ j - 1 \in 0 .. l BY <1>5, <1>6, <2>2
    <3>2. v[j] = u[j] /\ v[j - 1] = u[j - 1] /\ d[j] = e[j] BY <1>6, <1>9, <3>1
    <3> QED BY <1>7, <3>1, <3>2
  <2> QED BY <2>1, <2>2
<1>11. Reads(v, d, base) BY <1>6, <1>9, <1>10 DEF Reads
<1>12. v[Len(d)] = n BY <1>6, <1>9
<1>13. \A j \in 1 .. Len(d) : \E k \in 0 .. base - 1 : d[j] = table[k + 1]
  <2> SUFFICES ASSUME NEW j \in 1 .. Len(d)
               PROVE  \E k \in 0 .. base - 1 : d[j] = table[k + 1]
    OBVIOUS
  <2>1. CASE j = l + 1 BY <1>3, <1>6, <2>1
  <2>2. CASE j # l + 1
    <3>1. j \in 1 .. l BY <1>5, <1>6, <2>2
    <3>2. d[j] = e[j] BY <1>6, <3>1
    <3> QED BY <3>1, <3>2 DEF Shown, l
  <2> QED BY <2>1, <2>2
<1>14. d[1] # "0"
  <2>1. 1 \in 1 .. l BY <1>5
  <2>2. d[1] = e[1] BY <1>6, <2>1
  <2>3. q # 0 BY SMT
  <2> QED BY <2>2, <2>3 DEF Shown
<1>15. Len(d) >= 1 BY <1>5, <1>6
<1>16. Shown(d, n, base, table) BY <1>6, <1>11, <1>12, <1>13, <1>14, <1>15 DEF Shown
<1> QED BY <1>16 DEF d, c, n

\* The digits of a number show it.
LEMMA DigitsShow ==
  ASSUME NEW n \in Nat, NEW base \in Bases, NEW table \in Tables
  PROVE  Shown(Digits(n, base, table), n, base, table)
<1>1. PICK f : /\ IsDigits(f, n, base, table)
               /\ Digits(n, base, table) = IF n = 0 THEN <<"0">> ELSE f[n]
  BY DigitsAre
<1>2. \A i \in 0 .. n : f[i] = IF i = 0 THEN <<>>
                               ELSE Append(f[i \div base], table[(i % base) + 1])
  BY <1>1 DEF IsDigits
<1> DEFINE good == {i \in 0 .. n : i # 0 => Shown(f[i], i, base, table)}
<1>3. ASSUME NEW i \in 0 .. n, \A j \in 0 .. i - 1 : j \in good PROVE i \in good
  <2> SUFFICES ASSUME i # 0 PROVE Shown(f[i], i, base, table) OBVIOUS
  <2> DEFINE q == i \div base
             r == i % base
  <2>1. i \in Nat OBVIOUS
  <2>2. q \in Nat /\ r \in 0 .. base - 1 /\ i = q * base + r /\ q < i
    BY <2>1, ByBase
  <2>3. f[i] = Append(f[q], table[r + 1]) BY <1>2
  <2> HIDE DEF q, r
  <2>4. q \in 0 .. i - 1 /\ q \in 0 .. n BY <2>1, <2>2
  <2>5. CASE q = 0
    <3>1. f[q] = <<>> BY <1>2, <2>4, <2>5
    <3>2. f[i] = <<table[r + 1]>> BY <2>3, <3>1
    <3>3. base \in Nat /\ 0 * base = 0 BY DEF Bases
    <3>4. i = r BY <2>2, <2>5, <3>3
    <3> QED BY <2>2, <3>2, <3>4, FirstDigit
  <2>6. CASE q # 0
    <3>1. Shown(f[q], q, base, table) BY <1>3, <2>4, <2>6
    <3>2. q \in Nat \ {0} BY <2>2, <2>6
    <3>3. Shown(Append(f[q], table[r + 1]), q * base + r, base, table)
      BY <2>2, <3>1, <3>2, NextDigit
    <3> QED BY <2>2, <2>3, <3>3
  <2> QED BY <2>5, <2>6
<1>4. \A i \in 0 .. n : i \in good
  <2> HIDE DEF good
  <2> QED BY <1>3, FromBelow
<1>5. CASE n = 0
  <2>1. table[1] = "0" BY DEF Tables, Upper, Lower
  <2>2. 0 \in 0 .. base - 1 BY DEF Bases
  <2>3. Shown(<<table[0 + 1]>>, 0, base, table) BY <2>2, FirstDigit
  <2> QED BY <1>1, <1>5, <2>1, <2>3
<1>6. CASE n # 0
  <2>1. n \in 0 .. n BY SMT
  <2> QED BY <1>1, <1>4, <1>6, <2>1
<1> QED BY <1>5, <1>6

\* A loop that computes a value in every round: there is a function of its values.
Rounds(f, lo, n, V, a, step) ==
  /\ f \in [lo .. lo + n -> V]
  /\ \A i \in lo .. lo + n : f[i] = IF i = lo THEN a ELSE step[<<f[i - 1], i>>]

\* A loop that goes on from its last value defines a function.
LEMMA RoundsExist ==
  ASSUME NEW lo \in Int, NEW n \in Nat, NEW V, NEW a \in V, NEW step \in [V \X Int -> V]
  PROVE  \E f : Rounds(f, lo, n, V, a, step)
<1> DEFINE Is(f, k) == /\ f \in [lo .. lo + k -> V]
                       /\ \A i \in lo .. lo + k :
                            f[i] = IF i = lo THEN a ELSE step[<<f[i - 1], i>>]
           good == {k \in 0 .. n : \E f : Is(f, k)}
<1>1. 0 \in good
  <2> DEFINE g == [i \in lo .. lo + 0 |-> a]
  <2>1. \A i \in lo .. lo + 0 : i = lo OBVIOUS
  <2>2. Is(g, 0) BY <2>1
  <2> HIDE DEF Is
  <2>3. 0 \in 0 .. n OBVIOUS
  <2> QED BY <2>2, <2>3
<1>2. ASSUME NEW k \in 0 .. n - 1, k \in good PROVE k + 1 \in good
  <2>1. PICK f : Is(f, k) BY <1>2
  <2> DEFINE j == lo + (k + 1)
             last == step[<<f[j - 1], j>>]
             g == [i \in lo .. j |-> IF i = j THEN last ELSE f[i]]
  <2>2. /\ j \in Int /\ j - 1 = lo + k /\ j - 1 \in lo .. lo + k /\ j # lo /\ j \in lo .. j
        /\ \A i \in lo .. j : i = j \/ i \in lo .. lo + k
        /\ \A i \in lo .. lo + k : i # j /\ i \in lo .. j /\ (i # lo => i - 1 \in lo .. lo + k)
    OBVIOUS
  <2> HIDE DEF j
  <2>3. last \in V
    <3>1. f[j - 1] \in V BY <2>1, <2>2
    <3>2. <<f[j - 1], j>> \in V \X Int BY <2>2, <3>1
    <3> QED BY <3>2
  <2> HIDE DEF last
  <2>4. g \in [lo .. j -> V]
    <3>1. \A i \in lo .. j : g[i] \in V BY <2>1, <2>2, <2>3
    <3> QED BY <3>1
  <2>5. g[j] = last /\ \A i \in lo .. lo + k : g[i] = f[i] BY <2>2
  <2> HIDE DEF g
  <2>6. ASSUME NEW i \in lo .. j
        PROVE  g[i] = IF i = lo THEN a ELSE step[<<g[i - 1], i>>]
    <3>1. CASE i = j
      <4>1. g[i - 1] = f[i - 1] BY <2>2, <2>5, <3>1
      <4> QED BY <2>2, <2>5, <3>1, <4>1 DEF last
    <3>2. CASE i # j
      <4>1. i \in lo .. lo + k BY <2>2, <3>2
      <4>2. g[i] = f[i] BY <2>5, <4>1
      <4>3. i # lo => g[i - 1] = f[i - 1] BY <2>2, <2>5, <4>1
      <4> QED BY <2>1, <4>1, <4>2, <4>3
    <3> QED BY <3>1, <3>2
  <2>7. Is(g, k + 1) BY <2>4, <2>6 DEF j
  <2> HIDE DEF Is
  <2>8. k + 1 \in 0 .. n OBVIOUS
  <2> QED BY <2>7, <2>8
<1> HIDE DEF good
<1>3. \A k \in 0 .. n : k \in good BY <1>1, <1>2, CountUp
<1>4. n \in 0 .. n OBVIOUS
<1>5. n \in good BY <1>3, <1>4
<1>6. PICK f : Is(f, n) BY <1>5 DEF good
<1>7. Rounds(f, lo, n, V, a, step) BY <1>6 DEF Rounds
<1> QED BY <1>7

\* The powers of a base.
IsPower(p, n, base) ==
  p = [k \in 0 .. n + 1 |-> IF k = 0 THEN 1 ELSE base * p[k - 1]]

\* So do the powers of a base.
LEMMA PowerExists ==
  ASSUME NEW n \in Nat, NEW base \in Nat
  PROVE  \E p : IsPower(p, n, base)
<1> DEFINE step == [x \in Nat \X Int |-> base * x[1]]
           m == n + 1
           lo == 0
           a == 1
<1>1. step \in [Nat \X Int -> Nat] BY SMT
<1>2. m \in Nat /\ lo \in Int /\ a \in Nat /\ lo .. lo + m = 0 .. m OBVIOUS
<1> HIDE DEF step, m, lo, a
<1>a. PICK p : Rounds(p, lo, m, Nat, a, step) BY <1>1, <1>2, RoundsExist
<1>3. /\ p \in [0 .. m -> Nat]
      /\ \A i \in 0 .. m : p[i] = IF i = 0 THEN 1 ELSE step[<<p[i - 1], i>>]
  BY <1>2, <1>a DEF lo, a, Rounds
<1>4. ASSUME NEW i \in 0 .. m PROVE p[i] = IF i = 0 THEN 1 ELSE base * p[i - 1]
  <2>1. CASE i # 0
    <3>1. i - 1 \in 0 .. m /\ i \in Int BY <1>2, <2>1
    <3>2. p[i - 1] \in Nat BY <1>2, <1>3, <3>1
    <3>3. step[<<p[i - 1], i>>] = base * p[i - 1] BY <3>1, <3>2 DEF step
    <3> QED BY <1>2, <1>3, <2>1, <3>3
  <2> QED BY <1>2, <1>3, <2>1
<1>5. p = [i \in 0 .. m |-> p[i]] BY <1>2, <1>3
<1>6. IsPower(p, n, base) BY <1>4, <1>5, Zenon DEF IsPower, m
<1> QED BY <1>6

\* They grow.
LEMMA PowersGrow ==
  ASSUME NEW n \in Nat, NEW base \in Bases, NEW p, IsPower(p, n, base)
  PROVE  /\ p[0] = 1
         /\ \A k \in 0 .. n : p[k] \in Nat /\ p[k + 1] \in Nat /\ p[k + 1] = base * p[k]
         /\ \A k \in 0 .. n + 1, l \in 0 .. n + 1 : k <= l => p[k] <= p[l]
<1>1. base \in Nat /\ base >= 2 /\ (base = 8 \/ base = 10 \/ base = 16) BY DEF Bases
<1>2. \A k \in 0 .. n + 1 : p[k] = IF k = 0 THEN 1 ELSE base * p[k - 1] BY DEF IsPower
<1>3. p[0] = 1
  <2>1. 0 \in 0 .. n + 1 OBVIOUS
  <2> QED BY <1>2, <2>1
<1> DEFINE m == n + 1
           whole == {k \in 0 .. m : p[k] \in Nat}
           good == {k \in 0 .. m : \A j \in 0 .. k : p[j] <= p[k]}
<1>4. \A k \in 0 .. n : p[k + 1] = base * p[k]
  <2> TAKE k \in 0 .. n
  <2>1. k + 1 \in 0 .. n + 1 /\ k + 1 # 0 /\ (k + 1) - 1 = k OBVIOUS
  <2> QED BY <1>2, <2>1
<1>5. m \in Nat /\ 0 \in 0 .. m /\ m - 1 = n
      /\ \A k \in 0 .. m - 1 : k \in 0 .. n /\ k \in 0 .. m /\ k + 1 \in 0 .. m
  OBVIOUS
<1>6. \A k \in 0 .. m : p[k] \in Nat
  <2>1. 0 \in whole BY <1>3, <1>5
  <2>2. ASSUME NEW k \in 0 .. m - 1, k \in whole PROVE k + 1 \in whole
    <3>1. p[k] \in Nat /\ p[k + 1] = base * p[k] BY <1>4, <1>5, <2>2
    <3> DEFINE x == p[k]
    <3>2. base * x \in Nat BY <1>1, <3>1, SMT
    <3> QED BY <1>5, <3>1, <3>2
  <2> HIDE DEF whole
  <2> HIDE DEF m
  <2>3. \A k \in 0 .. m : k \in whole BY <1>5, <2>1, <2>2, CountUp
  <2> QED BY <2>3 DEF whole
<1>7. 0 \in good
  <2>1. \A j \in 0 .. 0 : j = 0 OBVIOUS
  <2> QED BY <1>3, <1>5, <2>1
<1>8. ASSUME NEW k \in 0 .. m - 1, k \in good PROVE k + 1 \in good
  <2>1. p[k] \in Nat /\ p[k + 1] = base * p[k] /\ \A j \in 0 .. k : p[j] <= p[k]
    BY <1>4, <1>5, <1>6, <1>8
  <2> DEFINE x == p[k]
  <2>2. x \in Nat /\ base * x \in Nat /\ x <= base * x BY <1>1, <2>1, SMT
  <2>3. ASSUME NEW j \in 0 .. k + 1 PROVE p[j] <= p[k + 1]
    <3>1. CASE j = k + 1 BY <2>1, <2>2, <3>1
    <3>2. CASE j # k + 1
      <4>1. j \in 0 .. k /\ j \in 0 .. m BY <1>5, <3>2
      <4>2. p[j] <= x /\ p[j] \in Nat BY <1>6, <2>1, <4>1
      <4> QED BY <2>1, <2>2, <4>2
    <3> QED BY <3>1, <3>2
  <2> QED BY <1>5, <2>3
<1>9. \A k \in 0 .. m : k \in good
  <2> HIDE DEF good, m
  <2> QED BY <1>5, <1>7, <1>8, CountUp
<1>10. \A k \in 0 .. n : k \in 0 .. m /\ k + 1 \in 0 .. m OBVIOUS
<1>11. \A k \in 0 .. m, l \in 0 .. m : k <= l => k \in 0 .. l OBVIOUS
<1> QED BY <1>3, <1>4, <1>6, <1>9, <1>10, <1>11

\* The digits of a number are as many as its size asks for.
LEMMA DigitsCount ==
  ASSUME NEW n \in Nat, NEW base \in Bases, NEW table \in Tables
  PROVE  Len(Digits(n, base, table)) = DigitCount(n, base)
<1> DEFINE p == CHOOSE q : IsPower(q, n, base)
           Counts(d) == n < p[d] /\ (d = 1 \/ p[d - 1] <= n)
<1>1. base \in Nat /\ base >= 2 /\ (base = 8 \/ base = 10 \/ base = 16) BY DEF Bases
<1>2. IsPower(p, n, base)
  <2>1. \E q : IsPower(q, n, base) BY <1>1, PowerExists
  <2> QED BY <2>1
<1>3. DigitCount(n, base) = CHOOSE d \in 1 .. n + 1 : Counts(d)
  BY DEF DigitCount, IsPower
<1> HIDE DEF p
<1>4. /\ p[0] = 1
      /\ \A k \in 0 .. n : p[k] \in Nat /\ p[k + 1] \in Nat /\ p[k + 1] = base * p[k]
      /\ \A k \in 0 .. n + 1, l \in 0 .. n + 1 : k <= l => p[k] <= p[l]
  BY <1>2, PowersGrow
<1>5. ASSUME NEW l \in 1 .. n + 1, Counts(l) PROVE (CHOOSE d \in 1 .. n + 1 : Counts(d)) = l
  <2>1. ASSUME NEW d \in 1 .. n + 1, Counts(d) PROVE d = l
    <3>1. CASE d < l
      <4>1. l - 1 \in 0 .. n + 1 /\ d \in 0 .. n + 1 /\ d <= l - 1 /\ l # 1 BY <3>1
      <4>2. p[d] <= p[l - 1] /\ p[l - 1] <= n BY <1>4, <1>5, <4>1
      <4>3. p[d] \in Nat /\ p[l - 1] \in Nat
        <5>1. d \in 0 .. n /\ l - 1 \in 0 .. n BY <3>1
        <5> QED BY <1>4, <5>1
      <4> QED BY <2>1, <4>2, <4>3
    <3>2. CASE l < d
      <4>1. d - 1 \in 0 .. n + 1 /\ l \in 0 .. n + 1 /\ l <= d - 1 /\ d # 1 BY <3>2
      <4>2. p[l] <= p[d - 1] /\ p[d - 1] <= n BY <1>4, <2>1, <4>1
      <4>3. p[l] \in Nat /\ p[d - 1] \in Nat
        <5>1. l \in 0 .. n /\ d - 1 \in 0 .. n BY <3>2
        <5> QED BY <1>4, <5>1
      <4> QED BY <1>5, <4>2, <4>3
    <3> QED BY <3>1, <3>2
  <2> HIDE DEF Counts
  <2> QED BY <1>5, <2>1
<1>6. CASE n = 0
  <2>1. Digits(n, base, table) = <<"0">> BY <1>6 DEF Digits
  <2>2. Len(<<"0">>) = 1 OBVIOUS
  <2>3. 0 \in 0 .. n /\ 0 + 1 = 1 /\ 1 \in 1 .. n + 1 BY <1>6
  <2>4. p[1] = base * 1 BY <1>4, <2>3
  <2>5. Counts(1) BY <1>1, <1>6, <2>4
  <2> HIDE DEF Counts
  <2> QED BY <1>3, <1>5, <2>1, <2>2, <2>3, <2>5
<1>7. CASE n # 0
  <2>1. PICK f : /\ IsDigits(f, n, base, table)
                 /\ Digits(n, base, table) = IF n = 0 THEN <<"0">> ELSE f[n]
    BY DigitsAre
  <2>2. \A i \in 0 .. n : f[i] = IF i = 0 THEN <<>>
                                 ELSE Append(f[i \div base], table[(i % base) + 1])
    BY <2>1 DEF IsDigits
  <2> DEFINE C == {table[k + 1] : k \in 0 .. base - 1}
             Long(e, i) == /\ e \in Seq(C) /\ Len(e) \in 1 .. i
                           /\ p[Len(e) - 1] <= i /\ i < p[Len(e)]
             good == {i \in 0 .. n : i # 0 => Long(f[i], i)}
  <2>3. ASSUME NEW i \in 0 .. n, \A j \in 0 .. i - 1 : j \in good PROVE i \in good
    <3> SUFFICES ASSUME i # 0 PROVE Long(f[i], i) OBVIOUS
    <3> DEFINE q == i \div base
               r == i % base
    <3>1. i \in Nat OBVIOUS
    <3>2. q \in Nat /\ r \in 0 .. base - 1 /\ i = q * base + r /\ q < i
      BY <3>1, ByBase
    <3>3. f[i] = Append(f[q], table[r + 1]) BY <2>2
    <3>4. table[r + 1] \in C BY <3>2
    <3> HIDE DEF q, r, C
    <3>5. q \in 0 .. i - 1 /\ q \in 0 .. n BY <3>1, <3>2
    <3>6. CASE q = 0
      <4>1. f[q] = <<>> BY <2>2, <3>5, <3>6
      <4>2. f[i] = <<table[r + 1]>> BY <3>3, <4>1
      <4>3. f[i] \in Seq(C) /\ Len(f[i]) = 1 BY <3>4, <4>2
      <4>4. 0 \in 0 .. n /\ 0 + 1 = 1 /\ 1 - 1 = 0 OBVIOUS
      <4>5. p[1] = base * 1 BY <1>4, <4>4
      <4>6. i < base /\ 1 <= i BY <1>1, <3>1, <3>2, <3>6
      <4>7. p[1] = base BY <1>1, <4>5
      <4> QED BY <1>4, <3>1, <4>3, <4>4, <4>6, <4>7
    <3>7. CASE q # 0
      <4> DEFINE l == Len(f[q])
      <4>1. Long(f[q], q) BY <2>3, <3>5, <3>7
      <4>2. f[q] \in Seq(C) /\ l \in 1 .. q /\ p[l - 1] <= q /\ q < p[l] BY <4>1
      <4>3. f[i] \in Seq(C) /\ Len(f[i]) = l + 1 BY <3>3, <3>4, <4>2
      <4>4. l \in 0 .. n /\ l - 1 \in 0 .. n /\ (l - 1) + 1 = l /\ (l + 1) - 1 = l
            /\ l + 1 \in 1 .. i
        BY <3>1, <3>2, <3>5, <4>2
      <4> HIDE DEF l
      <4>5. p[l] = base * p[l - 1] /\ p[l + 1] = base * p[l]
        BY <1>4, <4>4
      <4>6. p[l] \in Nat /\ p[l - 1] \in Nat BY <1>4, <4>4
      <4> DEFINE x == p[l]
                 y == p[l - 1]
      <4>7. base * y <= i /\ i < base * x
        <5>1. x \in Nat /\ y \in Nat /\ y <= q /\ q < x BY <4>2, <4>6
        <5> HIDE DEF x, y
        <5> QED BY <1>1, <3>1, <3>2, <5>1, SMT
      <4> QED BY <4>3, <4>4, <4>5, <4>7
    <3> QED BY <3>6, <3>7
  <2>4. n \in good
    <3>1. \A i \in 0 .. n : i \in good
      <4> HIDE DEF good
      <4> QED BY <2>3, FromBelow
    <3>2. n \in 0 .. n OBVIOUS
    <3> QED BY <3>1, <3>2
  <2> DEFINE l == Len(f[n])
  <2>5. l \in 1 .. n /\ p[l - 1] <= n /\ n < p[l] BY <1>7, <2>4
  <2>6. l \in 1 .. n + 1 /\ Counts(l) BY <2>5
  <2> HIDE DEF Counts, good
  <2> QED BY <1>3, <1>5, <1>7, <2>1, <2>6
<1> QED BY <1>6, <1>7

-----------------------------------------------------------------------------
(* Reading a number.                                                       *)

\* isdigit and isalpha count every character.
LEMMA DigitIsWhole ==
  ASSUME NEW c
  PROVE  Value(c) \in Nat
<1> DEFINE at == {i \in 1 .. 36 : Upper[i] = c \/ Lower[i] = c}
<1>1. Value(c) = IF at = {} THEN 99 ELSE Min(at) - 1 BY DEF Value
<1>2. at \subseteq Nat /\ at \subseteq 1 .. 36 OBVIOUS
<1> HIDE DEF at
<1>3. CASE at # {}
  <2>1. Min(at) \in at BY <1>2, <1>3, MinIsLeast
  <2> DEFINE k == Min(at)
  <2>2. k \in 1 .. 36 BY <1>2, <2>1
  <2> HIDE DEF k
  <2>3. k - 1 \in Nat BY <2>2
  <2> QED BY <1>1, <1>3, <2>3 DEF k
<1> QED BY <1>1, <1>3

\* What the shifted table makes of characters is a number (ctype.h 16-26).
LEMMA DigitOfIsWhole ==
  ASSUME NEW c
  PROVE  DigitOf(c) \in Int
<1>1. Value(c) \in Nat BY DigitIsWhole
<1>2. DigitOf(c) = 99 \/ DigitOf(c) = -1 \/ DigitOf(c) = 9 \/ DigitOf(c) = Value(c)
  BY Zenon DEF DigitOf
<1> QED BY <1>1, <1>2

\* Of the digits that are printed, the table misses the 9 only.
LEMMA DigitOfDigit ==
  ASSUME NEW c \in DigitChar, c # "9"
  PROVE  DigitOf(c) = Value(c)
<1>1. c \notin {"9", "Z", "z"} /\ c # "/" /\ c \notin {"@", "GRAVE"} BY Zenon DEF DigitChar
<1> QED BY <1>1, Zenon DEF DigitOf

\* What may stand behind a number ends it.
LEMMA DigitOfOthers ==
  ASSUME NEW c \in {" ", "%", ""}
  PROVE  DigitOf(c) = 99
<1>1. Value(c) = 99 BY NoDigit
<1>2. c \notin {"9", "Z", "z"} /\ c # "/" /\ c \notin {"@", "GRAVE"} BY Zenon
<1> QED BY <1>1, <1>2, Zenon DEF DigitOf

\* Digits and signs are not passed over as white space.
LEMMA NoSpace ==
  ASSUME NEW c, c \in DigitChar \/ c = "-" \/ c = "+"
  PROVE  ~IsSpace(c)
BY Zenon DEF DigitChar, IsSpace

\* No number in the range is what stands for one beyond it.
LEMMA LimitsAreSmall == /\ LongMax \in Nat /\ TooBig \in Nat
                        /\ LongMax < TooBig /\ LongMax + 1 < TooBig
BY LongAssumption DEF TooBig, Word

\* The loop of strtol over the digits.
IsAcc(acc, w, first, end, base, limit, cut) ==
  acc = [i \in first - 1 .. end - 1 |->
           IF i = first - 1 THEN 0
           ELSE LET c == DigitOf(w[i])
                IN  IF \/ acc[i - 1] = TooBig \/ acc[i - 1] > limit \div base
                       \/ acc[i - 1] = limit \div base /\ c > cut
                    THEN TooBig
                    ELSE acc[i - 1] * base + c]

\* The values of strtol's loop are defined (strtol.cpp 96-128).
LEMMA AccExists ==
  ASSUME NEW w, NEW first \in Int, NEW end \in Int, first <= end,
         NEW base \in Bases, NEW limit, NEW cut
  PROVE  \E acc : IsAcc(acc, w, first, end, base, limit, cut)
<1> DEFINE Over(a, i) == \/ a = TooBig \/ a > limit \div base
                         \/ a = limit \div base /\ DigitOf(w[i]) > cut
           step == [x \in Int \X Int |->
                      IF Over(x[1], x[2]) THEN TooBig ELSE x[1] * base + DigitOf(w[x[2]])]
           lo == first - 1
           n == end - first
           a0 == 0
<1>1. step \in [Int \X Int -> Int]
  <2>1. ASSUME NEW x \in Int \X Int PROVE step[x] \in Int
    <3> DEFINE a == x[1]
               c == DigitOf(w[x[2]])
    <3>1. a \in Int /\ c \in Int /\ base \in Nat BY DigitOfIsWhole DEF Bases
    <3>2. step[x] = IF Over(a, x[2]) THEN TooBig ELSE a * base + c OBVIOUS
    <3> HIDE DEF a, c, Over, step
    <3>3. a * base + c \in Int BY <3>1, SMT
    <3>4. TooBig \in Int BY LimitsAreSmall
    <3> QED BY <3>2, <3>3, <3>4
  <2>2. step = [x \in Int \X Int |-> step[x]] OBVIOUS
  <2> HIDE DEF step
  <2> QED BY <2>1, <2>2
<1>2. n \in Nat /\ lo \in Int /\ a0 \in Int /\ lo + n = end - 1 OBVIOUS
<1> HIDE DEF step, n, lo, a0
<1>3. PICK acc : Rounds(acc, lo, n, Int, a0, step) BY <1>1, <1>2, RoundsExist
<1>4. /\ acc \in [lo .. end - 1 -> Int]
      /\ \A i \in lo .. end - 1 : acc[i] = IF i = lo THEN a0 ELSE step[<<acc[i - 1], i>>]
  BY <1>2, <1>3 DEF Rounds
<1>5. ASSUME NEW i \in lo .. end - 1
      PROVE  acc[i] = IF i = lo THEN 0
                      ELSE LET c == DigitOf(w[i])
                           IN  IF \/ acc[i - 1] = TooBig \/ acc[i - 1] > limit \div base
                                  \/ acc[i - 1] = limit \div base /\ c > cut
                               THEN TooBig
                               ELSE acc[i - 1] * base + c
  <2>1. CASE i # lo
    <3> DEFINE a == acc[i - 1]
    <3>1. i - 1 \in lo .. end - 1 /\ i \in Int BY <1>2, <2>1
    <3>2. a \in Int BY <1>4, <3>1
    <3>3. acc[i] = step[<<a, i>>] BY <1>4, <2>1
    <3> HIDE DEF a
    <3>4. step[<<a, i>>] = IF Over(a, i) THEN TooBig ELSE a * base + DigitOf(w[i])
      BY <3>1, <3>2 DEF step
    <3> QED BY <2>1, <3>3, <3>4 DEF a
  <2>2. CASE i = lo BY <1>4, <2>2 DEF a0
  <2> QED BY <2>1, <2>2
<1>6. acc = [i \in lo .. end - 1 |-> acc[i]] BY <1>4
<1>7. IsAcc(acc, w, first, end, base, limit, cut)
  BY <1>5, <1>6, Zenon DEF IsAcc, lo
<1> QED BY <1>7

\* One digit more passes the limit exactly if strtol's test says so.
LEMMA TestIsExact ==
  ASSUME NEW base \in Bases, NEW limit \in Nat, NEW x \in Nat, NEW c \in 0 .. base - 1
  PROVE  /\ x > limit => x * base + c > limit
         /\ x * base + c > limit
              <=> x > limit \div base \/ (x = limit \div base /\ c > limit % base)
<1> DEFINE q == limit \div base
           r == limit % base
<1>1. q \in Nat /\ r \in 0 .. base - 1 /\ limit = q * base + r BY ByBase
<1> HIDE DEF q, r
<1>2. base = 8 \/ base = 10 \/ base = 16 BY DEF Bases
<1>3. /\ x > limit => x * base + c > limit
      /\ x * base + c > limit <=> x > q \/ (x = q /\ c > r)
  <2>1. CASE base = 8 BY <1>1, <2>1, SMT
  <2>2. CASE base = 10 BY <1>1, <2>2, SMT
  <2>3. CASE base = 16 BY <1>1, <2>3, SMT
  <2> QED BY <1>2, <2>1, <2>2, <2>3
<1> QED BY <1>3 DEF q, r

\* What the loop has at the end, behind zeros and digits that show a number.
AccEnds(acc, e, limit, m) == acc[e - 1] = IF m > limit THEN TooBig ELSE m

\* In a part of a text the table sees the characters as they are.
Agree(w, first, e) == \A i \in first .. e - 1 : DigitOf(w[i]) = Value(w[i])

\* strtol's loop ends with the number that zeros and digits show, or with TooBig
\* if it is above the limit: the test before each digit is exact (strtol.cpp 96-128).
LEMMA AccReads ==
  ASSUME NEW acc, NEW w, NEW first, NEW p, NEW e, NEW base, NEW limit, NEW cut,
         NEW d, NEW m, NEW table,
         first \in Nat, p \in Nat, e \in Nat, base \in Bases, limit \in Nat,
         IsAcc(acc, w, first, e, base, limit, cut), cut = limit % base,
         Shown(d, m, base, table),
         first >= 1, first <= p, e = p + Len(d),
         \A i \in first .. p - 1 : w[i] = "0",
         \A j \in 1 .. Len(d) : w[p + j - 1] = d[j],
         limit < TooBig, Agree(w, first, e)
  PROVE  AccEnds(acc, e, limit, m)
<1> DEFINE l == Len(d)
           z == p - first
<1>1. PICK v : Reads(v, d, base) /\ v[l] = m BY DEF Shown
<1>2. l \in Nat /\ l >= 1 BY DEF Shown
<1>3. z \in Nat /\ e = p + l /\ first + z = p OBVIOUS
<1>4. \A i \in first - 1 .. e - 1 :
        acc[i] = IF i = first - 1 THEN 0
                 ELSE LET c == DigitOf(w[i])
                      IN  IF \/ acc[i - 1] = TooBig \/ acc[i - 1] > limit \div base
                             \/ acc[i - 1] = limit \div base /\ c > cut
                          THEN TooBig
                          ELSE acc[i - 1] * base + c
  BY DEF IsAcc
<1>5. /\ v \in [0 .. l -> Nat] /\ v[0] = 0
      /\ \A j \in 1 .. l : Value(d[j]) \in 0 .. base - 1 /\ v[j] = v[j - 1] * base + Value(d[j])
  BY <1>1 DEF Reads
<1> HIDE DEF l, z
<1> DEFINE zeros == {k \in 0 .. z : acc[first - 1 + k] = 0}
<1>6. 0 \in zeros
  <2>1. first - 1 \in first - 1 .. e - 1 /\ first - 1 + 0 = first - 1 /\ 0 \in 0 .. z
    BY <1>2, <1>3
  <2>2. acc[first - 1] = 0 BY <1>4, <2>1
  <2> QED BY <2>1, <2>2
<1>7. ASSUME NEW k \in 0 .. z - 1, k \in zeros PROVE k + 1 \in zeros
  <2> DEFINE i == first + k
  <2>1. /\ i \in first - 1 .. e - 1 /\ i # first - 1 /\ i \in first .. p - 1
        /\ first - 1 + k = i - 1 /\ first - 1 + (k + 1) = i /\ k + 1 \in 0 .. z
    BY <1>2, <1>3
  <2> HIDE DEF i
  <2>2. acc[i - 1] = 0 BY <1>7, <2>1
  <2>3. DigitOf(w[i]) = 0
    <3>1. Upper[1] = "0" BY DEF Upper
    <3>2. 0 \in 0 .. 15 /\ Upper \in Tables /\ "0" = Upper[0 + 1] BY <3>1 DEF Tables
    <3>3. Value("0") = 0 BY <3>2, DigitIs
    <3>4. w[i] = "0" BY <2>1
    <3>5. i \in first .. e - 1 BY <1>2, <1>3, <2>1
    <3> QED BY <3>3, <3>4, <3>5 DEF Agree
  <2>4. acc[i] = IF \/ 0 = TooBig \/ 0 > limit \div base
                    \/ 0 = limit \div base /\ 0 > cut
                 THEN TooBig
                 ELSE 0 * base + 0
    BY <1>4, <2>1, <2>2, <2>3
  <2>5. 0 * base + 0 = 0 /\ base \in Nat BY SMT DEF Bases
  <2>6. ~(0 > limit \div base) /\ ~(0 > cut)
    <3>1. limit \div base \in Nat /\ limit % base \in 0 .. base - 1 BY ByBase
    <3> QED BY <2>5, <3>1
  <2>7. acc[i] = 0
    <3>1. 0 # TooBig BY LimitsAreSmall
    <3> QED BY <2>4, <2>5, <2>6, <3>1
  <2> QED BY <2>1, <2>7
<1>8. acc[p - 1] = 0
  <2>1. \A k \in 0 .. z : k \in zeros
    <3> HIDE DEF zeros
    <3> QED BY <1>3, <1>6, <1>7, CountUp
  <2>2. z \in 0 .. z /\ first - 1 + z = p - 1 BY <1>3
  <2> QED BY <2>1, <2>2
<1> HIDE DEF zeros
<1> DEFINE Sat(x) == IF x > limit THEN TooBig ELSE x
           good == {k \in 0 .. l : acc[p - 1 + k] = Sat(v[k])}
<1>9. 0 \in good
  <2>1. p - 1 + 0 = p - 1 /\ 0 \in 0 .. l BY <1>2
  <2>2. Sat(0) = 0 OBVIOUS
  <2> HIDE DEF Sat
  <2> QED BY <1>5, <1>8, <2>1, <2>2
<1>10. ASSUME NEW k \in 0 .. l - 1, k \in good PROVE k + 1 \in good
  <2> DEFINE i == p + k
             j == k + 1
             x == v[k]
             c == Value(d[j])
             y == x * base + c
  <2>1. /\ i \in first - 1 .. e - 1 /\ i # first - 1 /\ j \in 1 .. l /\ k \in 0 .. l
        /\ j \in 0 .. l /\ j - 1 = k
        /\ p - 1 + k = i - 1 /\ p - 1 + (k + 1) = i /\ p + j - 1 = i
    BY <1>2, <1>3
  <2> HIDE DEF i, j
  <2>2. x \in Nat /\ c \in 0 .. base - 1 /\ v[j] = y BY <1>5, <2>1
  <2>3. acc[i - 1] = Sat(x) BY <1>10, <2>1
  <2>4. DigitOf(w[i]) = c
    <3>1. w[i] = d[j] BY <2>1 DEF l
    <3>2. i \in first .. e - 1 BY <1>2, <1>3, <2>1 DEF i
    <3>3. DigitOf(w[i]) = Value(w[i]) BY <3>2 DEF Agree
    <3> QED BY <3>1, <3>3
  <2>5. acc[i] = IF \/ acc[i - 1] = TooBig \/ acc[i - 1] > limit \div base
                    \/ acc[i - 1] = limit \div base /\ c > cut
                 THEN TooBig
                 ELSE acc[i - 1] * base + c
    <3> HIDE DEF c
    <3> QED BY <1>4, <2>1, <2>4
  <2> HIDE DEF x, c
  <2>6. /\ x > limit => y > limit
        /\ y > limit <=> x > limit \div base \/ (x = limit \div base /\ c > limit % base)
    BY <2>2, TestIsExact
  <2>7. acc[i] = Sat(y)
    <3>1. CASE x > limit
      <4>1. acc[i - 1] = TooBig BY <2>3, <3>1
      <4>2. acc[i] = TooBig BY <2>5, <4>1
      <4>3. y > limit BY <2>6, <3>1
      <4> QED BY <4>2, <4>3
    <3>2. CASE ~(x > limit)
      <4>1. acc[i - 1] = x /\ x # TooBig BY <2>2, <2>3, <3>2, LimitsAreSmall
      <4>2. acc[i] = IF x > limit \div base \/ (x = limit \div base /\ c > limit % base)
                     THEN TooBig ELSE y
        <5>1. acc[i] = IF \/ x = TooBig \/ x > limit \div base
                          \/ (x = limit \div base /\ c > cut)
                       THEN TooBig
                       ELSE x * base + c
          BY <2>5, <4>1
        <5> DEFINE Test == x > limit \div base \/ (x = limit \div base /\ c > cut)
        <5>2. acc[i] = IF x = TooBig \/ Test THEN TooBig ELSE y BY <5>1, Zenon
        <5>3. acc[i] = IF Test THEN TooBig ELSE y
          <6> HIDE DEF Test, y
          <6> QED BY <4>1, <5>2
        <5> HIDE DEF y
        <5> QED BY <5>3
      <4> HIDE DEF y
      <4>3. CASE y > limit BY <2>6, <4>2, <4>3
      <4>4. CASE ~(y > limit) BY <2>6, <4>2, <4>4
      <4> QED BY <4>3, <4>4
    <3> QED BY <3>1, <3>2
  <2> HIDE DEF y, Sat
  <2>8. acc[p - 1 + (k + 1)] = Sat(v[k + 1]) BY <2>1, <2>2, <2>7 DEF j
  <2>9. k + 1 \in 0 .. l BY <2>1 DEF j
  <2> QED BY <2>8, <2>9
<1>11. l \in good
  <2>1. \A k \in 0 .. l : k \in good
    <3> HIDE DEF good
    <3> QED BY <1>2, <1>9, <1>10, CountUp
  <2>2. l \in 0 .. l BY <1>2
  <2> QED BY <2>1, <2>2
<1>12. acc[p - 1 + l] = Sat(m) BY <1>1, <1>11 DEF l
<1>13. p - 1 + l = e - 1 BY <1>2, <1>3
<1> QED BY <1>12, <1>13, Zenon DEF AccEnds

\* The number a long can hold that is nearest to m, or to -m.
Nearest(m, neg) ==
  IF neg THEN (IF m > LongMax + 1 THEN LongMin ELSE -m) ELSE Small(m, LongMax)

Blank(c) == c = " "

\* A number stands in a text without a 9: at b, where it begins, a sign, a prefix,
\* zeros up to p, then its digits d up to e, where something ends it.
AfterSign(w, b) == IF w[b] \in {"-", "+"} THEN b + 1 ELSE b

Stands(w, b, first, p, e, base0, base, d, m, table) ==
  /\ Len(w) \in Nat /\ DOMAIN w = 1 .. Len(w)
  /\ b \in 1 .. Len(w) /\ first \in Nat /\ p \in Nat /\ e \in Nat
  /\ b = 1 /\ ~IsSpace(w[b]) /\ \A i \in 1 .. Len(w) : w[i] # "9"
  /\ \/ /\ first = AfterSign(w, b) + 2 /\ base = 16 /\ base0 \in {0, 16}
        /\ w[AfterSign(w, b)] = "0" /\ w[AfterSign(w, b) + 1] \in {"x", "X"}
     \/ /\ first = AfterSign(w, b)
        /\ \/ base0 # 0 /\ base0 = base
           \/ base0 = 0 /\ base = IF w[first] = "0" THEN 8 ELSE 10
  /\ first <= p /\ e = p + Len(d) /\ e <= Len(w) + 1
  /\ \A i \in first .. p - 1 : w[i] = "0"
  /\ Shown(d, m, base, table) /\ \A j \in 1 .. Len(d) : w[p + j - 1] = d[j]
  /\ e <= Len(w) => w[e] \in {" ", "%"}

IsRead(r, m, neg, e) == r = [n |-> Nearest(m, neg), end |-> e]

\* The characters of the number, and the one behind it.
LEMMA StandingCharacters ==
  ASSUME NEW w, NEW b, NEW first, NEW p, NEW e, NEW base0, NEW base, NEW d, NEW m,
         NEW table, Stands(w, b, first, p, e, base0, base, d, m, table), base \in Bases
  PROVE  /\ first < e
         /\ \A i \in first .. e - 1 : /\ i \in DOMAIN w
                                      /\ w[i] \in DigitChar /\ DigitOf(w[i]) \in 0 .. base - 1
                                      /\ DigitOf(w[i]) = Value(w[i])
         /\ CharAt(w, e) \in {" ", "%", ""}
<1>1. /\ Len(d) \in Nat /\ Len(d) >= 1 /\ d \in Seq(DigitChar)
      /\ first \in Nat /\ p \in Nat /\ e \in Nat /\ first >= 1 /\ Len(w) \in Nat
      /\ DOMAIN w = 1 .. Len(w)
  <2>1. Len(d) >= 1 /\ d \in Seq(DigitChar) BY DEF Stands, Shown
  <2>2. /\ first \in Nat /\ p \in Nat /\ e \in Nat /\ Len(w) \in Nat /\ b \in 1 .. Len(w)
        /\ DOMAIN w = 1 .. Len(w)
    BY DEF Stands
  <2>3. first = AfterSign(w, b) + 2 \/ first = AfterSign(w, b) BY DEF Stands
  <2>4. AfterSign(w, b) = b + 1 \/ AfterSign(w, b) = b BY DEF AfterSign
  <2> QED BY <2>1, <2>2, <2>3, <2>4
<1>2. first <= p /\ e = p + Len(d) /\ e <= Len(w) + 1 BY DEF Stands
<1>3. PICK v : Reads(v, d, base) BY DEF Stands, Shown
<1>4. ASSUME NEW i \in first .. e - 1
      PROVE  /\ i \in DOMAIN w /\ w[i] \in DigitChar /\ DigitOf(w[i]) \in 0 .. base - 1
             /\ DigitOf(w[i]) = Value(w[i])
  <2>1. i \in DOMAIN w BY <1>1, <1>2
  <2>n. w[i] # "9" BY <1>1, <2>1 DEF Stands
  <2>d. ASSUME w[i] \in DigitChar PROVE DigitOf(w[i]) = Value(w[i])
    BY <2>n, <2>d, DigitOfDigit
  <2>2. CASE i < p
    <3>0. i \in first .. p - 1 BY <1>1, <1>2, <2>2
    <3>1. w[i] = "0" BY <3>0 DEF Stands
    <3>2. Upper[1] = "0" BY DEF Upper
    <3>3. 0 \in 0 .. 15 /\ Upper \in Tables /\ "0" = Upper[0 + 1] BY <3>2 DEF Tables
    <3>4. Value("0") = 0 /\ "0" \in DigitChar BY <3>3, DigitIs
    <3>5. 0 \in 0 .. base - 1 BY DEF Bases
    <3> QED BY <2>1, <2>d, <3>1, <3>4, <3>5
  <2>3. CASE ~(i < p)
    <3> DEFINE j == i - p + 1
    <3>1. j \in 1 .. Len(d) /\ p + j - 1 = i BY <1>1, <1>2, <2>3
    <3> HIDE DEF j
    <3>2. w[i] = d[j] BY <3>1 DEF Stands
    <3>3. Value(d[j]) \in 0 .. base - 1 BY <1>3, <3>1 DEF Reads
    <3>4. d[j] \in DigitChar BY <1>1, <3>1
    <3> QED BY <2>1, <2>d, <3>2, <3>3, <3>4
  <2> QED BY <2>2, <2>3
<1>5. CharAt(w, e) \in {" ", "%", ""}
  <2>1. CASE e <= Len(w)
    <3>1. e \in DOMAIN w BY <1>1, <1>2, <2>1
    <3>2. w[e] \in {" ", "%"} BY <2>1 DEF Stands
    <3> QED BY <3>1, <3>2, Zenon DEF CharAt
  <2>2. CASE ~(e <= Len(w))
    <3>1. e \notin DOMAIN w BY <1>1, <2>2
    <3> QED BY <3>1, Zenon DEF CharAt
  <2> QED BY <2>1, <2>2
<1>6. first < e BY <1>1, <1>2
<1> QED BY <1>4, <1>5, <1>6

\* strtol reads a number that stands in a text (strtol.cpp 36-132).
LEMMA StrtolReads ==
  ASSUME NEW w, NEW b, NEW first, NEW p, NEW e, NEW base0, NEW base, NEW d, NEW m,
         NEW table, Stands(w, b, first, p, e, base0, base, d, m, table),
         base \in Bases, m \in Nat
  PROVE  IsRead(strtol(w, base0), m, w[b] = "-", e)
<1> DEFINE start == Min({i \in 1 .. Len(w) + 1 : ~IsSpace(CharAt(w, i))})
           neg == CharAt(w, start) = "-"
           from == IF CharAt(w, start) \in {"-", "+"} THEN start + 1 ELSE start
           hex == /\ base0 \in {0, 16}
                  /\ CharAt(w, from) = "0" /\ CharAt(w, from + 1) \in {"x", "X"}
           theBase == IF hex THEN 16 ELSE IF base0 # 0 THEN base0
                      ELSE IF CharAt(w, from) = "0" THEN 8 ELSE 10
           theFirst == IF hex THEN from + 2 ELSE from
           end == Min({i \in theFirst .. Big(theFirst, Len(w) + 1) :
                         DigitOf(CharAt(w, i)) >= theBase})
           limit == IF neg THEN LongMax + 1 ELSE LongMax
           acc == CHOOSE f : IsAcc(f, w, theFirst, end, theBase, limit, Cutlim(neg, theBase))
<1>1. strtol(w, base0) =
        [n |-> IF acc[end - 1] = TooBig THEN (IF neg THEN LongMin ELSE LongMax)
               ELSE IF neg THEN -acc[end - 1] ELSE acc[end - 1],
         end |-> IF end = theFirst THEN 1 ELSE end]
  BY DEF strtol, IsAcc
<1>2. /\ first < e
      /\ \A i \in first .. e - 1 : /\ i \in DOMAIN w
                                   /\ w[i] \in DigitChar /\ DigitOf(w[i]) \in 0 .. base - 1
                                   /\ DigitOf(w[i]) = Value(w[i])
      /\ CharAt(w, e) \in {" ", "%", ""}
  BY StandingCharacters
<1>3. /\ Len(w) \in Nat /\ DOMAIN w = 1 .. Len(w) /\ b \in 1 .. Len(w)
      /\ first \in Nat /\ p \in Nat /\ e \in Nat /\ first <= p /\ e <= Len(w) + 1
  BY DEF Stands
<1> DEFINE l == Len(w)
<1>b. \A i : i \in DOMAIN w <=> i \in 1 .. l BY <1>3
<1>0. /\ l \in Nat /\ b \in 1 .. l
      /\ first \in Nat /\ p \in Nat /\ e \in Nat /\ first <= p /\ e <= l + 1 /\ first < e
  BY <1>2, <1>3
<1>a. Len(w) = l OBVIOUS
<1> HIDE DEF l
<1>4. start = b
  <2> DEFINE S == {i \in 1 .. l + 1 : ~IsSpace(CharAt(w, i))}
  <2>1. S \subseteq Nat BY <1>0
  <2>2. b \in S /\ b = 1
    <3>1. b = 1 /\ ~IsSpace(w[b]) BY DEF Stands
    <3>2. CharAt(w, b) = w[b] BY <1>0, <1>b, Zenon DEF CharAt
    <3> QED BY <1>0, <3>1, <3>2
  <2>3. ASSUME NEW y \in S PROVE b <= y BY <1>0, <2>2
  <2>4. start = Min(S) BY <1>a, Zenon
  <2> HIDE DEF S, start
  <2>5. Min(S) = b BY <2>1, <2>2, <2>3, TheLeast
  <2> QED BY <2>4, <2>5
<1> HIDE DEF start
<1>5. CharAt(w, start) = w[b] BY <1>3, <1>4 DEF CharAt
<1>6. from = AfterSign(w, b) BY <1>4, <1>5 DEF AfterSign
<1>7. neg = (w[b] = "-") BY <1>5
<1> HIDE DEF from, neg
<1>8. /\ from \in Nat /\ from >= 1
      /\ from + 1 <= first => from \in DOMAIN w
      /\ from + 2 <= first => from + 1 \in DOMAIN w
  <2>1. from = b + 1 \/ from = b BY <1>6 DEF AfterSign
  <2> QED BY <1>0, <1>b, <2>1
<1>9. theFirst = first /\ theBase = base
  <2>1. CASE /\ first = from + 2 /\ base = 16 /\ base0 \in {0, 16}
             /\ w[from] = "0" /\ w[from + 1] \in {"x", "X"}
    <3>1. CharAt(w, from) = "0" /\ CharAt(w, from + 1) \in {"x", "X"}
      BY <1>8, <2>1 DEF CharAt
    <3>2. hex BY <2>1, <3>1
    <3> HIDE DEF hex
    <3> QED BY <2>1, <3>2
  <2>2. CASE /\ first = from
             /\ \/ base0 # 0 /\ base0 = base
                \/ base0 = 0 /\ base = IF w[first] = "0" THEN 8 ELSE 10
    <3>1. CharAt(w, first + 1) \notin {"x", "X"}
      <4>1. CASE first + 1 = e BY <1>2, <4>1, Zenon
      <4>2. CASE first + 1 # e
        <5>1. first + 1 \in first .. e - 1 BY <1>0, <4>2
        <5>2. w[first + 1] \in DigitChar /\ first + 1 \in DOMAIN w BY <1>2, <5>1
        <5>3. CharAt(w, first + 1) \in DigitChar BY <5>2 DEF CharAt
        <5> QED BY <5>3, OtherCharacters
      <4> QED BY <4>1, <4>2
    <3>2. ~hex BY <2>2, <3>1
    <3>0. first = from BY <2>2
    <3>3. first \in DOMAIN w BY <1>0, <1>b, <1>8, <3>0
    <3>4. CharAt(w, from) = w[first] BY <2>2, <3>3 DEF CharAt
    <3> HIDE DEF hex
    <3> QED BY <2>2, <3>2, <3>4
  <2>3. \/ /\ first = from + 2 /\ base = 16 /\ base0 \in {0, 16}
           /\ w[from] = "0" /\ w[from + 1] \in {"x", "X"}
        \/ /\ first = from
           /\ \/ base0 # 0 /\ base0 = base
              \/ base0 = 0 /\ base = IF w[first] = "0" THEN 8 ELSE 10
    BY <1>6, Zenon DEF Stands
  <2> QED BY <2>1, <2>2, <2>3
<1> HIDE DEF theFirst, theBase
<1>10. end = e
  <2> DEFINE S == {i \in theFirst .. Big(theFirst, Len(w) + 1) :
                     DigitOf(CharAt(w, i)) >= theBase}
  <2>1. Big(theFirst, Len(w) + 1) = l + 1
    <3>1. ~(first >= l + 1) \/ first = l + 1 BY <1>0
    <3> QED BY <1>9, <1>a, <3>1 DEF Big
  <2>2. S = {i \in first .. l + 1 : DigitOf(CharAt(w, i)) >= base}
    BY <1>9, <2>1
  <2> HIDE DEF S
  <2>3. S \subseteq Nat BY <1>0, <2>2
  <2>4. e \in S
    <3>1. DigitOf(CharAt(w, e)) = 99 BY <1>2, DigitOfOthers
    <3>2. 99 >= base BY DEF Bases
    <3>3. e \in first .. l + 1 BY <1>0
    <3> QED BY <2>2, <3>1, <3>2, <3>3
  <2>5. ASSUME NEW y \in S PROVE e <= y
    <3>1. y \in first .. l + 1 /\ DigitOf(CharAt(w, y)) >= base BY <2>2
    <3>2. CASE y < e
      <4>1. y \in first .. e - 1 BY <1>0, <3>1, <3>2
      <4>2. y \in DOMAIN w /\ DigitOf(w[y]) \in 0 .. base - 1 BY <1>2, <4>1
      <4>3. CharAt(w, y) = w[y] BY <4>2 DEF CharAt
      <4>4. base \in Nat BY DEF Bases
      <4> QED BY <3>1, <4>2, <4>3, <4>4
    <3> QED BY <1>0, <3>1, <3>2
  <2>6. Min(S) = e BY <2>3, <2>4, <2>5, TheLeast
  <2> QED BY <2>6 DEF S
<1> HIDE DEF end
<1> DEFINE cut == Cutlim(neg, theBase)
<1>11. cut = limit % base BY <1>9 DEF Cutlim
<1>12. limit \in Nat /\ LongMax \in Nat BY LongAssumption
<1>13. IsAcc(acc, w, theFirst, end, theBase, limit, cut)
  <2>1. theFirst \in Int /\ end \in Int /\ theFirst <= end /\ theBase \in Bases
    BY <1>0, <1>9, <1>10
  <2> HIDE DEF limit, cut
  <2>2. \E f : IsAcc(f, w, theFirst, end, theBase, limit, cut) BY <2>1, AccExists
  <2>3. acc = CHOOSE f : IsAcc(f, w, theFirst, end, theBase, limit, cut) BY DEF acc, cut
  <2> HIDE DEF acc
  <2> QED BY <2>2, <2>3
<1> HIDE DEF acc, cut
<1>14. AccEnds(acc, e, limit, m)
  <2>1. IsAcc(acc, w, first, e, base, limit, cut) BY <1>9, <1>10, <1>13
  <2>2. Shown(d, m, base, table) /\ e = p + Len(d) BY DEF Stands
  <2>3. \A i \in first .. p - 1 : w[i] = "0" BY DEF Stands
  <2>4. \A j \in 1 .. Len(d) : w[p + j - 1] = d[j] BY DEF Stands
  <2>5. first >= 1
    <3>1. first = from + 2 \/ first = from BY <1>6 DEF Stands
    <3> QED BY <1>8, <3>1
  <2>6. limit < TooBig BY LimitsAreSmall
  <2>7. Agree(w, first, e) BY <1>2 DEF Agree
  <2> HIDE DEF limit
  <2> QED BY <1>3, <1>11, <1>12, <2>1, <2>2, <2>3, <2>4, <2>5, <2>6, <2>7, AccReads
<1> DEFINE a == acc[end - 1]
<1>15. a = IF m > limit THEN TooBig ELSE m BY <1>10, <1>14 DEF AccEnds
<1>16. end # theFirst BY <1>0, <1>9, <1>10
<1>17. strtol(w, base0) = [n |-> IF a = TooBig THEN (IF neg THEN LongMin ELSE LongMax)
                                 ELSE IF neg THEN -a ELSE a, end |-> e]
  BY <1>1, <1>10, <1>16
<1> HIDE DEF a
<1>18. (IF a = TooBig THEN (IF neg THEN LongMin ELSE LongMax) ELSE IF neg THEN -a ELSE a)
         = Nearest(m, neg)
  <2>1. CASE neg
    <3>1. limit = LongMax + 1 BY <2>1
    <3> HIDE DEF limit
    <3> QED BY <1>12, <1>15, <2>1, <3>1, LimitsAreSmall DEF Nearest
  <2>2. CASE ~neg
    <3>1. limit = LongMax BY <2>2
    <3> HIDE DEF limit
    <3> QED BY <1>12, <1>15, <2>2, <3>1, LimitsAreSmall DEF Nearest, Small
  <2> QED BY <2>1, <2>2
<1>19. strtol(w, base0) = [n |-> Nearest(m, neg), end |-> e] BY <1>17, <1>18
<1> QED BY <1>7, <1>19 DEF IsRead

-----------------------------------------------------------------------------
(* Texts in texts.                                                         *)

\* A text stands in another one, behind its first a characters.
At(w, a, u) ==
  a \in Nat /\ a + Len(u) <= Len(w) /\ \A i \in 1 .. Len(u) : w[a + i] = u[i]

\* What stands in the first of two texts stands in both.
LEMMA AtLeft ==
  ASSUME NEW C, NEW s, NEW t, NEW u, NEW a,
         s \in Seq(C), t \in Seq(C), u \in Seq(C), At(s, a, u)
  PROVE  At(s \o t, a, u)
<1> DEFINE l == Len(s)
           n == Len(u)
<1>1. /\ a \in Nat /\ n \in Nat /\ l \in Nat /\ Len(t) \in Nat /\ a + n <= l
      /\ \A i \in 1 .. n : s[a + i] = u[i]
  BY DEF At
<1>2. /\ Len(s \o t) = l + Len(t)
      /\ \A i \in 1 .. l : (s \o t)[i] = s[i]
  BY <1>1
<1> HIDE DEF l, n
<1>3. a + n <= l + Len(t) BY <1>1
<1>4. ASSUME NEW i \in 1 .. n PROVE (s \o t)[a + i] = u[i]
  <2>1. a + i \in 1 .. l BY <1>1
  <2> QED BY <1>1, <1>2, <2>1
<1> QED BY <1>1, <1>2, <1>3, <1>4 DEF At, n

\* What stands in the second of two texts stands behind the first.
LEMMA AtRight ==
  ASSUME NEW C, NEW s, NEW t, NEW u, NEW a,
         s \in Seq(C), t \in Seq(C), u \in Seq(C), At(t, a, u)
  PROVE  At(s \o t, Len(s) + a, u)
<1> DEFINE l == Len(s)
           n == Len(u)
           k == Len(t)
<1>1. /\ a \in Nat /\ n \in Nat /\ l \in Nat /\ k \in Nat /\ a + n <= k
      /\ \A i \in 1 .. n : t[a + i] = u[i]
  BY DEF At
<1>2. /\ Len(s \o t) = l + k
      /\ \A i \in l + 1 .. l + k : (s \o t)[i] = t[i - l]
  BY <1>1
<1> HIDE DEF l, n, k
<1>3. l + a + n <= l + k /\ l + a \in Nat BY <1>1
<1>4. ASSUME NEW i \in 1 .. n PROVE (s \o t)[l + a + i] = u[i]
  <2>1. l + a + i \in l + 1 .. l + k /\ (l + a + i) - l = a + i BY <1>1
  <2> QED BY <1>1, <1>2, <2>1
<1> QED BY <1>1, <1>2, <1>3, <1>4 DEF At, l, n

\* A text stands in itself.
LEMMA AtSelf ==
  ASSUME NEW C, NEW u, u \in Seq(C)
  PROVE  At(u, 0, u)
<1>1. Len(u) \in Nat OBVIOUS
<1>2. \A i \in 1 .. Len(u) : 0 + i = i OBVIOUS
<1> QED BY <1>1, <1>2 DEF At

\* What stands in a text stands where the text does.
LEMMA AtInside ==
  ASSUME NEW C, NEW w, NEW u, NEW v, NEW a, NEW b,
         w \in Seq(C), u \in Seq(C), v \in Seq(C), At(w, a, u), At(u, b, v)
  PROVE  At(w, a + b, v)
<1> DEFINE n == Len(u)
           k == Len(v)
           l == Len(w)
<1>1. /\ a \in Nat /\ b \in Nat /\ n \in Nat /\ k \in Nat /\ l \in Nat
      /\ a + n <= l /\ b + k <= n
      /\ \A i \in 1 .. n : w[a + i] = u[i]
      /\ \A i \in 1 .. k : u[b + i] = v[i]
  BY DEF At
<1> HIDE DEF n, k, l
<1>2. a + b \in Nat /\ a + b + k <= l BY <1>1
<1>3. ASSUME NEW i \in 1 .. k PROVE w[a + b + i] = v[i]
  <2>1. b + i \in 1 .. n /\ a + (b + i) = a + b + i BY <1>1
  <2> QED BY <1>1, <2>1
<1> QED BY <1>2, <1>3 DEF At, k, l

\* The places of four texts, one behind the other.
Places(w, A, B, C, D) ==
  /\ Len(w) = Len(A) + Len(B) + Len(C) + Len(D)
  /\ At(w, 0, A) /\ At(w, Len(A), B) /\ At(w, Len(A) + Len(B), C)
  /\ At(w, Len(A) + Len(B) + Len(C), D)

Four(S, w, A, B, C, D) == w \in Seq(S) /\ Places(w, A, B, C, D)

\* Four texts, one behind the other, stand where the lengths say.
LEMMA FourTexts ==
  ASSUME NEW S, NEW A, NEW B, NEW C, NEW D,
         A \in Seq(S), B \in Seq(S), C \in Seq(S), D \in Seq(S)
  PROVE  Four(S, A \o B \o C \o D, A, B, C, D)
<1> DEFINE x == A \o B
           y == x \o C
           w == y \o D
<1>1. x \in Seq(S) /\ Len(x) = Len(A) + Len(B) OBVIOUS
<1>2. At(x, 0, A) /\ At(x, Len(A) + 0, B)
  <2>1. At(A, 0, A) /\ At(B, 0, B) BY AtSelf
  <2> QED BY <2>1, AtLeft, AtRight
<1>a. w = y \o D OBVIOUS
<1> HIDE DEF x, w
<1>3. y \in Seq(S) /\ Len(y) = Len(A) + Len(B) + Len(C)
  <2>1. y \in Seq(S) /\ Len(y) = Len(x) + Len(C) BY <1>1, ConcatProperties
  <2> HIDE DEF y
  <2> QED BY <1>1, <2>1
<1>4. At(y, 0, A) /\ At(y, Len(A) + 0, B) /\ At(y, Len(x) + 0, C)
  <2>1. At(C, 0, C) BY AtSelf
  <2> QED BY <1>1, <1>2, <2>1, AtLeft, AtRight
<1> HIDE DEF y
<1>5. w \in Seq(S) /\ Len(w) = Len(A) + Len(B) + Len(C) + Len(D)
  <2>1. w \in Seq(S) /\ Len(w) = Len(y) + Len(D) BY <1>a, <1>3, ConcatProperties
  <2> QED BY <1>3, <2>1
<1>6. /\ At(w, 0, A) /\ At(w, Len(A) + 0, B) /\ At(w, Len(x) + 0, C)
      /\ At(w, Len(y) + 0, D)
  <2>1. At(D, 0, D) BY AtSelf
  <2> QED BY <1>a, <1>3, <1>4, <2>1, AtLeft, AtRight
<1>7. Len(A) \in Nat /\ Len(B) \in Nat /\ Len(C) \in Nat OBVIOUS
<1>8. Len(A) + 0 = Len(A) /\ Len(x) + 0 = Len(A) + Len(B)
      /\ Len(y) + 0 = Len(A) + Len(B) + Len(C)
  BY <1>1, <1>3, <1>7
<1>9. Places(w, A, B, C, D) BY <1>5, <1>6, <1>8 DEF Places
<1>10. Four(S, w, A, B, C, D) BY <1>5, <1>9 DEF Four
<1> QED BY <1>10 DEF w, y, x

\* A character that is repeated; not at all, if the count is negative.
LEMMA TimesIs ==
  ASSUME NEW C, NEW c \in C, NEW n \in Int
  PROVE  /\ Times(c, n) \in Seq(C) /\ Len(Times(c, n)) = Big(0, n)
         /\ \A i \in 1 .. Big(0, n) : Times(c, n)[i] = c
<1> DEFINE k == Big(0, n)
<1>1. k \in Nat /\ 1 .. n = 1 .. k
  <2>1. CASE 0 >= n
    <3>1. k = 0 BY <2>1 DEF Big
    <3>2. 1 .. n = {} /\ 1 .. 0 = {} BY <2>1
    <3> QED BY <3>1, <3>2
  <2>2. CASE ~(0 >= n) BY <2>2 DEF Big
  <2> QED BY <2>1, <2>2
<1> HIDE DEF k
<1>2. Times(c, n) = [i \in 1 .. k |-> c] BY <1>1 DEF Times
<1>3. [i \in 1 .. k |-> c] \in Seq(C) /\ Len([i \in 1 .. k |-> c]) = k BY <1>1
<1> QED BY <1>2, <1>3 DEF k

\* A character that is repeated twice in a row is repeated.
LEMMA TimesMore ==
  ASSUME NEW C, NEW c \in C, NEW n \in Int, NEW m \in Int, NEW w, NEW a,
         At(w, a, Times(c, n)), At(w, a + Big(0, n), Times(c, m))
  PROVE  At(w, a, Times(c, Big(0, n) + Big(0, m)))
<1> DEFINE x == Big(0, n)
           y == Big(0, m)
           l == Len(w)
<1>1. x \in Nat /\ y \in Nat BY DEF Big
<1>2. /\ Len(Times(c, n)) = x /\ \A i \in 1 .. x : Times(c, n)[i] = c
  BY TimesIs
<1>3. /\ Len(Times(c, m)) = y /\ \A i \in 1 .. y : Times(c, m)[i] = c
  BY TimesIs
<1>4. Big(0, x + y) = x + y BY <1>1 DEF Big
<1>5. x + y \in Int BY <1>1
<1>6. /\ a \in Nat
      /\ a + x <= l /\ \A i \in 1 .. x : w[a + i] = c
      /\ a + x + y <= l /\ \A i \in 1 .. y : w[a + x + i] = c
  BY <1>2, <1>3 DEF At
<1> HIDE DEF x, y, l
<1>7. /\ Len(Times(c, x + y)) = x + y /\ \A i \in 1 .. x + y : Times(c, x + y)[i] = c
  BY <1>4, <1>5, TimesIs
<1>8. ASSUME NEW i \in 1 .. x + y PROVE w[a + i] = c
  <2>1. CASE i <= x
    <3>1. i \in 1 .. x BY <1>1, <2>1
    <3> QED BY <1>6, <3>1
  <2>2. CASE ~(i <= x)
    <3>1. i - x \in 1 .. y /\ a + x + (i - x) = a + i BY <1>1, <1>6, <2>2
    <3> QED BY <1>6, <3>1
  <2> QED BY <2>1, <2>2
<1>9. a + (x + y) <= l
  <2>1. a + (x + y) = a + x + y BY <1>1, <1>6
  <2> QED BY <1>6, <2>1
<1>10. At(w, a, Times(c, x + y)) BY <1>6, <1>7, <1>8, <1>9 DEF At, l
<1> QED BY <1>10 DEF x, y

-----------------------------------------------------------------------------
(* What number prints.                                                     *)

OutChar == DigitChar \union {" ", "%", "-", "+", "x", "X"}
Blanks(n) == Times(" ", n)
Zeros(n) == Times("0", n)

IsMinus(n, flags) == "SIGN" \in flags /\ Signed(n) < 0
SignText(n, flags) ==
  IF IsMinus(n, flags) THEN <<"-">> ELSE IF "+" \in flags THEN <<"+">>
  ELSE IF " " \in flags THEN <<" ">> ELSE <<>>
PrefixText(base, flags) ==
  IF "#" \notin flags THEN <<>>
  ELSE IF base = 16 THEN <<"0", IF "SMALL" \in flags THEN "x" ELSE "X">>
  ELSE IF base = 8 THEN <<"0">> ELSE <<>>
Magnitude(n, flags) == IF IsMinus(n, flags) THEN -Signed(n) ELSE n
TableOf(flags) == IF "SMALL" \in flags THEN Lower ELSE Upper
Figures(n, base, flags) == Digits(Magnitude(n, flags), base, TableOf(flags))

\* Blanks, a sign s, a prefix g, zeros, the digits d and blanks again.
Laid(w, x, s, g, z, d, t) ==
  /\ w \in Seq(OutChar) /\ Len(w) = x + Len(s) + Len(g) + z + Len(d) + t
  /\ At(w, 0, Blanks(x)) /\ At(w, x, s) /\ At(w, x + Len(s), g)
  /\ At(w, x + Len(s) + Len(g), Zeros(z))
  /\ At(w, x + Len(s) + Len(g) + z, d)
  /\ At(w, x + Len(s) + Len(g) + z + Len(d), Blanks(t))

\* k zeros for the precision, and r characters more to fill the field.
Filled(x, z, t, k, r, flags) ==
  IF "-" \in flags THEN x = 0 /\ z = k /\ t = r
  ELSE IF "0" \in flags THEN x = 0 /\ z = k + r /\ t = 0
  ELSE x = r /\ z = k /\ t = 0

PadTo(precision, d) == Big(0, precision - Len(d))
FillTo(size, s, g, k, d) == Big(0, size - Len(s) - Len(g) - (k + Len(d)))

NumberLaid(w, n, base, size, precision, flags) ==
  LET s == SignText(n, flags)
      g == PrefixText(base, flags)
      d == Figures(n, base, flags)
      k == PadTo(precision, d)
  IN  \E x \in Nat, z \in Nat, t \in Nat :
        Laid(w, x, s, g, z, d, t) /\ Filled(x, z, t, k, FillTo(size, s, g, k, d), flags)

\* A sign is one character or none.
LEMMA SignIs ==
  ASSUME NEW n, NEW flags
  PROVE  SignText(n, flags) \in Seq(OutChar) /\ Len(SignText(n, flags)) \in 0 .. 1
<1>1. "-" \in OutChar /\ "+" \in OutChar /\ " " \in OutChar BY Zenon DEF OutChar
<1> DEFINE b == " "
<1>2. b \in OutChar BY <1>1
<1> HIDE DEF b
<1> DEFINE t == SignText(n, flags)
<1>3. \/ t = <<"-">> \/ t = <<"+">>
      \/ t = <<b>> \/ t = <<>>
  BY Zenon DEF SignText, b
<1>4. "-" \in OutChar /\ "+" \in OutChar BY <1>1
<1>5. \A c \in OutChar : <<c>> \in Seq(OutChar) /\ Len(<<c>>) = 1 OBVIOUS
<1>6. <<>> \in Seq(OutChar) /\ Len(<<>>) = 0 OBVIOUS
<1> HIDE DEF t
<1>7. t \in Seq(OutChar) /\ (Len(t) = 0 \/ Len(t) = 1)
  <2>1. CASE t = <<"-">> BY <1>4, <1>5, <2>1
  <2>2. CASE t = <<"+">> BY <1>4, <1>5, <2>2
  <2>3. CASE t = <<b>> BY <1>2, <1>5, <2>3
  <2>4. CASE t = <<>> BY <1>6, <2>4
  <2> QED BY <1>3, <2>1, <2>2, <2>3, <2>4
<1>8. Len(t) \in 0 .. 1 BY <1>7
<1> QED BY <1>7, <1>8 DEF t

\* A prefix is 0x, 0X, 0 or none, as the base says (vsprintf.cpp 74-81).
LEMMA PrefixTextIs ==
  ASSUME NEW base, NEW flags
  PROVE  /\ PrefixText(base, flags) \in Seq(OutChar)
         /\ \/ PrefixText(base, flags) = <<>>
            \/ base = 8 /\ PrefixText(base, flags) = <<"0">>
            \/ base = 16 /\ PrefixText(base, flags) = <<"0", "x">>
            \/ base = 16 /\ PrefixText(base, flags) = <<"0", "X">>
<1>1. "0" \in OutChar /\ "x" \in OutChar /\ "X" \in OutChar BY Zenon DEF OutChar, DigitChar
<1>2. /\ <<>> \in Seq(OutChar)
      /\ \A c \in OutChar : <<c>> \in Seq(OutChar)
      /\ \A c \in OutChar, e \in OutChar : <<c, e>> \in Seq(OutChar)
  OBVIOUS
<1>3. \/ PrefixText(base, flags) = <<>>
      \/ base = 8 /\ PrefixText(base, flags) = <<"0">>
      \/ base = 16 /\ PrefixText(base, flags) = <<"0", "x">>
      \/ base = 16 /\ PrefixText(base, flags) = <<"0", "X">>
  BY DEF PrefixText
<1> QED BY <1>1, <1>2, <1>3

\* A word's magnitude is a number.
LEMMA MagnitudeIs ==
  ASSUME NEW n \in 0 .. 2 * LongMax + 1, NEW flags
  PROVE  /\ Magnitude(n, flags) \in Nat
         /\ IsMinus(n, flags) => Magnitude(n, flags) <= LongMax + 1
<1>1. LongMax \in Nat BY LongAssumption
<1>2. IsMinus(n, flags) => Signed(n) < 0 BY DEF IsMinus
<1> HIDE DEF IsMinus
<1>3. n \in Nat /\ n <= 2 * LongMax + 1 BY <1>1
<1>4. IsMinus(n, flags) => Signed(n) = n - 2 * (LongMax + 1)
  BY <1>1, <1>2, <1>3 DEF Signed, Word
<1>5. IsMinus(n, flags) => n > LongMax BY <1>1, <1>2, <1>3 DEF Signed, Word
<1> QED BY <1>1, <1>3, <1>2, <1>4, <1>5 DEF Magnitude

\* The figures show the magnitude, and are as many as its digits.
LEMMA FiguresShow ==
  ASSUME NEW n \in 0 .. 2 * LongMax + 1, NEW base \in Bases, NEW flags
  PROVE  /\ Shown(Figures(n, base, flags), Magnitude(n, flags), base, TableOf(flags))
         /\ Figures(n, base, flags) \in Seq(OutChar) /\ Len(Figures(n, base, flags)) \in Nat \ {0}
         /\ Len(Figures(n, base, flags)) = DigitCount(Magnitude(n, flags), base)
<1> DEFINE d == Figures(n, base, flags)
           m == Magnitude(n, flags)
<1>1. m \in Nat BY MagnitudeIs
<1>2. TableOf(flags) \in Tables BY DEF TableOf, Tables
<1>3. d = Digits(m, base, TableOf(flags)) BY DEF Figures
<1> HIDE DEF d, m
<1>4. Shown(d, m, base, TableOf(flags)) /\ Len(d) = DigitCount(m, base)
  BY <1>1, <1>2, <1>3, DigitsShow, DigitsCount
<1>5. d \in Seq(DigitChar) /\ Len(d) >= 1 BY <1>4 DEF Shown
<1>6. DigitChar \subseteq OutChar BY Zenon DEF OutChar
<1>7. d \in Seq(OutChar) BY <1>5, <1>6, SeqMonotonic
<1>8. Len(d) \in Nat \ {0} BY <1>5
<1> QED BY <1>4, <1>7, <1>8 DEF d, m

\* number lays out blanks, sign, prefix, zeros, figures and blanks, whatever the
\* size, the precision and the flags are (vsprintf.cpp 40-92).
LEMMA NumberIsLaid ==
  ASSUME NEW n \in 0 .. 2 * LongMax + 1, NEW base \in Bases, NEW size \in Int,
         NEW precision \in Int, NEW flags
  PROVE  NumberLaid(number(n, base, size, precision, flags), n, base, size, precision, flags)
<1> DEFINE s == SignText(n, flags)
           g == PrefixText(base, flags)
           d == Figures(n, base, flags)
           zs == Zeros(precision - Len(d))
           body == zs \o d
           rest == size - Len(s) - Len(g) - Len(body)
           w == number(n, base, size, precision, flags)
           k == PadTo(precision, d)
           r == FillTo(size, s, g, k, d)
<1>1. w = IF "-" \in flags THEN s \o g \o body \o Blanks(rest)
          ELSE IF "0" \in flags THEN s \o g \o Zeros(rest) \o body
          ELSE Blanks(rest) \o s \o g \o body
  BY Zenon DEF number, SignText, IsMinus, PrefixText, Figures, Magnitude, TableOf,
               Blanks, Zeros
<1>2. s \in Seq(OutChar) /\ Len(s) \in Nat BY SignIs
<1>3. g \in Seq(OutChar) /\ Len(g) \in Nat BY PrefixTextIs
<1>4. d \in Seq(OutChar) /\ Len(d) \in Nat /\ Len(d) >= 1 BY FiguresShow
<1>5. NumberLaid(w, n, base, size, precision, flags)
        <=> \E x \in Nat, z \in Nat, t \in Nat :
              Laid(w, x, s, g, z, d, t) /\ Filled(x, z, t, k, r, flags)
  BY DEF NumberLaid
<1> HIDE DEF s, g, d, w
<1>6. "0" \in OutChar /\ " " \in OutChar BY Zenon DEF OutChar, DigitChar
<1>7. ASSUME NEW i \in Int
      PROVE  /\ Zeros(i) \in Seq(OutChar) /\ Len(Zeros(i)) = Big(0, i)
             /\ Blanks(i) \in Seq(OutChar) /\ Len(Blanks(i)) = Big(0, i)
  BY <1>6, TimesIs, Zenon DEF Zeros, Blanks
<1>8. k \in Nat /\ zs \in Seq(OutChar) /\ Len(zs) = k
  <2>1. precision - Len(d) \in Int BY <1>4
  <2>2. k = Big(0, precision - Len(d)) BY DEF PadTo
  <2> HIDE DEF k
  <2>3. Big(0, precision - Len(d)) \in Nat BY <1>4 DEF Big
  <2> QED BY <1>7, <2>1, <2>2, <2>3
<1>9. body \in Seq(OutChar) /\ Len(body) = k + Len(d)
  <2> HIDE DEF zs, k
  <2> QED BY <1>4, <1>8
<1>10. At(body, 0, zs) /\ At(body, k, d)
  <2>1. At(zs, 0, zs) /\ At(d, 0, d) BY <1>4, <1>8, AtSelf
  <2> HIDE DEF zs
  <2>2. At(body, 0, zs) /\ At(body, Len(zs) + 0, d) BY <1>4, <1>8, <2>1, AtLeft, AtRight
  <2>3. Len(zs) + 0 = k BY <1>8
  <2> QED BY <2>2, <2>3
<1>11. rest \in Int /\ r = Big(0, rest) /\ r \in Nat
  <2>1. rest \in Int /\ rest = size - Len(s) - Len(g) - (k + Len(d))
    BY <1>2, <1>3, <1>4, <1>8, <1>9
  <2> HIDE DEF rest
  <2>2. r = Big(0, rest) BY <2>1 DEF FillTo
  <2> HIDE DEF r
  <2> QED BY <2>1, <2>2 DEF Big
<1>12. At(body, 0, Zeros(k))
  <2>1. precision - Len(d) \in Int BY <1>4
  <2>2. Big(0, precision - Len(d)) = k BY DEF PadTo
  <2>3. Zeros(k) = zs
    <3> DEFINE q == precision - Len(d)
    <3>1. q \in Int /\ k = Big(0, q) BY <2>1, <2>2
    <3> HIDE DEF q, k
    <3>2. 1 .. q = 1 .. k BY <3>1 DEF Big
    <3>3. Zeros(k) = Zeros(q) BY <3>2 DEF Zeros, Times
    <3> QED BY <3>3 DEF q
  <2> QED BY <1>10, <2>3
<1> HIDE DEF body, zs, rest, k, r
<1>13. ASSUME NEW i \in Int, NEW j \in Nat, j = Big(0, i)
       PROVE  /\ Blanks(j) = Blanks(i) /\ Zeros(j) = Zeros(i)
              /\ Len(Blanks(j)) = j /\ Len(Zeros(j)) = j
              /\ Blanks(j) \in Seq(OutChar) /\ Zeros(j) \in Seq(OutChar)
  <2>1. 1 .. i = 1 .. j BY <1>13 DEF Big
  <2>2. Blanks(j) = Blanks(i) /\ Zeros(j) = Zeros(i) BY <2>1, Zenon DEF Blanks, Zeros, Times
  <2> QED BY <1>7, <1>13, <2>2
<1>14. Big(0, 0) = 0 /\ Big(0, r) = r /\ Big(0, k) = k /\ Big(0, k + r) = k + r
  BY <1>8, <1>11 DEF Big
<1>15. ASSUME NEW i \in Nat, i <= Len(w), w \in Seq(OutChar) PROVE At(w, i, Blanks(0))
  <2>1. Len(Blanks(0)) = 0 BY <1>13, <1>14
  <2> QED BY <1>15, <2>1 DEF At
<1>16. ASSUME "-" \in flags PROVE NumberLaid(w, n, base, size, precision, flags)
  <2>1. w = s \o g \o body \o Blanks(r) BY <1>1, <1>11, <1>13, <1>16
  <2>2. Blanks(r) \in Seq(OutChar) /\ Len(Blanks(r)) = r BY <1>7, <1>11, <1>14
  <2>3. w \in Seq(OutChar) /\ Places(w, s, g, body, Blanks(r))
    <3> DEFINE v == Blanks(r)
    <3>1. v \in Seq(OutChar) /\ w = s \o g \o body \o v BY <2>1, <2>2
    <3>2. s \in Seq(OutChar) /\ g \in Seq(OutChar) /\ body \in Seq(OutChar)
      BY <1>2, <1>3, <1>9
    <3> HIDE DEF v
    <3>a. v \in Seq(OutChar) BY <3>1
    <3>3. Four(OutChar, s \o g \o body \o v, s, g, body, v) BY <3>2, <3>a, FourTexts
    <3>4. w \in Seq(OutChar) /\ Places(w, s, g, body, v) BY <3>1, <3>3 DEF Four
    <3> QED BY <3>4 DEF v
  <2>4. At(w, Len(s) + Len(g) + 0, Zeros(k)) /\ At(w, Len(s) + Len(g) + k, d)
    <3>1. Zeros(k) \in Seq(OutChar) BY <1>7, <1>8
    <3>2. At(w, Len(s) + Len(g), body) BY <2>3 DEF Places
    <3> QED BY <1>4, <1>9, <1>10, <1>12, <2>3, <3>1, <3>2, AtInside
  <2>5. /\ 0 + Len(s) = Len(s) /\ Len(s) + Len(g) + 0 = Len(s) + Len(g)
        /\ Len(s) + Len(g) + k + Len(d) = Len(s) + Len(g) + (k + Len(d))
        /\ Len(s) + Len(g) + (k + Len(d)) + r = Len(s) + Len(g) + k + Len(d) + r
        /\ 0 <= Len(w)
    BY <1>2, <1>3, <1>4, <1>8, <1>11, <2>3
  <2>6. At(w, 0, Blanks(0)) BY <1>15, <2>3, <2>5
  <2>7. /\ Len(w) = Len(s) + Len(g) + (k + Len(d)) + r
        /\ At(w, 0, s) /\ At(w, Len(s), g)
        /\ At(w, Len(s) + Len(g) + (k + Len(d)), Blanks(r))
    BY <1>9, <2>2, <2>3 DEF Places
  <2>8. Laid(w, 0, s, g, k, d, r) BY <2>3, <2>4, <2>5, <2>6, <2>7 DEF Laid
  <2>z. 0 \in Nat OBVIOUS
  <2>9. Filled(0, k, r, k, r, flags) BY <1>16 DEF Filled
  <2> QED BY <1>5, <1>8, <1>11, <2>8, <2>9, <2>z, Zenon
<1>17. ASSUME "-" \notin flags, "0" \in flags
       PROVE  NumberLaid(w, n, base, size, precision, flags)
  <2>1. w = s \o g \o Zeros(r) \o body BY <1>1, <1>11, <1>13, <1>17
  <2>2. Zeros(r) \in Seq(OutChar) /\ Len(Zeros(r)) = r BY <1>7, <1>11, <1>14
  <2>3. w \in Seq(OutChar) /\ Places(w, s, g, Zeros(r), body)
    <3> DEFINE v == Zeros(r)
    <3>1. v \in Seq(OutChar) /\ w = s \o g \o v \o body BY <2>1, <2>2
    <3>2. s \in Seq(OutChar) /\ g \in Seq(OutChar) /\ body \in Seq(OutChar)
      BY <1>2, <1>3, <1>9
    <3> HIDE DEF v
    <3>a. v \in Seq(OutChar) BY <3>1
    <3>3. Four(OutChar, s \o g \o v \o body, s, g, v, body) BY <3>2, <3>a, FourTexts
    <3>4. w \in Seq(OutChar) /\ Places(w, s, g, v, body) BY <3>1, <3>3 DEF Four
    <3> QED BY <3>4 DEF v
  <2>4. /\ At(w, 0, s) /\ At(w, Len(s), g) /\ At(w, Len(s) + Len(g), Zeros(r))
        /\ At(w, Len(s) + Len(g) + r, body)
        /\ Len(w) = Len(s) + Len(g) + r + (k + Len(d))
    BY <1>9, <2>2, <2>3 DEF Places
  <2>5. /\ At(w, Len(s) + Len(g) + r + 0, Zeros(k))
        /\ At(w, Len(s) + Len(g) + r + k, d)
    <3>1. Zeros(k) \in Seq(OutChar) BY <1>7, <1>8
    <3> QED BY <1>4, <1>9, <1>10, <1>12, <2>3, <2>4, <3>1, AtInside
  <2>6. /\ Len(s) + Len(g) + r + 0 = Len(s) + Len(g) + r
        /\ Len(s) + Len(g) + r + k = Len(s) + Len(g) + (k + r)
        /\ 0 + Len(s) = Len(s)
        /\ Len(s) + Len(g) + r + (k + Len(d)) = Len(s) + Len(g) + (k + r) + Len(d) + 0
        /\ Len(s) + Len(g) + (k + r) + Len(d) <= Len(w) /\ 0 <= Len(w)
        /\ Len(s) + Len(g) + (k + r) + Len(d) \in Nat
    BY <1>2, <1>3, <1>4, <1>8, <1>11, <2>4
  <2>7. At(w, Len(s) + Len(g), Zeros(k + r))
    <3>1. At(w, Len(s) + Len(g), Zeros(Big(0, r) + Big(0, k)))
      <4>1. Big(0, r) = r BY <1>14
      <4> DEFINE a == Len(s) + Len(g)
      <4>2. At(w, a, Times("0", r)) /\ At(w, a + Big(0, r), Times("0", k))
        BY <1>14, <2>4, <2>5, <2>6 DEF Zeros
      <4>1b. r \in Int /\ k \in Int BY <1>8, <1>11
      <4>1a. "0" \in OutChar /\ r \in Int /\ k \in Int BY <1>6, <4>1b, Zenon
      <4> HIDE DEF a
      <4>3. At(w, a, Times("0", Big(0, r) + Big(0, k)))
        BY <4>1a, <4>2, TimesMore, Zenon
      <4> QED BY <4>3 DEF Zeros, a
    <3>2. Big(0, r) + Big(0, k) = k + r BY <1>8, <1>11, <1>14
    <3> QED BY <3>1, <3>2
  <2>8. At(w, 0, Blanks(0)) /\ At(w, Len(s) + Len(g) + (k + r) + Len(d), Blanks(0))
    BY <1>15, <2>3, <2>6
  <2>9. Laid(w, 0, s, g, k + r, d, 0)
    BY <2>3, <2>4, <2>5, <2>6, <2>7, <2>8 DEF Laid
  <2>10. Filled(0, k + r, 0, k, r, flags) BY <1>17 DEF Filled
  <2>z. 0 \in Nat OBVIOUS
  <2>11. k + r \in Nat BY <1>8, <1>11
  <2> QED BY <1>5, <1>11, <2>9, <2>10, <2>11, <2>z, Zenon
<1>18. ASSUME "-" \notin flags, "0" \notin flags
       PROVE  NumberLaid(w, n, base, size, precision, flags)
  <2>1. w = Blanks(r) \o s \o g \o body BY <1>1, <1>11, <1>13, <1>18
  <2>2. Blanks(r) \in Seq(OutChar) /\ Len(Blanks(r)) = r BY <1>7, <1>11, <1>14
  <2>3. w \in Seq(OutChar) /\ Places(w, Blanks(r), s, g, body)
    <3> DEFINE v == Blanks(r)
    <3>1. v \in Seq(OutChar) /\ w = v \o s \o g \o body BY <2>1, <2>2
    <3>2. s \in Seq(OutChar) /\ g \in Seq(OutChar) /\ body \in Seq(OutChar)
      BY <1>2, <1>3, <1>9
    <3> HIDE DEF v
    <3>a. v \in Seq(OutChar) BY <3>1
    <3>3. Four(OutChar, v \o s \o g \o body, v, s, g, body) BY <3>2, <3>a, FourTexts
    <3>4. w \in Seq(OutChar) /\ Places(w, v, s, g, body) BY <3>1, <3>3 DEF Four
    <3> QED BY <3>4 DEF v
  <2>4. /\ At(w, 0, Blanks(r)) /\ At(w, r, s) /\ At(w, r + Len(s), g)
        /\ At(w, r + Len(s) + Len(g), body)
        /\ Len(w) = r + Len(s) + Len(g) + (k + Len(d))
    BY <1>9, <2>2, <2>3 DEF Places
  <2>5. /\ At(w, r + Len(s) + Len(g) + 0, Zeros(k))
        /\ At(w, r + Len(s) + Len(g) + k, d)
    <3>1. Zeros(k) \in Seq(OutChar) BY <1>7, <1>8
    <3> QED BY <1>4, <1>9, <1>10, <1>12, <2>3, <2>4, <3>1, AtInside
  <2>6. /\ r + Len(s) + Len(g) + 0 = r + Len(s) + Len(g)
        /\ r + Len(s) + Len(g) + (k + Len(d)) = r + Len(s) + Len(g) + k + Len(d) + 0
        /\ r + Len(s) + Len(g) + k + Len(d) <= Len(w)
        /\ r + Len(s) + Len(g) + k + Len(d) \in Nat
    BY <1>2, <1>3, <1>4, <1>8, <1>11, <2>4
  <2>7. At(w, r + Len(s) + Len(g) + k + Len(d), Blanks(0)) BY <1>15, <2>3, <2>6
  <2>8. Laid(w, r, s, g, k, d, 0) BY <2>3, <2>4, <2>5, <2>6, <2>7 DEF Laid
  <2>z. 0 \in Nat OBVIOUS
  <2>9. Filled(r, k, 0, k, r, flags) BY <1>18 DEF Filled
  <2> QED BY <1>5, <1>8, <1>11, <2>8, <2>9, <2>z, Zenon
<1>19. NumberLaid(w, n, base, size, precision, flags) BY <1>16, <1>17, <1>18, Zenon
<1> QED BY <1>19 DEF w

-----------------------------------------------------------------------------
(* A number that is printed stands in the text.                            *)

Trails(c) == c \in {" ", "%"}
SignLike(s) == Len(s) = 0 \/ (Len(s) = 1 /\ (s[1] = "-" \/ s[1] = "+" \/ Blank(s[1])))
HexPrefix(g) == Len(g) = 2 /\ g[1] = "0" /\ g[2] \in {"x", "X"}
ShortPrefix(g) == Len(g) = 0 \/ (Len(g) = 1 /\ g[1] = "0")

\* The characters of a text in which a number is laid out.
Line(W, x, s, g, z, d) ==
  /\ Len(W) \in Nat /\ DOMAIN W = 1 .. Len(W)
  /\ x + Len(s) + Len(g) + z + Len(d) <= Len(W)
  /\ \A i \in 1 .. x : Blank(W[i])
  /\ \A i \in 1 .. Len(s) : W[x + i] = s[i]
  /\ \A i \in 1 .. Len(g) : W[x + Len(s) + i] = g[i]
  /\ \A i \in 1 .. z : W[x + Len(s) + Len(g) + i] = "0"
  /\ \A i \in 1 .. Len(d) : W[x + Len(s) + Len(g) + z + i] = d[i]
  /\ \A i \in x + Len(s) + Len(g) + z + Len(d) + 1 .. Len(W) : Trails(W[i])

\* The places of blanks.
LEMMA BlanksAt ==
  ASSUME NEW w, NEW a, NEW n \in Nat, At(w, a, Blanks(n))
  PROVE  a \in Nat /\ a + n <= Len(w) /\ \A i \in 1 .. n : Blank(w[a + i])
<1> DEFINE c == " "
           C == {c}
<1>1. c \in C OBVIOUS
<1>2. Blanks(n) = Times(c, n) BY Zenon DEF Blanks
<1>3. \A i : i = c => Blank(i) BY Zenon DEF Blank
<1> HIDE DEF c, C
<1>4. Big(0, n) = n BY DEF Big
<1>5. n \in Int OBVIOUS
<1>6. Len(Times(c, n)) = n /\ \A i \in 1 .. n : Times(c, n)[i] = c
  BY <1>1, <1>4, <1>5, TimesIs
<1>7. a \in Nat /\ a + n <= Len(w) /\ \A i \in 1 .. n : w[a + i] = c
  BY <1>2, <1>6 DEF At
<1> QED BY <1>3, <1>7

\* The places of zeros.
LEMMA ZerosAt ==
  ASSUME NEW w, NEW a, NEW n \in Nat, At(w, a, Zeros(n))
  PROVE  a \in Nat /\ a + n <= Len(w) /\ \A i \in 1 .. n : w[a + i] = "0"
<1> DEFINE c == "0"
           C == {c}
<1>1. c \in C OBVIOUS
<1>2. Zeros(n) = Times(c, n) BY Zenon DEF Zeros
<1> HIDE DEF c, C
<1>4. Big(0, n) = n BY DEF Big
<1>5. n \in Int OBVIOUS
<1>6. Len(Times(c, n)) = n /\ \A i \in 1 .. n : Times(c, n)[i] = c
  BY <1>1, <1>4, <1>5, TimesIs
<1>7. a \in Nat /\ a + n <= Len(w) /\ \A i \in 1 .. n : w[a + i] = c
  BY <1>2, <1>6 DEF At
<1> QED BY <1>7 DEF c

\* Percent signs may follow.
LEMMA LaidLine ==
  ASSUME NEW w, NEW x \in Nat, NEW s, NEW g, NEW z \in Nat, NEW d, NEW t \in Nat,
         Laid(w, x, s, g, z, d, t), NEW u, u \in Seq(OutChar),
         \A i \in 1 .. Len(u) : u[i] = "%",
         s \in Seq(OutChar), g \in Seq(OutChar), d \in Seq(OutChar)
  PROVE  Line(w \o u, x, s, g, z, d)
<1> DEFINE S == Len(s)
           G == Len(g)
           D == Len(d)
           l == Len(w)
           W == w \o u
           e == x + S + G + z + D
<1>1. S \in Nat /\ G \in Nat /\ D \in Nat /\ l \in Nat /\ Len(u) \in Nat
      /\ w \in Seq(OutChar) /\ l = e + t
  <2>1. w \in Seq(OutChar) /\ Len(w) = x + Len(s) + Len(g) + z + Len(d) + t BY DEF Laid
  <2> QED BY <2>1
<1>2. W \in Seq(OutChar) /\ Len(W) = l + Len(u)
      /\ (\A i \in 1 .. l : W[i] = w[i])
      /\ (\A i \in l + 1 .. l + Len(u) : W[i] = u[i - l])
  <2>1. w \in Seq(OutChar) /\ u \in Seq(OutChar) BY <1>1
  <2>2. W \in Seq(OutChar) BY <2>1
  <2> QED BY <2>1, <2>2, ConcatProperties
<1>3. /\ At(w, 0, Blanks(x)) /\ At(w, x, s) /\ At(w, x + Len(s), g)
      /\ At(w, x + Len(s) + Len(g), Zeros(z))
      /\ At(w, x + Len(s) + Len(g) + z, d)
      /\ At(w, x + Len(s) + Len(g) + z + Len(d), Blanks(t))
  BY DEF Laid
<1> HIDE DEF W
<1>4. /\ \A i \in 1 .. x : Blank(w[0 + i])
      /\ \A i \in 1 .. S : w[x + i] = s[i]
      /\ \A i \in 1 .. G : w[x + S + i] = g[i]
      /\ \A i \in 1 .. z : w[x + S + G + i] = "0"
      /\ \A i \in 1 .. D : w[x + S + G + z + i] = d[i]
      /\ \A i \in 1 .. t : Blank(w[e + i])
  <2>1. /\ \A i \in 1 .. S : w[x + i] = s[i]
        /\ \A i \in 1 .. G : w[x + S + i] = g[i]
        /\ \A i \in 1 .. D : w[x + S + G + z + i] = d[i]
    BY <1>3 DEF At
  <2>2. /\ \A i \in 1 .. x : Blank(w[0 + i])
        /\ \A i \in 1 .. t : Blank(w[e + i])
    BY <1>3, BlanksAt
  <2>3. \A i \in 1 .. z : w[x + S + G + i] = "0" BY <1>3, ZerosAt
  <2> QED BY <2>1, <2>2, <2>3
<1>5. Len(W) \in Nat /\ DOMAIN W = 1 .. Len(W) BY <1>2
<1> HIDE DEF S, G, D, l
<1>6. /\ \A i \in 1 .. x : i \in 1 .. l /\ 0 + i = i
      /\ \A i \in 1 .. S : x + i \in 1 .. l
      /\ \A i \in 1 .. G : x + S + i \in 1 .. l
      /\ \A i \in 1 .. z : x + S + G + i \in 1 .. l
      /\ \A i \in 1 .. D : x + S + G + z + i \in 1 .. l
      /\ e <= Len(W)
  BY <1>1, <1>2
<1>7. /\ \A i \in 1 .. x : Blank(W[i])
      /\ \A i \in 1 .. S : W[x + i] = s[i]
      /\ \A i \in 1 .. G : W[x + S + i] = g[i]
      /\ \A i \in 1 .. z : W[x + S + G + i] = "0"
      /\ \A i \in 1 .. D : W[x + S + G + z + i] = d[i]
  <2>1. ASSUME NEW i \in 1 .. x PROVE Blank(W[i])
    <3>1. i \in 1 .. l /\ 0 + i = i BY <1>6
    <3> QED BY <1>2, <1>4, <3>1
  <2> HIDE DEF e
  <2> QED BY <1>2, <1>4, <1>6, <2>1
<1>8. ASSUME NEW i \in e + 1 .. Len(W) PROVE Trails(W[i])
  <2>1. \A c : Blank(c) => Trails(c) BY Zenon DEF Blank, Trails
  <2>2. Trails("%") BY Zenon DEF Trails
  <2>3. CASE i <= l
    <3>1. i - e \in 1 .. t /\ i \in 1 .. l /\ e + (i - e) = i BY <1>1, <1>2, <2>3
    <3>2. Blank(w[i]) BY <1>4, <3>1
    <3> QED BY <1>2, <2>1, <3>1, <3>2
  <2>4. CASE ~(i <= l)
    <3>1. i - l \in 1 .. Len(u) /\ i \in l + 1 .. l + Len(u) BY <1>1, <1>2, <2>4
    <3>2. u[i - l] = "%" BY <3>1
    <3>3. W[i] = "%" BY <1>2, <3>1, <3>2
    <3> QED BY <2>2, <3>3
  <2> QED BY <2>3, <2>4
<1> QED BY <1>5, <1>6, <1>7, <1>8 DEF Line, S, G, D, l, W

\* The base strtol finds in it is the number's.
SuitsBase(W, f, g, base0, base) ==
  \/ HexPrefix(g) /\ base = 16 /\ base0 \in {0, 16}
  \/ ShortPrefix(g) /\ (\/ base0 # 0 /\ base0 = base
                        \/ base0 = 0 /\ base = IF W[f] = "0" THEN 8 ELSE 10)

IsNegative(s) == Len(s) = 1 /\ s[1] = "-"
LineEnd(x, s, g, z, d) == x + Len(s) + Len(g) + z + Len(d) + 1
LineFirst(x, s) == x + Len(s) + 1

\* A text that begins with no blank and has no 9 in it.
Legible(W) == ~Blank(CharAt(W, 1)) /\ NineFree(W)

\* strtol reads the number that is laid out in such a text, in a base that fits.
LEMMA LineReads ==
  ASSUME NEW W, NEW x \in Nat, NEW s, NEW g, NEW z \in Nat, NEW d,
         Line(W, x, s, g, z, d), SignLike(s),
         NEW m \in Nat, NEW base \in Bases, NEW table, Shown(d, m, base, table),
         NEW base0, SuitsBase(W, LineFirst(x, s), g, base0, base), Legible(W)
  PROVE  IsRead(strtol(W, base0), m, IsNegative(s), LineEnd(x, s, g, z, d))
<1> DEFINE S == Len(s)
           G == Len(g)
           D == Len(d)
           l == Len(W)
           f == LineFirst(x, s)
           e == LineEnd(x, s, g, z, d)
           b == IF S = 1 /\ ~Blank(s[1]) THEN f - 1 ELSE f
           first == IF HexPrefix(g) THEN f + 2 ELSE f
           p == f + G + z
<1>1. /\ S \in 0 .. 1 /\ G \in 0 .. 2 /\ D \in Nat /\ D >= 1 /\ l \in Nat
      /\ DOMAIN W = 1 .. l /\ x + S + G + z + D <= l
  <2>1. S \in 0 .. 1 BY DEF SignLike
  <2>2. G \in 0 .. 2 BY DEF SuitsBase, HexPrefix, ShortPrefix
  <2>3. D \in Nat /\ D >= 1 BY DEF Shown
  <2> QED BY <2>1, <2>2, <2>3 DEF Line
<1>2. /\ \A i \in 1 .. x : Blank(W[i])
      /\ \A i \in 1 .. S : W[x + i] = s[i]
      /\ \A i \in 1 .. G : W[x + S + i] = g[i]
      /\ \A i \in 1 .. z : W[x + S + G + i] = "0"
      /\ \A i \in 1 .. D : W[x + S + G + z + i] = d[i]
      /\ \A i \in x + S + G + z + D + 1 .. l : Trails(W[i])
  BY DEF Line
<1>3. f = x + S + 1 /\ e = x + S + G + z + D + 1 BY DEF LineFirst, LineEnd
<1>4. /\ HexPrefix(g) => G = 2 /\ g[1] = "0" /\ g[2] \in {"x", "X"}
      /\ ~HexPrefix(g) => G = 0 \/ (G = 1 /\ g[1] = "0")
  BY DEF SuitsBase, HexPrefix, ShortPrefix
<1>5. \A j \in 1 .. D : d[j] \in DigitChar BY <1>1 DEF Shown
<1>5a. "0" \in DigitChar BY DEF DigitChar
<1>s. S = 0 \/ s[1] = "-" \/ s[1] = "+" \/ Blank(s[1]) BY DEF SignLike
<1> HIDE DEF S, G, D, l, f, e
<1>6. W[f] \in DigitChar
  <2>1. CASE G > 0
    <3>1. 1 \in 1 .. G /\ x + S + 1 = f BY <1>1, <1>3, <2>1
    <3>2. g[1] = "0" BY <1>4, <2>1
    <3> QED BY <1>2, <1>5a, <3>1, <3>2
  <2>2. CASE G = 0 /\ z > 0
    <3>1. 1 \in 1 .. z /\ x + S + G + 1 = f BY <1>1, <1>3, <2>2
    <3> QED BY <1>2, <1>5a, <3>1
  <2>3. CASE G = 0 /\ z = 0
    <3>1. 1 \in 1 .. D /\ x + S + G + z + 1 = f BY <1>1, <1>3, <2>3
    <3> QED BY <1>2, <1>5, <3>1
  <2> QED BY <1>1, <2>1, <2>2, <2>3
<1>7. W[f] \notin {"-", "+"} /\ ~Blank(W[f])
  <2>1. W[f] \notin {" ", "%", "", "-", "+", "#", ".", "x", "X", "h", "l", "L", "*"}
    BY <1>6, OtherCharacters
  <2> QED BY <2>1, Zenon DEF Blank
<1>m. ~Blank("-") /\ ~Blank("+") BY Zenon DEF Blank
<1>8. /\ b \in 1 .. l /\ (\A i \in 1 .. b - 1 : Blank(W[i]))
      /\ W[b] \in DigitChar \/ W[b] = "-" \/ W[b] = "+"
      /\ AfterSign(W, b) = f /\ (W[b] = "-") = (S = 1 /\ s[1] = "-")
  <2>1. CASE S = 1 /\ ~Blank(s[1])
    <3>1. b = f - 1 BY <2>1
    <3> HIDE DEF b
    <3>2. b = x + 1 /\ 1 \in 1 .. S /\ b + 1 = f BY <1>3, <2>1, <3>1
    <3>3. W[b] = s[1] BY <1>2, <3>2
    <3>4. s[1] = "-" \/ s[1] = "+" BY <1>s, <2>1
    <3>5. \A i \in 1 .. b - 1 : i \in 1 .. x BY <3>2
    <3>6. b \in 1 .. l BY <1>1, <2>1, <3>2
    <3>7. AfterSign(W, b) = f BY <3>2, <3>3, <3>4 DEF AfterSign
    <3> QED BY <1>2, <2>1, <3>3, <3>4, <3>5, <3>6, <3>7
  <2>2. CASE ~(S = 1 /\ ~Blank(s[1]))
    <3>1. b = f BY <2>2
    <3> HIDE DEF b
    <3>2. AfterSign(W, b) = b BY <1>7, <3>1 DEF AfterSign
    <3>3. ASSUME NEW i \in 1 .. b - 1 PROVE Blank(W[i])
      <4>1. CASE i <= x
        <5>1. i \in 1 .. x BY <4>1
        <5> QED BY <1>2, <5>1
      <4>2. CASE ~(i <= x)
        <5>1. S = 1 /\ i = x + 1 /\ 1 \in 1 .. S BY <1>1, <1>3, <3>1, <4>2
        <5>2. W[i] = s[1] BY <1>2, <5>1
        <5> QED BY <2>2, <5>1, <5>2
      <4> QED BY <4>1, <4>2
    <3>4. b \in 1 .. l BY <1>1, <1>3, <3>1
    <3>5. W[b] # "-" BY <1>7, <3>1
    <3>6. ~(S = 1 /\ s[1] = "-") BY <1>m, <2>2
    <3> QED BY <1>6, <1>7, <3>1, <3>2, <3>3, <3>4, <3>5, <3>6
  <2> QED BY <2>1, <2>2
<1> HIDE DEF b
<1>l. b = 1 /\ ~IsSpace(W[b])
  <2>0. 1 \in DOMAIN W BY <1>1
  <2>1. ~Blank(W[1]) BY <2>0 DEF Legible, CharAt
  <2>2. b > 1 => 1 \in 1 .. b - 1 BY <1>8
  <2>3. ~IsSpace(W[b]) BY <1>8, NoSpace
  <2> QED BY <1>1, <1>8, <2>1, <2>2, <2>3
<1>9. /\ first \in Nat /\ p \in Nat /\ e \in Nat /\ first <= p /\ e = p + D /\ e <= l + 1
      /\ f \in Nat
  <2>1. first = f \/ (first = f + 2 /\ G = 2) BY <1>4
  <2> HIDE DEF first
  <2> QED BY <1>1, <1>3, <2>1
<1>10. \/ /\ first = AfterSign(W, b) + 2 /\ base = 16 /\ base0 \in {0, 16}
          /\ W[AfterSign(W, b)] = "0" /\ W[AfterSign(W, b) + 1] \in {"x", "X"}
       \/ /\ first = AfterSign(W, b)
          /\ \/ base0 # 0 /\ base0 = base
             \/ base0 = 0 /\ base = IF W[first] = "0" THEN 8 ELSE 10
  <2>1. CASE HexPrefix(g)
    <3>1. G = 2 /\ g[1] = "0" /\ g[2] \in {"x", "X"} BY <1>4, <2>1
    <3>2. 1 \in 1 .. G /\ 2 \in 1 .. G /\ x + S + 1 = f /\ x + S + 2 = f + 1
      BY <1>1, <1>3, <3>1
    <3>3. W[f] = "0" /\ W[f + 1] \in {"x", "X"} BY <1>2, <3>1, <3>2
    <3>4. base = 16 /\ base0 \in {0, 16} BY <2>1, <3>1 DEF SuitsBase, HexPrefix, ShortPrefix, G
    <3>5. first = f + 2 BY <2>1
    <3> QED BY <1>8, <3>3, <3>4, <3>5
  <2>2. CASE ~HexPrefix(g)
    <3>1. first = f BY <2>2
    <3>2. \/ base0 # 0 /\ base0 = base
          \/ base0 = 0 /\ base = IF W[f] = "0" THEN 8 ELSE 10
      BY <2>2 DEF SuitsBase, f
    <3> QED BY <1>8, <3>1, <3>2
  <2> QED BY <2>1, <2>2
<1>11. ASSUME NEW i \in first .. p - 1 PROVE W[i] = "0"
  <2>1. CASE i < f + G
    <3>1. ~HexPrefix(g)
      <4>1. HexPrefix(g) => first = f + 2 /\ G = 2 BY <1>4
      <4> HIDE DEF first
      <4> QED BY <1>9, <2>1, <4>1
    <3>2. first = f /\ (G = 0 \/ (G = 1 /\ g[1] = "0")) BY <1>4, <3>1
    <3>3. G = 1 /\ g[1] = "0" /\ i = x + S + 1 /\ 1 \in 1 .. G BY <1>1, <1>3, <2>1, <3>2
    <3> QED BY <1>2, <3>3
  <2>2. CASE ~(i < f + G)
    <3> DEFINE j == i - (f + G) + 1
    <3>1. j \in 1 .. z /\ x + S + G + j = i BY <1>1, <1>3, <1>9, <2>2
    <3> HIDE DEF j
    <3> QED BY <1>2, <3>1
  <2> QED BY <2>1, <2>2
<1>12. ASSUME NEW j \in 1 .. D PROVE W[p + j - 1] = d[j]
  <2>1. p + j - 1 = x + S + G + z + j BY <1>1, <1>3
  <2> HIDE DEF p
  <2> QED BY <1>2, <2>1
<1>13. e <= l => W[e] \in {" ", "%"}
  <2>1. e <= l => e \in x + S + G + z + D + 1 .. l BY <1>1, <1>3, <1>9
  <2>2. e <= l => Trails(W[e]) BY <1>2, <2>1
  <2> QED BY <2>2, Zenon DEF Trails
<1> HIDE DEF first, p
<1>14. Stands(W, b, first, p, e, base0, base, d, m, table)
  <2>1. /\ Len(W) \in Nat /\ DOMAIN W = 1 .. Len(W)
        /\ b \in 1 .. Len(W) /\ first \in Nat /\ p \in Nat /\ e \in Nat
        /\ b = 1 /\ ~IsSpace(W[b]) /\ (\A i \in 1 .. Len(W) : W[i] # "9")
        /\ first <= p /\ e = p + Len(d) /\ e <= Len(W) + 1
        /\ (\A i \in first .. p - 1 : W[i] = "0")
        /\ (\A j \in 1 .. Len(d) : W[p + j - 1] = d[j])
    <3>1. \A i \in 1 .. Len(W) : W[i] # "9" BY <1>1 DEF Legible, NineFree, l
    <3> QED BY <1>1, <1>8, <1>l, <1>9, <1>11, <1>12, <3>1 DEF l, D
  <2>2. e <= Len(W) => W[e] \in {" ", "%"} BY <1>13 DEF l
  <2> QED BY <1>10, <2>1, <2>2, Zenon DEF Stands
<1>15. IsRead(strtol(W, base0), m, W[b] = "-", e) BY <1>14, StrtolReads
<1>16. (W[b] = "-") = IsNegative(s) BY <1>8 DEF IsNegative, S
<1> QED BY <1>15, <1>16 DEF e

-----------------------------------------------------------------------------
(* What number prints is read back.                                        *)

HasBlank(flags) == " " \in flags

\* The sign tells whether the number is negative, and when there is one.
LEMMA SignKnown ==
  ASSUME NEW n, NEW flags
  PROVE  /\ SignLike(SignText(n, flags))
         /\ IsNegative(SignText(n, flags)) = IsMinus(n, flags)
         /\ Len(SignText(n, flags)) =
              IF IsMinus(n, flags) \/ "+" \in flags \/ HasBlank(flags) THEN 1 ELSE 0
         /\ Len(SignText(n, flags)) = 1 /\ Blank(SignText(n, flags)[1]) => HasBlank(flags)
<1> DEFINE b == " "
           t == SignText(n, flags)
<1>1. Blank(b) /\ b # "-" /\ ~Blank("-") /\ ~Blank("+") BY Zenon DEF Blank
<1>2. (b \in flags) <=> HasBlank(flags) BY Zenon DEF HasBlank
<1> HIDE DEF b
<1>3. t = IF IsMinus(n, flags) THEN <<"-">> ELSE IF "+" \in flags THEN <<"+">>
          ELSE IF b \in flags THEN <<b>> ELSE <<>>
  BY Zenon DEF SignText, b
<1> HIDE DEF t
<1>4. SignLike(t)
  <2>1. CASE t = <<>> BY <2>1 DEF SignLike
  <2>2. CASE t = <<b>>
    <3>1. Len(t) = 1 /\ t[1] = b BY <2>2
    <3> QED BY <1>1, <3>1 DEF SignLike
  <2>3. CASE t = <<"-">>
    <3>1. Len(t) = 1 /\ t[1] = "-" BY <2>3
    <3> QED BY <3>1 DEF SignLike
  <2>4. CASE t = <<"+">>
    <3>1. Len(t) = 1 /\ t[1] = "+" BY <2>4
    <3> QED BY <3>1 DEF SignLike
  <2> QED BY <1>3, <2>1, <2>2, <2>3, <2>4
<1>5. IsMinus(n, flags) => Len(t) = 1 /\ t[1] = "-" BY <1>3
<1>6. ~IsMinus(n, flags) /\ "+" \in flags => Len(t) = 1 /\ t[1] = "+" BY <1>3
<1>7. ~IsMinus(n, flags) /\ "+" \notin flags /\ b \in flags => Len(t) = 1 /\ t[1] = b
  BY <1>3
<1>8. ~IsMinus(n, flags) /\ "+" \notin flags /\ b \notin flags => Len(t) = 0
  BY <1>3
<1>9. "+" # "-" OBVIOUS
<1>10. IsNegative(t) <=> IsMinus(n, flags)
  BY <1>1, <1>5, <1>6, <1>7, <1>8, <1>9 DEF IsNegative
<1>11. Len(t) = IF IsMinus(n, flags) \/ "+" \in flags \/ HasBlank(flags) THEN 1 ELSE 0
  BY <1>2, <1>5, <1>6, <1>7, <1>8
<1>12. Len(t) = 1 /\ Blank(t[1]) => HasBlank(flags)
  BY <1>1, <1>2, <1>5, <1>6, <1>7, <1>8
<1>13. IsNegative(t) = IsMinus(n, flags) BY <1>10, SMT DEF IsNegative, IsMinus
<1> QED BY <1>4, <1>13, <1>11, <1>12 DEF t

\* The text, if it is legible, is read back as the number, and what is left of it
\* does not count.
ReadBack(W, base0, m, neg) ==
  Legible(W) => /\ strtol(W, base0).n = Nearest(m, neg)
                /\ \A i \in strtol(W, base0).end .. Len(W) : Trails(W[i])

Showing(base, precision, flags) ==
  IF base = 10 THEN "0" \notin flags /\ precision <= 1 ELSE "#" \in flags

\* So it is read back, and only blanks and percent signs are left.
LEMMA LineReadsBack ==
  ASSUME NEW W, NEW x \in Nat, NEW s, NEW g, NEW z \in Nat, NEW d,
         Line(W, x, s, g, z, d), SignLike(s),
         NEW m \in Nat, NEW base \in Bases, NEW table, Shown(d, m, base, table),
         NEW base0, SuitsBase(W, LineFirst(x, s), g, base0, base)
  PROVE  ReadBack(W, base0, m, IsNegative(s))
<1> SUFFICES ASSUME Legible(W)
             PROVE  /\ strtol(W, base0).n = Nearest(m, IsNegative(s))
                    /\ \A i \in strtol(W, base0).end .. Len(W) : Trails(W[i])
  BY DEF ReadBack
<1>1. strtol(W, base0) = [n |-> Nearest(m, IsNegative(s)), end |-> LineEnd(x, s, g, z, d)]
  BY LineReads DEF IsRead
<1>2. \A i \in LineEnd(x, s, g, z, d) .. Len(W) : Trails(W[i]) BY DEF Line, LineEnd
<1> QED BY <1>1, <1>2

\* The first character of the figures, where nothing stands before them.
LEMMA FirstFigure ==
  ASSUME NEW W, NEW x \in Nat, NEW s, NEW g, NEW d, Line(W, x, s, g, 0, d),
         SignLike(s), Len(g) = 0, d \in Seq(OutChar), Len(d) >= 1
  PROVE  W[LineFirst(x, s)] = d[1]
<1>1. Len(s) \in Nat BY DEF SignLike
<1>2. \A i \in 1 .. Len(d) : W[x + Len(s) + Len(g) + 0 + i] = d[i] BY DEF Line
<1>3. 1 \in 1 .. Len(d) OBVIOUS
<1>4. x + Len(s) + Len(g) + 0 + 1 = LineFirst(x, s) BY <1>1 DEF LineFirst
<1> QED BY <1>2, <1>3, <1>4

\* What number prints is read back, with any percent signs behind it, if no blank
\* stands in front of it and no 9 is in it: in its base, or in none if the text shows
\* it.  A 9 is no digit and a blank no white space to strtol (vsprintf.cpp 40-92,
\* strtol.cpp 36-132, ctype.h 16-26).
THEOREM NumberReads ==
  ASSUME NEW n \in 0 .. 2 * LongMax + 1, NEW base \in Bases, NEW size \in Int,
         NEW precision \in Int, NEW flags, NEW u, u \in Seq(OutChar),
         \A i \in 1 .. Len(u) : u[i] = "%",
         NEW base0, base0 = base \/ (base0 = 0 /\ Showing(base, precision, flags))
  PROVE  ReadBack(number(n, base, size, precision, flags) \o u, base0,
                  Magnitude(n, flags), IsMinus(n, flags))
<1> DEFINE neg == IsMinus(n, flags)
<1> DEFINE w == number(n, base, size, precision, flags)
           W == w \o u
           s == SignText(n, flags)
           g == PrefixText(base, flags)
           d == Figures(n, base, flags)
           k == PadTo(precision, d)
           r == FillTo(size, s, g, k, d)
           m == Magnitude(n, flags)
           table == TableOf(flags)
<1>1. PICK x \in Nat, z \in Nat, t \in Nat :
        Laid(w, x, s, g, z, d, t) /\ Filled(x, z, t, k, r, flags)
  BY NumberIsLaid DEF NumberLaid
<1>2. s \in Seq(OutChar) BY SignIs
<1>3. g \in Seq(OutChar) BY PrefixTextIs
<1>4. Shown(d, m, base, table) /\ d \in Seq(OutChar) /\ Len(d) \in Nat \ {0} BY FiguresShow
<1>5. SignLike(s) /\ IsNegative(s) = neg BY SignKnown
<1>6. m \in Nat BY MagnitudeIs
<1>7. \/ g = <<>>
      \/ base = 8 /\ g = <<"0">>
      \/ base = 16 /\ (g = <<"0", "x">> \/ g = <<"0", "X">>)
  BY PrefixTextIs
<1>8. "#" \in flags => base = 10 \/ (base = 8 /\ g = <<"0">>)
                        \/ (base = 16 /\ (g = <<"0", "x">> \/ g = <<"0", "X">>))
  BY DEF PrefixText, Bases
<1>9. m = 0 => d = <<"0">> BY DEF Figures, Digits
<1>10. k = 0 \/ precision > 1
  <2>1. Len(d) \in Nat \ {0} BY <1>4
  <2>2. k = Big(0, precision - Len(d)) BY DEF PadTo
  <2> HIDE DEF d, k
  <2> QED BY <2>1, <2>2 DEF Big
<1> HIDE DEF w, s, g, d, k, r, m, neg
<1>11. Line(W, x, s, g, z, d)
  <2>1. w \in Seq(OutChar) BY <1>1 DEF Laid
  <2> QED BY <1>1, <1>2, <1>3, <1>4, LaidLine
<1> HIDE DEF W
<1>12. \/ ShortPrefix(g)
       \/ base = 16 /\ HexPrefix(g)
  <2>1. CASE g = <<>> BY <2>1 DEF ShortPrefix
  <2>2. CASE g = <<"0">> BY <2>2 DEF ShortPrefix
  <2>3. CASE base = 16 /\ (g = <<"0", "x">> \/ g = <<"0", "X">>) BY <2>3 DEF HexPrefix
  <2> QED BY <1>7, <2>1, <2>2, <2>3
<1>13. CASE base0 = base
  <2>1. base # 0 BY DEF Bases
  <2>2. SuitsBase(W, LineFirst(x, s), g, base0, base) BY <1>12, <1>13, <2>1 DEF SuitsBase
  <2>3. ReadBack(W, base0, m, IsNegative(s))
    BY <1>4, <1>5, <1>6, <1>11, <2>2, LineReadsBack
  <2> QED BY <1>5, <2>3 DEF W, w, m, neg
<1>14. CASE base0 = 0 /\ base = 16 /\ Showing(base, precision, flags)
  <2>1. "#" \in flags BY <1>14 DEF Showing
  <2>2. g = <<"0", "x">> \/ g = <<"0", "X">> BY <1>8, <1>14, <2>1
  <2>3. HexPrefix(g) BY <2>2 DEF HexPrefix
  <2>4. SuitsBase(W, LineFirst(x, s), g, base0, base) BY <1>14, <2>3 DEF SuitsBase
  <2>5. ReadBack(W, base0, m, IsNegative(s))
    BY <1>4, <1>5, <1>6, <1>11, <2>4, LineReadsBack
  <2> QED BY <1>5, <2>5 DEF W, w, m, neg
<1>15. CASE base0 = 0 /\ base = 8 /\ Showing(base, precision, flags)
  <2>1. "#" \in flags BY <1>15 DEF Showing
  <2>2. g = <<"0">> BY <1>8, <1>15, <2>1
  <2>3. ShortPrefix(g) /\ Len(g) = 1 /\ g[1] = "0" BY <2>2 DEF ShortPrefix
  <2>4. W[LineFirst(x, s)] = "0"
    <3>1. \A i \in 1 .. Len(g) : W[x + Len(s) + i] = g[i] BY <1>11 DEF Line
    <3>2. 1 \in 1 .. Len(g) BY <2>3
    <3>3. W[x + Len(s) + 1] = g[1] BY <3>1, <3>2
    <3> QED BY <2>3, <3>3 DEF LineFirst
  <2>5. SuitsBase(W, LineFirst(x, s), g, base0, base) BY <1>15, <2>3, <2>4 DEF SuitsBase
  <2>6. ReadBack(W, base0, m, IsNegative(s))
    BY <1>4, <1>5, <1>6, <1>11, <2>5, LineReadsBack
  <2> QED BY <1>5, <2>6 DEF W, w, m, neg
<1>16. CASE base0 = 0 /\ base = 10 /\ Showing(base, precision, flags)
  <2>1. "0" \notin flags /\ precision <= 1 BY <1>16 DEF Showing
  <2>2. k = 0 BY <1>10, <2>1
  <2>3. z = 0 BY <1>1, <2>1, <2>2 DEF Filled
  <2>4. g = <<>> BY <1>7, <1>16
  <2>5. ShortPrefix(g) /\ Len(g) = 0 BY <2>4 DEF ShortPrefix
  <2>6. W[LineFirst(x, s)] = d[1] BY <1>4, <1>5, <1>11, <2>3, <2>5, FirstFigure
  <2>7. CASE m # 0
    <3>1. d[1] # "0" BY <1>4, <2>7 DEF Shown
    <3>2. SuitsBase(W, LineFirst(x, s), g, base0, base)
      BY <1>16, <2>5, <2>6, <3>1 DEF SuitsBase
    <3>3. ReadBack(W, base0, m, IsNegative(s))
      BY <1>4, <1>5, <1>6, <1>11, <3>2, LineReadsBack
    <3> QED BY <1>5, <3>3 DEF W, w, m, neg
  <2>8. CASE m = 0
    <3>1. d = <<"0">> BY <1>9, <2>8
    <3> DEFINE t8 == Upper
    <3>2. Upper[0 + 1] = "0" BY DEF Upper
    <3>3. 8 \in Bases /\ Upper \in Tables /\ 0 \in 0 .. 8 - 1 BY DEF Bases, Tables
    <3>4. Shown(<<Upper[0 + 1]>>, 0, 8, Upper) BY <3>3, FirstDigit
    <3>5. Shown(d, m, 8, Upper) BY <2>8, <3>1, <3>2, <3>4
    <3>6. d[1] = "0" BY <3>1
    <3>7. SuitsBase(W, LineFirst(x, s), g, base0, 8)
      BY <1>16, <2>5, <2>6, <3>6 DEF SuitsBase
    <3>8. ReadBack(W, base0, m, IsNegative(s))
      BY <1>5, <1>6, <1>11, <3>3, <3>5, <3>7, LineReadsBack
    <3> QED BY <1>5, <3>8 DEF W, w, m, neg
  <2> QED BY <2>7, <2>8
<1> QED BY <1>13, <1>14, <1>15, <1>16 DEF Bases

-----------------------------------------------------------------------------
(* What number prints fills its field.                                     *)

BlankOf(w) == {i \in DOMAIN w : Blank(w[i])}

\* The blanks are behind the rest or before it, as the flags say.
OneSide(w, flags) ==
  \A i \in BlankOf(w), j \in DOMAIN w \ BlankOf(w) :
    (j < i) <=> ("-" \in flags /\ ~(i = 1 /\ HasBlank(flags)))

\* What number prints is as long as its size asks for or its parts need, and has its
\* blanks on one side (vsprintf.cpp 40-92).
LEMMA NumberFills ==
  ASSUME NEW n \in 0 .. 2 * LongMax + 1, NEW base \in Bases, NEW size \in Int,
         NEW precision \in Int, NEW flags
  PROVE  /\ number(n, base, size, precision, flags) \in Seq(OutChar)
         /\ Len(number(n, base, size, precision, flags)) =
              Big(size, Len(SignText(n, flags)) + Len(PrefixText(base, flags))
                          + Big(DigitCount(Magnitude(n, flags), base), precision))
         /\ OneSide(number(n, base, size, precision, flags), flags)
         /\ "0" \in flags /\ "-" \notin flags
              => BlankOf(number(n, base, size, precision, flags)) \subseteq {1}
<1> DEFINE w == number(n, base, size, precision, flags)
           s == SignText(n, flags)
           g == PrefixText(base, flags)
           d == Figures(n, base, flags)
           k == PadTo(precision, d)
           r == FillTo(size, s, g, k, d)
           m == Magnitude(n, flags)
           S == Len(s)
           G == Len(g)
           D == Len(d)
           count == DigitCount(m, base)
<1>1. PICK x \in Nat, z \in Nat, t \in Nat :
        Laid(w, x, s, g, z, d, t) /\ Filled(x, z, t, k, r, flags)
  BY NumberIsLaid DEF NumberLaid
<1>2. s \in Seq(OutChar) /\ S \in 0 .. 1 BY SignIs
<1>3. g \in Seq(OutChar) BY PrefixTextIs
<1>4. d \in Seq(DigitChar) /\ d \in Seq(OutChar) /\ D \in Nat \ {0} /\ D = count
  BY FiguresShow DEF Shown
<1>5. S = 1 /\ Blank(s[1]) => HasBlank(flags) BY SignKnown
<1>6. SignLike(s) BY SignKnown
<1>7. \A i \in 1 .. G : g[i] \in {"0", "x", "X"} /\ G \in 0 .. 2
  <2>1. \/ g = <<>> \/ g = <<"0">> \/ g = <<"0", "x">> \/ g = <<"0", "X">> BY PrefixTextIs
  <2> HIDE DEF g
  <2> QED BY <2>1
<1>8. k = Big(0, precision - D) /\ r = Big(0, size - S - G - (k + D)) BY DEF PadTo, FillTo
<1> HIDE DEF w, s, g, d, m
<1>9. w \in Seq(OutChar) /\ Len(w) = x + S + G + z + D + t /\ G \in Nat
  BY <1>1, <1>3 DEF Laid
<1>10. Line(w, x, s, g, z, d)
  <2> DEFINE u == <<>>
  <2>1. u \in Seq(OutChar) /\ \A i \in 1 .. Len(u) : u[i] = "%" OBVIOUS
  <2>2. w \o u = w BY <1>9
  <2> HIDE DEF u
  <2>3. Line(w \o u, x, s, g, z, d) BY <1>1, <1>2, <1>3, <1>4, <2>1, LaidLine
  <2> QED BY <2>2, <2>3
<1> DEFINE l == Len(w)
           c == x + S + G + z + D
<1>11. /\ DOMAIN w = 1 .. l /\ l \in Nat
       /\ \A i \in 1 .. x : Blank(w[i])
       /\ \A i \in 1 .. S : w[x + i] = s[i]
       /\ \A i \in 1 .. G : w[x + S + i] = g[i]
       /\ \A i \in 1 .. z : w[x + S + G + i] = "0"
       /\ \A i \in 1 .. D : w[x + S + G + z + i] = d[i]
  BY <1>10 DEF Line
<1>12. \A i \in 1 .. t : Blank(w[c + i])
  <2>1. At(w, c, Blanks(t)) BY <1>1 DEF Laid
  <2> QED BY <2>1, BlanksAt
<1> HIDE DEF S, G, D, l
<1>13. ~Blank("0") /\ ~Blank("x") /\ ~Blank("X") /\ ~Blank("-") /\ ~Blank("+")
       /\ \A a \in DigitChar : ~Blank(a)
  <2>1. \A a \in DigitChar : ~Blank(a) BY OtherCharacters, Zenon DEF Blank
  <2> QED BY <2>1, Zenon DEF Blank
<1>15. c \in Nat /\ c > x + S /\ l = c + t BY <1>2, <1>4, <1>9 DEF l
<1>a. c = x + S + G + z + D OBVIOUS
<1> HIDE DEF c
<1>14. ASSUME NEW i \in 1 .. l
       PROVE  Blank(w[i]) <=> (i <= x \/ (i = x + 1 /\ S = 1 /\ Blank(s[1])) \/ i > c)
  <2>1. CASE i <= x
    <3>1. i \in 1 .. x BY <2>1
    <3> QED BY <1>11, <2>1, <3>1
  <2>2. CASE i > x /\ i <= x + S
    <3>1. S = 1 /\ i = x + 1 /\ 1 \in 1 .. S /\ ~(i <= x) /\ ~(i > c)
      BY <1>2, <1>15, <2>2
    <3>2. w[i] = s[1] BY <1>11, <3>1
    <3> QED BY <3>1, <3>2
  <2>3. CASE i > x + S /\ i <= c
    <3>1. ~(i <= x) /\ ~(i = x + 1 /\ S = 1) /\ ~(i > c) BY <1>2, <1>15, <2>3
    <3>2. ~Blank(w[i])
      <4>1. CASE i <= x + S + G
        <5> DEFINE j == i - (x + S)
        <5>1. j \in 1 .. G /\ x + S + j = i BY <1>2, <1>9, <2>3, <4>1
        <5> HIDE DEF j
        <5>2. w[i] = g[j] BY <1>11, <5>1
        <5> QED BY <1>7, <1>13, <5>1, <5>2
      <4>2. CASE i > x + S + G /\ i <= x + S + G + z
        <5> DEFINE j == i - (x + S + G)
        <5>1. j \in 1 .. z /\ x + S + G + j = i BY <1>2, <1>9, <2>3, <4>2
        <5> HIDE DEF j
        <5>2. w[i] = "0" BY <1>11, <5>1
        <5> QED BY <1>13, <5>2
      <4>3. CASE i > x + S + G + z
        <5> DEFINE j == i - (x + S + G + z)
        <5>1. j \in 1 .. D /\ x + S + G + z + j = i BY <1>2, <1>4, <1>9, <1>a, <2>3, <4>3
        <5> HIDE DEF j
        <5>2. w[i] = d[j] BY <1>11, <5>1
        <5>3. d[j] \in DigitChar BY <1>4, <5>1 DEF D
        <5> QED BY <1>13, <5>2, <5>3
      <4> QED BY <1>2, <1>9, <4>1, <4>2, <4>3
    <3> QED BY <3>1, <3>2
  <2>4. CASE i > c
    <3> DEFINE j == i - c
    <3>1. j \in 1 .. t /\ c + j = i BY <1>15, <2>4
    <3> HIDE DEF j
    <3>2. Blank(w[i]) BY <1>12, <3>1
    <3> QED BY <2>4, <3>2
  <2> QED BY <1>2, <1>15, <2>1, <2>2, <2>3, <2>4
<1> HIDE DEF k, r
<1>16. \/ "-" \in flags /\ x = 0 /\ z = k /\ t = r
       \/ "-" \notin flags /\ t = 0 /\ ("0" \in flags => x = 0 /\ z = k + r)
            /\ ("0" \notin flags => x = r /\ z = k)
  BY <1>1 DEF Filled
<1>17. OneSide(w, flags)
  <2>1. ASSUME NEW i \in BlankOf(w), NEW j \in DOMAIN w \ BlankOf(w)
        PROVE  (j < i) <=> ("-" \in flags /\ ~(i = 1 /\ HasBlank(flags)))
    <3>1. i \in 1 .. l /\ Blank(w[i]) /\ j \in 1 .. l /\ ~Blank(w[j])
      BY <1>11 DEF BlankOf
    <3>2. i <= x \/ (i = x + 1 /\ S = 1 /\ HasBlank(flags)) \/ i > c BY <1>5, <1>14, <3>1
    <3>3. ~(j <= x) /\ ~(j > c) /\ (i = x + 1 /\ S = 1 => j # i) BY <1>14, <3>1
    <3>4. CASE "-" \in flags
      <4>1. x = 0 BY <1>16, <3>4
      <4>2. CASE i > c
        <5>1. j < i /\ i # 1 BY <1>2, <1>15, <3>1, <3>3, <4>2
        <5> QED BY <3>4, <5>1
      <4>3. CASE ~(i > c)
        <5>1. i = 1 /\ HasBlank(flags) BY <3>1, <3>2, <4>1, <4>3
        <5>2. ~(j < i) BY <3>1, <5>1
        <5> QED BY <5>1, <5>2
      <4> QED BY <4>2, <4>3
    <3>5. CASE "-" \notin flags
      <4>1. t = 0 BY <1>16, <3>5
      <4>2. ~(i > c) BY <1>15, <3>1, <4>1
      <4>3. ~(j < i) BY <1>15, <3>1, <3>2, <3>3, <4>2
      <4> QED BY <3>5, <4>3
    <3> QED BY <3>4, <3>5
  <2> QED BY <2>1 DEF OneSide
<1>18. ASSUME "0" \in flags, "-" \notin flags PROVE BlankOf(w) \subseteq {1}
  <2>1. x = 0 /\ t = 0 BY <1>16, <1>18
  <2>2. ASSUME NEW i \in BlankOf(w) PROVE i = 1
    <3>1. i \in 1 .. l /\ Blank(w[i]) BY <1>11 DEF BlankOf
    <3>2. i <= x \/ (i = x + 1 /\ S = 1) \/ i > c BY <1>14, <3>1
    <3> QED BY <1>15, <2>1, <3>1, <3>2
  <2> QED BY <2>2
<1>19. l = Big(size, S + G + Big(count, precision))
  <2>0. S \in Nat /\ G \in Nat /\ D \in Nat BY <1>2, <1>4, <1>9
  <2>1. D = count BY <1>4
  <2>k. k = Big(0, precision - D) BY <1>8
  <2>2. k \in Nat /\ D + k = Big(D, precision) BY <2>0, <2>k DEF Big
  <2>r. r = Big(0, size - S - G - (k + D)) BY <1>8
  <2>3. r = Big(0, size - (S + G + (k + D))) BY <2>0, <2>2, <2>r
  <2> DEFINE q == S + G + (k + D)
  <2>4. q \in Int /\ r = Big(0, size - q) BY <2>0, <2>2, <2>3
  <2>5. r \in Int /\ x + z + t = k + r
    <3>1. r \in Int BY <2>0, <2>2, <2>3 DEF Big
    <3> QED BY <1>16, <2>2, <3>1
  <2>6. l = q + r
    <3>1. l = x + S + G + z + D + t BY <1>9 DEF l
    <3> QED BY <2>0, <2>2, <2>5, <3>1
  <2>7. q = S + G + Big(count, precision) BY <2>0, <2>1, <2>2
  <2> HIDE DEF q
  <2>8. q + r = Big(size, q) BY <2>4 DEF Big
  <2> QED BY <2>6, <2>7, <2>8
<1> QED BY <1>9, <1>17, <1>18, <1>19 DEF w, s, g, d, m, S, G, l

-----------------------------------------------------------------------------
(* The conversions.                                                        *)

AnyChar == STRING \union {" ", "c"}

\* Texts and characters are filled up with blanks.
LEMMA PaddedFills ==
  ASSUME NEW w, w \in Seq(AnyChar), \A i \in DOMAIN w : ~Blank(w[i]),
         NEW width \in Int, NEW flags
  PROVE  /\ Padded(w, width, flags) \in Seq(AnyChar)
         /\ Len(Padded(w, width, flags)) = Big(width, Len(w))
         /\ OneSide(Padded(w, width, flags), flags)
<1> DEFINE B == Blanks(width - Len(w))
           b == Big(0, width - Len(w))
           l == Len(w)
           v == Padded(w, width, flags)
<1>1. l \in Nat /\ b \in Nat /\ \A i \in 1 .. l : ~Blank(w[i])
  <2>1. l \in Nat /\ DOMAIN w = 1 .. l OBVIOUS
  <2> QED BY <2>1 DEF Big
<1>2. B \in Seq(AnyChar) /\ Len(B) = b /\ \A i \in 1 .. b : Blank(B[i])
  <2> DEFINE c == " "
             q == width - Len(w)
  <2>1. c \in AnyChar BY Zenon DEF AnyChar
  <2>2. Blanks(q) = Times(c, q) BY Zenon DEF Blanks
  <2>3. \A i : i = c => Blank(i) BY Zenon DEF Blank
  <2> HIDE DEF c
  <2>4. q \in Int BY <1>1
  <2> HIDE DEF q
  <2>5. /\ Times(c, q) \in Seq(AnyChar) /\ Len(Times(c, q)) = Big(0, q)
        /\ \A i \in 1 .. Big(0, q) : Times(c, q)[i] = c
    BY <2>1, <2>4, TimesIs
  <2>6. Blanks(q) \in Seq(AnyChar) /\ Len(Blanks(q)) = Big(0, q)
        /\ \A i \in 1 .. Big(0, q) : Blank(Blanks(q)[i])
    BY <2>2, <2>3, <2>5
  <2> QED BY <2>6 DEF q
<1>3. v = IF "-" \in flags THEN w \o B ELSE B \o w BY Zenon DEF Padded, Blanks
<1>4. b + l = Big(width, l) BY <1>1 DEF Big
<1> HIDE DEF B, b, v
<1>5. CASE "-" \in flags
  <2>1. v \in Seq(AnyChar) /\ Len(v) = l + b
        /\ (\A i \in 1 .. l : v[i] = w[i])
        /\ (\A i \in l + 1 .. l + b : v[i] = B[i - l])
    <3>1. v = w \o B BY <1>3, <1>5
    <3>2. /\ w \o B \in Seq(AnyChar) /\ Len(w \o B) = l + b
          /\ \A i \in 1 .. l + b : (w \o B)[i] = IF i <= l THEN w[i] ELSE B[i - l]
      BY <1>2, ConcatProperties
    <3> HIDE DEF l
    <3>3. /\ \A i \in 1 .. l : i \in 1 .. l + b /\ i <= l
          /\ \A i \in l + 1 .. l + b : i \in 1 .. l + b /\ ~(i <= l)
      BY <1>1
    <3> QED BY <3>1, <3>2, <3>3
  <2>2. DOMAIN v = 1 .. l + b BY <2>1
  <2> HIDE DEF l
  <2>3. \A i \in 1 .. l + b : Blank(v[i]) <=> i > l
    <3> TAKE i \in 1 .. l + b
    <3>1. CASE i <= l
      <4>1. i \in 1 .. l BY <3>1
      <4> QED BY <1>1, <2>1, <3>1, <4>1
    <3>2. CASE i > l
      <4>1. i \in l + 1 .. l + b /\ i - l \in 1 .. b BY <1>1, <3>2
      <4> QED BY <1>2, <2>1, <3>2, <4>1
    <3> QED BY <1>1, <3>1, <3>2
  <2>4. ASSUME NEW i \in BlankOf(v), NEW j \in DOMAIN v \ BlankOf(v)
        PROVE  (j < i) <=> ("-" \in flags /\ ~(i = 1 /\ HasBlank(flags)))
    <3>1. i \in 1 .. l + b /\ Blank(v[i]) /\ j \in 1 .. l + b /\ ~Blank(v[j])
      BY <2>2 DEF BlankOf
    <3>2. i > l /\ ~(j > l) BY <2>3, <3>1
    <3>3. j < i /\ i # 1 BY <1>1, <3>1, <3>2
    <3> QED BY <1>5, <3>3
  <2>5. OneSide(v, flags) BY <2>4 DEF OneSide
  <2>6. Len(v) = Big(width, l) BY <1>1, <1>4, <2>1
  <2> QED BY <2>1, <2>5, <2>6 DEF l, v
<1>6. CASE "-" \notin flags
  <2>1. v \in Seq(AnyChar) /\ Len(v) = b + l
        /\ (\A i \in 1 .. b : v[i] = B[i])
        /\ (\A i \in b + 1 .. b + l : v[i] = w[i - b])
    <3>1. v = B \o w BY <1>3, <1>6
    <3>2. /\ B \o w \in Seq(AnyChar) /\ Len(B \o w) = b + l
          /\ \A i \in 1 .. b + l : (B \o w)[i] = IF i <= b THEN B[i] ELSE w[i - b]
      BY <1>2, ConcatProperties
    <3> HIDE DEF l
    <3>3. /\ \A i \in 1 .. b : i \in 1 .. b + l /\ i <= b
          /\ \A i \in b + 1 .. b + l : i \in 1 .. b + l /\ ~(i <= b)
      BY <1>1
    <3> QED BY <3>1, <3>2, <3>3
  <2>2. DOMAIN v = 1 .. b + l BY <2>1
  <2> HIDE DEF l
  <2>3. \A i \in 1 .. b + l : Blank(v[i]) <=> i <= b
    <3> TAKE i \in 1 .. b + l
    <3>1. CASE i <= b
      <4>1. i \in 1 .. b BY <3>1
      <4> QED BY <1>2, <2>1, <3>1, <4>1
    <3>2. CASE i > b
      <4>1. i \in b + 1 .. b + l /\ i - b \in 1 .. l BY <1>1, <3>2
      <4>2. ~(i <= b) BY <1>1, <3>2
      <4> QED BY <1>1, <2>1, <4>1, <4>2
    <3> QED BY <1>1, <3>1, <3>2
  <2>4. ASSUME NEW i \in BlankOf(v), NEW j \in DOMAIN v \ BlankOf(v)
        PROVE  (j < i) <=> ("-" \in flags /\ ~(i = 1 /\ HasBlank(flags)))
    <3>1. i \in 1 .. b + l /\ Blank(v[i]) /\ j \in 1 .. b + l /\ ~Blank(v[j])
      BY <2>2 DEF BlankOf
    <3>2. i <= b /\ ~(j <= b) BY <2>3, <3>1
    <3>3. ~(j < i) BY <1>1, <3>1, <3>2
    <3> QED BY <1>6, <3>3
  <2>5. OneSide(v, flags) BY <2>4 DEF OneSide
  <2> QED BY <1>4, <2>1, <2>5 DEF l, v
<1> QED BY <1>5, <1>6

\* How Convert calls number.
NumberConversions == {"o", "p", "x", "X", "d", "i", "u"}
NumberWidth(c, width) == IF c = "p" /\ width = -1 THEN 8 ELSE width
NumberFlags(c, width, flags) ==
  IF c = "p" /\ width = -1 THEN flags \union {"0"}
  ELSE IF c = "x" THEN flags \union {"SMALL"}
  ELSE IF c \in {"d", "i"} THEN flags \union {"SIGN"} ELSE flags

\* The conversions of numbers call number (vsprintf.cpp 188-216).
LEMMA ConvertIsNumber ==
  ASSUME NEW c \in NumberConversions, NEW n, NEW width, NEW precision, NEW flags
  PROVE  /\ Convert(c, n, width, precision, flags) =
              number(n, BaseOf(c), NumberWidth(c, width), precision,
                     NumberFlags(c, width, flags))
         /\ BaseOf(c) \in Bases /\ c \in Conversions /\ c \notin {"s", "c"}
<1>1. c \in Conversions /\ c \notin {"s", "c"}
  BY DEF NumberConversions, Conversions
<1>2. CASE c = "o" BY <1>1, <1>2 DEF Convert, BaseOf, Bases, NumberWidth, NumberFlags
<1>3. CASE c = "p" BY <1>1, <1>3 DEF Convert, BaseOf, Bases, NumberWidth, NumberFlags
<1>4. CASE c = "x" BY <1>1, <1>4 DEF Convert, BaseOf, Bases, NumberWidth, NumberFlags
<1>5. CASE c = "X" BY <1>1, <1>5 DEF Convert, BaseOf, Bases, NumberWidth, NumberFlags
<1>6. CASE c = "d" BY <1>1, <1>6 DEF Convert, BaseOf, Bases, NumberWidth, NumberFlags
<1>7. CASE c = "i" BY <1>1, <1>7 DEF Convert, BaseOf, Bases, NumberWidth, NumberFlags
<1>8. CASE c = "u" BY <1>1, <1>8 DEF Convert, BaseOf, Bases, NumberWidth, NumberFlags
<1> QED BY <1>2, <1>3, <1>4, <1>5, <1>6, <1>7, <1>8 DEF NumberConversions

\* The flags they add, SMALL, SIGN and for pointers 0, change no other.
LEMMA FlagsKept ==
  ASSUME NEW c \in NumberConversions, NEW width, NEW flags,
         "SIGN" \notin flags
  PROVE  /\ ("-" \in NumberFlags(c, width, flags)) <=> ("-" \in flags)
         /\ ("+" \in NumberFlags(c, width, flags)) <=> ("+" \in flags)
         /\ ("#" \in NumberFlags(c, width, flags)) <=> ("#" \in flags)
         /\ HasBlank(NumberFlags(c, width, flags)) <=> HasBlank(flags)
         /\ "0" \in flags => "0" \in NumberFlags(c, width, flags)
         /\ "SIGN" \in NumberFlags(c, width, flags) <=> c \in {"d", "i"}
         /\ BaseOf(c) = 10 => (("0" \in NumberFlags(c, width, flags)) <=> ("0" \in flags))
<1> DEFINE F == NumberFlags(c, width, flags)
<1>1. \/ F = flags \union {"0"} /\ c = "p"
      \/ F = flags \union {"SMALL"} /\ c = "x"
      \/ F = flags \union {"SIGN"} /\ c \in {"d", "i"}
      \/ F = flags /\ c \notin {"d", "i"}
  BY DEF NumberFlags
<1>2. BaseOf(c) = 10 => c # "p" BY DEF BaseOf
<1> HIDE DEF F
<1>3. HasBlank(F) <=> HasBlank(flags) BY <1>1, Zenon DEF HasBlank
<1>4. /\ ("-" \in F) <=> ("-" \in flags)
      /\ ("+" \in F) <=> ("+" \in flags)
      /\ ("#" \in F) <=> ("#" \in flags)
      /\ "0" \in flags => "0" \in F
      /\ "SIGN" \in F <=> c \in {"d", "i"}
      /\ c # "p" => (("0" \in F) <=> ("0" \in flags))
  <2>1. CASE F = flags \union {"0"} /\ c = "p" BY <2>1
  <2>2. CASE F = flags \union {"SMALL"} /\ c = "x" BY <2>2
  <2>3. CASE F = flags \union {"SIGN"} /\ c \in {"d", "i"} BY <2>3
  <2>4. CASE F = flags /\ c \notin {"d", "i"} BY <2>4
  <2> QED BY <1>1, <2>1, <2>2, <2>3, <2>4
<1> QED BY <1>2, <1>3, <1>4 DEF F

-----------------------------------------------------------------------------
(* The numbers in a format.                                                *)

DecimalDigit == {Upper[k] : k \in 1 .. 10}

IsSkip(at, w, i, end) ==
  at = [j \in i - 1 .. end - 1 |->
          IF j = i - 1 THEN 0 ELSE at[j - 1] * 10 + Value(w[j])]

SkipEnd(w, i) == Min({j \in i .. Len(w) + 1 : ~(CharAt(w, j) \in DecimalDigit)})

\* skip_atoi's value by the function its loop defines.
LEMMA SkipIs ==
  ASSUME NEW w, NEW i
  PROVE  /\ skip_atoi(w, i).i = SkipEnd(w, i)
         /\ skip_atoi(w, i).n =
              (CHOOSE at : IsSkip(at, w, i, SkipEnd(w, i)))[SkipEnd(w, i) - 1]
BY DEF skip_atoi, IsSkip, SkipEnd, DecimalDigit

\* skip_atoi's loop defines a function.
LEMMA SkipExists ==
  ASSUME NEW w, NEW i \in Int, NEW end \in Int, i <= end
  PROVE  \E at : IsSkip(at, w, i, end)
<1> DEFINE step == [x \in Nat \X Int |-> x[1] * 10 + Value(w[x[2]])]
           lo == i - 1
           n == end - i
           a0 == 0
<1>1. step \in [Nat \X Int -> Nat]
  <2>1. ASSUME NEW x \in Nat \X Int PROVE x[1] * 10 + Value(w[x[2]]) \in Nat
    <3>1. x[1] \in Nat /\ Value(w[x[2]]) \in Nat BY DigitIsWhole
    <3> QED BY <3>1
  <2> QED BY <2>1
<1>2. n \in Nat /\ lo \in Int /\ a0 \in Nat /\ lo + n = end - 1 OBVIOUS
<1> HIDE DEF step, n, lo, a0
<1>3. PICK at : Rounds(at, lo, n, Nat, a0, step) BY <1>1, <1>2, RoundsExist
<1>4. /\ at \in [lo .. end - 1 -> Nat]
      /\ \A j \in lo .. end - 1 : at[j] = IF j = lo THEN a0 ELSE step[<<at[j - 1], j>>]
  BY <1>2, <1>3 DEF Rounds
<1>5. ASSUME NEW j \in lo .. end - 1
      PROVE  at[j] = IF j = lo THEN 0 ELSE at[j - 1] * 10 + Value(w[j])
  <2>1. CASE j # lo
    <3> DEFINE a == at[j - 1]
    <3>1. j - 1 \in lo .. end - 1 /\ j \in Int BY <1>2, <2>1
    <3>2. a \in Nat BY <1>4, <3>1
    <3>3. at[j] = step[<<a, j>>] BY <1>4, <2>1
    <3> HIDE DEF a
    <3>4. step[<<a, j>>] = a * 10 + Value(w[j]) BY <3>1, <3>2 DEF step
    <3> QED BY <2>1, <3>3, <3>4 DEF a
  <2>2. CASE j = lo BY <1>4, <2>2 DEF a0
  <2> QED BY <2>1, <2>2
<1>6. at = [j \in lo .. end - 1 |-> at[j]] BY <1>4
<1>7. IsSkip(at, w, i, end) BY <1>5, <1>6, Zenon DEF IsSkip, lo
<1> QED BY <1>7

\* The decimal digits d stand in a text from i on, and no other behind them.
Skips(w, i, d) ==
  /\ Len(w) \in Nat /\ DOMAIN w = 1 .. Len(w) /\ i \in Nat \ {0} /\ Len(d) \in Nat
  /\ i + Len(d) <= Len(w) + 1
  /\ \A j \in 1 .. Len(d) : w[i + j - 1] = d[j] /\ d[j] \in DecimalDigit
  /\ CharAt(w, i + Len(d)) \notin DecimalDigit

\* skip_atoi ends behind the digits.
LEMMA SkipsTo ==
  ASSUME NEW w, NEW i, NEW d, Skips(w, i, d)
  PROVE  SkipEnd(w, i) = i + Len(d)
<1> DEFINE l == Len(w)
           k == Len(d)
           S == {j \in i .. l + 1 : ~(CharAt(w, j) \in DecimalDigit)}
<1>1. l \in Nat /\ i \in Nat \ {0} /\ k \in Nat /\ i + k <= l + 1 /\ DOMAIN w = 1 .. l
  BY DEF Skips
<1>2. SkipEnd(w, i) = Min(S) BY DEF SkipEnd
<1> HIDE DEF l
<1>3. i + k \in S
  <2>1. CharAt(w, i + k) \notin DecimalDigit BY DEF Skips
  <2>2. i + k \in i .. l + 1
    <3> HIDE DEF k
    <3> QED BY <1>1
  <2> QED BY <2>1, <2>2
<1>4. S \subseteq Nat BY <1>1
<1>5. ASSUME NEW y \in S PROVE i + k <= y
  <2>1. y \in i .. l + 1 /\ CharAt(w, y) \notin DecimalDigit OBVIOUS
  <2> HIDE DEF S
  <2>2. CASE y < i + k
    <3> DEFINE j == y - i + 1
    <3>1. j \in 1 .. k /\ i + j - 1 = y /\ y \in 1 .. l
      <4> HIDE DEF k
      <4> QED BY <1>1, <2>1, <2>2
    <3> HIDE DEF j
    <3>2. w[y] \in DecimalDigit BY <3>1 DEF Skips
    <3>3. CharAt(w, y) = w[y] BY <1>1, <3>1, Zenon DEF CharAt
    <3> QED BY <2>1, <3>2, <3>3
  <2> HIDE DEF k
  <2> QED BY <1>1, <2>1, <2>2
<1> HIDE DEF S
<1>6. Min(S) = i + k BY <1>3, <1>4, <1>5, TheLeast
<1> QED BY <1>2, <1>6

\* skip_atoi reads the number that its digits show.
LEMMA SkipReads ==
  ASSUME NEW w, NEW i, NEW d, NEW n, NEW table, Skips(w, i, d), Shown(d, n, 10, table)
  PROVE  skip_atoi(w, i).n = n
<1> DEFINE k == Len(d)
           end == SkipEnd(w, i)
           at == CHOOSE f : IsSkip(f, w, i, end)
<1>1. i \in Nat \ {0} /\ k \in Nat /\ \A j \in 1 .. k : w[i + j - 1] = d[j] BY DEF Skips
<1>2. end = i + k BY SkipsTo
<1>3. skip_atoi(w, i).n = at[end - 1] BY SkipIs
<1> HIDE DEF end
<1>4. IsSkip(at, w, i, end)
  <2>1. i \in Int /\ end \in Int /\ i <= end
    <3> HIDE DEF k
    <3> QED BY <1>1, <1>2
  <2>2. \E f : IsSkip(f, w, i, end) BY <2>1, SkipExists
  <2> QED BY <2>2
<1> HIDE DEF at
<1>5. PICK v : Reads(v, d, 10) /\ v[k] = n BY DEF Shown
<1>6. /\ v[0] = 0
      /\ \A j \in 1 .. k : v[j] = v[j - 1] * 10 + Value(d[j])
  BY <1>5 DEF Reads
<1> HIDE DEF k
<1>7. \A j \in i - 1 .. i + k - 1 :
        at[j] = IF j = i - 1 THEN 0 ELSE at[j - 1] * 10 + Value(w[j])
  <2>1. IsSkip(at, w, i, i + k) BY <1>2, <1>4
  <2>2. \A j \in i - 1 .. (i + k) - 1 :
          at[j] = IF j = i - 1 THEN 0 ELSE at[j - 1] * 10 + Value(w[j])
    BY <2>1, Zenon DEF IsSkip
  <2>3. i - 1 .. (i + k) - 1 = i - 1 .. i + k - 1 BY <1>1
  <2> QED BY <2>2, <2>3
<1> DEFINE good == {j \in 0 .. k : at[i + j - 1] = v[j]}
<1>8. 0 \in good
  <2>1. i - 1 \in i - 1 .. i + k - 1 /\ i + 0 - 1 = i - 1 /\ 0 \in 0 .. k BY <1>1
  <2> QED BY <1>6, <1>7, <2>1
<1>9. ASSUME NEW j \in 0 .. k - 1, j \in good PROVE j + 1 \in good
  <2>1. /\ i + (j + 1) - 1 = i + j /\ i + j \in i - 1 .. i + k - 1 /\ i + j # i - 1
        /\ j + 1 \in 1 .. k /\ j + 1 \in 0 .. k /\ (j + 1) - 1 = j
        /\ (i + j) - 1 = i + j - 1
    BY <1>1
  <2>2. at[i + j - 1] = v[j] BY <1>9
  <2>3. at[i + j] = at[(i + j) - 1] * 10 + Value(w[i + j]) BY <1>7, <2>1
  <2>4. v[j + 1] = v[(j + 1) - 1] * 10 + Value(d[j + 1]) BY <1>6, <2>1
  <2>5. w[i + (j + 1) - 1] = d[j + 1] BY <1>1, <2>1
  <2>6. at[i + (j + 1) - 1] = v[j + 1] BY <2>1, <2>2, <2>3, <2>4, <2>5
  <2> QED BY <2>1, <2>6
<1> HIDE DEF good
<1>10. \A j \in 0 .. k : j \in good BY <1>1, <1>8, <1>9, CountUp
<1>11. k \in 0 .. k /\ end - 1 = i + k - 1 BY <1>1, <1>2
<1>12. at[end - 1] = v[k] BY <1>10, <1>11 DEF good
<1> QED BY <1>3, <1>5, <1>12 DEF k

-----------------------------------------------------------------------------
(* vsprintf, a character or a directive at a time.                         *)

IsFlag(c) == c \in {"-", "+", " ", "#", "0"}

\* The parts of a directive behind place i.
AtWidth(fmt, i) == Flags(fmt, i + 1)
FlagsAt(fmt, i) == {fmt[j] : j \in i + 1 .. AtWidth(fmt, i) - 1}
WidthAt(fmt, i) == skip_atoi(fmt, AtWidth(fmt, i))
PointAt(fmt, i) == CharAt(fmt, WidthAt(fmt, i).i) = "."
PrecisionAt(fmt, i) == skip_atoi(fmt, WidthAt(fmt, i).i + 1)
AtQualifier(fmt, i) == IF PointAt(fmt, i) THEN PrecisionAt(fmt, i).i ELSE WidthAt(fmt, i).i
AtConversion(fmt, i) ==
  IF CharAt(fmt, AtQualifier(fmt, i)) \in {"h", "l", "L"} THEN AtQualifier(fmt, i) + 1
  ELSE AtQualifier(fmt, i)
Stars(fmt, i) ==
  {j \in {AtWidth(fmt, i), WidthAt(fmt, i).i + 1} :
     CharAt(fmt, j) = "*" /\ (j = AtWidth(fmt, i) \/ PointAt(fmt, i))}
NextArg(fmt, i, a) == a + Cardinality(Stars(fmt, i))

\* What is printed from a place on, where print says what is printed behind it.
Converted(fmt, args, i, a) ==
  Convert(fmt[AtConversion(fmt, i)], args[NextArg(fmt, i, a)],
          IF WidthAt(fmt, i).i = AtWidth(fmt, i) THEN -1 ELSE WidthAt(fmt, i).n,
          IF PointAt(fmt, i) THEN PrecisionAt(fmt, i).n ELSE -1, FlagsAt(fmt, i))
PrintDirective(print, fmt, args, i, a) ==
  IF CharAt(fmt, AtConversion(fmt, i)) \in Conversions
  THEN Converted(fmt, args, i, a) \o print[<<AtConversion(fmt, i) + 1, NextArg(fmt, i, a) + 1>>]
  ELSE (IF CharAt(fmt, AtConversion(fmt, i)) = "%" THEN <<>> ELSE <<"%">>)
         \o (IF AtConversion(fmt, i) > Len(fmt) THEN <<>>
             ELSE <<fmt[AtConversion(fmt, i)]>>
                    \o print[<<AtConversion(fmt, i) + 1, NextArg(fmt, i, a)>>])
PrintFrom(print, fmt, args, i, a) ==
  IF i > Len(fmt) THEN <<>>
  ELSE IF fmt[i] # "%" THEN <<fmt[i]>> \o print[<<i + 1, a>>]
  ELSE PrintDirective(print, fmt, args, i, a)

IsPrint(print, fmt, args) ==
  print = [at \in (1 .. Len(fmt) + 1) \X Nat |-> PrintFrom(print, fmt, args, at[1], at[2])]

\* vsprintf prints from the first place of the format, with the first argument.
LEMMA VsprintfIs ==
  ASSUME NEW fmt, NEW args
  PROVE  vsprintf(fmt, args) = (CHOOSE print : IsPrint(print, fmt, args))[<<1, 1>>]
BY Zenon DEF vsprintf, IsPrint, PrintFrom, PrintDirective, Converted, NextArg, Stars,
   AtConversion, AtQualifier, PrecisionAt, PointAt, WidthAt, FlagsAt, AtWidth

\* A directive ends behind its %, and before the end of the format if something
\* stands there, and takes arguments in their order.
LEMMA FlagsEnd ==
  ASSUME NEW fmt, NEW i \in 1 .. Len(fmt), Len(fmt) \in Nat, DOMAIN fmt = 1 .. Len(fmt)
  PROVE  AtWidth(fmt, i) \in i + 1 .. Len(fmt) + 1
<1> DEFINE l == Len(fmt)
           S == {j \in i + 1 .. l + 1 : ~IsFlag(CharAt(fmt, j))}
<1>1. AtWidth(fmt, i) = Min(S) BY Zenon DEF AtWidth, Flags, IsFlag
<1>2. l + 1 \in S
  <2>1. l + 1 \notin DOMAIN fmt OBVIOUS
  <2>2. ~IsFlag(CharAt(fmt, l + 1)) BY <2>1, Zenon DEF CharAt, IsFlag
  <2>3. l + 1 \in i + 1 .. l + 1 OBVIOUS
  <2> QED BY <2>2, <2>3
<1>3. S \subseteq Nat /\ S \subseteq i + 1 .. l + 1 OBVIOUS
<1> HIDE DEF S
<1>4. Min(S) \in S BY <1>2, <1>3, MinIsLeast
<1> QED BY <1>1, <1>3, <1>4

\* skip_atoi stays in the format.
LEMMA SkipEnds ==
  ASSUME NEW fmt, Len(fmt) \in Nat, DOMAIN fmt = 1 .. Len(fmt), NEW i \in 1 .. Len(fmt) + 1
  PROVE  skip_atoi(fmt, i).i \in i .. Len(fmt) + 1
<1> DEFINE l == Len(fmt)
           S == {j \in i .. l + 1 : ~(CharAt(fmt, j) \in DecimalDigit)}
<1>1. skip_atoi(fmt, i).i = Min(S) BY SkipIs DEF SkipEnd
<1>2. l + 1 \in S
  <2>1. l + 1 \notin DOMAIN fmt OBVIOUS
  <2> DEFINE e == ""
  <2>2. CharAt(fmt, l + 1) = e BY <2>1, Zenon DEF CharAt
  <2>3. \A k \in 1 .. 10 : Upper[k] # e
    <3>1. Value(e) = 99 BY NoDigit, Zenon
    <3>2. \A k \in 1 .. 10 : Value(Upper[k]) # 99
      <4> TAKE k \in 1 .. 10
      <4>1. k - 1 \in 0 .. 15 /\ Upper \in Tables /\ Upper[k] = Upper[(k - 1) + 1]
        BY DEF Tables
      <4>2. Value(Upper[k]) = k - 1 BY <4>1, DigitIs
      <4> QED BY <4>2
    <3> HIDE DEF e
    <3> QED BY <3>1, <3>2
  <2> HIDE DEF e
  <2>4. CharAt(fmt, l + 1) \notin DecimalDigit BY <2>2, <2>3 DEF DecimalDigit
  <2>5. l + 1 \in i .. l + 1 OBVIOUS
  <2> QED BY <2>4, <2>5
<1>3. S \subseteq Nat /\ S \subseteq i .. l + 1 OBVIOUS
<1> HIDE DEF S
<1>4. Min(S) \in S BY <1>2, <1>3, MinIsLeast
<1> QED BY <1>1, <1>3, <1>4

\* The conversion stands behind the percent sign, and in the format if it is one.
LEMMA DirectiveEnds ==
  ASSUME NEW fmt, NEW i \in 1 .. Len(fmt), Len(fmt) \in Nat, DOMAIN fmt = 1 .. Len(fmt),
         NEW a \in Nat
  PROVE  /\ AtConversion(fmt, i) \in Int /\ AtConversion(fmt, i) >= i + 1
         /\ CharAt(fmt, AtConversion(fmt, i)) \in Conversions
              => AtConversion(fmt, i) <= Len(fmt)
         /\ NextArg(fmt, i, a) \in Nat
<1> DEFINE l == Len(fmt)
           f == AtWidth(fmt, i)
           w == WidthAt(fmt, i).i
           p == PrecisionAt(fmt, i).i
           q == AtQualifier(fmt, i)
           c == AtConversion(fmt, i)
<1>1. f \in i + 1 .. l + 1 BY FlagsEnd
<1>2. w \in f .. l + 1
  <2>1. f \in 1 .. l + 1
    <3> HIDE DEF f
    <3> QED BY <1>1
  <2>2. skip_atoi(fmt, f).i \in f .. l + 1
    <3> HIDE DEF f
    <3> QED BY <2>1, SkipEnds
  <2> QED BY <2>2 DEF WidthAt
<1>3. PointAt(fmt, i) => p \in w + 1 .. l + 1
  <2>1. SUFFICES ASSUME PointAt(fmt, i) PROVE p \in w + 1 .. l + 1 OBVIOUS
  <2>2. CharAt(fmt, w) = "." BY <2>1 DEF PointAt
  <2>3. w \in DOMAIN fmt
    <3>1. CASE w \notin DOMAIN fmt
      <4> HIDE DEF w
      <4> DEFINE b == CharAt(fmt, w)
      <4>1. b = "" BY <3>1, Zenon DEF CharAt
      <4>2. b # "." BY <4>1, Zenon
      <4> QED BY <2>2, <4>2
    <3> QED BY <3>1
  <2>4. w + 1 \in 1 .. l + 1
    <3> HIDE DEF w
    <3> QED BY <2>3
  <2>5. skip_atoi(fmt, w + 1).i \in w + 1 .. l + 1
    <3> HIDE DEF w
    <3> QED BY <2>4, SkipEnds
  <2> QED BY <2>5 DEF PrecisionAt
<1>4. q = (IF PointAt(fmt, i) THEN p ELSE w) BY DEF AtQualifier
<1>5. c = q \/ c = q + 1 BY DEF AtConversion
<1> HIDE DEF f, w, p, q, c
<1>6. c \in Int /\ c >= i + 1 BY <1>1, <1>2, <1>3, <1>4, <1>5
<1>7. CharAt(fmt, c) \in Conversions => c <= l
  <2>1. CASE c \notin DOMAIN fmt
    <3> DEFINE b == CharAt(fmt, c)
    <3>1. b = "" BY <2>1, Zenon DEF CharAt
    <3>2. b \notin Conversions BY <3>1, Zenon DEF Conversions
    <3> QED BY <3>2
  <2>2. CASE c \in DOMAIN fmt BY <2>2
  <2> QED BY <2>1, <2>2
<1>8. NextArg(fmt, i, a) \in Nat
  <2> DEFINE S == Stars(fmt, i)
             T == {AtWidth(fmt, i), WidthAt(fmt, i).i + 1}
  <2>1. S \subseteq T BY DEF Stars
  <2>2. IsFiniteSet(T)
    <3> DEFINE x == AtWidth(fmt, i)
               y == WidthAt(fmt, i).i + 1
    <3> HIDE DEF x, y
    <3>1. IsFiniteSet({}) BY FS_EmptySet
    <3>2. IsFiniteSet({} \union {x}) BY <3>1, FS_AddElement
    <3>3. IsFiniteSet(({} \union {x}) \union {y}) BY <3>2, FS_AddElement
    <3>4. {x, y} = ({} \union {x}) \union {y} OBVIOUS
    <3>5. IsFiniteSet({x, y}) BY <3>3, <3>4
    <3> QED BY <3>5 DEF x, y
  <2> HIDE DEF S, T
  <2>3. IsFiniteSet(S) BY <2>1, <2>2, FS_Subset
  <2>4. Cardinality(S) \in Nat BY <2>3, FS_CardinalityType
  <2>5. NextArg(fmt, i, a) = a + Cardinality(S) BY DEF NextArg, S
  <2> QED BY <2>4, <2>5
<1> QED BY <1>6, <1>7, <1>8 DEF c

\* So what is printed from a place on depends on what is printed behind it only.
LEMMA PrintsFromBehind ==
  ASSUME NEW fmt, Len(fmt) \in Nat, DOMAIN fmt = 1 .. Len(fmt), NEW args,
         NEW i \in 1 .. Len(fmt) + 1, NEW a \in Nat, NEW p, NEW q,
         \A j \in i + 1 .. Len(fmt) + 1, b \in Nat : p[<<j, b>>] = q[<<j, b>>]
  PROVE  PrintFrom(p, fmt, args, i, a) = PrintFrom(q, fmt, args, i, a)
<1> DEFINE l == Len(fmt)
           c == AtConversion(fmt, i)
           n == NextArg(fmt, i, a)
<1>1. CASE i > l BY <1>1 DEF PrintFrom
<1>2. CASE i <= l
  <2>1. i \in 1 .. l /\ i + 1 \in i + 1 .. l + 1 BY <1>2
  <2>2. p[<<i + 1, a>>] = q[<<i + 1, a>>] BY <2>1
  <2>3. c \in Int /\ c >= i + 1 /\ (CharAt(fmt, c) \in Conversions => c <= l) /\ n \in Nat
    BY <2>1, DirectiveEnds
  <2> HIDE DEF c, n
  <2>4. c <= l => c + 1 \in i + 1 .. l + 1 BY <2>1, <2>3
  <2>5. n \in Nat /\ n + 1 \in Nat BY <2>3
  <2>6. c <= l => p[<<c + 1, n>>] = q[<<c + 1, n>>] /\ p[<<c + 1, n + 1>>] = q[<<c + 1, n + 1>>]
    BY <2>4, <2>5
  <2>7. c > l \/ c <= l BY <2>3
  <2>8. PrintDirective(p, fmt, args, i, a) = PrintDirective(q, fmt, args, i, a)
    BY <2>3, <2>6, <2>7 DEF PrintDirective, c, n
  <2> QED BY <2>2, <2>8 DEF PrintFrom
<1> QED BY <1>1, <1>2

\* The recursion of vsprintf defines a function: it goes on behind what it printed.
LEMMA PrintExists ==
  ASSUME NEW fmt, Len(fmt) \in Nat, DOMAIN fmt = 1 .. Len(fmt), NEW args
  PROVE  \E print : IsPrint(print, fmt, args)
<1> DEFINE l == Len(fmt)
           Dom(k) == (l + 1 - k .. l + 1) \X Nat
           Is(f, k) == \A at \in Dom(k) : f[at] = PrintFrom(f, fmt, args, at[1], at[2])
           good == {k \in 0 .. l : \E f : Is(f, k)}
<1>1. 0 \in good
  <2> DEFINE g == [at \in Dom(0) |-> <<>>]
  <2>1. ASSUME NEW at \in Dom(0) PROVE g[at] = PrintFrom(g, fmt, args, at[1], at[2])
    <3>1. at[1] > l
      <4>1. at[1] \in l + 1 - 0 .. l + 1 OBVIOUS
      <4> QED BY <4>1
    <3> QED BY <3>1 DEF PrintFrom
  <2>2. Is(g, 0) BY <2>1
  <2>3. 0 \in 0 .. l OBVIOUS
  <2> HIDE DEF Is
  <2> QED BY <2>2, <2>3
<1>2. ASSUME NEW k \in 0 .. l - 1, k \in good PROVE k + 1 \in good
  <2>1. PICK f : Is(f, k) BY <1>2
  <2> DEFINE i0 == l - k
             D == Dom(k + 1)
             g == [at \in D |-> IF at[1] = i0 THEN PrintFrom(f, fmt, args, at[1], at[2])
                                ELSE f[at]]
  <2>2. /\ i0 \in 1 .. l + 1 /\ l + 1 - (k + 1) = i0 /\ i0 + 1 = l + 1 - k
        /\ \A i \in i0 + 1 .. l + 1 : i # i0 /\ i \in i0 .. l + 1
        /\ \A i \in i0 .. l + 1 : i \in 1 .. l + 1 /\ (i # i0 => i \in i0 + 1 .. l + 1)
                                 /\ \A j \in i + 1 .. l + 1 : j \in i0 + 1 .. l + 1
    <3>1. l \in Nat /\ k \in Int /\ 0 <= k /\ k <= l - 1 /\ i0 = l - k OBVIOUS
    <3> HIDE DEF i0, l
    <3>2. i0 \in 1 .. l + 1 /\ l + 1 - (k + 1) = i0 /\ i0 + 1 = l + 1 - k BY <3>1
    <3>3. i0 \in Int /\ i0 >= 1 BY <3>1
    <3>4. /\ \A i \in i0 + 1 .. l + 1 : i # i0 /\ i \in i0 .. l + 1
          /\ \A i \in i0 .. l + 1 : i \in 1 .. l + 1 /\ (i # i0 => i \in i0 + 1 .. l + 1)
      BY <3>1, <3>3
    <3>5. ASSUME NEW i \in i0 .. l + 1, NEW j \in i + 1 .. l + 1
          PROVE  j \in i0 + 1 .. l + 1
      BY <3>1, <3>3
    <3> QED BY <3>2, <3>4, <3>5
  <2> HIDE DEF i0
  <2>3. D = (i0 .. l + 1) \X Nat /\ Dom(k) = (i0 + 1 .. l + 1) \X Nat BY <2>2
  <2> HIDE DEF Dom, D
  <2>4. ASSUME NEW j \in i0 + 1 .. l + 1, NEW b \in Nat PROVE g[<<j, b>>] = f[<<j, b>>]
    <3>1. j \in i0 .. l + 1 /\ j # i0 BY <2>2
    <3>2. <<j, b>> \in D /\ <<j, b>>[1] = j BY <2>3, <3>1
    <3> QED BY <3>1, <3>2
  <2>5. ASSUME NEW at \in D PROVE g[at] = PrintFrom(g, fmt, args, at[1], at[2])
    <3> DEFINE i == at[1]
               a == at[2]
    <3>1. i \in i0 .. l + 1 /\ a \in Nat /\ at = <<i, a>> BY <2>3
    <3>2. g[at] = IF i = i0 THEN PrintFrom(f, fmt, args, i, a) ELSE f[at] OBVIOUS
    <3> HIDE DEF g, i, a
    <3>3. \A j \in i + 1 .. Len(fmt) + 1, b \in Nat : f[<<j, b>>] = g[<<j, b>>]
      BY <2>2, <2>4, <3>1
    <3>4. i \in 1 .. Len(fmt) + 1 BY <2>2, <3>1
    <3>5. PrintFrom(f, fmt, args, i, a) = PrintFrom(g, fmt, args, i, a)
      BY <3>1, <3>3, <3>4, PrintsFromBehind
    <3>6. CASE i # i0
      <4>1. at \in Dom(k) BY <2>2, <2>3, <3>1, <3>6
      <4>2. f[at] = PrintFrom(f, fmt, args, at[1], at[2]) BY <2>1, <4>1
      <4>3. f[at] = PrintFrom(f, fmt, args, i, a) BY <4>2 DEF i, a
      <4> QED BY <3>2, <3>5, <3>6, <4>3 DEF i, a
    <3> QED BY <3>2, <3>5, <3>6 DEF i, a
  <2> HIDE DEF g
  <2>6. Is(g, k + 1) BY <2>5 DEF D
  <2> HIDE DEF Is
  <2>7. k + 1 \in 0 .. l OBVIOUS
  <2> QED BY <2>6, <2>7
<1>3. l \in good
  <2> HIDE DEF good, l
  <2>1. l \in Nat BY DEF l
  <2>2. \A k \in 0 .. l : k \in good BY <1>1, <1>2, <2>1, CountUp
  <2> QED BY <2>1, <2>2
<1>4. PICK f : Is(f, l) BY <1>3
<1> DEFINE D == (1 .. l + 1) \X Nat
           g == [at \in D |-> f[at]]
<1>5. Dom(l) = D
  <2>1. l + 1 - l = 1 OBVIOUS
  <2> QED BY <2>1
<1>6. ASSUME NEW at \in D PROVE g[at] = PrintFrom(g, fmt, args, at[1], at[2])
  <2> DEFINE i == at[1]
             a == at[2]
  <2>1. i \in 1 .. Len(fmt) + 1 /\ a \in Nat OBVIOUS
  <2>2. f[at] = PrintFrom(f, fmt, args, i, a) BY <1>4, <1>5
  <2>3. g[at] = f[at] OBVIOUS
  <2>4. \A j \in i + 1 .. Len(fmt) + 1, b \in Nat : f[<<j, b>>] = g[<<j, b>>]
    <3> TAKE j \in i + 1 .. Len(fmt) + 1, b \in Nat
    <3>1. j \in 1 .. l + 1
      <4> HIDE DEF i
      <4> QED BY <2>1
    <3>2. <<j, b>> \in D BY <3>1
    <3> QED BY <3>2
  <2> HIDE DEF g, i, a, D
  <2>5. PrintFrom(f, fmt, args, i, a) = PrintFrom(g, fmt, args, i, a)
    BY <2>1, <2>4, PrintsFromBehind
  <2> QED BY <2>2, <2>3, <2>5 DEF i, a
<1>7. g = [at \in D |-> g[at]] OBVIOUS
<1> HIDE DEF g
<1>8. g = [at \in D |-> PrintFrom(g, fmt, args, at[1], at[2])]
  <2> HIDE DEF D
  <2> QED BY <1>6, <1>7, Zenon
<1> QED BY <1>8 DEF IsPrint

-----------------------------------------------------------------------------
(* What a directive says.                                                  *)

\* Behind a % at place i stand flags F, a width W, and a precision D if there
\* is a point, and no *.
Directive(fmt, i, F, W, point, D) ==
  /\ Len(fmt) \in Nat /\ DOMAIN fmt = 1 .. Len(fmt) /\ i \in 1 .. Len(fmt)
  /\ Len(F) \in Nat /\ DOMAIN F = 1 .. Len(F) /\ i + Len(F) <= Len(fmt)
  /\ \A j \in 1 .. Len(F) : fmt[i + j] = F[j] /\ IsFlag(F[j])
  /\ ~IsFlag(CharAt(fmt, i + Len(F) + 1)) /\ CharAt(fmt, i + Len(F) + 1) # "*"
  /\ Skips(fmt, i + Len(F) + 1, W)
  /\ IF point THEN /\ CharAt(fmt, i + Len(F) + 1 + Len(W)) = "."
                   /\ Skips(fmt, i + Len(F) + 1 + Len(W) + 1, D)
                   /\ CharAt(fmt, i + Len(F) + 1 + Len(W) + 1) # "*"
     ELSE CharAt(fmt, i + Len(F) + 1 + Len(W)) # "."

\* The flags end where the width begins.
LEMMA DirectiveFlags ==
  ASSUME NEW fmt, NEW i, NEW F, NEW W, NEW point, NEW D,
         Directive(fmt, i, F, W, point, D)
  PROVE  /\ AtWidth(fmt, i) = i + Len(F) + 1
         /\ FlagsAt(fmt, i) = {F[j] : j \in DOMAIN F}
<1> DEFINE l == Len(fmt)
           n == Len(F)
           f == i + n + 1
           S == {j \in i + 1 .. l + 1 : ~IsFlag(CharAt(fmt, j))}
<1>1. /\ l \in Nat /\ DOMAIN fmt = 1 .. l /\ i \in 1 .. l
      /\ n \in Nat /\ DOMAIN F = 1 .. n /\ i + n <= l
      /\ (\A j \in 1 .. n : fmt[i + j] = F[j] /\ IsFlag(F[j]))
      /\ ~IsFlag(CharAt(fmt, f))
  BY DEF Directive
<1>2. AtWidth(fmt, i) = Min(S) BY Zenon DEF AtWidth, Flags, IsFlag
<1>b. \A j : j \in DOMAIN fmt <=> j \in 1 .. l BY <1>1
<1> HIDE DEF l, n
<1>3. f \in S
  <2>1. f \in i + 1 .. l + 1 BY <1>1
  <2> QED BY <1>1, <2>1
<1>4. S \subseteq Nat BY <1>1
<1>5. ASSUME NEW y \in S PROVE f <= y
  <2>1. y \in i + 1 .. l + 1 /\ ~IsFlag(CharAt(fmt, y)) OBVIOUS
  <2> HIDE DEF S
  <2>2. CASE y < f
    <3> DEFINE j == y - i
    <3>1. j \in 1 .. n /\ i + j = y /\ y \in 1 .. l BY <1>1, <2>1, <2>2
    <3> HIDE DEF j
    <3>2. IsFlag(fmt[y]) BY <1>1, <3>1
    <3>3. CharAt(fmt, y) = fmt[y] BY <1>b, <3>1, Zenon DEF CharAt
    <3> QED BY <2>1, <3>2, <3>3
  <2> QED BY <1>1, <2>1, <2>2
<1> HIDE DEF S
<1>6. Min(S) = f BY <1>3, <1>4, <1>5, TheLeast
<1>7. AtWidth(fmt, i) = f BY <1>2, <1>6
<1>8. FlagsAt(fmt, i) = {fmt[j] : j \in i + 1 .. f - 1} BY <1>7 DEF FlagsAt
<1>9. {fmt[j] : j \in i + 1 .. f - 1} = {F[j] : j \in 1 .. n}
  <2>1. ASSUME NEW j \in i + 1 .. f - 1 PROVE \E k \in 1 .. n : fmt[j] = F[k]
    <3> DEFINE k == j - i
    <3>1. k \in 1 .. n /\ i + k = j BY <1>1
    <3> HIDE DEF k
    <3>2. fmt[j] = F[k] BY <1>1, <3>1
    <3> QED BY <3>1, <3>2
  <2>2. ASSUME NEW k \in 1 .. n PROVE \E j \in i + 1 .. f - 1 : F[k] = fmt[j]
    <3> DEFINE j == i + k
    <3>1. j \in i + 1 .. f - 1 BY <1>1
    <3>2. F[k] = fmt[j] BY <1>1
    <3> HIDE DEF j
    <3> QED BY <3>1, <3>2
  <2> HIDE DEF f
  <2>3. \A x : x \in {fmt[j] : j \in i + 1 .. f - 1} => x \in {F[j] : j \in 1 .. n}
    BY <2>1
  <2>4. \A x : x \in {F[j] : j \in 1 .. n} => x \in {fmt[j] : j \in i + 1 .. f - 1}
    BY <2>2
  <2> QED BY <2>3, <2>4
<1>10. FlagsAt(fmt, i) = {F[j] : j \in DOMAIN F} BY <1>1, <1>8, <1>9
<1> QED BY <1>7, <1>10 DEF n

QualifierOf(i, F, W, point, D) ==
  i + Len(F) + 1 + Len(W) + (IF point THEN 1 + Len(D) ELSE 0)

\* The width, the point and the conversion stand where a directive has them, and no
\* argument is taken for a *.
LEMMA DirectiveIs ==
  ASSUME NEW fmt, NEW i, NEW F, NEW W, NEW point \in BOOLEAN, NEW D,
         Directive(fmt, i, F, W, point, D)
  PROVE  /\ WidthAt(fmt, i).i = i + Len(F) + 1 + Len(W)
         /\ WidthAt(fmt, i).i = AtWidth(fmt, i) <=> Len(W) = 0
         /\ PointAt(fmt, i) <=> point
         /\ AtQualifier(fmt, i) = QualifierOf(i, F, W, point, D)
         /\ \A a \in Nat : NextArg(fmt, i, a) = a
<1> DEFINE f == i + Len(F) + 1
           x == f + Len(W)
<1>1. /\ Skips(fmt, f, W) /\ CharAt(fmt, f) # "*"
      /\ point => CharAt(fmt, x) = "." /\ Skips(fmt, x + 1, D) /\ CharAt(fmt, x + 1) # "*"
      /\ ~point => CharAt(fmt, x) # "."
  BY DEF Directive
<1>2. AtWidth(fmt, i) = f BY DirectiveFlags
<1>3. WidthAt(fmt, i).i = x
  <2>1. skip_atoi(fmt, f).i = SkipEnd(fmt, f) BY SkipIs
  <2>2. SkipEnd(fmt, f) = f + Len(W) BY <1>1, SkipsTo
  <2> QED BY <1>2, <2>1, <2>2 DEF WidthAt
<1>4. PointAt(fmt, i) <=> point BY <1>1, <1>3 DEF PointAt
<1>5. point => PrecisionAt(fmt, i).i = x + 1 + Len(D)
  <2>1. SUFFICES ASSUME point PROVE PrecisionAt(fmt, i).i = x + 1 + Len(D) OBVIOUS
  <2>2. skip_atoi(fmt, x + 1).i = SkipEnd(fmt, x + 1) BY SkipIs
  <2>3. SkipEnd(fmt, x + 1) = x + 1 + Len(D) BY <1>1, <2>1, SkipsTo
  <2>4. PrecisionAt(fmt, i) = skip_atoi(fmt, x + 1) BY <1>3 DEF PrecisionAt
  <2> QED BY <2>2, <2>3, <2>4
<1>6. f \in Nat /\ Len(W) \in Nat /\ (point => Len(D) \in Nat)
  <2>1. f \in Nat \ {0} /\ Len(W) \in Nat BY <1>1 DEF Skips
  <2>2. point => Len(D) \in Nat BY <1>1 DEF Skips
  <2> QED BY <2>1, <2>2
<1>7. AtQualifier(fmt, i) = QualifierOf(i, F, W, point, D)
  <2> HIDE DEF x
  <2>1. CASE point
    <3>1. AtQualifier(fmt, i) = x + 1 + Len(D) BY <1>4, <1>5, <2>1 DEF AtQualifier
    <3>2. QualifierOf(i, F, W, point, D) = x + (1 + Len(D)) BY <2>1 DEF QualifierOf, x
    <3>3. x \in Nat BY <1>6 DEF x
    <3>4. Len(D) \in Nat BY <1>6, <2>1
    <3> DEFINE k == Len(D)
    <3>5. k \in Nat /\ AtQualifier(fmt, i) = x + 1 + k
          /\ QualifierOf(i, F, W, point, D) = x + (1 + k)
      BY <3>1, <3>2, <3>4
    <3> HIDE DEF k
    <3>6. x + 1 + k = x + (1 + k) BY <3>3, <3>5
    <3> QED BY <3>5, <3>6
  <2>2. CASE ~point
    <3>1. AtQualifier(fmt, i) = x BY <1>3, <1>4, <2>2 DEF AtQualifier
    <3>2. QualifierOf(i, F, W, point, D) = x + 0 BY <2>2 DEF QualifierOf, x
    <3>3. x \in Nat BY <1>6 DEF x
    <3> QED BY <3>1, <3>2, <3>3
  <2> QED BY <2>1, <2>2
<1>8. Stars(fmt, i) = {}
  <2>1. CharAt(fmt, f) # "*" /\ (point => CharAt(fmt, x + 1) # "*") BY <1>1
  <2> HIDE DEF f, x
  <2> QED BY <1>2, <1>3, <1>4, <2>1 DEF Stars
<1>9. ASSUME NEW a \in Nat PROVE NextArg(fmt, i, a) = a
  <2>1. Cardinality({}) = 0 BY FS_EmptySet
  <2> QED BY <1>8, <2>1 DEF NextArg
<1>10. WidthAt(fmt, i).i = AtWidth(fmt, i) <=> Len(W) = 0
  <2>1. x = f <=> Len(W) = 0
    <3>1. x = f + Len(W) OBVIOUS
    <3> HIDE DEF f, x
    <3> QED BY <1>6, <3>1
  <2> QED BY <1>2, <1>3, <2>1
<1> QED BY <1>3, <1>4, <1>7, <1>9, <1>10

-----------------------------------------------------------------------------
(* The format of a call.                                                   *)

FlagChar == {"-", "+", " ", "#", "0"}
IsSpec(s) ==
  /\ s.flags \in Seq(FlagChar) /\ s.width \in {-1} \union 1 .. LongMax
  /\ s.precision \in {-1} \union 0 .. LongMax /\ s.conv \in Conversions

FormatChar == FlagChar \union DigitChar \union Conversions \union {"%", "."}
WidthText(s) == IF s.width < 0 THEN <<>> ELSE Digits(s.width, 10, Upper)
PrecisionDigits(s) == Digits(s.precision, 10, Upper)
PrecisionText(s) == IF s.precision < 0 THEN <<>> ELSE <<".">> \o PrecisionDigits(s)
TheFormat(s) == FormatOf(s) \o <<"%", "%">>
AtConv(s) == 1 + Len(s.flags) + Len(WidthText(s)) + Len(PrecisionText(s))

\* The parts of a directive, as texts.
LEMMA SpecParts ==
  ASSUME NEW s, IsSpec(s)
  PROVE  /\ s.flags \in Seq(FormatChar) /\ Len(s.flags) \in Nat
         /\ DOMAIN s.flags = 1 .. Len(s.flags)
         /\ \A j \in 1 .. Len(s.flags) : IsFlag(s.flags[j])
         /\ s.width < 0 => WidthText(s) = <<>> /\ s.width = -1
         /\ ~(s.width < 0) => /\ Shown(WidthText(s), s.width, 10, Upper)
                              /\ WidthText(s)[1] # "0"
         /\ WidthText(s) \in Seq(FormatChar)
         /\ s.precision < 0 => PrecisionText(s) = <<>> /\ s.precision = -1
         /\ ~(s.precision < 0) => /\ Shown(PrecisionDigits(s), s.precision, 10, Upper)
                                  /\ PrecisionText(s) = <<".">> \o PrecisionDigits(s)
                                  /\ PrecisionDigits(s) \in Seq(FormatChar)
         /\ PrecisionText(s) \in Seq(FormatChar)
<1> DEFINE F == s.flags
           n == Len(F)
<1>0. DigitChar \subseteq FormatChar /\ FlagChar \subseteq FormatChar /\ "." \in FormatChar
  BY Zenon DEF FormatChar
<1>1. F \in Seq(FlagChar) BY DEF IsSpec
<1>2. F \in Seq(FormatChar) BY <1>0, <1>1, SeqMonotonic
<1>3. n \in Nat /\ DOMAIN F = 1 .. n /\ \A j \in 1 .. n : F[j] \in FlagChar BY <1>1
<1>4. \A c \in FlagChar : IsFlag(c) BY Zenon DEF FlagChar, IsFlag
<1>5. \A j \in 1 .. n : IsFlag(F[j]) BY <1>3, <1>4
<1>6. 10 \in Bases /\ Upper \in Tables BY DEF Bases, Tables
<1>7. LongMax \in Nat BY LongAssumption
<1>8. /\ s.width < 0 => WidthText(s) = <<>> /\ s.width = -1
      /\ ~(s.width < 0) => /\ Shown(WidthText(s), s.width, 10, Upper)
                           /\ WidthText(s)[1] # "0"
      /\ WidthText(s) \in Seq(FormatChar)
  <2>1. s.width = -1 \/ s.width \in 1 .. LongMax BY DEF IsSpec
  <2>2. CASE s.width = -1
    <3>1. s.width < 0 BY <2>2
    <3>2. WidthText(s) = <<>> BY <3>1 DEF WidthText
    <3>3. <<>> \in Seq(FormatChar) OBVIOUS
    <3> QED BY <2>2, <3>1, <3>2, <3>3
  <2>3. CASE s.width \in 1 .. LongMax
    <3>1. ~(s.width < 0) /\ s.width \in Nat /\ s.width # 0 BY <1>7, <2>3
    <3>2. WidthText(s) = Digits(s.width, 10, Upper) BY <3>1 DEF WidthText
    <3>3. Shown(WidthText(s), s.width, 10, Upper) BY <1>6, <3>1, <3>2, DigitsShow
    <3>4. WidthText(s)[1] # "0" /\ WidthText(s) \in Seq(DigitChar)
      BY <3>1, <3>3 DEF Shown
    <3>5. WidthText(s) \in Seq(FormatChar) BY <1>0, <3>4, SeqMonotonic
    <3> QED BY <3>1, <3>3, <3>4, <3>5
  <2> QED BY <2>1, <2>2, <2>3
<1>9. /\ s.precision < 0 => PrecisionText(s) = <<>> /\ s.precision = -1
      /\ ~(s.precision < 0) => /\ Shown(PrecisionDigits(s), s.precision, 10, Upper)
                               /\ PrecisionText(s) = <<".">> \o PrecisionDigits(s)
                               /\ PrecisionDigits(s) \in Seq(FormatChar)
      /\ PrecisionText(s) \in Seq(FormatChar)
  <2>1. s.precision = -1 \/ s.precision \in 0 .. LongMax BY DEF IsSpec
  <2>2. CASE s.precision = -1
    <3>1. s.precision < 0 BY <2>2
    <3>2. PrecisionText(s) = <<>> BY <3>1 DEF PrecisionText
    <3>3. <<>> \in Seq(FormatChar) OBVIOUS
    <3> QED BY <2>2, <3>1, <3>2, <3>3
  <2>3. CASE s.precision \in 0 .. LongMax
    <3>1. ~(s.precision < 0) /\ s.precision \in Nat BY <1>7, <2>3
    <3>2. PrecisionText(s) = <<".">> \o PrecisionDigits(s) BY <3>1 DEF PrecisionText
    <3>3. Shown(PrecisionDigits(s), s.precision, 10, Upper)
      BY <1>6, <3>1, DigitsShow DEF PrecisionDigits
    <3>4. PrecisionDigits(s) \in Seq(DigitChar) BY <3>3 DEF Shown
    <3>5. PrecisionDigits(s) \in Seq(FormatChar) BY <1>0, <3>4, SeqMonotonic
    <3>6. <<".">> \in Seq(FormatChar) BY <1>0
    <3>7. PrecisionText(s) \in Seq(FormatChar) BY <3>2, <3>5, <3>6
    <3> QED BY <3>1, <3>2, <3>3, <3>5, <3>7
  <2> QED BY <2>1, <2>2, <2>3
<1> QED BY <1>2, <1>3, <1>5, <1>8, <1>9

\* The places of these texts in the format.
LEMMA FormatPlaces ==
  ASSUME NEW s, IsSpec(s)
  PROVE  /\ TheFormat(s) \in Seq(FormatChar)
         /\ Len(TheFormat(s)) = AtConv(s) + 3
         /\ At(TheFormat(s), 0, <<"%">>) /\ At(TheFormat(s), 1, s.flags)
         /\ At(TheFormat(s), 1 + Len(s.flags), WidthText(s))
         /\ At(TheFormat(s), 1 + Len(s.flags) + Len(WidthText(s)), PrecisionText(s))
         /\ At(TheFormat(s), AtConv(s), <<s.conv>>)
         /\ At(TheFormat(s), AtConv(s) + 1, <<"%", "%">>)
<1> DEFINE A == <<"%">>
           F == s.flags
           W == WidthText(s)
           P == PrecisionText(s)
           C == <<s.conv>>
           E == <<"%", "%">>
           x == A \o F \o W \o P
           y == x \o C
           fmt == y \o E
<1>1. F \in Seq(FormatChar) /\ W \in Seq(FormatChar) /\ P \in Seq(FormatChar)
  BY SpecParts
<1>2. "%" \in FormatChar /\ s.conv \in FormatChar BY Zenon DEF FormatChar, IsSpec
<1>3. A \in Seq(FormatChar) /\ C \in Seq(FormatChar) /\ E \in Seq(FormatChar) BY <1>2
<1>4. Len(A) = 1 /\ Len(C) = 1 /\ Len(E) = 2 OBVIOUS
<1>5. TheFormat(s) = fmt BY DEF TheFormat, FormatOf, WidthText, PrecisionText, PrecisionDigits
<1>6. AtConv(s) = 1 + Len(F) + Len(W) + Len(P) BY DEF AtConv
<1> HIDE DEF A, F, W, P, C, E
<1>7. Four(FormatChar, A \o F \o W \o P, A, F, W, P) BY <1>1, <1>3, FourTexts
<1>8. /\ x \in Seq(FormatChar) /\ Len(x) = 1 + Len(F) + Len(W) + Len(P)
      /\ At(x, 0, A) /\ At(x, 1, F) /\ At(x, 1 + Len(F), W) /\ At(x, 1 + Len(F) + Len(W), P)
  BY <1>4, <1>7 DEF Four, Places
<1> HIDE DEF x
<1>9. y \in Seq(FormatChar) /\ Len(y) = Len(x) + 1
  <2>1. y \in Seq(FormatChar) /\ Len(y) = Len(x) + Len(C) BY <1>3, <1>8, ConcatProperties
  <2> QED BY <1>4, <2>1
<1>10. /\ At(y, 0, A) /\ At(y, 1, F) /\ At(y, 1 + Len(F), W) /\ At(y, 1 + Len(F) + Len(W), P)
       /\ At(y, Len(x) + 0, C)
  <2>1. At(C, 0, C) BY <1>3, AtSelf
  <2> QED BY <1>1, <1>3, <1>8, <2>1, AtLeft, AtRight
<1> HIDE DEF y
<1>11. fmt \in Seq(FormatChar) /\ Len(fmt) = Len(y) + 2
  <2>1. fmt \in Seq(FormatChar) /\ Len(fmt) = Len(y) + Len(E) BY <1>3, <1>9, ConcatProperties
  <2> QED BY <1>4, <2>1
<1>12. /\ At(fmt, 0, A) /\ At(fmt, 1, F) /\ At(fmt, 1 + Len(F), W)
       /\ At(fmt, 1 + Len(F) + Len(W), P)
       /\ At(fmt, Len(x) + 0, C) /\ At(fmt, Len(y) + 0, E)
  <2>1. At(E, 0, E) BY <1>3, AtSelf
  <2> QED BY <1>1, <1>3, <1>9, <1>10, <2>1, AtLeft, AtRight
<1>13. Len(F) \in Nat /\ Len(W) \in Nat /\ Len(P) \in Nat BY <1>1
<1>14. Len(x) + 0 = AtConv(s) /\ Len(y) + 0 = AtConv(s) + 1 /\ Len(y) + 2 = AtConv(s) + 3
  <2>1. Len(x) = AtConv(s) /\ Len(y) = AtConv(s) + 1 /\ AtConv(s) \in Nat
    BY <1>6, <1>8, <1>9, <1>13
  <2> QED BY <2>1
<1> HIDE DEF fmt
<1> QED BY <1>5, <1>11, <1>12, <1>14 DEF A, F, W, P, C, E

-----------------------------------------------------------------------------
(* vsprintf prints the conversion, and the percent sign behind it.         *)

\* The decimal digits.
LEMMA DecimalDigits ==
  DecimalDigit = {"0", "1", "2", "3", "4", "5", "6", "7", "8", "9"}
<1>1. /\ Upper[1] = "0" /\ Upper[2] = "1" /\ Upper[3] = "2" /\ Upper[4] = "3"
      /\ Upper[5] = "4" /\ Upper[6] = "5" /\ Upper[7] = "6" /\ Upper[8] = "7"
      /\ Upper[9] = "8" /\ Upper[10] = "9"
  BY DEF Upper
<1>2. 1 .. 10 = {1, 2, 3, 4, 5, 6, 7, 8, 9, 10} OBVIOUS
<1>3. DecimalDigit = {Upper[k] : k \in {1, 2, 3, 4, 5, 6, 7, 8, 9, 10}}
  BY <1>2 DEF DecimalDigit
<1>4. {Upper[k] : k \in {1, 2, 3, 4, 5, 6, 7, 8, 9, 10}}
        = {Upper[1], Upper[2], Upper[3], Upper[4], Upper[5], Upper[6], Upper[7], Upper[8],
           Upper[9], Upper[10]}
  OBVIOUS
<1> QED BY <1>1, <1>3, <1>4

\* What stands behind a width or precision is no digit, flag or qualifier.
LEMMA BehindNumbers ==
  ASSUME NEW c \in Conversions \union {".", "%"}
  PROVE  ~IsFlag(c) /\ c \notin DecimalDigit /\ c # "*" /\ c \notin {"h", "l", "L"}
<1>1. ~IsFlag(c) BY Zenon DEF IsFlag, Conversions
<1>2. c \notin DecimalDigit BY DecimalDigits, Zenon DEF Conversions
<1>3. c # "*" /\ c \notin {"h", "l", "L"} BY Zenon DEF Conversions
<1> QED BY <1>1, <1>2, <1>3

\* The digits of a width or precision are digits, and the first is no flag.
LEMMA NumberCharacters ==
  ASSUME NEW d, NEW n, NEW j, Shown(d, n, 10, Upper), j \in 1 .. Len(d)
  PROVE  d[j] \in DecimalDigit /\ d[j] # "*" /\ (d[j] # "0" => ~IsFlag(d[j]))
<1>1. PICK k \in 0 .. 10 - 1 : d[j] = Upper[k + 1] BY DEF Shown
<1>2. k + 1 \in 1 .. 10 BY <1>1
<1>3. d[j] \in DecimalDigit BY <1>1, <1>2 DEF DecimalDigit
<1>4. d[j] # "*" /\ (d[j] # "0" => ~IsFlag(d[j])) BY <1>3, DecimalDigits, Zenon DEF IsFlag
<1> QED BY <1>3, <1>4

\* The characters of the format.
LEMMA FormatCharacters ==
  ASSUME NEW s, IsSpec(s)
  PROVE  /\ Len(TheFormat(s)) = AtConv(s) + 3 /\ AtConv(s) \in Nat \ {0}
         /\ DOMAIN TheFormat(s) = 1 .. AtConv(s) + 3
         /\ TheFormat(s)[1] = "%"
         /\ \A j \in 1 .. Len(s.flags) : TheFormat(s)[1 + j] = s.flags[j]
         /\ \A j \in 1 .. Len(WidthText(s)) :
              TheFormat(s)[1 + Len(s.flags) + j] = WidthText(s)[j]
         /\ ~(s.precision < 0) =>
              /\ TheFormat(s)[1 + Len(s.flags) + Len(WidthText(s)) + 1] = "."
              /\ \A j \in 1 .. Len(PrecisionDigits(s)) :
                   TheFormat(s)[1 + Len(s.flags) + Len(WidthText(s)) + 1 + j]
                     = PrecisionDigits(s)[j]
              /\ Len(PrecisionText(s)) = 1 + Len(PrecisionDigits(s))
         /\ s.precision < 0 => Len(PrecisionText(s)) = 0
         /\ TheFormat(s)[AtConv(s) + 1] = s.conv
         /\ TheFormat(s)[AtConv(s) + 2] = "%" /\ TheFormat(s)[AtConv(s) + 3] = "%"
<1> DEFINE fmt == TheFormat(s)
           F == s.flags
           W == WidthText(s)
           P == PrecisionText(s)
           D == PrecisionDigits(s)
           n == Len(F)
           m == Len(W)
           k == Len(P)
           a == AtConv(s)
<1>1. n \in Nat /\ m \in Nat /\ k \in Nat
  <2>1. F \in Seq(FormatChar) /\ W \in Seq(FormatChar) /\ P \in Seq(FormatChar) BY SpecParts
  <2> QED BY <2>1
<1>2. a = 1 + n + m + k BY DEF AtConv
<1>3. fmt \in Seq(FormatChar) /\ Len(fmt) = a + 3 BY FormatPlaces
<1>4. /\ At(fmt, 0, <<"%">>) /\ At(fmt, 1, F) /\ At(fmt, 1 + n, W) /\ At(fmt, 1 + n + m, P)
      /\ At(fmt, a, <<s.conv>>) /\ At(fmt, a + 1, <<"%", "%">>)
  BY FormatPlaces
<1>5. /\ ~(s.precision < 0) => P = <<".">> \o D /\ D \in Seq(FormatChar)
      /\ s.precision < 0 => P = <<>>
  BY SpecParts
<1> HIDE DEF fmt, F, W, P, D, a
<1>6. fmt[1] = "%"
  <2>1. \A i \in 1 .. Len(<<"%">>) : fmt[0 + i] = <<"%">>[i] BY <1>4 DEF At
  <2>2. 1 \in 1 .. Len(<<"%">>) /\ 0 + 1 = 1 OBVIOUS
  <2>3. fmt[0 + 1] = <<"%">>[1] BY <2>1, <2>2
  <2> QED BY <2>3
<1>7. /\ \A j \in 1 .. n : fmt[1 + j] = F[j]
      /\ \A j \in 1 .. m : fmt[1 + n + j] = W[j]
      /\ \A j \in 1 .. k : fmt[1 + n + m + j] = P[j]
  BY <1>4 DEF At
<1>8. fmt[a + 1] = s.conv
  <2>1. \A i \in 1 .. Len(<<s.conv>>) : fmt[a + i] = <<s.conv>>[i] BY <1>4 DEF At
  <2>2. 1 \in 1 .. Len(<<s.conv>>) OBVIOUS
  <2>3. fmt[a + 1] = <<s.conv>>[1] BY <2>1, <2>2
  <2> QED BY <2>3
<1>9. fmt[a + 2] = "%" /\ fmt[a + 3] = "%"
  <2>1. \A i \in 1 .. Len(<<"%", "%">>) : fmt[a + 1 + i] = <<"%", "%">>[i] BY <1>4 DEF At
  <2>2. 1 \in 1 .. Len(<<"%", "%">>) /\ 2 \in 1 .. Len(<<"%", "%">>) OBVIOUS
  <2>3. fmt[a + 1 + 1] = "%" /\ fmt[a + 1 + 2] = "%" BY <2>1, <2>2
  <2>4. a + 1 + 1 = a + 2 /\ a + 1 + 2 = a + 3
    <3>1. a \in Nat
      <4> HIDE DEF n, m, k
      <4> QED BY <1>1, <1>2
    <3> QED BY <3>1
  <2> QED BY <2>3, <2>4
<1>10. ASSUME ~(s.precision < 0)
       PROVE  /\ fmt[1 + n + m + 1] = "."
              /\ \A j \in 1 .. Len(D) : fmt[1 + n + m + 1 + j] = D[j]
              /\ k = 1 + Len(D)
  <2>1. P = <<".">> \o D /\ D \in Seq(FormatChar) BY <1>5, <1>10
  <2>2. k = 1 + Len(D) /\ P[1] = "." /\ Len(D) \in Nat BY <2>1
  <2>3. \A j \in 1 .. Len(D) : P[1 + j] = D[j] BY <2>1
  <2>4. fmt[1 + n + m + 1] = "."
    <3>1. 1 \in 1 .. k BY <2>2
    <3> QED BY <1>7, <2>2, <3>1
  <2>5. ASSUME NEW j \in 1 .. Len(D) PROVE fmt[1 + n + m + 1 + j] = D[j]
    <3>1. 1 + j \in 1 .. k /\ 1 + n + m + (1 + j) = 1 + n + m + 1 + j
      <4> HIDE DEF n, m, k
      <4> QED BY <1>1, <2>2
    <3> QED BY <1>7, <2>3, <3>1
  <2> QED BY <2>2, <2>4, <2>5
<1>11. s.precision < 0 => k = 0 BY <1>5
<1>12. DOMAIN fmt = 1 .. a + 3 /\ a \in Nat \ {0}
  <2>1. DOMAIN fmt = 1 .. Len(fmt) BY <1>3
  <2>2. a \in Nat \ {0}
    <3> HIDE DEF n, m, k
    <3> QED BY <1>1, <1>2
  <2> QED BY <1>3, <2>1, <2>2
<1> QED BY <1>3, <1>6, <1>7, <1>8, <1>9, <1>10, <1>11, <1>12 DEF fmt, F, W, P, D, a

HasPoint(s) == ~(s.precision < 0)

\* The format begins with the call's directive.
LEMMA FirstDirective ==
  ASSUME NEW s, IsSpec(s)
  PROVE  Directive(TheFormat(s), 1, s.flags, WidthText(s), HasPoint(s), PrecisionDigits(s))
<1> DEFINE fmt == TheFormat(s)
           F == s.flags
           W == WidthText(s)
           D == PrecisionDigits(s)
           P == PrecisionText(s)
           n == Len(F)
           m == Len(W)
           k == Len(P)
           a == AtConv(s)
           X == 1 + n + m + 1
           point == HasPoint(s)
<1>1. n \in Nat /\ m \in Nat /\ k \in Nat /\ DOMAIN F = 1 .. n
      /\ (\A j \in 1 .. n : IsFlag(F[j]))
  <2>1. F \in Seq(FormatChar) /\ W \in Seq(FormatChar) /\ P \in Seq(FormatChar)
        /\ (\A j \in 1 .. n : IsFlag(F[j]))
    BY SpecParts
  <2> QED BY <2>1
<1>2. a = 1 + n + m + k BY DEF AtConv
<1>3. /\ Len(fmt) = a + 3 /\ DOMAIN fmt = 1 .. a + 3
      /\ (\A j \in 1 .. n : fmt[1 + j] = F[j])
      /\ (\A j \in 1 .. m : fmt[1 + n + j] = W[j])
      /\ (point => /\ fmt[X] = "."
                   /\ (\A j \in 1 .. Len(D) : fmt[X + j] = D[j])
                   /\ k = 1 + Len(D))
      /\ (~point => k = 0)
      /\ fmt[a + 1] = s.conv
  BY FormatCharacters DEF HasPoint
<1>4. /\ ~(m = 0) => Shown(W, s.width, 10, Upper) /\ W[1] # "0"
      /\ point => Shown(D, s.precision, 10, Upper) /\ D \in Seq(FormatChar)
  BY SpecParts DEF HasPoint
<1>5. s.conv \in Conversions BY DEF IsSpec
<1> HIDE DEF fmt, F, W, D, P, a, n, m, k, point
<1>b. \A j : j \in DOMAIN fmt <=> j \in 1 .. a + 3 BY <1>3
<1>c. \A j \in 1 .. a + 3 : CharAt(fmt, j) = fmt[j]
  <2> TAKE j \in 1 .. a + 3
  <2>1. j \in DOMAIN fmt BY <1>b
  <2> QED BY <2>1, Zenon DEF CharAt
<1>6. point => Len(D) \in Nat /\ Len(D) >= 1 BY <1>4 DEF Shown
\* The character behind the width.
<1>7. /\ X \in 1 .. a + 1 /\ CharAt(fmt, X) \in Conversions \union {".", "%"}
      /\ point <=> CharAt(fmt, X) = "."
  <2>1. CASE point
    <3>1. X \in 1 .. a + 3 /\ X \in 1 .. a + 1 BY <1>1, <1>2, <1>3, <1>6, <2>1
    <3>2. CharAt(fmt, X) = "." BY <1>3, <1>c, <2>1, <3>1
    <3> QED BY <2>1, <3>1, <3>2
  <2>2. CASE ~point
    <3>1. X = a + 1 /\ a + 1 \in 1 .. a + 3 /\ X \in 1 .. a + 1 BY <1>1, <1>2, <1>3, <2>2
    <3>2. CharAt(fmt, X) = s.conv
      <4> HIDE DEF X
      <4> QED BY <1>3, <1>c, <3>1
    <3>3. s.conv # "." BY <1>5 DEF Conversions
    <3> QED BY <1>5, <2>2, <3>1, <3>2, <3>3
  <2> QED BY <2>1, <2>2
<1>8. ~IsFlag(CharAt(fmt, X)) /\ CharAt(fmt, X) \notin DecimalDigit /\ CharAt(fmt, X) # "*"
  BY <1>7, BehindNumbers
\* The width.
<1>9. Skips(fmt, 1 + n + 1, W)
  <2>1. 1 + n + 1 \in Nat \ {0} /\ 1 + n + 1 + m = X /\ X <= a + 3 + 1 /\ a + 3 \in Nat
    BY <1>1, <1>2
  <2>2. ASSUME NEW j \in 1 .. m
        PROVE  fmt[1 + n + 1 + j - 1] = W[j] /\ W[j] \in DecimalDigit
    <3>1. 1 + n + 1 + j - 1 = 1 + n + j BY <1>1
    <3>2. ~(m = 0) BY <1>1
    <3>3. W[j] \in DecimalDigit BY <1>4, <3>2, NumberCharacters DEF m
    <3> QED BY <1>3, <3>1, <3>3
  <2> HIDE DEF X
  <2> QED BY <1>1, <1>3, <1>8, <2>1, <2>2 DEF Skips, m
\* The character behind the flags.
<1>10. ~IsFlag(CharAt(fmt, 1 + n + 1)) /\ CharAt(fmt, 1 + n + 1) # "*"
  <2>1. CASE m = 0
    <3>1. 1 + n + 1 = X BY <1>1, <2>1
    <3> HIDE DEF X
    <3> QED BY <1>8, <3>1
  <2>2. CASE ~(m = 0)
    <3>1. 1 \in 1 .. m /\ 1 + n + 1 \in 1 .. a + 3 BY <1>1, <1>2, <2>2
    <3>2. CharAt(fmt, 1 + n + 1) = W[1] BY <1>3, <1>c, <3>1
    <3>3. W[1] # "*" /\ ~IsFlag(W[1]) BY <1>4, <2>2, <3>1, NumberCharacters DEF m
    <3> QED BY <3>2, <3>3
  <2> QED BY <2>1, <2>2
\* The precision.
<1>11. ASSUME point PROVE Skips(fmt, X + 1, D) /\ CharAt(fmt, X + 1) # "*"
  <2> DEFINE e == Len(D)
  <2>1. e \in Nat /\ e >= 1 /\ k = 1 + e BY <1>3, <1>6, <1>11
  <2>2. \A j \in 1 .. e : D[j] \in DecimalDigit /\ D[j] # "*"
    BY <1>4, <1>11, NumberCharacters
  <2>x. \A j \in 1 .. e : fmt[X + j] = D[j] BY <1>3, <1>11
  <2> HIDE DEF e
  <2>3. X + 1 \in Nat \ {0} /\ X + 1 + e = a + 1 /\ a + 1 <= a + 3 + 1 /\ a + 3 \in Nat
        /\ a + 1 \in 1 .. a + 3 /\ X + 1 \in 1 .. a + 3
    BY <1>1, <1>2, <2>1
  <2>4. ASSUME NEW j \in 1 .. e
        PROVE  fmt[X + 1 + j - 1] = D[j] /\ D[j] \in DecimalDigit
    <3>1. X + 1 + j - 1 = X + j BY <1>1
    <3> HIDE DEF X
    <3> QED BY <2>2, <2>x, <3>1
  <2> HIDE DEF X
  <2>5. CharAt(fmt, a + 1) \notin DecimalDigit
    <3>1. CharAt(fmt, a + 1) = s.conv BY <1>3, <1>c, <2>3
    <3>2. s.conv \in Conversions \union {".", "%"} BY <1>5
    <3> QED BY <3>1, <3>2, BehindNumbers
  <2>6. Skips(fmt, X + 1, D) BY <1>3, <2>1, <2>3, <2>4, <2>5 DEF Skips, e
  <2>7. CharAt(fmt, X + 1) = D[1]
    <3>1. 1 \in 1 .. e BY <2>1
    <3> QED BY <1>c, <2>3, <2>x, <3>1
  <2>8. D[1] # "*"
    <3>1. 1 \in 1 .. e BY <2>1
    <3> QED BY <2>2, <3>1
  <2> QED BY <2>6, <2>7, <2>8
<1>12. IF point THEN /\ CharAt(fmt, X) = "." /\ Skips(fmt, X + 1, D)
                     /\ CharAt(fmt, X + 1) # "*"
       ELSE CharAt(fmt, X) # "."
  <2> HIDE DEF X
  <2> QED BY <1>7, <1>11
<1>13. Len(fmt) \in Nat /\ DOMAIN fmt = 1 .. Len(fmt) /\ 1 \in 1 .. Len(fmt) /\ 1 + n <= Len(fmt)
  BY <1>1, <1>2, <1>3
<1>14. 1 + n + 1 + m = X BY <1>1
<1> HIDE DEF X
<1>15. Directive(fmt, 1, F, W, point, D)
  BY <1>1, <1>3, <1>9, <1>10, <1>12, <1>13, <1>14 DEF Directive, n, m
<1> QED BY <1>15 DEF fmt, F, W, D, point

\* It ends with a directive that prints a percent sign.
LEMMA SecondDirective ==
  ASSUME NEW s, IsSpec(s)
  PROVE  Directive(TheFormat(s), AtConv(s) + 2, <<>>, <<>>, FALSE, <<>>)
<1> DEFINE fmt == TheFormat(s)
           a == AtConv(s)
           i == a + 2
           e == <<>>
<1>1. /\ Len(fmt) = a + 3 /\ a \in Nat \ {0} /\ DOMAIN fmt = 1 .. a + 3
      /\ fmt[a + 2] = "%" /\ fmt[a + 3] = "%"
  BY FormatCharacters
<1>2. Len(e) = 0 /\ DOMAIN e = 1 .. 0 OBVIOUS
<1> HIDE DEF fmt, a, e
<1>3. a + 3 \in DOMAIN fmt /\ i + 0 + 1 = a + 3 /\ i + 0 + 1 + 0 = a + 3 /\ i \in 1 .. a + 3
      /\ i + 0 <= a + 3 /\ a + 3 \in Nat \ {0} /\ a + 3 + 0 = a + 3 /\ 1 .. 0 = {}
      /\ a + 3 + 0 <= a + 3 + 1 /\ 0 \in Nat /\ a + 3 \in Nat
  BY <1>1
<1>4. CharAt(fmt, a + 3) = "%"
  <2>1. CharAt(fmt, a + 3) = fmt[a + 3] BY <1>3, Zenon DEF CharAt
  <2> QED BY <1>1, <2>1
<1>5. ~IsFlag("%") /\ "%" \notin DecimalDigit /\ "%" # "*" /\ "%" # "."
  <2>1. "%" \in Conversions \union {".", "%"} OBVIOUS
  <2>2. "%" # "." OBVIOUS
  <2> QED BY <2>1, <2>2, BehindNumbers
<1>6. Skips(fmt, a + 3, e) BY <1>1, <1>2, <1>3, <1>4, <1>5 DEF Skips
<1> HIDE DEF i
<1>7. Directive(fmt, i, e, e, FALSE, e)
  BY <1>1, <1>2, <1>3, <1>4, <1>5, <1>6 DEF Directive
<1> QED BY <1>7 DEF fmt, i, a, e

FlagsOfSpec(s) == {s.flags[j] : j \in DOMAIN s.flags}

\* The first directive converts the argument as the call says.
LEMMA FirstPrints ==
  ASSUME NEW s, IsSpec(s), NEW arg
  PROVE  /\ AtConversion(TheFormat(s), 1) = AtConv(s) + 1
         /\ NextArg(TheFormat(s), 1, 1) = 1
         /\ Converted(TheFormat(s), <<arg>>, 1, 1)
              = Convert(s.conv, arg, s.width, s.precision, FlagsOfSpec(s))
<1> DEFINE fmt == TheFormat(s)
           F == s.flags
           W == WidthText(s)
           D == PrecisionDigits(s)
           a == AtConv(s)
           point == HasPoint(s)
<1>1. Directive(fmt, 1, F, W, point, D) BY FirstDirective
<1>2. point \in BOOLEAN BY DEF HasPoint
<1>3. point <=> ~(s.precision < 0) BY DEF HasPoint
<1>4. /\ s.width < 0 => Len(W) = 0 /\ s.width = -1
      /\ ~(s.width < 0) => Len(W) # 0 /\ Shown(W, s.width, 10, Upper)
      /\ s.precision < 0 => s.precision = -1
      /\ ~(s.precision < 0) => Shown(D, s.precision, 10, Upper)
  <2>1. /\ s.width < 0 => W = <<>> /\ s.width = -1
        /\ ~(s.width < 0) => Shown(W, s.width, 10, Upper)
        /\ s.precision < 0 => s.precision = -1
        /\ ~(s.precision < 0) => Shown(D, s.precision, 10, Upper)
    BY SpecParts
  <2> HIDE DEF W, D
  <2>2. Shown(W, s.width, 10, Upper) => Len(W) # 0 BY DEF Shown
  <2> QED BY <2>1, <2>2
<1>5. /\ Len(F) \in Nat /\ Len(W) \in Nat
      /\ point => Len(PrecisionText(s)) = 1 + Len(D)
      /\ ~point => Len(PrecisionText(s)) = 0
      /\ Len(PrecisionText(s)) \in Nat
  <2>1. F \in Seq(FormatChar) /\ W \in Seq(FormatChar) /\ PrecisionText(s) \in Seq(FormatChar)
    BY SpecParts
  <2>2. /\ point => Len(PrecisionText(s)) = 1 + Len(D)
        /\ ~point => Len(PrecisionText(s)) = 0
    BY FormatCharacters DEF HasPoint
  <2> QED BY <2>1, <2>2
<1>6. /\ fmt[a + 1] = s.conv /\ a \in Nat /\ DOMAIN fmt = 1 .. a + 3 BY FormatCharacters
<1>7. s.conv \in Conversions BY DEF IsSpec
<1>8. a = 1 + Len(F) + Len(W) + Len(PrecisionText(s)) BY DEF AtConv
<1> HIDE DEF fmt, F, W, D, a, point
<1>9. /\ WidthAt(fmt, 1).i = 1 + Len(F) + 1 + Len(W)
      /\ WidthAt(fmt, 1).i = AtWidth(fmt, 1) <=> Len(W) = 0
      /\ PointAt(fmt, 1) <=> point
      /\ AtQualifier(fmt, 1) = QualifierOf(1, F, W, point, D)
      /\ NextArg(fmt, 1, 1) = 1
  <2>1. 1 \in Nat OBVIOUS
  <2>2. /\ WidthAt(fmt, 1).i = 1 + Len(F) + 1 + Len(W)
        /\ WidthAt(fmt, 1).i = AtWidth(fmt, 1) <=> Len(W) = 0
        /\ PointAt(fmt, 1) <=> point
        /\ AtQualifier(fmt, 1) = QualifierOf(1, F, W, point, D)
        /\ \A b \in Nat : NextArg(fmt, 1, b) = b
    BY <1>1, <1>2, DirectiveIs
  <2> QED BY <2>1, <2>2
<1>10. AtWidth(fmt, 1) = 1 + Len(F) + 1 /\ FlagsAt(fmt, 1) = {F[j] : j \in DOMAIN F}
  BY <1>1, DirectiveFlags
<1>11. AtQualifier(fmt, 1) = a + 1
  <2> DEFINE n == Len(F)
             m == Len(W)
             k == Len(PrecisionText(s))
  <2>1. n \in Nat /\ m \in Nat /\ k \in Nat /\ a = 1 + n + m + k BY <1>5, <1>8
  <2>2. CASE point
    <3>1. AtQualifier(fmt, 1) = 1 + n + 1 + m + k BY <1>5, <1>9, <2>2 DEF QualifierOf
    <3> HIDE DEF n, m, k
    <3> QED BY <2>1, <3>1
  <2>3. CASE ~point
    <3>1. AtQualifier(fmt, 1) = 1 + n + 1 + m + 0 /\ k = 0 BY <1>5, <1>9, <2>3 DEF QualifierOf
    <3> HIDE DEF n, m, k
    <3> QED BY <2>1, <3>1
  <2> QED BY <2>2, <2>3
<1>12. CharAt(fmt, a + 1) = s.conv
  <2>1. a + 1 \in DOMAIN fmt BY <1>6
  <2>2. CharAt(fmt, a + 1) = fmt[a + 1] BY <2>1, Zenon DEF CharAt
  <2> QED BY <1>6, <2>2
<1>13. AtConversion(fmt, 1) = a + 1
  <2>1. s.conv \notin {"h", "l", "L"} BY <1>7 DEF Conversions
  <2> QED BY <1>11, <1>12, <2>1 DEF AtConversion
<1>14. (IF WidthAt(fmt, 1).i = AtWidth(fmt, 1) THEN -1 ELSE WidthAt(fmt, 1).n) = s.width
  <2>1. CASE s.width < 0 BY <1>4, <1>9, <2>1
  <2>2. CASE ~(s.width < 0)
    <3>1. Shown(W, s.width, 10, Upper) /\ Len(W) # 0 BY <1>4, <2>2
    <3>2. Skips(fmt, 1 + Len(F) + 1, W) BY <1>1 DEF Directive
    <3>3. skip_atoi(fmt, 1 + Len(F) + 1).n = s.width BY <3>1, <3>2, SkipReads
    <3>4. WidthAt(fmt, 1).n = s.width BY <1>10, <3>3 DEF WidthAt
    <3> QED BY <1>9, <3>1, <3>4
  <2> QED BY <2>1, <2>2
<1>15. (IF PointAt(fmt, 1) THEN PrecisionAt(fmt, 1).n ELSE -1) = s.precision
  <2>1. CASE s.precision < 0 BY <1>3, <1>4, <1>9, <2>1
  <2>2. CASE ~(s.precision < 0)
    <3>1. Shown(D, s.precision, 10, Upper) /\ point BY <1>3, <1>4, <2>2
    <3> DEFINE x == 1 + Len(F) + 1 + Len(W)
    <3>2. Skips(fmt, x + 1, D) BY <1>1, <3>1 DEF Directive
    <3>3. WidthAt(fmt, 1).i = x BY <1>9
    <3> HIDE DEF x
    <3>4. skip_atoi(fmt, x + 1).n = s.precision BY <3>1, <3>2, SkipReads
    <3>5. PrecisionAt(fmt, 1).n = s.precision BY <3>3, <3>4 DEF PrecisionAt
    <3> QED BY <1>9, <3>1, <3>5
  <2> QED BY <2>1, <2>2
<1>16. FlagsAt(fmt, 1) = FlagsOfSpec(s) BY <1>10 DEF FlagsOfSpec, F
<1>17. <<arg>>[1] = arg OBVIOUS
<1>18. Converted(fmt, <<arg>>, 1, 1)
         = Convert(s.conv, arg, s.width, s.precision, FlagsOfSpec(s))
  BY <1>6, <1>9, <1>13, <1>14, <1>15, <1>16, <1>17 DEF Converted
<1> QED BY <1>9, <1>13, <1>18 DEF fmt, a

\* The second takes no argument.
LEMMA SecondPrints ==
  ASSUME NEW s, IsSpec(s)
  PROVE  /\ AtConversion(TheFormat(s), AtConv(s) + 2) = AtConv(s) + 3
         /\ NextArg(TheFormat(s), AtConv(s) + 2, 2) = 2
<1> DEFINE fmt == TheFormat(s)
           a == AtConv(s)
           e == <<>>
<1>1. Directive(fmt, a + 2, e, e, FALSE, e) BY SecondDirective
<1>2. Len(e) = 0 OBVIOUS
<1>3. a \in Nat /\ DOMAIN fmt = 1 .. a + 3 /\ fmt[a + 3] = "%" BY FormatCharacters
<1> HIDE DEF fmt, a, e
<1>4. AtQualifier(fmt, a + 2) = QualifierOf(a + 2, e, e, FALSE, e) /\ NextArg(fmt, a + 2, 2) = 2
  <2> DEFINE i == a + 2
             no == FALSE
  <2>1. 2 \in Nat /\ no \in BOOLEAN /\ Directive(fmt, i, e, e, no, e) BY <1>1
  <2> HIDE DEF i, no
  <2>2. /\ WidthAt(fmt, i).i = i + Len(e) + 1 + Len(e)
        /\ WidthAt(fmt, i).i = AtWidth(fmt, i) <=> Len(e) = 0
        /\ PointAt(fmt, i) <=> no
        /\ AtQualifier(fmt, i) = QualifierOf(i, e, e, no, e)
        /\ \A b \in Nat : NextArg(fmt, i, b) = b
    BY <2>1, DirectiveIs
  <2>3. AtQualifier(fmt, i) = QualifierOf(i, e, e, no, e) /\ NextArg(fmt, i, 2) = 2
    BY <2>1, <2>2
  <2> QED BY <2>3 DEF i, no
<1>5. AtQualifier(fmt, a + 2) = a + 3 BY <1>2, <1>3, <1>4 DEF QualifierOf
<1>6. CharAt(fmt, a + 3) = "%"
  <2>1. a + 3 \in DOMAIN fmt BY <1>3
  <2>2. CharAt(fmt, a + 3) = fmt[a + 3] BY <2>1, Zenon DEF CharAt
  <2> QED BY <1>3, <2>2
<1>7. AtConversion(fmt, a + 2) = a + 3 BY <1>5, <1>6 DEF AtConversion
<1> QED BY <1>4, <1>7 DEF fmt, a

\* vsprintf prints the conversion of its argument, and a percent sign: parsing the
\* format gives back the directive it was made of (vsprintf.cpp 95-234).
THEOREM VsprintfPrints ==
  ASSUME NEW s, IsSpec(s), NEW arg
  PROVE  vsprintf(TheFormat(s), <<arg>>)
           = Convert(s.conv, arg, s.width, s.precision, FlagsOfSpec(s)) \o <<"%">>
<1> DEFINE fmt == TheFormat(s)
           args == <<arg>>
           a == AtConv(s)
           p == CHOOSE print : IsPrint(print, fmt, args)
           converted == Convert(s.conv, arg, s.width, s.precision, FlagsOfSpec(s))
<1>1. /\ Len(fmt) = a + 3 /\ a \in Nat \ {0} /\ DOMAIN fmt = 1 .. a + 3
      /\ fmt[1] = "%" /\ fmt[a + 1] = s.conv /\ fmt[a + 2] = "%" /\ fmt[a + 3] = "%"
  BY FormatCharacters
<1>2. /\ AtConversion(fmt, 1) = a + 1 /\ NextArg(fmt, 1, 1) = 1
      /\ Converted(fmt, args, 1, 1) = converted
  BY FirstPrints
<1>3. AtConversion(fmt, a + 2) = a + 3 /\ NextArg(fmt, a + 2, 2) = 2 BY SecondPrints
<1>4. vsprintf(fmt, args) = p[<<1, 1>>] BY VsprintfIs
<1>5. s.conv \in Conversions BY DEF IsSpec
<1> HIDE DEF fmt, a, converted, args
<1>6. IsPrint(p, fmt, args)
  <2>1. Len(fmt) \in Nat /\ DOMAIN fmt = 1 .. Len(fmt) BY <1>1
  <2>2. \E print : IsPrint(print, fmt, args) BY <2>1, PrintExists
  <2> QED BY <2>2
<1> HIDE DEF p
<1>7. ASSUME NEW i \in 1 .. a + 3 + 1, NEW b \in Nat
      PROVE  p[<<i, b>>] = PrintFrom(p, fmt, args, i, b)
  <2> DEFINE D == (1 .. Len(fmt) + 1) \X Nat
             at == <<i, b>>
  <2>1. at \in D /\ at[1] = i /\ at[2] = b BY <1>1
  <2>2. p = [x \in D |-> PrintFrom(p, fmt, args, x[1], x[2])] BY <1>6 DEF IsPrint
  <2> HIDE DEF D, at
  <2>3. p[at] = PrintFrom(p, fmt, args, at[1], at[2]) BY <2>1, <2>2
  <2> QED BY <2>1, <2>3 DEF at
<1>8. \A j \in 1 .. a + 3 : CharAt(fmt, j) = fmt[j]
  <2> TAKE j \in 1 .. a + 3
  <2>1. j \in DOMAIN fmt BY <1>1
  <2> QED BY <2>1, Zenon DEF CharAt
<1>9. /\ 1 \in 1 .. a + 3 + 1 /\ a + 2 \in 1 .. a + 3 + 1 /\ a + 4 \in 1 .. a + 3 + 1
      /\ a + 1 \in 1 .. a + 3 /\ a + 3 \in 1 .. a + 3
      /\ ~(1 > a + 3) /\ ~(a + 2 > a + 3) /\ a + 4 > a + 3 /\ ~(a + 3 > a + 3)
      /\ a + 1 + 1 = a + 2 /\ a + 3 + 1 = a + 4 /\ 1 + 1 = 2 /\ 1 \in Nat /\ 2 \in Nat
  BY <1>1
<1>10. p[<<a + 4, 2>>] = <<>>
  <2>1. p[<<a + 4, 2>>] = PrintFrom(p, fmt, args, a + 4, 2) BY <1>7, <1>9
  <2> QED BY <1>1, <1>9, <2>1 DEF PrintFrom
<1>11. p[<<a + 2, 2>>] = <<"%">>
  <2>1. p[<<a + 2, 2>>] = PrintFrom(p, fmt, args, a + 2, 2) BY <1>7, <1>9
  <2>2. PrintFrom(p, fmt, args, a + 2, 2) = PrintDirective(p, fmt, args, a + 2, 2)
    BY <1>1, <1>9 DEF PrintFrom
  <2>3. CharAt(fmt, a + 3) = "%" /\ "%" \notin Conversions
    BY <1>1, <1>8, <1>9 DEF Conversions
  <2>4. PrintDirective(p, fmt, args, a + 2, 2) = <<>> \o (<<"%">> \o p[<<a + 4, 2>>])
    BY <1>1, <1>3, <1>9, <2>3 DEF PrintDirective
  <2>5. <<>> \o (<<"%">> \o <<>>) = <<"%">> OBVIOUS
  <2> QED BY <1>10, <2>1, <2>2, <2>4, <2>5
<1>12. p[<<1, 1>>] = converted \o <<"%">>
  <2>1. p[<<1, 1>>] = PrintFrom(p, fmt, args, 1, 1) BY <1>7, <1>9
  <2>2. PrintFrom(p, fmt, args, 1, 1) = PrintDirective(p, fmt, args, 1, 1)
    BY <1>1, <1>9 DEF PrintFrom
  <2>3. CharAt(fmt, a + 1) \in Conversions BY <1>1, <1>5, <1>8, <1>9
  <2>4. PrintDirective(p, fmt, args, 1, 1) = converted \o p[<<a + 2, 2>>]
    BY <1>2, <1>9, <2>3 DEF PrintDirective
  <2> QED BY <1>11, <2>1, <2>2, <2>4
<1> QED BY <1>4, <1>12 DEF fmt, args, converted

-----------------------------------------------------------------------------
(* itoa.                                                                   *)

\* What itoa prints is read back (itoa.cpp 21-65).
LEMMA ItoaReads ==
  ASSUME NEW n \in 0 .. 2 * LongMax + 1, NEW base \in Bases, NEW flags,
         flags = IF base = 10 THEN {"SIGN", "SMALL"} ELSE {"SMALL"},
         NEW base0, base0 = base \/ (base0 = 0 /\ base # 8)
  PROVE  ReadBack(itoa(base, n), base0, Magnitude(n, flags), IsMinus(n, flags))
<1> DEFINE W == itoa(base, n)
           s == SignText(n, flags)
           g == IF base = 16 THEN <<"0", "x">> ELSE <<>>
           d == Figures(n, base, flags)
           m == Magnitude(n, flags)
           neg == IsMinus(n, flags)
<1>1. \A c \in {"-", "+", "#", "0"} : c \notin flags
  <2>1. CASE base = 10 BY <2>1
  <2>2. CASE base # 10 BY <2>2
  <2> QED BY <2>1, <2>2
<1>2. ~HasBlank(flags) BY Zenon DEF HasBlank
<1>3. "SMALL" \in flags /\ ("SIGN" \in flags <=> base = 10)
  <2>1. CASE base = 10 BY <2>1
  <2>2. CASE base # 10 BY <2>2
  <2> QED BY <2>1, <2>2
<1>4. s = IF neg THEN <<"-">> ELSE <<>>
  <2>1. "+" \notin flags BY <1>1
  <2> QED BY <1>2, <2>1, Zenon DEF SignText, HasBlank
<1>5. neg <=> base = 10 /\ Signed(n) < 0 BY <1>3 DEF IsMinus
<1>6. TableOf(flags) = Lower BY <1>3 DEF TableOf
<1>7. m = IF neg THEN -Signed(n) ELSE n BY DEF Magnitude
<1>8. d = Digits(m, base, Lower) BY <1>6 DEF Figures
<1>9. Shown(d, m, base, Lower) /\ d \in Seq(OutChar) /\ Len(d) \in Nat \ {0}
  BY <1>6, FiguresShow
<1>10. SignLike(s) /\ IsNegative(s) = neg BY SignKnown
<1>11. m \in Nat BY MagnitudeIs
<1>12. s \in Seq(OutChar) /\ Len(s) \in 0 .. 1 BY SignIs
<1>13. W = IF base = 10 /\ Signed(n) < 0 THEN <<"-">> \o Digits(-Signed(n), base, Lower)
           ELSE IF base = 16 THEN <<"0", "x">> \o Digits(n, base, Lower)
           ELSE Digits(n, base, Lower)
  BY DEF itoa
<1>a. "0" \in OutChar /\ "x" \in OutChar BY Zenon DEF OutChar, DigitChar
<1> DEFINE zs == Zeros(0)
<1>14. zs = <<>>
  <2>1. Times("0", 0) = <<>>
    <3>1. 1 .. 0 = {} OBVIOUS
    <3>2. Times("0", 0) = [i \in 1 .. 0 |-> "0"] BY DEF Times
    <3> QED BY <3>1, <3>2
  <2> QED BY <2>1, Zenon DEF Zeros
<1> HIDE DEF W, s, d, m, neg, zs
<1>15. g \in Seq(OutChar)
  <2>1. <<>> \in Seq(OutChar) OBVIOUS
  <2>2. <<"0", "x">> \in Seq(OutChar) BY <1>a
  <2> QED BY <2>1, <2>2
<1>16. W = s \o g \o zs \o d
  <2>1. CASE neg
    <3>1. W = <<"-">> \o d BY <1>5, <1>7, <1>8, <1>13, <2>1
    <3>2. s = <<"-">> /\ g = <<>> BY <1>4, <1>5, <2>1
    <3>3. <<"-">> \o <<>> \o <<>> = <<"-">> OBVIOUS
    <3> QED BY <1>14, <3>1, <3>2, <3>3
  <2>2. CASE ~neg
    <3>1. s = <<>> BY <1>4, <2>2
    <3>2. W = IF base = 16 THEN <<"0", "x">> \o d ELSE d BY <1>5, <1>7, <1>8, <1>13, <2>2
    <3>3. <<>> \o g \o <<>> = g BY <1>15
    <3>4. base # 16 => g \o d = d BY <1>9
    <3> QED BY <1>14, <3>1, <3>2, <3>3, <3>4
  <2> QED BY <2>1, <2>2
<1> HIDE DEF g
<1>17. Laid(W, 0, s, g, 0, d, 0)
  <2>0. zs \in Seq(OutChar) /\ Len(zs) = 0 BY <1>14
  <2>1. Four(OutChar, s \o g \o zs \o d, s, g, zs, d)
    BY <1>9, <1>12, <1>15, <2>0, FourTexts
  <2>2. /\ W \in Seq(OutChar) /\ Len(W) = Len(s) + Len(g) + Len(zs) + Len(d)
        /\ At(W, 0, s) /\ At(W, Len(s), g) /\ At(W, Len(s) + Len(g), zs)
        /\ At(W, Len(s) + Len(g) + Len(zs), d)
    BY <1>16, <2>1 DEF Four, Places
  <2> DEFINE b == Blanks(0)
  <2>3. Len(b) = 0
    <3> DEFINE c == " "
    <3>1. Blanks(0) = Times(c, 0) BY Zenon DEF Blanks
    <3> HIDE DEF c
    <3>2. Times(c, 0) = [i \in 1 .. 0 |-> c] BY DEF Times
    <3> QED BY <3>1, <3>2
  <2> HIDE DEF b
  <2>4. \A i \in Nat : i <= Len(W) => At(W, i, b)
    <3>1. Len(W) \in Nat BY <2>2
    <3> QED BY <2>3, <3>1 DEF At
  <2> DEFINE S == Len(s)
             G == Len(g)
             D == Len(d)
  <2>5. S \in Nat /\ G \in Nat /\ D \in Nat BY <1>9, <1>12, <1>15
  <2>6. Len(W) = S + G + 0 + D BY <2>0, <2>2
  <2>7. /\ Len(W) = 0 + S + G + 0 + D + 0 /\ 0 + S = S /\ 0 + S + G = S + G
        /\ 0 + S + G + 0 = S + G + 0 /\ 0 + S + G + 0 + D \in Nat
        /\ 0 + S + G + 0 + D <= Len(W) /\ 0 <= Len(W) /\ 0 \in Nat
    <3> HIDE DEF S, G, D
    <3> QED BY <2>5, <2>6
  <2>8. At(W, 0, b) /\ At(W, 0 + S + G + 0 + D, b) BY <2>4, <2>7
  <2> QED BY <1>14, <2>0, <2>2, <2>7, <2>8 DEF Laid, b, zs
<1>18. Line(W, 0, s, g, 0, d)
  <2> DEFINE u == <<>>
  <2>1. u \in Seq(OutChar) /\ \A i \in 1 .. Len(u) : u[i] = "%" OBVIOUS
  <2>2. W \in Seq(OutChar) BY <1>17 DEF Laid
  <2>3. W \o u = W BY <2>2
  <2> HIDE DEF u
  <2>4. 0 \in Nat OBVIOUS
  <2>5. Line(W \o u, 0, s, g, 0, d) BY <1>9, <1>12, <1>15, <1>17, <2>1, <2>4, LaidLine
  <2> QED BY <2>3, <2>5
<1>19. CASE base = 16
  <2>1. g = <<"0", "x">> BY <1>19 DEF g
  <2>2. HexPrefix(g) BY <2>1 DEF HexPrefix
  <2>3. SuitsBase(W, LineFirst(0, s), g, base0, base) BY <1>19, <2>2 DEF SuitsBase
  <2>4. 0 \in Nat OBVIOUS
  <2>5. ReadBack(W, base0, m, IsNegative(s))
    BY <1>9, <1>10, <1>11, <1>18, <2>3, <2>4, LineReadsBack
  <2> QED BY <1>10, <2>5 DEF W, m, neg
<1>20. CASE base # 16
  <2>1. g = <<>> BY <1>20 DEF g
  <2>2. ShortPrefix(g) /\ Len(g) = 0 BY <2>1 DEF ShortPrefix
  <2>3. W[LineFirst(0, s)] = d[1] /\ 0 \in Nat
    <3>1. 0 \in Nat /\ Len(d) >= 1 BY <1>9
    <3> QED BY <1>9, <1>10, <1>18, <2>2, <3>1, FirstFigure
  <2>4. base # 0 BY DEF Bases
  <2>5. CASE base0 = base
    <3>1. SuitsBase(W, LineFirst(0, s), g, base0, base) BY <2>2, <2>4, <2>5 DEF SuitsBase
    <3>2. ReadBack(W, base0, m, IsNegative(s))
      BY <1>9, <1>10, <1>11, <1>18, <2>3, <3>1, LineReadsBack
    <3> QED BY <1>10, <3>2 DEF W, m, neg
  <2>6. CASE base0 = 0 /\ base = 10 /\ m # 0
    <3>1. d[1] # "0" BY <1>9, <2>6 DEF Shown
    <3>2. SuitsBase(W, LineFirst(0, s), g, base0, base) BY <2>2, <2>3, <2>6, <3>1 DEF SuitsBase
    <3>3. ReadBack(W, base0, m, IsNegative(s))
      BY <1>9, <1>10, <1>11, <1>18, <2>3, <3>2, LineReadsBack
    <3> QED BY <1>10, <3>3 DEF W, m, neg
  <2>7. CASE base0 = 0 /\ base = 10 /\ m = 0
    <3>1. d = <<"0">> BY <1>8, <2>7 DEF Digits
    <3>2. Upper[0 + 1] = "0" BY DEF Upper
    <3>3. 8 \in Bases /\ Upper \in Tables /\ 0 \in 0 .. 8 - 1 BY DEF Bases, Tables
    <3>4. Shown(<<Upper[0 + 1]>>, 0, 8, Upper) BY <3>3, FirstDigit
    <3>5. Shown(d, m, 8, Upper) BY <2>7, <3>1, <3>2, <3>4
    <3>6. d[1] = "0" BY <3>1
    <3>7. SuitsBase(W, LineFirst(0, s), g, base0, 8) BY <2>2, <2>3, <2>7, <3>6 DEF SuitsBase
    <3>8. ReadBack(W, base0, m, IsNegative(s))
      BY <1>10, <1>11, <1>18, <2>3, <3>3, <3>5, <3>7, LineReadsBack
    <3> QED BY <1>10, <3>8 DEF W, m, neg
  <2> QED BY <1>20, <2>5, <2>6, <2>7 DEF Bases
<1> QED BY <1>19, <1>20

-----------------------------------------------------------------------------
(* What the calls print and read (vsprintf.cpp 95-234, strtol.cpp 36-132). *)

\* A directive of the program's is one that vsprintf is understood for.
LEMMA SpecsAre ==
  ASSUME NEW s \in Specs
  PROVE  IsSpec(s) /\ "SIGN" \notin FlagsOfSpec(s) /\ FlagsOfSpec(s) = FlagsOf(s)
<1>1. IsSpec(s) BY DirectivesAssumption, Zenon DEF IsSpec, FlagChar
<1>2. ~IsFlag("SIGN") BY Zenon DEF IsFlag
<1>3. \A j \in DOMAIN s.flags : IsFlag(s.flags[j]) BY <1>1, SpecParts
<1>4. "SIGN" \notin FlagsOfSpec(s) BY <1>2, <1>3, Zenon DEF FlagsOfSpec
<1>5. FlagsOfSpec(s) = FlagsOf(s) BY DEF FlagsOfSpec, FlagsOf
<1> QED BY <1>1, <1>4, <1>5

\* A word is 0 .. 2 * LongMax + 1, and is printed with its sign or without.
LEMMA ValueIs ==
  ASSUME NEW n \in 0 .. 2 * LongMax + 1, NEW flags, NEW signed \in BOOLEAN,
         ("SIGN" \in flags) <=> signed
  PROVE  Nearest(Magnitude(n, flags), IsMinus(n, flags))
           = IF signed THEN Signed(n) ELSE Small(n, LongMax)
<1>1. LongMax \in Nat BY LongAssumption
<1>2. CASE IsMinus(n, flags)
  <2>1. "SIGN" \in flags /\ Signed(n) < 0 BY <1>2 DEF IsMinus
  <2>2. Magnitude(n, flags) = -Signed(n) BY <1>2 DEF Magnitude
  <2>3. n > LongMax /\ Signed(n) = n - 2 * (LongMax + 1) BY <1>1, <2>1 DEF Signed, Word
  <2>4. ~(Magnitude(n, flags) > LongMax + 1) BY <1>1, <2>2, <2>3
  <2>5. -Magnitude(n, flags) = Signed(n) BY <1>1, <2>2, <2>3
  <2>6. Nearest(Magnitude(n, flags), IsMinus(n, flags)) = -Magnitude(n, flags)
    BY <1>2, <2>4 DEF Nearest
  <2> QED BY <2>1, <2>5, <2>6
<1>3. CASE ~IsMinus(n, flags)
  <2>1. Magnitude(n, flags) = n BY <1>3 DEF Magnitude
  <2>2. Nearest(Magnitude(n, flags), IsMinus(n, flags)) = Small(n, LongMax)
    BY <1>3, <2>1 DEF Nearest
  <2>3. signed => Signed(n) = Small(n, LongMax)
    BY <1>1, <1>3 DEF IsMinus, Signed, Small, Word
  <2> QED BY <2>2, <2>3
<1> QED BY <1>2, <1>3

\* A word, in a legible text, is read back as itself or the nearest long, and nothing
\* is left of it.
WordRead(W, base0, n, signed) ==
  Legible(W) => /\ strtol(W, base0).n = IF signed THEN Signed(n) ELSE Small(n, LongMax)
                /\ \A i \in strtol(W, base0).end .. Len(W) : Trails(W[i])

\* What vsprintf prints of a word is read back.
LEMMA VsprintfReads ==
  ASSUME NEW s \in Specs, s.conv \in NumberConversions, NEW n \in 0 .. 2 * LongMax + 1,
         NEW base0, \/ base0 = BaseOf(s.conv)
                    \/ base0 = 0 /\ Showing(BaseOf(s.conv), s.precision, FlagsOf(s))
  PROVE  WordRead(vsprintf(TheFormat(s), <<n>>), base0, n, s.conv \in {"d", "i"})
<1> DEFINE c == s.conv
           old == FlagsOfSpec(s)
           flags == NumberFlags(c, s.width, old)
           base == BaseOf(c)
           size == NumberWidth(c, s.width)
           u == <<"%">>
<1>1. IsSpec(s) /\ "SIGN" \notin old /\ old = FlagsOf(s) BY SpecsAre
<1>2. /\ Convert(c, n, s.width, s.precision, old) = number(n, base, size, s.precision, flags)
      /\ base \in Bases
  BY ConvertIsNumber
<1>3. vsprintf(TheFormat(s), <<n>>) = number(n, base, size, s.precision, flags) \o u
  BY <1>1, <1>2, VsprintfPrints
<1>4. size \in Int /\ s.precision \in Int BY <1>1, LongAssumption DEF IsSpec, NumberWidth
<1>5. u \in Seq(OutChar) /\ \A i \in 1 .. Len(u) : u[i] = "%"
  <2>1. "%" \in OutChar BY Zenon DEF OutChar
  <2> QED BY <2>1
<1>6. /\ ("#" \in flags) <=> ("#" \in old)
      /\ ("SIGN" \in flags) <=> c \in {"d", "i"}
      /\ base = 10 => (("0" \in flags) <=> ("0" \in old))
  BY <1>1, FlagsKept
<1>7. base0 = base \/ (base0 = 0 /\ Showing(base, s.precision, flags))
  <2> HIDE DEF flags, old
  <2> QED BY <1>1, <1>6 DEF Showing
<1> HIDE DEF flags, old, size, u, base
<1>8. ReadBack(number(n, base, size, s.precision, flags) \o u, base0,
               Magnitude(n, flags), IsMinus(n, flags))
  BY <1>2, <1>4, <1>5, <1>7, NumberReads
<1>9. (c \in {"d", "i"}) \in BOOLEAN OBVIOUS
<1>10. Nearest(Magnitude(n, flags), IsMinus(n, flags))
         = IF c \in {"d", "i"} THEN Signed(n) ELSE Small(n, LongMax)
  BY <1>6, <1>9, ValueIs
<1> QED BY <1>3, <1>8, <1>10 DEF ReadBack, WordRead

\* What itoa prints of a word is read back.
LEMMA ItoaReadsWord ==
  ASSUME NEW n \in 0 .. 2 * LongMax + 1, NEW base \in Bases, NEW base0,
         base0 = base \/ (base0 = 0 /\ base # 8)
  PROVE  WordRead(itoa(base, n), base0, n, base = 10)
<1> DEFINE flags == IF base = 10 THEN {"SIGN", "SMALL"} ELSE {"SMALL"}
<1>1. flags = IF base = 10 THEN {"SIGN", "SMALL"} ELSE {"SMALL"} OBVIOUS
<1>2. ("SIGN" \in flags) <=> base = 10 OBVIOUS
<1> HIDE DEF flags
<1>3. ReadBack(itoa(base, n), base0, Magnitude(n, flags), IsMinus(n, flags))
  BY <1>1, ItoaReads
<1>4. (base = 10) \in BOOLEAN OBVIOUS
<1>5. Nearest(Magnitude(n, flags), IsMinus(n, flags))
        = IF base = 10 THEN Signed(n) ELSE Small(n, LongMax)
  BY <1>2, <1>4, ValueIs
<1> QED BY <1>3, <1>5 DEF ReadBack, WordRead

-----------------------------------------------------------------------------
(* The invariant.                                                          *)

\* A directive gets an argument of its conversion's kind.
HasArgument(s, arg) ==
  \/ s.conv = "s" /\ arg \in Words
  \/ s.conv = "c" /\ arg = "c"
  \/ s.conv \in NumberConversions /\ arg \in Values

\* What is in out is what the call printed, and the result is read from there.
IsPrinted ==
  \/ /\ call.by = "vsprintf" /\ call.spec \in Specs
     /\ HasArgument(call.spec, call.arg)
     /\ out = vsprintf(TheFormat(call.spec), <<call.arg>>)
  \/ /\ call.by = "itoa" /\ call.spec.conv \in {"o", "x", "d"} /\ call.arg \in Values
     /\ out = itoa(BaseOf(call.spec.conv), call.arg)

NumbersTruth ==
  \/ pc = "start"
  \/ /\ pc \in {"printed", "read", "readByAtoi"} /\ IsPrinted
     /\ pc # "printed" => call.spec.conv \notin {"s", "c"}
     /\ pc = "read" => result = strtol(out, BaseOf(call.spec.conv))
     /\ pc = "readByAtoi" => result.n = strtol(out, 0).n

\* Every step keeps the invariant.
LEMMA TruthInductive ==
  ASSUME NumbersTruth, [NumbersNext]_numberVars
  PROVE  NumbersTruth'
<1>1. CASE UNCHANGED numberVars
  BY <1>1 DEF numberVars, NumbersTruth, IsPrinted
<1>2. ASSUME NEW s \in Specs, NEW arg, HasArgument(s, arg), PrintByVsprintf(s, arg)
      PROVE  NumbersTruth'
  <2>1. /\ pc' = "printed" /\ call' = [by |-> "vsprintf", spec |-> s, arg |-> arg]
        /\ out' = vsprintf(TheFormat(s), <<arg>>)
    BY <1>2 DEF PrintByVsprintf, TheFormat
  <2>2. call'.by = "vsprintf" /\ call'.spec = s /\ call'.arg = arg BY <2>1
  <2>3. IsPrinted' BY <1>2, <2>1, <2>2 DEF IsPrinted
  <2> QED BY <2>1, <2>3 DEF NumbersTruth
<1>3. ASSUME NEW n \in Values, NEW conv \in {"o", "x", "d"}, PrintByItoa(conv, n)
      PROVE  NumbersTruth'
  <2>1. /\ pc' = "printed" /\ call' = [by |-> "itoa", spec |-> [conv |-> conv], arg |-> n]
        /\ out' = itoa(BaseOf(conv), n)
    BY <1>3 DEF PrintByItoa
  <2>2. call'.by = "itoa" /\ call'.spec.conv = conv /\ call'.arg = n BY <2>1
  <2>3. IsPrinted' BY <1>3, <2>1, <2>2 DEF IsPrinted
  <2> QED BY <2>1, <2>3 DEF NumbersTruth
<1>4. ASSUME Read
      PROVE  NumbersTruth'
  <2>1. /\ pc = "printed" /\ call.spec.conv \notin {"s", "c"}
        /\ call' = call /\ out' = out
        /\ \/ pc' = "read" /\ result' = strtol(out, BaseOf(call.spec.conv))
           \/ pc' = "readByAtoi" /\ result' = [n |-> strtol(out, 0).n, end |-> 1]
    BY <1>4 DEF Read, atoi
  <2>2. IsPrinted' BY <2>1 DEF NumbersTruth, IsPrinted
  <2>3. pc' = "readByAtoi" => result'.n = strtol(out, 0).n BY <2>1
  <2>4. pc' = "read" => result' = strtol(out, BaseOf(call.spec.conv)) BY <2>1
  <2> QED BY <2>1, <2>2, <2>3, <2>4 DEF NumbersTruth
<1>5. CASE NumbersNext
  <2>1. CASE \E s \in Specs :
               \/ s.conv = "s" /\ \E w \in Words : PrintByVsprintf(s, w)
               \/ s.conv = "c" /\ PrintByVsprintf(s, "c")
               \/ s.conv \notin {"s", "c"} /\ \E n \in Values : PrintByVsprintf(s, n)
    <3>1. PICK s \in Specs :
               \/ s.conv = "s" /\ \E w \in Words : PrintByVsprintf(s, w)
               \/ s.conv = "c" /\ PrintByVsprintf(s, "c")
               \/ s.conv \notin {"s", "c"} /\ \E n \in Values : PrintByVsprintf(s, n)
      BY <2>1
    <3>2. s.conv \in Conversions
      <4>1. IsSpec(s) BY SpecsAre
      <4> QED BY <4>1 DEF IsSpec
    <3>3. s.conv \notin {"s", "c"} => s.conv \in NumberConversions
      BY <3>2 DEF Conversions, NumberConversions
    <3>4. \E arg : HasArgument(s, arg) /\ PrintByVsprintf(s, arg)
      BY <3>1, <3>3 DEF HasArgument
    <3> QED BY <1>2, <3>4
  <2>2. CASE \E n \in Values, conv \in {"o", "x", "d"} : PrintByItoa(conv, n)
    BY <1>3, <2>2
  <2>3. CASE Read BY <1>4, <2>3
  <2> QED BY <1>5, <2>1, <2>2, <2>3 DEF NumbersNext
<1> QED BY <1>1, <1>5

\* What is in out is always what the call printed, and the result was read from
\* there (vsprintf.cpp 95-234, itoa.cpp 21-65, strtol.cpp 36-132).
THEOREM NumbersTruthCorrect == NumbersSpec => []NumbersTruth
<1>1. NumbersInit => NumbersTruth BY DEF NumbersInit, NumbersTruth
<1>2. NumbersTruth /\ [NumbersNext]_numberVars => NumbersTruth' BY TruthInductive
<1> QED BY <1>1, <1>2, PTL DEF NumbersSpec

\* Numbers are read back.
LEMMA TruthReads ==
  ASSUME NumbersTruth
  PROVE  RoundTrip
<1> USE DEF IsPrinted
<1> DEFINE c == call.spec.conv
           n == call.arg
           value == IF SignedCall THEN Signed(n) ELSE Small(n, LongMax)
<1>0. ASSUME Legible(out)
      PROVE  /\ pc = "read" => \A i \in result.end .. Len(out) : out[i] \in {" ", "%"}
             /\ (\/ pc = "read"
                 \/ pc = "readByAtoi" /\ ShowsItsBase) => result.n = value
  <2>1. ASSUME pc \in {"read", "readByAtoi"}
        PROVE  n \in 0 .. 2 * LongMax + 1
    <3>1. call.arg \in Values BY <2>1, DirectivesAssumption DEF NumbersTruth, HasArgument
    <3> QED BY <3>1, LongAssumption
  <2>2. ASSUME NEW base0, pc \in {"read", "readByAtoi"},
               base0 = BaseOf(c) \/ (base0 = 0 /\ ShowsItsBase)
        PROVE  /\ strtol(out, base0).n = value
               /\ \A i \in strtol(out, base0).end .. Len(out) : Trails(out[i])
    <3>0. n \in 0 .. 2 * LongMax + 1 BY <2>1, <2>2
    <3>1. CASE call.by = "vsprintf"
      <4>1. /\ call.spec \in Specs /\ c \in NumberConversions
            /\ out = vsprintf(TheFormat(call.spec), <<n>>)
        BY <2>2, <3>1 DEF NumbersTruth, HasArgument
      <4>2. \/ base0 = BaseOf(c)
            \/ base0 = 0 /\ Showing(BaseOf(c), call.spec.precision, FlagsOf(call.spec))
        BY <2>2, <3>1 DEF ShowsItsBase, Showing
      <4>3. WordRead(vsprintf(TheFormat(call.spec), <<n>>), base0, n, c \in {"d", "i"})
        BY <3>0, <4>1, <4>2, VsprintfReads
      <4>4. SignedCall <=> c \in {"d", "i"} BY <3>1 DEF SignedCall
      <4> QED BY <1>0, <4>1, <4>3, <4>4 DEF WordRead
    <3>2. CASE call.by = "itoa"
      <4>1. c \in {"o", "x", "d"} /\ out = itoa(BaseOf(c), n)
        BY <2>2, <3>2 DEF NumbersTruth
      <4>2. BaseOf(c) \in Bases BY <4>1 DEF BaseOf, Bases
      <4>3. base0 = BaseOf(c) \/ (base0 = 0 /\ BaseOf(c) # 8)
        BY <2>2, <3>2 DEF ShowsItsBase
      <4>4. WordRead(itoa(BaseOf(c), n), base0, n, BaseOf(c) = 10)
        BY <3>0, <4>2, <4>3, ItoaReadsWord
      <4>5. SignedCall <=> BaseOf(c) = 10 BY <3>2 DEF SignedCall
      <4> QED BY <1>0, <4>1, <4>4, <4>5 DEF WordRead
    <3> QED BY <2>2, <3>1, <3>2 DEF NumbersTruth
  <2>3. ASSUME pc = "read"
        PROVE  result.n = value /\ \A i \in result.end .. Len(out) : Trails(out[i])
    <3>1. result = strtol(out, BaseOf(c)) BY <2>3 DEF NumbersTruth
    <3> HIDE DEF c, value
    <3> QED BY <2>2, <2>3, <3>1
  <2>4. ASSUME pc = "readByAtoi", ShowsItsBase
        PROVE  result.n = value
    <3>1. result.n = strtol(out, 0).n BY <2>4 DEF NumbersTruth
    <3> HIDE DEF c, value
    <3> QED BY <2>2, <2>4, <3>1
  <2>5. pc = "read" => \A i \in result.end .. Len(out) : out[i] \in {" ", "%"}
    BY <2>3, Zenon DEF Trails
  <2>6. (\/ pc = "read"
         \/ pc = "readByAtoi" /\ ShowsItsBase) => result.n = value
    BY <2>3, <2>4, Zenon
  <2> QED BY <2>5, <2>6
<1>2. CharAt(out, 1) # " " /\ NineFree(out) => Legible(out) BY Zenon DEF Legible, Blank
<1>3. AsLong = value BY Zenon DEF AsLong
<1> HIDE DEF value
<1> QED BY <1>0, <1>2, <1>3, Zenon DEF RoundTrip

\* Whatever is printed without a blank in front and without a 9 is read back as
\* itself, or as the nearest long (vsprintf.cpp 40-92, itoa.cpp 21-65, strtol.cpp
\* 36-132, ctype.h 16-26).
THEOREM RoundTripCorrect == NumbersSpec => []RoundTrip
<1>1. NumbersTruth => RoundTrip BY TruthReads
<1> QED BY <1>1, NumbersTruthCorrect, PTL

-----------------------------------------------------------------------------
(* Fields (vsprintf.cpp 40-92, 115-216).                                   *)

\* The field of a call, without the percent sign behind it.
FieldOf(W) == SubSeq(W, 1, Len(W) - 1)

\* The field of a call is what is printed before the last character.
LEMMA FieldIs ==
  ASSUME NEW S, NEW w, w \in Seq(S), NEW c
  PROVE  FieldOf(w \o <<c>>) = w /\ (w \o <<c>>)[Len(w \o <<c>>)] = c
<1> DEFINE T == S \union {c}
           W == w \o <<c>>
<1>1. w \in Seq(T) /\ <<c>> \in Seq(T) /\ Len(w) \in Nat OBVIOUS
<1>2. W \in Seq(T) /\ Len(W) = Len(w) + 1 BY <1>1
<1>3. W[Len(w) + 1] = c BY <1>1
<1>4. Len(W) - 1 = Len(w) BY <1>1, <1>2
<1>5. SubSeq(W, 1, Len(w)) = w
  <2>1. \A i \in 1 .. Len(w) : W[i] = w[i] BY <1>1
  <2> DEFINE V == SubSeq(W, 1, Len(w))
  <2>2. V \in Seq(T) /\ Len(V) = Len(w) /\ \A i \in 1 .. Len(w) : V[i] = W[i]
    <3> HIDE DEF W
    <3> QED BY <1>1, <1>2
  <2> HIDE DEF V, W
  <2>3. V = w BY <1>1, <2>1, <2>2
  <2> QED BY <2>3 DEF V
<1> HIDE DEF W
<1>6. FieldOf(W) = w /\ W[Len(W)] = c BY <1>2, <1>3, <1>4, <1>5 DEF FieldOf
<1> QED BY <1>6 DEF W

\* The parts of a number's natural length.
HasSign(flags) == {"+", " "} \intersect flags # {}
PrefixLength(base, flags) ==
  IF "#" \in flags THEN (CASE base = 16 -> 2 [] base = 8 -> 1 [] OTHER -> 0) ELSE 0
WordLength(s, n, minus) ==
  (IF minus \/ HasSign(FlagsOf(s)) THEN 1 ELSE 0) + PrefixLength(BaseOf(s.conv), FlagsOf(s))
    + Big(DigitCount(IF minus THEN -Signed(n) ELSE n, BaseOf(s.conv)), s.precision)
TextLength(s, w) == IF s.precision < 0 THEN Len(w) ELSE Small(s.precision, Len(w))

\* How many characters a call has to print, by its conversion.
LEMMA NaturalIs ==
  /\ call.spec.conv = "c" => Natural = 1
  /\ call.spec.conv = "s" => Natural = TextLength(call.spec, call.arg)
  /\ call.spec.conv \notin {"s", "c"} =>
       Natural = WordLength(call.spec, call.arg, SignedCall /\ Signed(call.arg) < 0)
<1> DEFINE nat == CASE call.spec.conv = "c" -> 1
                    [] call.spec.conv = "s" -> TextLength(call.spec, call.arg)
                    [] OTHER -> WordLength(call.spec, call.arg,
                                           SignedCall /\ Signed(call.arg) < 0)
<1>1. Natural = nat
  BY Zenon DEF Natural, WordLength, TextLength, HasSign, PrefixLength
<1>2. /\ call.spec.conv = "c" => nat = 1
      /\ call.spec.conv = "s" => nat = TextLength(call.spec, call.arg)
      /\ call.spec.conv \notin {"s", "c"} =>
           nat = WordLength(call.spec, call.arg, SignedCall /\ Signed(call.arg) < 0)
  OBVIOUS
<1> HIDE DEF nat
<1> QED BY <1>1, <1>2

\* What a directive promises of its field.
FieldFills(w, s, width, length) ==
  /\ \E S : w \in Seq(S)
  /\ Len(w) = Big(width, length)
  /\ OneSide(w, FlagsOf(s))
  /\ "0" \in FlagsOf(s) /\ "-" \notin FlagsOf(s) /\ s.conv \notin {"s", "c"}
       => BlankOf(w) \subseteq {1}

\* What is printed of a number is a field (vsprintf.cpp 40-92).
LEMMA WordFills ==
  ASSUME NEW s \in Specs, s.conv \in NumberConversions, NEW n \in 0 .. 2 * LongMax + 1
  PROVE  FieldFills(Convert(s.conv, n, s.width, s.precision, FlagsOf(s)), s,
                    NumberWidth(s.conv, s.width),
                    WordLength(s, n, s.conv \in {"d", "i"} /\ Signed(n) < 0))
<1> DEFINE c == s.conv
           old == FlagsOf(s)
           flags == NumberFlags(c, s.width, old)
           base == BaseOf(c)
           size == NumberWidth(c, s.width)
           minus == c \in {"d", "i"} /\ Signed(n) < 0
           w == number(n, base, size, s.precision, flags)
<1>1. IsSpec(s) /\ "SIGN" \notin old BY SpecsAre
<1>2. Convert(c, n, s.width, s.precision, old) = w /\ base \in Bases
  BY ConvertIsNumber
<1>3. size \in Int /\ s.precision \in Int BY <1>1, LongAssumption DEF IsSpec, NumberWidth
<1>4. /\ ("-" \in flags) <=> ("-" \in old)
      /\ ("+" \in flags) <=> ("+" \in old)
      /\ ("#" \in flags) <=> ("#" \in old)
      /\ HasBlank(flags) <=> HasBlank(old)
      /\ "0" \in old => "0" \in flags
      /\ ("SIGN" \in flags) <=> c \in {"d", "i"}
  BY <1>1, FlagsKept
<1> HIDE DEF flags, old, base, size, w
<1>5. w \in Seq(OutChar)
  BY <1>2, <1>3, NumberFills DEF w
<1>6. Len(w) = Big(size, Len(SignText(n, flags)) + Len(PrefixText(base, flags))
                     + Big(DigitCount(Magnitude(n, flags), base), s.precision))
  BY <1>2, <1>3, NumberFills DEF w
<1>7. OneSide(w, flags)
  BY <1>2, <1>3, NumberFills DEF w
<1>8. "0" \in flags /\ "-" \notin flags => BlankOf(w) \subseteq {1}
  BY <1>2, <1>3, NumberFills DEF w
<1>9. IsMinus(n, flags) <=> minus BY <1>4 DEF IsMinus
<1>10. Len(SignText(n, flags)) = IF minus \/ HasSign(old) THEN 1 ELSE 0
  <2>1. HasSign(old) <=> ("+" \in old \/ HasBlank(old)) BY Zenon DEF HasSign, HasBlank
  <2>2. Len(SignText(n, flags)) =
          IF IsMinus(n, flags) \/ "+" \in flags \/ HasBlank(flags) THEN 1 ELSE 0
    BY SignKnown
  <2> QED BY <1>4, <1>9, <2>1, <2>2
<1>11. Len(PrefixText(base, flags)) = PrefixLength(base, old)
  BY <1>2, <1>4 DEF PrefixText, PrefixLength, Bases
<1>12. Magnitude(n, flags) = IF minus THEN -Signed(n) ELSE n BY <1>9 DEF Magnitude
<1>13. Len(w) = Big(size, WordLength(s, n, minus))
  BY <1>6, <1>10, <1>11, <1>12 DEF WordLength, old, base
<1>14. OneSide(w, old) BY <1>4, <1>7 DEF OneSide
<1>15. "0" \in old /\ "-" \notin old => BlankOf(w) \subseteq {1} BY <1>4, <1>8
<1> QED BY <1>2, <1>5, <1>13, <1>14, <1>15 DEF FieldFills, old, size

\* What is printed of a text is a field (vsprintf.cpp 162-186).
LEMMA TextFills ==
  ASSUME NEW s \in Specs, NEW w, w \in Seq(AnyChar), \A i \in DOMAIN w : ~Blank(w[i]),
         s.conv \in {"s", "c"}
  PROVE  FieldFills(Padded(w, s.width, FlagsOf(s)), s, s.width, Len(w))
<1>1. IsSpec(s) BY SpecsAre
<1>2. s.width \in Int BY <1>1, LongAssumption DEF IsSpec
<1>3. /\ Padded(w, s.width, FlagsOf(s)) \in Seq(AnyChar)
      /\ Len(Padded(w, s.width, FlagsOf(s))) = Big(s.width, Len(w))
      /\ OneSide(Padded(w, s.width, FlagsOf(s)), FlagsOf(s))
  BY <1>2, PaddedFills
<1> QED BY <1>3 DEF FieldFills

\* The part of a text that is printed.
TextPart(s, w) ==
  SubSeq(w, 1, IF s.precision < 0 THEN Len(w) ELSE Small(s.precision, Len(w)))

\* As much of a text is printed as the precision allows, and no blank.
LEMMA TextPartIs ==
  ASSUME NEW s \in Specs, NEW w \in Words
  PROVE  /\ TextPart(s, w) \in Seq(AnyChar) /\ Len(TextPart(s, w)) = TextLength(s, w)
         /\ \A i \in DOMAIN TextPart(s, w) : ~Blank(TextPart(s, w)[i])
<1> DEFINE k == TextLength(s, w)
           v == TextPart(s, w)
<1>1. w \in Seq(STRING) BY DirectivesAssumption, Zenon
<1>2. \A i \in DOMAIN w : ~Blank(w[i]) BY DirectivesAssumption, Zenon DEF Blank
<1>3. IsSpec(s) BY SpecsAre
<1>4. Len(w) \in Nat /\ DOMAIN w = 1 .. Len(w) BY <1>1
<1>5. s.precision \in {-1} \union 0 .. LongMax BY <1>3 DEF IsSpec
<1>6. k \in 0 .. Len(w) BY <1>4, <1>5, LongAssumption DEF TextLength, Small
<1>7. v = SubSeq(w, 1, k) BY DEF TextPart, TextLength
<1> HIDE DEF k, v
<1>8. /\ v \in Seq(STRING) /\ Len(v) = k /\ DOMAIN v = 1 .. k
      /\ \A i \in 1 .. k : v[i] = w[i]
  BY <1>1, <1>4, <1>6, <1>7
<1>9. \A i \in DOMAIN v : ~Blank(v[i]) BY <1>2, <1>4, <1>6, <1>8
<1>10. v \in Seq(AnyChar)
  <2> DEFINE X == AnyChar
             T == STRING
  <2>1. T \subseteq X BY Zenon DEF AnyChar
  <2>2. v \in Seq(T) BY <1>8
  <2> HIDE DEF X, T
  <2>3. \A i \in 1 .. Len(v) : v[i] \in X BY <2>1, <2>2
  <2>4. v \in Seq(X) BY <2>2, <2>3
  <2> QED BY <2>4 DEF X
<1> QED BY <1>8, <1>9, <1>10 DEF k, v

\* The field a call prints, and how long it is by nature.
LEMMA PrintedFills ==
  ASSUME pc = "printed", call.by = "vsprintf", NumbersTruth
  PROVE  \E w : /\ out = w \o <<"%">>
                /\ FieldFills(w, call.spec, NumberWidth(call.spec.conv, call.spec.width), Natural)
<1> DEFINE s == call.spec
           arg == call.arg
           w == Convert(s.conv, arg, s.width, s.precision, FlagsOf(s))
<1>1. s \in Specs /\ HasArgument(s, arg) /\ out = vsprintf(TheFormat(s), <<arg>>)
  BY DEF NumbersTruth, IsPrinted
<1>2. IsSpec(s) /\ FlagsOfSpec(s) = FlagsOf(s) BY <1>1, SpecsAre
<1>3. out = w \o <<"%">>
  <2>1. vsprintf(TheFormat(s), <<arg>>)
          = Convert(s.conv, arg, s.width, s.precision, FlagsOfSpec(s)) \o <<"%">>
    BY <1>2, VsprintfPrints
  <2> QED BY <1>1, <1>2, <2>1
<1>4. FieldFills(w, s, NumberWidth(s.conv, s.width), Natural)
  <2>1. CASE s.conv \in NumberConversions
    <3>1. arg \in 0 .. 2 * LongMax + 1
      <4>1. arg \in Values BY <1>1, <2>1 DEF HasArgument, NumberConversions
      <4> QED BY <4>1, LongAssumption
    <3>2. SignedCall <=> s.conv \in {"d", "i"} BY DEF SignedCall
    <3>3. s.conv \notin {"s", "c"} BY <2>1 DEF NumberConversions
    <3>4. Natural = WordLength(s, arg, SignedCall /\ Signed(arg) < 0) BY <3>3, NaturalIs
    <3>5. (SignedCall /\ Signed(arg) < 0) = (s.conv \in {"d", "i"} /\ Signed(arg) < 0)
      BY <3>2
    <3>6. FieldFills(w, s, NumberWidth(s.conv, s.width),
                     WordLength(s, arg, s.conv \in {"d", "i"} /\ Signed(arg) < 0))
      BY <1>1, <2>1, <3>1, WordFills
    <3> HIDE DEF w, s, arg
    <3> QED BY <3>4, <3>5, <3>6
  <2>2. CASE s.conv = "s"
    <3>1. arg \in Words BY <1>1, <2>2 DEF HasArgument, NumberConversions
    <3>2. w = Padded(TextPart(s, arg), s.width, FlagsOf(s)) BY <2>2 DEF Convert, TextPart
    <3>3. /\ TextPart(s, arg) \in Seq(AnyChar) /\ Len(TextPart(s, arg)) = TextLength(s, arg)
          /\ \A i \in DOMAIN TextPart(s, arg) : ~Blank(TextPart(s, arg)[i])
      BY <1>1, <3>1, TextPartIs
    <3>4. s.conv \in {"s", "c"} BY <2>2
    <3>5. FieldFills(Padded(TextPart(s, arg), s.width, FlagsOf(s)), s, s.width,
                     Len(TextPart(s, arg)))
      BY <1>1, <3>3, <3>4, TextFills
    <3>6. NumberWidth(s.conv, s.width) = s.width BY <2>2 DEF NumberWidth
    <3>7. Natural = TextLength(s, arg) BY <2>2, NaturalIs
    <3> QED BY <3>2, <3>3, <3>5, <3>6, <3>7
  <2>3. CASE s.conv = "c"
    <3>1. arg = "c" BY <1>1, <2>3 DEF HasArgument, NumberConversions
    <3>2. w = Padded(<<"c">>, s.width, FlagsOf(s)) BY <2>3, <3>1 DEF Convert
    <3>3. /\ <<"c">> \in Seq(AnyChar) /\ Len(<<"c">>) = 1
          /\ \A i \in DOMAIN <<"c">> : ~Blank(<<"c">>[i])
      <4>1. ~Blank("c") BY Zenon DEF Blank
      <4>2. "c" \in AnyChar BY Zenon DEF AnyChar
      <4> QED BY <4>1, <4>2
    <3>4. s.conv \in {"s", "c"} BY <2>3
    <3>5. FieldFills(Padded(<<"c">>, s.width, FlagsOf(s)), s, s.width, Len(<<"c">>))
      BY <1>1, <3>3, <3>4, TextFills
    <3>6. NumberWidth(s.conv, s.width) = s.width BY <2>3 DEF NumberWidth
    <3>7. Natural = 1 BY <2>3, NaturalIs
    <3> QED BY <3>2, <3>3, <3>5, <3>6, <3>7
  <2> QED BY <1>1, <2>1, <2>2, <2>3 DEF HasArgument
<1> HIDE DEF w
<1> QED BY <1>3, <1>4

\* Fields are filled.
LEMMA TruthFills ==
  ASSUME NumbersTruth
  PROVE  FieldIsFilled
<1>1. SUFFICES ASSUME pc = "printed", call.by = "vsprintf"
               PROVE  LET s     == call.spec
                          width == IF s.conv = "p" /\ s.width = -1 THEN 8 ELSE s.width
                          field == SubSeq(out, 1, Len(out) - 1)
                          blank == {i \in DOMAIN field : field[i] = " "}
                      IN  /\ Len(field) = Big(width, Natural)
                          /\ out[Len(out)] = "%"
                          /\ \A i \in blank, j \in DOMAIN field \ blank :
                               (j < i) = ("-" \in FlagsOf(s) /\ ~(i = 1 /\ " " \in FlagsOf(s)))
                          /\ "0" \in FlagsOf(s) /\ "-" \notin FlagsOf(s) /\ s.conv \notin {"s", "c"}
                               => blank \subseteq {1}
  BY Zenon DEF FieldIsFilled
<1> DEFINE s == call.spec
           width == NumberWidth(s.conv, s.width)
<1>2. PICK w : out = w \o <<"%">> /\ FieldFills(w, s, width, Natural)
  BY <1>1, PrintedFills
<1>3. PICK S : w \in Seq(S) BY <1>2 DEF FieldFills
<1>4. FieldOf(out) = w /\ out[Len(out)] = "%" BY <1>2, <1>3, FieldIs
<1>5. Len(FieldOf(out)) = Big(width, Natural) BY <1>2, <1>4 DEF FieldFills
<1>6. \A i \in BlankOf(w), j \in DOMAIN w \ BlankOf(w) :
        (j < i) = ("-" \in FlagsOf(s) /\ ~(i = 1 /\ HasBlank(FlagsOf(s))))
  BY <1>2 DEF FieldFills, OneSide
<1>7. "0" \in FlagsOf(s) /\ "-" \notin FlagsOf(s) /\ s.conv \notin {"s", "c"}
        => BlankOf(w) \subseteq {1}
  BY <1>2 DEF FieldFills
<1>8. \A i \in BlankOf(FieldOf(out)), j \in DOMAIN FieldOf(out) \ BlankOf(FieldOf(out)) :
        (j < i) = ("-" \in FlagsOf(s) /\ ~(i = 1 /\ HasBlank(FlagsOf(s))))
  BY <1>4, <1>6
<1>9. "0" \in FlagsOf(s) /\ "-" \notin FlagsOf(s) /\ s.conv \notin {"s", "c"}
        => BlankOf(FieldOf(out)) \subseteq {1}
  BY <1>4, <1>7
<1> QED BY <1>4, <1>5, <1>8, <1>9, Zenon DEF FieldOf, BlankOf, Blank, HasBlank, NumberWidth

\* A directive prints one field, as wide as it asks for, and filled up on the
\* side its flags say (vsprintf.cpp 40-92, 115-216).
THEOREM FieldIsFilledCorrect == NumbersSpec => []FieldIsFilled
<1>1. NumbersTruth => FieldIsFilled BY TruthFills
<1> QED BY <1>1, NumbersTruthCorrect, PTL
=============================================================================
