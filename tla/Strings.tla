------------------------------ MODULE Strings -------------------------------
(***************************************************************************)
(* The C library's strings (lib/libc/string.h), loops of string            *)
(* instructions over memory.  Memory maps addresses to bytes as the        *)
(* instructions compare them, signed; a string ends before the next 0.     *)
(* An operator takes the memory and the arguments of the function of its   *)
(* name, and returns its result, or the memory it leaves.  A step of the   *)
(* system is a call that C allows: no copy runs into what it still reads   *)
(* but memmove's, and all strings involved end inside the memory.          *)
(***************************************************************************)
EXTENDS Integers, Sequences, FiniteSetsExt, SequencesExt

CONSTANTS Size, \* bytes of memory, at addresses from 1
          Char  \* bytes that occur, 0 among them

ASSUME MemoryAssumption == Size \in Nat \ {0} /\ Char \subseteq -128 .. 127 /\ 0 \in Char

VARIABLES mem,    \* the memory
          save,   \* ___strtok
          text,   \* the string that strtok takes apart: where, and what it was
          tokens, \* what it returned so far, as places and lengths
          done    \* whether it has returned NULL

stringVars == <<mem, save, text, tokens, done>>

NULL == 0
Address == 1 .. Size

-----------------------------------------------------------------------------
(* Searches.                                                               *)

\* repne scasb: how many bytes from a are not c, at most n.
Scas(m, a, c, n) == Min({n} \union {i \in 0 .. n - 1 : m[a + i] = c})

strlen(m, s) == Scas(m, s, 0, Size + 1 - s)

\* The bytes of a set of characters, which is a string without its 0.
Set(m, ct) == {m[ct + i] : i \in 0 .. strlen(m, ct) - 1}

strchr(m, s, c) ==
  LET loop[a \in s .. s + strlen(m, s)] ==
        IF m[a] = c THEN a ELSE IF m[a] = 0 THEN NULL ELSE loop[a + 1]
  IN  loop[s]

\* The last match is kept until the end of the string.
strrchr(m, s, c) ==
  LET loop[a \in s - 1 .. Size] ==
        IF a < s THEN NULL ELSE IF m[a] = c THEN a ELSE loop[a - 1]
  IN  loop[s + strlen(m, s)]

\* A comparison is of the second string's byte with the first one's.
Order(t, c) == IF t < c THEN 1 ELSE -1

strncmp(m, cs, ct, n) ==
  LET loop[i \in 0 .. n] ==
        IF i = n THEN 0
        ELSE IF m[cs + i] # m[ct + i] THEN Order(m[ct + i], m[cs + i])
        ELSE IF m[ct + i] = 0 THEN 0 ELSE loop[i + 1]
  IN  loop[0]

strcmp(m, cs, ct) == strncmp(m, cs, ct, Size)

\* Without bytes to compare the flags are those of code before: no call.
memcmp(m, cs, ct, n) ==
  LET loop[i \in 0 .. n - 1] ==
        IF m[cs + i] # m[ct + i] THEN Order(m[ct + i], m[cs + i])
        ELSE IF i = n - 1 THEN 0 ELSE loop[i + 1]
  IN  loop[0]

memchr(m, cs, c, n) ==
  LET i == Scas(m, cs, c, n) IN IF i = n THEN NULL ELSE cs + i

strspn(m, cs, ct) ==
  LET loop[a \in cs .. cs + strlen(m, cs)] ==
        IF m[a] # 0 /\ m[a] \in Set(m, ct) THEN loop[a + 1] ELSE a
  IN  loop[cs] - cs

strcspn(m, cs, ct) ==
  LET loop[a \in cs .. cs + strlen(m, cs)] ==
        IF m[a] # 0 /\ m[a] \notin Set(m, ct) THEN loop[a + 1] ELSE a
  IN  loop[cs] - cs

strpbrk(m, cs, ct) ==
  LET loop[a \in cs .. cs + strlen(m, cs)] ==
        IF m[a] = 0 THEN NULL ELSE IF m[a] \in Set(m, ct) THEN a ELSE loop[a + 1]
  IN  loop[cs]

\* How many bytes of ct, which are n without the 0, follow from address a.
Matching(m, a, ct, n) ==
  Min({n} \union {i \in 0 .. n - 1 : a + i > Size \/ m[a + i] # m[ct + i]})

\* Faulty variant: the search goes on behind what matched in part.
strstrSkipping(m, cs, ct) ==
  LET n == strlen(m, ct)
      loop[a \in cs .. cs + strlen(m, cs)] ==
        IF Matching(m, a, ct, n) = n THEN a
        ELSE IF m[a + Matching(m, a, ct, n)] = 0 THEN NULL
        ELSE loop[a + Max({1, Matching(m, a, ct, n)})]
  IN  loop[cs]

\* The byte that did not match ends the search if it is the string's 0.
strstr(m, cs, ct) ==
  LET n == strlen(m, ct)
      loop[a \in cs .. cs + strlen(m, cs)] ==
        IF Matching(m, a, ct, n) = n THEN a
        ELSE IF m[a + Matching(m, a, ct, n)] = 0 THEN NULL ELSE loop[a + 1]
  IN  loop[cs]

-----------------------------------------------------------------------------
(* Copies.                                                                 *)

\* rep movsb, upward and downward: one byte after the other.
MovsUp(m, d, s, n) ==
  LET after[i \in 0 .. n] ==
        IF i = 0 THEN m
        ELSE [after[i - 1] EXCEPT ![d + i - 1] = after[i - 1][s + i - 1]]
  IN  after[n]

MovsDown(m, d, s, n) ==
  LET after[i \in 0 .. n] ==
        IF i = 0 THEN m
        ELSE [after[i - 1] EXCEPT ![d + n - i] = after[i - 1][s + n - i]]
  IN  after[n]

\* rep stosb, what is beyond the memory left out.
Stos(m, d, c, n) == [a \in Address |-> IF d <= a /\ a < d + n THEN c ELSE m[a]]

memcpy(m, d, s, n) == MovsUp(m, d, s, n)

\* Faulty variant: upward whatever overlaps.
memmoveUp(m, d, s, n) == MovsUp(m, d, s, n)

memmove(m, d, s, n) == IF d < s THEN MovsUp(m, d, s, n) ELSE MovsDown(m, d, s, n)

memset(m, d, c, n) == Stos(m, d, c, n)

strcpy(m, d, s) == MovsUp(m, d, s, strlen(m, s) + 1)

\* The rest of n bytes is filled with 0.
strncpy(m, d, s, n) ==
  LET k == Min({n, strlen(m, s) + 1})
  IN  Stos(MovsUp(m, d, s, k), d + k, 0, n - k)

strcat(m, d, s) == strcpy(m, d + strlen(m, d), s)

\* At most n bytes and a 0, behind the 0 that was copied if there was one.
strncat(m, d, s, n) ==
  LET k   == Min({n, strlen(m, s) + 1})
      end == d + strlen(m, d)
  IN  Stos(MovsUp(m, end, s, k), end + k, 0, 1)

-----------------------------------------------------------------------------
(* strtok, which remembers where it is.                                    *)

Token(res, from, m) == [res |-> res, save |-> from, mem |-> m]

\* Faulty variant: the next search starts at the 0 behind the token.
strtokStuck(m, s, ct, saved) ==
  LET from  == IF s # NULL THEN s ELSE saved
      delim == Set(m, ct)
      start == from + strspn(m, from, ct)
      end   == start + strcspn(m, start, ct)
  IN  IF from = NULL \/ delim = {} \/ m[start] = 0 THEN Token(NULL, NULL, m)
      ELSE IF m[end] = 0 THEN Token(start, NULL, m)
      ELSE Token(start, end, [m EXCEPT ![end] = 0])

\* Delimiters are passed over, the one behind the token becomes its 0.  A
\* search that finds nothing, or has no delimiters to look for, forgets.
strtok(m, s, ct, saved) ==
  LET from  == IF s # NULL THEN s ELSE saved
      delim == Set(m, ct)
      start == from + strspn(m, from, ct)
      end   == start + strcspn(m, start, ct)
  IN  IF from = NULL \/ delim = {} \/ m[start] = 0 THEN Token(NULL, NULL, m)
      ELSE IF m[end] = 0 THEN Token(start, NULL, m)
      ELSE Token(start, end + 1, [m EXCEPT ![end] = 0])

-----------------------------------------------------------------------------
(* Calls.                                                                  *)

IsString(m, a) == a \in Address /\ \E b \in a .. Size : m[b] = 0

\* The bytes of the string at an address, without its 0.
StringAt(m, a) == [i \in 1 .. strlen(m, a) |-> m[a + i - 1]]

Fits(a, n) == a \in Address /\ n \in Nat /\ a + n - 1 <= Size

\* n bytes at d do not run into the k bytes that are read at s.
Apart(d, n, s, k) == d + n <= s \/ s + k <= d

NoTokens == text = <<>>

StringsInit ==
  /\ mem = [a \in Address |-> 0]
  /\ save = NULL
  /\ text = <<>>
  /\ tokens = <<>>
  /\ done = FALSE

Write(m) == mem' = m /\ UNCHANGED <<save, text, tokens, done>>

Fill(d, c, n) == NoTokens /\ Fits(d, n) /\ Write(memset(mem, d, c, n))

Move(d, s, n) ==
  /\ NoTokens
  /\ Fits(d, n) /\ Fits(s, n)
  /\ Write(memmove(mem, d, s, n))

Concatenate(d, s, n) ==
  /\ NoTokens
  /\ IsString(mem, d) /\ IsString(mem, s)
  /\ LET all == strlen(mem, d) + Min({n, strlen(mem, s)}) + 1
     IN  Fits(d, all) /\ Apart(d, all, s, strlen(mem, s) + 1)
  /\ Write(strncat(mem, d, s, n))

\* A string is taken apart from its first token on; ct is another one.
FirstToken(s, ct) ==
  /\ NoTokens
  /\ IsString(mem, s) /\ IsString(mem, ct)
  /\ Apart(s, strlen(mem, s) + 1, ct, strlen(mem, ct) + 1)
  /\ LET t == strtok(mem, s, ct, save)
     IN  /\ mem' = t.mem
         /\ save' = t.save
         /\ done' = (t.res = NULL)
         /\ text' = [at |-> s, delim |-> ct, was |-> StringAt(mem, s)]
         /\ tokens' = IF t.res = NULL THEN <<>>
                      ELSE << <<t.res - s + 1, strlen(t.mem, t.res)>> >>

NextToken ==
  /\ ~NoTokens
  /\ ~done
  /\ LET t == strtok(mem, NULL, text.delim, save)
     IN  /\ mem' = t.mem
         /\ save' = t.save
         /\ done' = (t.res = NULL)
         /\ tokens' = IF t.res = NULL THEN tokens
                      ELSE Append(tokens, <<t.res - text.at + 1, strlen(t.mem, t.res)>>)
  /\ UNCHANGED text

StringsNext ==
  \/ \E d \in Address, n \in 0 .. Size :
       \/ \E c \in Char : Fill(d, c, n)
       \/ \E s \in Address : Move(d, s, n) \/ Concatenate(d, s, n)
  \/ \E s, ct \in Address : FirstToken(s, ct)
  \/ NextToken

StringsSpec == StringsInit /\ [][StringsNext]_stringVars

-----------------------------------------------------------------------------
(* What C promises, in terms of sequences.                                 *)

\* Where a sequence of characters occurs in another one, first; 0 if nowhere.
FirstIn(w, P(_)) == Min({Len(w) + 1} \union {i \in DOMAIN w : P(i)})
PlaceOf(a, w, i) == IF i > Len(w) THEN NULL ELSE a + i - 1

\* The sign of the comparison of two sequences with their 0: C's, by the first
\* bytes that differ, as unsigned ones, but the other one where just one of the
\* two is below 128, as the code takes them for signed.
Compared(v, w) ==
  LET i == Min({j \in 1 .. Len(v) + 1 : j > Len(w) + 1 \/
                  Append(v, 0)[j] # Append(w, 0)[j]} \union {Len(v) + 2})
      x == Append(v, 0)[i] % 256
      y == Append(w, 0)[i] % 256
      sameHalf == (x < 128) = (y < 128)
  IN  IF i = Len(v) + 2 THEN 0 ELSE IF (x > y) = sameHalf THEN 1 ELSE -1

\* The searches return the first or last place, or the length of a prefix, that C
\* says, of empty strings, too, and of a pattern whose beginning occurs before it
\* does; the comparisons return 0 for the same bytes, as C says, and otherwise
\* C's sign exactly if the first bytes that differ are both below 128 or both
\* above (string.h 88-273, 368-398).
SearchesAreExact ==
  NoTokens =>
    \A s \in {a \in Address : IsString(mem, a)} :
      LET v == StringAt(mem, s)
      IN  /\ \A n \in 1 .. Len(v), c \in Char :
               memchr(mem, s, c, n) =
                 IF c \in {v[i] : i \in 1 .. n} THEN strchr(mem, s, c) ELSE NULL
          /\ \A c \in Char \ {0} :
               /\ strchr(mem, s, c) = PlaceOf(s, v, FirstIn(v, LAMBDA i : v[i] = c))
               /\ strrchr(mem, s, c) =
                    PlaceOf(s, v, FirstIn(v, LAMBDA i : v[i] = c
                      /\ \A j \in i + 1 .. Len(v) : v[j] # c))
          /\ \A ct \in {a \in Address : IsString(mem, a)} :
               LET w  == StringAt(mem, ct)
                   of == {w[i] : i \in DOMAIN w}
               IN  /\ strspn(mem, s, ct) = FirstIn(v, LAMBDA i : v[i] \notin of) - 1
                   /\ strcspn(mem, s, ct) = FirstIn(v, LAMBDA i : v[i] \in of) - 1
                   /\ strpbrk(mem, s, ct) =
                        PlaceOf(s, v, FirstIn(v, LAMBDA i : v[i] \in of))
                   /\ strstr(mem, s, ct) = IF w = <<>> THEN s ELSE
                        PlaceOf(s, v, FirstIn(v, LAMBDA i :
                          IsPrefix(w, SubSeq(v, i, Len(v)))))
                   /\ strcmp(mem, s, ct) = Compared(v, w)
                   /\ \A n \in 1 .. Min({Len(v), Len(w)}) :
                        memcmp(mem, s, ct, n) = Compared(SubSeq(v, 1, n), SubSeq(w, 1, n))
                   /\ \A n \in 0 .. Size : strncmp(mem, s, ct, n) =
                        IF Len(v) < n /\ Len(w) < n THEN Compared(v, w)
                        ELSE Compared(SubSeq(Append(v, 0), 1, Min({n, Len(v) + 1})),
                                      SubSeq(Append(w, 0), 1, Min({n, Len(w) + 1})))

\* A copy leaves in its place what was to be copied, although it goes byte by
\* byte and memmove's ranges overlap, and changes nothing else; but strncat, if it
\* may copy more than there is, puts a second 0 behind the first, into a byte that
\* C does not ask its caller to provide (string.h 27-86, 341-366).
CopiesAreExact ==
  NoTokens => \A d, s \in Address :
    /\ \A n \in {k \in 0 .. Size : Fits(d, k) /\ Fits(s, k)} :
         LET moved == [a \in Address |->
               IF d <= a /\ a < d + n THEN mem[s + a - d] ELSE mem[a]]
         IN  /\ memmove(mem, d, s, n) = moved
             /\ Apart(d, n, s, n) => memcpy(mem, d, s, n) = moved
             /\ IsString(mem, s) /\ Apart(d, n, s, strlen(mem, s) + 1) =>
                  strncpy(mem, d, s, n) = [a \in Address |->
                    IF a < d \/ d + n <= a THEN mem[a]
                    ELSE IF a - d < strlen(mem, s) THEN mem[s + a - d] ELSE 0]
    /\ IsString(mem, d) /\ IsString(mem, s) =>
         \A n \in 0 .. Size :
           LET v == StringAt(mem, d)
               w == StringAt(mem, s)
               q == Min({n, Len(w)})
               all == Len(v) + q + 1
               outside == {a \in Address : a < d \/ d + all <= a}
           IN  Fits(d, all) /\ Apart(d, all, s, Len(w) + 1) =>
                 LET m == strncat(mem, d, s, n)
                     c == strcat(mem, d, s)
                 IN  /\ StringAt(m, d) = v \o SubSeq(w, 1, q)
                     /\ \A a \in outside :
                          m[a] = IF n > Len(w) /\ a = d + all THEN 0 ELSE mem[a]
                     /\ n >= Len(w) => /\ StringAt(c, d) = v \o w
                                       /\ \A a \in outside : c[a] = mem[a]

\* strtok returns the longest parts of the string without a delimiter, in their
\* order, each once and none left out before it, and all of them before it
\* returns NULL (string.h 277-334), if there are delimiters.
TokensAreExact ==
  ~NoTokens /\ Set(mem, text.delim) # {} =>
    LET w     == text.was
        of    == Set(mem, text.delim)
        runs  == {r \in (1 .. Len(w)) \X (1 .. Len(w)) :
                    /\ r[1] + r[2] - 1 <= Len(w)
                    /\ \A i \in r[1] .. r[1] + r[2] - 1 : w[i] \notin of
                    /\ r[1] = 1 \/ w[r[1] - 1] \in of
                    /\ r[1] + r[2] > Len(w) \/ w[r[1] + r[2]] \in of}
        found == Range(tokens)
    IN  /\ \A i, j \in DOMAIN tokens : i < j => tokens[i][1] < tokens[j][1]
        /\ found \subseteq runs
        /\ \A r \in runs, t \in found : r[1] < t[1] => r \in found
        /\ done => found = runs
=============================================================================
