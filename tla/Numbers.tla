------------------------------ MODULE Numbers -------------------------------
(***************************************************************************)
(* Numbers printed and read (lib/libc: vsprintf, itoa, strtol, atoi).      *)
(* Texts are sequences of characters, their 0 left out; a number is a word *)
(* of 2 * (LongMax + 1) values, read as signed where the code does.        *)
(*                                                                         *)
(* The system prints one argument by a format with one directive, then     *)
(* reads back what it printed.                                             *)
(***************************************************************************)
EXTENDS Integers, FiniteSets, Sequences, FiniteSetsExt

CONSTANTS LongMax, \* 2^31 - 1
          Values,  \* words to print
          Words,   \* texts to print
          Specs    \* directives: flags, width, precision, conversion

ASSUME LongAssumption == LongMax \in Nat /\ Values \subseteq 0 .. 2 * LongMax + 1

VARIABLES pc,    \* "start", "printed", "read" or "readByAtoi"
          call,  \* who printed what, by which directive
          out,   \* what vsprintf or itoa wrote
          result \* what strtol returned: a number, and where it stopped

numberVars == <<pc, call, out, result>>

LongMin == -LongMax - 1
Word == 2 * (LongMax + 1)
Signed(n) == IF n > LongMax THEN n - Word ELSE n

Big(a, b) == IF a >= b THEN a ELSE b
Small(a, b) == IF a <= b THEN a ELSE b

Upper == << "0", "1", "2", "3", "4", "5", "6", "7", "8", "9",
            "A", "B", "C", "D", "E", "F", "G", "H", "I", "J", "K", "L", "M", "N",
            "O", "P", "Q", "R", "S", "T", "U", "V", "W", "X", "Y", "Z" >>
Lower == << "0", "1", "2", "3", "4", "5", "6", "7", "8", "9",
            "a", "b", "c", "d", "e", "f", "g", "h", "i", "j", "k", "l", "m", "n",
            "o", "p", "q", "r", "s", "t", "u", "v", "w", "x", "y", "z" >>

\* What a character counts as a digit, or a number no base reaches.
Value(c) ==
  LET at == {i \in 1 .. 36 : Upper[i] = c \/ Lower[i] = c}
  IN  IF at = {} THEN 99 ELSE Min(at) - 1

\* What strtol counts it.  isdigit, isalpha and isupper look up (_ctype+1)[c] in a
\* table whose first entry is that of character 0, and not of EOF: they tell of
\* every character what is true of the next one.
DigitOf(c) ==
  IF c \in {"9", "Z", "z"} THEN 99
  ELSE IF c = "/" THEN -1
  ELSE IF c \in {"@", "GRAVE"} THEN 9 ELSE Value(c)

\* So does isspace: the characters 8 to 12 and 31 are white space, a blank is not.
IsSpace(c) == c \in {"BS", "HT", "LF", "VT", "FF", "US"}

\* The character at a place of a text, "" for the 0 at its end.
CharAt(w, i) == IF i \in DOMAIN w THEN w[i] ELSE ""

Times(c, n) == [i \in 1 .. n |-> c]

\* The digits of a number, the highest first.
Digits(n, base, digits) ==
  LET from[i \in 0 .. n] == IF i = 0 THEN <<>> ELSE Append(from[i \div base], digits[(i % base) + 1])
  IN  IF n = 0 THEN <<"0">> ELSE from[n]

-----------------------------------------------------------------------------
(* Printing.                                                               *)

\* itoa: "0x" for base 16, a sign for base 10.
itoa(base, n) ==
  IF base = 10 /\ Signed(n) < 0 THEN <<"-">> \o Digits(-Signed(n), base, Lower)
  ELSE IF base = 16 THEN <<"0", "x">> \o Digits(n, base, Lower)
  ELSE Digits(n, base, Lower)

\* Faulty variant: the sign does not count for the width.
numberSignless(n, base, size, precision, flags) ==
  LET small  == "SMALL" \in flags
      minus  == "SIGN" \in flags /\ Signed(n) < 0
      sign   == IF minus THEN <<"-">> ELSE IF "+" \in flags THEN <<"+">>
                ELSE IF " " \in flags THEN <<" ">> ELSE <<>>
      prefix == IF "#" \notin flags THEN <<>>
                ELSE IF base = 16 THEN <<"0", IF small THEN "x" ELSE "X">>
                ELSE IF base = 8 THEN <<"0">> ELSE <<>>
      tmp    == Digits(IF minus THEN -Signed(n) ELSE n, base,
                       IF small THEN Lower ELSE Upper)
      body   == Times("0", precision - Len(tmp)) \o tmp
      rest   == size - Len(prefix) - Len(body)
  IN  IF "-" \in flags THEN sign \o prefix \o body \o Times(" ", rest)
      ELSE IF "0" \in flags THEN sign \o prefix \o Times("0", rest) \o body
      ELSE Times(" ", rest) \o sign \o prefix \o body

\* number: sign, prefix, at least precision digits, filled up to size on the
\* left with blanks or zeros, or on the right with blanks.
number(n, base, size, precision, flags) ==
  LET small  == "SMALL" \in flags
      minus  == "SIGN" \in flags /\ Signed(n) < 0
      sign   == IF minus THEN <<"-">> ELSE IF "+" \in flags THEN <<"+">>
                ELSE IF " " \in flags THEN <<" ">> ELSE <<>>
      prefix == IF "#" \notin flags THEN <<>>
                ELSE IF base = 16 THEN <<"0", IF small THEN "x" ELSE "X">>
                ELSE IF base = 8 THEN <<"0">> ELSE <<>>
      tmp    == Digits(IF minus THEN -Signed(n) ELSE n, base,
                       IF small THEN Lower ELSE Upper)
      body   == Times("0", precision - Len(tmp)) \o tmp
      rest   == size - Len(sign) - Len(prefix) - Len(body)
  IN  IF "-" \in flags THEN sign \o prefix \o body \o Times(" ", rest)
      ELSE IF "0" \in flags THEN sign \o prefix \o Times("0", rest) \o body
      ELSE Times(" ", rest) \o sign \o prefix \o body

\* skip_atoi: the number at a place of a text, and the place behind it.
skip_atoi(w, i) ==
  LET isDigit(j) == CharAt(w, j) \in {Upper[k] : k \in 1 .. 10}
      end == Min({j \in i .. Len(w) + 1 : ~isDigit(j)})
      at[j \in i - 1 .. end - 1] ==
        IF j = i - 1 THEN 0 ELSE at[j - 1] * 10 + Value(w[j])
  IN  [n |-> at[end - 1], i |-> end]

\* A directive is read from the place behind its %.
Flags(fmt, i) ==
  Min({j \in i .. Len(fmt) + 1 : CharAt(fmt, j) \notin {"-", "+", " ", "#", "0"}})

Padded(w, width, flags) ==
  IF "-" \in flags THEN w \o Times(" ", width - Len(w))
  ELSE Times(" ", width - Len(w)) \o w

\* The conversions.
Convert(c, arg, width, precision, flags) ==
  CASE c = "c" -> Padded(<<arg>>, width, flags)
    [] c = "s" -> Padded(SubSeq(arg, 1, IF precision < 0 THEN Len(arg)
                                        ELSE Small(precision, Len(arg))), width, flags)
    [] c = "o" -> number(arg, 8, width, precision, flags)
    [] c = "p" -> number(arg, 16, IF width = -1 THEN 8 ELSE width, precision,
                         IF width = -1 THEN flags \union {"0"} ELSE flags)
    [] c = "x" -> number(arg, 16, width, precision, flags \union {"SMALL"})
    [] c = "X" -> number(arg, 16, width, precision, flags)
    [] c \in {"d", "i"} -> number(arg, 10, width, precision, flags \union {"SIGN"})
    [] c = "u" -> number(arg, 10, width, precision, flags)

Conversions == {"c", "s", "o", "p", "x", "X", "d", "i", "u"}

\* Directives as a program writes them: flags, a width or none (-1; a 0 in front
\* would be a flag), a precision or none.  Texts to print have no blanks.
ASSUME DirectivesAssumption ==
  /\ \A s \in Specs : /\ s.flags \in Seq({"-", "+", " ", "#", "0"})
                      /\ s.width \in {-1} \union 1 .. LongMax
                      /\ s.precision \in {-1} \union 0 .. LongMax
                      /\ s.conv \in Conversions
  /\ \A w \in Words : w \in Seq(STRING) /\ \A i \in DOMAIN w : w[i] # " "

\* vsprintf, from a place of the format on, with the arguments that are left.
\* Another character behind a % is printed as it is, its % too if it is none.
\* A * takes an argument, but is not passed over, and ends up there.
vsprintf(fmt, args) ==
  LET print[at \in (1 .. Len(fmt) + 1) \X Nat] ==
        LET i == at[1]
            a == at[2]
        IN
        IF i > Len(fmt) THEN <<>>
        ELSE IF fmt[i] # "%" THEN <<fmt[i]>> \o print[<<i + 1, a>>]
        ELSE
          LET f     == Flags(fmt, i + 1)
              flags == {fmt[j] : j \in i + 1 .. f - 1}
              w     == skip_atoi(fmt, f)
              width == IF w.i = f THEN -1 ELSE w.n
              p     == skip_atoi(fmt, w.i + 1)
              point == CharAt(fmt, w.i) = "."
              q     == IF point THEN p.i ELSE w.i
              c     == IF CharAt(fmt, q) \in {"h", "l", "L"} THEN q + 1 ELSE q
              next  == a + Cardinality({j \in {f, w.i + 1} : CharAt(fmt, j) = "*"
                                                           /\ (j = f \/ point)})
          IN  IF CharAt(fmt, c) \in Conversions
              THEN Convert(fmt[c], args[next], width, IF point THEN p.n ELSE -1, flags)
                     \o print[<<c + 1, next + 1>>]
              ELSE (IF CharAt(fmt, c) = "%" THEN <<>> ELSE <<"%">>)
                     \o (IF c > Len(fmt) THEN <<>> ELSE <<fmt[c]>> \o print[<<c + 1, next>>])
  IN  print[<<1, 1>>]

-----------------------------------------------------------------------------
(* Reading.                                                                *)

\* Faulty variant: the last digit of the largest number is not looked at.
CutlimOfBase(neg, base) == base

\* How far the last digit may go where the rest is the largest there is.
Cutlim(neg, base) == (IF neg THEN LongMax + 1 ELSE LongMax) % base

\* What stands for a number beyond the range.
TooBig == Word

\* strtol: white space, a sign, 0x where the base allows it, and digits as far as
\* they go.  The number saturates; without digits it ends where it began.
strtol(w, base0) ==
  LET start == Min({i \in 1 .. Len(w) + 1 : ~IsSpace(CharAt(w, i))})
      neg   == CharAt(w, start) = "-"
      from  == IF CharAt(w, start) \in {"-", "+"} THEN start + 1 ELSE start
      hex   == /\ base0 \in {0, 16}
               /\ CharAt(w, from) = "0" /\ CharAt(w, from + 1) \in {"x", "X"}
      base  == IF hex THEN 16 ELSE IF base0 # 0 THEN base0
               ELSE IF CharAt(w, from) = "0" THEN 8 ELSE 10
      first == IF hex THEN from + 2 ELSE from
      end   == Min({i \in first .. Big(first, Len(w) + 1) : DigitOf(CharAt(w, i)) >= base})
      limit == IF neg THEN LongMax + 1 ELSE LongMax
      acc[i \in first - 1 .. end - 1] ==
        IF i = first - 1 THEN 0
        ELSE LET c == DigitOf(w[i])
             IN  IF \/ acc[i - 1] = TooBig \/ acc[i - 1] > limit \div base
                    \/ acc[i - 1] = limit \div base /\ c > Cutlim(neg, base)
                 THEN TooBig
                 ELSE acc[i - 1] * base + c
  IN  [n |-> IF acc[end - 1] = TooBig THEN (IF neg THEN LongMin ELSE LongMax)
             ELSE IF neg THEN -acc[end - 1] ELSE acc[end - 1],
       end |-> IF end = first THEN 1 ELSE end]

atoi(w) == strtol(w, 0).n

-----------------------------------------------------------------------------
(* Calls.                                                                  *)

BaseOf(conv) == CASE conv \in {"x", "X", "p"} -> 16 [] conv = "o" -> 8 [] OTHER -> 10

\* A directive as text.
FormatOf(s) ==
  <<"%">> \o s.flags
    \o (IF s.width < 0 THEN <<>> ELSE Digits(s.width, 10, Upper))
    \o (IF s.precision < 0 THEN <<>> ELSE <<".">> \o Digits(s.precision, 10, Upper))
    \o <<s.conv>>

NumbersInit ==
  /\ pc = "start"
  /\ call = <<>>
  /\ out = <<>>
  /\ result = [n |-> 0, end |-> 1]

\* A call of vsprintf, with a percent sign behind the directive.
PrintByVsprintf(s, arg) ==
  /\ pc = "start"
  /\ pc' = "printed"
  /\ call' = [by |-> "vsprintf", spec |-> s, arg |-> arg]
  /\ out' = vsprintf(FormatOf(s) \o <<"%", "%">>, <<arg>>)
  /\ UNCHANGED result

PrintByItoa(conv, n) ==
  /\ pc = "start"
  /\ pc' = "printed"
  /\ call' = [by |-> "itoa", spec |-> [conv |-> conv], arg |-> n]
  /\ out' = itoa(BaseOf(conv), n)
  /\ UNCHANGED result

\* The reader knows the base, or leaves it to the text.
Read ==
  /\ pc = "printed"
  /\ call.spec.conv \notin {"s", "c"}
  /\ \/ pc' = "read" /\ result' = strtol(out, BaseOf(call.spec.conv))
     \/ pc' = "readByAtoi" /\ result' = [n |-> atoi(out), end |-> 1]
  /\ UNCHANGED <<call, out>>

NumbersNext ==
  \/ \E s \in Specs :
       \/ s.conv = "s" /\ \E w \in Words : PrintByVsprintf(s, w)
       \/ s.conv = "c" /\ PrintByVsprintf(s, "c")
       \/ s.conv \notin {"s", "c"} /\ \E n \in Values : PrintByVsprintf(s, n)
  \/ \E n \in Values, conv \in {"o", "x", "d"} : PrintByItoa(conv, n)
  \/ Read

NumbersSpec == NumbersInit /\ [][NumbersNext]_numberVars

-----------------------------------------------------------------------------

FlagsOf(s) == {s.flags[i] : i \in DOMAIN s.flags}

SignedCall ==
  IF call.by = "itoa" THEN BaseOf(call.spec.conv) = 10 ELSE call.spec.conv \in {"d", "i"}

\* What the text says of its base is its base: no zeros in front of decimals.
ShowsItsBase ==
  LET base == BaseOf(call.spec.conv)
  IN  IF call.by = "itoa" THEN base # 8
      ELSE IF base = 10 THEN "0" \notin FlagsOf(call.spec) /\ call.spec.precision <= 1
      ELSE "#" \in FlagsOf(call.spec)

\* What the call printed, as a long holds it.
AsLong == IF SignedCall THEN Signed(call.arg) ELSE Small(call.arg, LongMax)

NineFree(w) == \A i \in DOMAIN w : w[i] # "9"

\* A number that is printed, in whatever form, with no blank in front and without
\* a 9, is read back as itself, or as the nearest that a long can hold, and
\* nothing of it is left unread: with signs, prefixes, zeros and blanks behind, at
\* both ends of the range, and by atoi if the text shows its base (vsprintf.cpp
\* 40-92, strtol.cpp 36-132, itoa.cpp 21-65).
RoundTrip ==
  CharAt(out, 1) # " " /\ NineFree(out) =>
    /\ pc = "read" => \A i \in result.end .. Len(out) : out[i] \in {" ", "%"}
    /\ \/ pc = "read"
       \/ pc = "readByAtoi" /\ ShowsItsBase
       => result.n = AsLong

\* "Skip white space and pick up leading +/- sign if any" (strtol.cpp 44), white
\* space being "space/lf/tab" (ctype.h 9): a number behind blanks is read.
SkipsBlanks == pc = "read" /\ NineFree(out) => result.end > 1

\* How many digits a number has: the powers of the base that are not above it.
DigitCount(n, base) ==
  LET power[k \in 0 .. n + 1] == IF k = 0 THEN 1 ELSE base * power[k - 1]
  IN  CHOOSE d \in 1 .. n + 1 : n < power[d] /\ (d = 1 \/ power[d - 1] <= n)

\* How many characters a call of vsprintf has to print.
Natural ==
  LET s      == call.spec
      base   == BaseOf(s.conv)
      minus  == SignedCall /\ Signed(call.arg) < 0
      size   == IF minus THEN -Signed(call.arg) ELSE call.arg
      digits == DigitCount(size, base)
      sign   == IF minus \/ {"+", " "} \intersect FlagsOf(s) # {} THEN 1 ELSE 0
      prefix == IF "#" \in FlagsOf(s) THEN (CASE base = 16 -> 2 [] base = 8 -> 1 [] OTHER -> 0) ELSE 0
  IN  CASE s.conv = "c" -> 1
        [] s.conv = "s" -> IF s.precision < 0 THEN Len(call.arg)
                           ELSE Small(s.precision, Len(call.arg))
        [] OTHER -> sign + prefix + Big(digits, s.precision)

\* A directive prints as many characters as its width asks for, or more only if
\* sign, prefix, digits or characters need them, what it prints is one piece,
\* and it is filled up with blanks on the side its flags say, and on no other
\* (vsprintf.cpp 40-92, 115-216).
FieldIsFilled ==
  pc = "printed" /\ call.by = "vsprintf" =>
    LET s     == call.spec
        width == IF s.conv = "p" /\ s.width = -1 THEN 8 ELSE s.width
        field == SubSeq(out, 1, Len(out) - 1)
        blank == {i \in DOMAIN field : field[i] = " "}
    IN  /\ Len(field) = Big(width, Natural)
        /\ out[Len(out)] = "%"
        /\ \A i \in blank, j \in DOMAIN field \ blank :
             (j < i) = ("-" \in FlagsOf(s) /\ ~(i = 1 /\ " " \in FlagsOf(s)))
        /\ "0" \in FlagsOf(s) /\ "-" \notin FlagsOf(s) /\ s.conv \notin {"s", "c"}
             => blank \subseteq {1}
=============================================================================
