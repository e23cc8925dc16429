--------------------------- MODULE PrintfStandard ---------------------------
(***************************************************************************)
(* What the C standard says printf puts out, as a reference for Kprintf.   *)
(* A directive is a record, with some text in front of it:                 *)
(*   lead, flags, width, prec, length, spec: how it is written             *)
(*   warg, parg, arg: its arguments, for '*' and for the conversion        *)
(***************************************************************************)
EXTENDS Kprintf

IntegerSpecs == {"d", "i", "u", "x", "X", "o", "b"}

Spell(d) == d.lead \o <<"%">> \o d.flags \o d.width \o d.prec \o d.length \o <<d.spec>>

ArgsOf(d) ==
  LET Star(chars, a) == IF "*" \in ToSet(chars) THEN <<Low(a, LONG_BITS)>> ELSE <<>>
  IN Star(d.width, d.warg) \o Star(d.prec, d.parg)
       \o (IF d.spec \in IntegerSpecs \union {"c", "s", "p"} THEN <<Low(d.arg, LONG_BITS)>> ELSE <<>>)

Text(p) == FlattenSeq([i \in DOMAIN p |-> Spell(p[i])])
Args(p) == FlattenSeq([i \in DOMAIN p |-> ArgsOf(p[i])])

-----------------------------------------------------------------------------
(* The meaning of a directive's parts *)

Has(d, flag) == flag \in ToSet(d.flags)

\* The number written by at most one decimal digit, or by an argument
Written(chars, a) ==
  IF "*" \in ToSet(chars) THEN a
  ELSE IF ToSet(chars) \cap ToSet(DecimalDigits) = {} THEN 0
  ELSE DigitValue(Last(chars))

FieldWidth(d) == LET w == Written(d.width, d.warg) IN IF w < 0 THEN -w ELSE w
LeftAdjusted(d) == Has(d, "-") \/ Written(d.width, d.warg) < 0
HasPrecision(d) == d.prec # <<>>
PrecisionOf(d) == Written(d.prec, d.parg)

\* The argument converted to the type the length modifier names
ValueOf(d) ==
  LET bits == CASE d.length \in {<<"l">>, <<"l", "l">>, <<"z">>, <<"t">>, <<"j">>} -> LONG_BITS
                [] d.length = <<"h", "h">> -> CHAR_BITS
                [] d.length = <<"h">> -> SHORT_BITS
                [] d.length = <<>> -> INT_BITS
  IN IF d.spec \in {"d", "i"} THEN Signed(d.arg, bits) ELSE Low(d.arg, bits)

Magnitude(d) == IF ValueOf(d) < 0 THEN -ValueOf(d) ELSE ValueOf(d)
DigitsFor(d) == IF d.spec = "X" THEN UpperDigits ELSE LowerDigits

\* How many digits a positive number has
DigitCount(v, base) == CHOOSE n \in 1 .. LONG_BITS : base^n > v /\ base^(n - 1) <= v

\* The digits of the value, none for a zero, most significant first
Significant(d) ==
  LET v == Magnitude(d)
      base == BaseOf(d.spec)
      n == IF v = 0 THEN 0 ELSE DigitCount(v, base)
  IN [i \in 1 .. n |-> DigitsFor(d)[((v \div base^(n - i)) % base) + 1]]

\* With the zeros that the precision asks for; it is 1 when it is not given.
Precise(d) ==
  LET p == IF HasPrecision(d) THEN PrecisionOf(d) ELSE 1
  IN Repeat("0", AtLeast0(p - Len(Significant(d)))) \o Significant(d)

Sign(d) ==
  CASE ValueOf(d) < 0 -> <<"-">>
    [] ValueOf(d) >= 0 /\ d.spec \in {"d", "i"} /\ Has(d, "+") -> <<"+">>
    [] ValueOf(d) >= 0 /\ d.spec \in {"d", "i"} /\ ~Has(d, "+") /\ Has(d, " ") -> <<" ">>
    [] OTHER -> <<>>

Prefix(d) ==
  CASE ~Has(d, "#") \/ Magnitude(d) = 0 -> <<>>
    [] Has(d, "#") /\ Magnitude(d) > 0 /\ d.spec \in {"x", "X", "b"} -> <<"0", d.spec>>
    [] Has(d, "#") /\ Magnitude(d) > 0 /\ d.spec = "o" -> <<"0">>
    [] OTHER -> <<>>

\* The characters before and after the place where zero padding goes
Adjusted(d, before, after) ==
  LET missing == AtLeast0(FieldWidth(d) - Len(before) - Len(after))
  IN CASE LeftAdjusted(d) -> before \o after \o Repeat(" ", missing)
       [] ~LeftAdjusted(d) /\ d.spec \in IntegerSpecs /\ Has(d, "0") /\ ~HasPrecision(d)
            -> before \o Repeat("0", missing) \o after
       [] OTHER -> Repeat(" ", missing) \o before \o after

\* What the directive should put out
Standard(d) ==
  d.lead \o
  CASE d.spec \in IntegerSpecs -> Adjusted(d, Sign(d) \o Prefix(d), Precise(d))
    [] d.spec = "c" -> Adjusted(d, <<>>, <<Characters[(d.arg % Len(Characters)) + 1]>>)
    [] d.spec = "s" -> Adjusted(d, <<>>, LET str == Strings[d.arg]
                                         IN IF HasPrecision(d) /\ PrecisionOf(d) < Len(str)
                                              THEN SubSeq(str, 1, PrecisionOf(d)) ELSE str)
    [] d.spec = "p" -> [i \in 1 .. (LONG_BITS + 3) \div 4 |->
                          UpperDigits[((Low(d.arg, LONG_BITS) \div 16^((LONG_BITS + 3) \div 4 - i)) % 16) + 1]]
    [] OTHER -> <<d.spec>>

-----------------------------------------------------------------------------
(* Where this printf does not follow the standard *)

\* The longest number, padding included, that the conversion buffer has to hold
Needed(d) ==
  Max({Len(Precise(d)) + Len(Prefix(d)) + Len(Sign(d)),
       IF Has(d, "0") /\ ~LeftAdjusted(d) /\ ~HasPrecision(d) THEN FieldWidth(d) ELSE 0})

\* A '-' turns the precision of a number off; a negative precision counts as
\* zero; '#' gives octal and binary numbers one character too many in some
\* fields, and overwrites digits when a number fills its field (below).
Deviates(d) ==
  \/ d.spec \in IntegerSpecs /\ LeftAdjusted(d) /\ HasPrecision(d) /\ Len(Precise(d)) > Len(Significant(d))
  \/ HasPrecision(d) /\ PrecisionOf(d) < 0
  \/ d.spec \in IntegerSpecs /\ Has(d, "#") /\ (FieldWidth(d) > 0 \/ d.spec = "o")
  \/ d.spec \in IntegerSpecs /\ Needed(d) > PRINTF_NTOA_BUFFER_SIZE
  \/ d.spec = "p" /\ (LeftAdjusted(d) \/ HasPrecision(d))

\* The directives whose output is the standard's
Conforms(d) == ~Deviates(d)

-----------------------------------------------------------------------------
(* Reading a number back *)

\* The number that the digits of base among chars make up
NumberIn(chars, base) ==
  LET Values == 1 .. base
      DigitOf(c) == {i \in Values : c \in {LowerDigits[i], UpperDigits[i]}}
      Step(n, c) == IF DigitOf(c) = {} THEN n ELSE n * base + (CHOOSE i \in DigitOf(c) : TRUE) - 1
  IN FoldLeft(Step, 0, chars)

\* The conversion loses the front of a number: it has more digits than the
\* buffer, or with '#' it fills the field that the prefix should fit into.
LosesDigits(d) ==
  LET n == Len(Significant(d))
      w == FieldWidth(d)
      prefix == IF BaseOf(d.spec) = 16 THEN 2 ELSE 1
      zeros == Has(d, "0") /\ ~LeftAdjusted(d) /\ w <= PRINTF_NTOA_BUFFER_SIZE
  IN \/ n > PRINTF_NTOA_BUFFER_SIZE
     \/ /\ Prefix(d) # <<>> /\ ~HasPrecision(d)
        /\ n > w - prefix /\ n <= w
        /\ n = w \/ zeros
=============================================================================
