------------------------------- MODULE Kprintf -------------------------------
(***************************************************************************)
(* Formatted output (kernel/lib/kprintf/kprintf.c) as far as the kernel    *)
(* compiles and calls it: vsnprintf, integer, character, string and        *)
(* pointer conversions.  Operators on a record s: the rest of the format   *)
(* and of the arguments, the fields of the directive being read, the       *)
(* buffer, and all characters put out, whether they fit or not.            *)
(*                                                                         *)
(* Integer widths and the size of the conversion buffer are parameters, so *)
(* that TLC can meet their limits; an argument is a register's bits.       *)
(***************************************************************************)
EXTENDS Integers, Sequences, SequencesExt, FiniteSetsExt, TLC

CONSTANTS
  CHAR_BITS, SHORT_BITS, INT_BITS, LONG_BITS,  \* long long is as wide as long
  PRINTF_NTOA_BUFFER_SIZE,
  Strings,    \* what pointers point to: a sequence of strings
  Characters  \* the character of every code, from code 0 on

ASSUME WidthAssumption ==
  /\ 0 < CHAR_BITS /\ CHAR_BITS <= SHORT_BITS /\ SHORT_BITS <= INT_BITS /\ INT_BITS <= LONG_BITS
  /\ PRINTF_NTOA_BUFFER_SIZE \in Nat \ {0}

NUL == "NUL"
STRAY == "?"  \* a byte nobody has written yet

DecimalDigits == <<"0", "1", "2", "3", "4", "5", "6", "7", "8", "9">>
LowerDigits == DecimalDigits \o <<"a", "b", "c", "d", "e", "f">>
UpperDigits == DecimalDigits \o <<"A", "B", "C", "D", "E", "F">>

Repeat(c, n) == [i \in 1 .. n |-> c]
AtLeast0(n) == IF n < 0 THEN 0 ELSE n

Low(v, bits) == v % 2^bits
Signed(v, bits) == LET u == Low(v, bits) IN IF u >= 2^(bits - 1) THEN u - 2^bits ELSE u

-----------------------------------------------------------------------------
(* Output *)

_out_buffer(buffer, maxlen, idx, c) ==
  IF idx < maxlen THEN [buffer EXCEPT ![idx] = c] ELSE buffer

Out(s, c) ==
  [s EXCEPT !.buffer = _out_buffer(@, s.maxlen, Len(s.text), c), !.text = Append(@, c)]

OutAll(s, chars) == FoldLeft(Out, s, chars)

\* The characters of buf, last one first, in a field of width columns.
_out_rev(buf, width, flags) ==
  LET pad == Repeat(" ", AtLeast0(width - Len(buf)))
  IN IF "LEFT" \in flags THEN Reverse(buf) \o pad
     ELSE IF "ZEROPAD" \in flags THEN Reverse(buf)
     ELSE pad \o Reverse(buf)

-----------------------------------------------------------------------------
(* Integers.  buf holds the least significant digit first.                 *)

RECURSIVE NtoaDigits(_, _, _, _)

NtoaDigits(value, base, digits, buf) ==
  LET b == Append(buf, digits[(value % base) + 1])
      rest == value \div base
  IN IF rest > 0 /\ Len(b) < PRINTF_NTOA_BUFFER_SIZE THEN NtoaDigits(rest, base, digits, b) ELSE b

\* buf, followed by c if there is room
Put(buf, c) == IF Len(buf) < PRINTF_NTOA_BUFFER_SIZE THEN Append(buf, c) ELSE buf

\* Zeros up to n digits, as far as there is room
ZerosTo(buf, n) == buf \o Repeat("0", AtLeast0(Min({n, PRINTF_NTOA_BUFFER_SIZE}) - Len(buf)))

DropLast(buf, n) == SubSeq(buf, 1, AtLeast0(Len(buf) - n))

\* Mutant: the prefix makes room for one of its characters only.
PrefixRoom_One(base) == 1

\* The padding that the prefix of a number takes the place of
PrefixRoom(base) == IF base = 16 THEN 2 ELSE 1

\* '#': the prefix takes the place of padding that fills the field.
HashPrefix(buf, base, prec, width, flags) ==
  LET fills == "PRECISION" \notin flags /\ buf # <<>> /\ Len(buf) \in {prec, width}
      room == IF fills THEN DropLast(buf, PrefixRoom(base)) ELSE buf
      letter == CASE base = 16 /\ "UPPERCASE" \notin flags -> Put(room, "x")
                  [] base = 16 /\ "UPPERCASE" \in flags    -> Put(room, "X")
                  [] base = 2                              -> Put(room, "b")
                  [] OTHER                                 -> room
  IN Put(letter, "0")

SignOf(buf, negative, flags) ==
  CASE negative           -> Put(buf, "-")
    [] ~negative /\ "PLUS" \in flags -> Put(buf, "+")
    [] ~negative /\ "PLUS" \notin flags /\ "SPACE" \in flags -> Put(buf, " ")
    [] OTHER -> buf

\* The column that a sign takes from zero padding
SignColumn(width, negative, flags) ==
  IF /\ width > 0 /\ {"LEFT", "ZEROPAD"} \cap flags = {"ZEROPAD"}
     /\ negative \/ {"PLUS", "SPACE"} \cap flags # {}
    THEN 1 ELSE 0

_ntoa_format(buf, negative, base, prec, width, flags) ==
  LET w == width - SignColumn(width, negative, flags)
      precise == ZerosTo(buf, prec)
      padded == IF "LEFT" \in flags THEN buf
                ELSE IF "ZEROPAD" \in flags THEN ZerosTo(precise, w)
                ELSE precise
      hashed == IF "HASH" \in flags THEN HashPrefix(padded, base, prec, w, flags) ELSE padded
  IN _out_rev(SignOf(hashed, negative, flags), w, flags)

\* _ntoa_long and _ntoa_long_long
_ntoa(s, value, negative, base) ==
  LET flags == IF value = 0 THEN s.flags \ {"HASH"} ELSE s.flags
      digits == IF "UPPERCASE" \in flags THEN UpperDigits ELSE LowerDigits
      buf == IF "PRECISION" \in flags /\ value = 0 THEN <<>> ELSE NtoaDigits(value, base, digits, <<>>)
  IN OutAll(s, _ntoa_format(buf, negative, base, s.precision, s.width, flags))

-----------------------------------------------------------------------------
(* Reading a directive: %[flags][width][.precision][length]specifier       *)

Peek(s) == IF s.format = <<>> THEN NUL ELSE Head(s.format)
Skip(s) == [s EXCEPT !.format = Tail(@)]
TakeArg(s) == [s EXCEPT !.va = Tail(@)]
Arg(s) == Head(s.va)

_is_digit(c) == c \in ToSet(DecimalDigits)
DigitValue(c) == CHOOSE n \in 0 .. 9 : DecimalDigits[n + 1] = c

\* The number at the front of a format, and what is left of the format
RECURSIVE _atoi(_, _)

_atoi(format, i) ==
  IF format # <<>> /\ _is_digit(Head(format))
    THEN _atoi(Tail(format), i * 10 + DigitValue(Head(format)))
    ELSE [n |-> i, rest |-> format]

FlagOf == "0" :> "ZEROPAD" @@ "-" :> "LEFT" @@ "+" :> "PLUS" @@ " " :> "SPACE" @@ "#" :> "HASH"

RECURSIVE Flags(_)

Flags(s) ==
  IF Peek(s) \in DOMAIN FlagOf
    THEN Flags([Skip(s) EXCEPT !.flags = @ \union {FlagOf[Peek(s)]}])
    ELSE s

StarWidth(s, w) ==
  IF w < 0 THEN [s EXCEPT !.width = -w, !.flags = @ \union {"LEFT"}] ELSE [s EXCEPT !.width = w]

Width(s) ==
  CASE _is_digit(Peek(s)) -> LET a == _atoi(s.format, 0) IN [s EXCEPT !.width = a.n, !.format = a.rest]
    [] Peek(s) = "*"      -> StarWidth(TakeArg(Skip(s)), Signed(Arg(s), INT_BITS))
    [] OTHER              -> s

PrecisionDigits(s) ==
  CASE _is_digit(Peek(s)) -> LET a == _atoi(s.format, 0) IN [s EXCEPT !.precision = a.n, !.format = a.rest]
    [] Peek(s) = "*"      -> [TakeArg(Skip(s)) EXCEPT !.precision = AtLeast0(Signed(Arg(s), INT_BITS))]
    [] OTHER              -> s

Precision(s) ==
  IF Peek(s) = "." THEN PrecisionDigits([Skip(s) EXCEPT !.flags = @ \union {"PRECISION"}]) ELSE s

\* A length modifier, and what it becomes when it is doubled
Modifier(s, c, flag, twice) ==
  LET t == [Skip(s) EXCEPT !.flags = @ \union {flag}]
  IN IF Peek(t) = c THEN [Skip(t) EXCEPT !.flags = @ \union {twice}] ELSE t

Length(s) ==
  CASE Peek(s) = "l" -> Modifier(s, "l", "LONG", "LONG_LONG")
    [] Peek(s) = "h" -> Modifier(s, "h", "SHORT", "CHAR")
    [] Peek(s) \in {"t", "j", "z"} -> [Skip(s) EXCEPT !.flags = @ \union {"LONG"}]
    [] OTHER -> s

-----------------------------------------------------------------------------
(* Converting *)

\* The bits of the argument that count
ArgBits(flags) ==
  IF "LONG" \in flags THEN LONG_BITS
  ELSE IF "CHAR" \in flags THEN CHAR_BITS
  ELSE IF "SHORT" \in flags THEN SHORT_BITS
  ELSE INT_BITS

BaseOf(c) == CASE c \in {"x", "X"} -> 16 [] c = "o" -> 8 [] c = "b" -> 2 [] OTHER -> 10

\* Flags that an integer conversion does not heed
Unheeded(c, flags) ==
  (IF BaseOf(c) = 10 THEN {"HASH"} ELSE {}) \union
  (IF c \in {"i", "d"} THEN {} ELSE {"PLUS", "SPACE"}) \union
  (IF "PRECISION" \in flags THEN {"ZEROPAD"} ELSE {})

\* 0 - value overflows for the least int; the cast to unsigned makes it right.
Integer(s, c) ==
  LET t == [TakeArg(s) EXCEPT !.flags = (@ \ Unheeded(c, @)) \union (IF c = "X" THEN {"UPPERCASE"} ELSE {})]
      bits == ArgBits(t.flags)
      v == IF c \in {"i", "d"} THEN Signed(Arg(s), bits) ELSE Low(Arg(s), bits)
  IN _ntoa(t, IF v > 0 THEN v ELSE 0 - v, v < 0, BaseOf(c))

\* Padding around characters of a length counted beforehand
Field(s, len, chars) ==
  LET pad == Repeat(" ", AtLeast0(s.width - len))
  IN OutAll(s, IF "LEFT" \in s.flags THEN chars \o pad ELSE pad \o chars)

_strnlen_s(str, maxsize) == Min({Len(str), maxsize})

String(s, str) ==
  LET bounded == "PRECISION" \in s.flags
      scan == _strnlen_s(str, IF s.precision > 0 THEN s.precision ELSE Len(str))
  IN Field(s, IF bounded THEN Min({scan, s.precision}) ELSE scan,
           SubSeq(str, 1, IF bounded THEN Min({Len(str), s.precision}) ELSE Len(str)))

Pointer(s) ==
  _ntoa([s EXCEPT !.width = (LONG_BITS + 3) \div 4, !.flags = @ \union {"ZEROPAD", "UPPERCASE"}],
        Arg(s), FALSE, 16)

Specifier(s) ==
  LET c == Peek(s)
      t == Skip(s)
  IN CASE c \in {"d", "i", "u", "x", "X", "o", "b"} -> Integer(t, c)
       [] c = "c" -> Field(TakeArg(t), 1, <<Characters[(Arg(t) % Len(Characters)) + 1]>>)
       [] c = "s" -> String(TakeArg(t), Strings[Arg(t)])
       [] c = "p" -> TakeArg(Pointer(t))
       [] OTHER   -> Out(t, c)

\* Mutant: the fields of the directive before are still there.
Directive_NotReset(s) == Specifier(Length(Precision(Width(Flags(Skip(s))))))

Directive(s) ==
  Specifier(Length(Precision(Width(Flags([Skip(s) EXCEPT !.flags = {}, !.width = 0, !.precision = 0])))))

\* Mutant: the terminator is forgotten when the text is too long.
Terminate_IfRoom(s) == [s EXCEPT !.buffer = _out_buffer(@, s.maxlen, Len(s.text), NUL)]

Terminate(s) ==
  [s EXCEPT !.buffer = _out_buffer(@, s.maxlen, Min({Len(s.text), s.maxlen - 1}), NUL)]

RECURSIVE Format(_)

\* No format of the kernel's ends in the middle of a directive.
Format(s) ==
  CASE s.format = <<>> -> Terminate(s)
    [] Peek(s) = "%"   -> Format(Directive(s))
    [] OTHER           -> Format(Skip(Out(s, Peek(s))))

\* vsnprintf(buffer, maxlen, format, va) with cells bytes of memory from buffer
\* on.  It returns the length of text.
vsnprintf(maxlen, cells, format, va) ==
  Format([format |-> format, va |-> va, flags |-> {}, width |-> 0, precision |-> 0,
          maxlen |-> maxlen, buffer |-> [i \in 0 .. cells - 1 |-> STRAY], text |-> <<>>])
=============================================================================
