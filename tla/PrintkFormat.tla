---------------------------- MODULE PrintkFormat ----------------------------
(***************************************************************************)
(* printk with the formatter it calls: what Kprintf's vsnprintf makes of   *)
(* the format and the arguments, and what the texts have to be like.       *)
(***************************************************************************)
EXTENDS Printk, PrintfStandard

CONSTANT TEMP_SIZE  \* bytes in printk's buffer

ASSUME TempAssumption == TEMP_SIZE \in Nat \ {0}

\* The call in printk; a program is a sequence of directives.
Vsnprintf(p) == vsnprintf(TEMP_SIZE, PRINTK_BUF_SIZE, Text(p), Args(p))

-----------------------------------------------------------------------------
(* Properties *)

\* A call of vsnprintf that has not been looked at yet
Fresh == result.prog # <<>> /\ (call = NoCall \/ call.pc = "next")

\* Every directive whose output this printf promises as the standard does puts
\* out exactly what the standard says, also after other directives, and the
\* value returned counts all of it (_vsnprintf and its helpers).
FieldsStandard ==
  Fresh /\ (\A i \in DOMAIN result.prog : Conforms(result.prog[i]))
    => result.v.text = FlattenSeq([i \in DOMAIN result.prog |-> Standard(result.prog[i])])

\* A number printed in any way can be read back, except, and always except,
\* when it has more digits than the conversion buffer or when '#' is given and
\* the digits fill the field the prefix should share (_ntoa_format).
DigitsSurvive ==
  Fresh /\ Len(result.prog) = 1 /\ result.prog[1].spec \in IntegerSpecs
    => LET d == result.prog[1]
           field == SubSeq(result.v.text, Len(d.lead) + 1, Len(result.v.text))
       IN NumberIn(field, BaseOf(d.spec)) = Magnitude(d) <=> ~LosesDigits(d)

\* Whatever the length of the text, the buffer holds as much of it as fits and
\* a terminator, and no byte behind it is touched (_out_buffer, termination).
BufferHoldsText ==
  Fresh =>
    LET v == result.v
        n == Min({Len(v.text), v.maxlen - 1})
    IN /\ \A i \in 1 .. n : v.buffer[i - 1] = v.text[i]
       /\ v.buffer[n] = NUL
       /\ \A i \in DOMAIN v.buffer : i >= v.maxlen => v.buffer[i] = STRAY
=============================================================================
