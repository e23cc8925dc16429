------------------------------ MODULE MC_Printk ------------------------------
\* Every combination of up to two flags, a width, a precision and a length with
\* every conversion, at the limits of small integers; two directives in a row;
\* and, with the timer on, a short message and two that are longer than the
\* chunk and than printk's buffer.
EXTENDS PrintkFormat

D(lead, flags, width, warg, prec, parg, length, spec, arg) ==
  [lead |-> lead, flags |-> flags, width |-> width, warg |-> warg, prec |-> prec,
   parg |-> parg, length |-> length, spec |-> spec, arg |-> arg]

FlagLists ==
  LET F == {"0", "-", "+", " ", "#"} IN {<<>>} \union {<<f>> : f \in F} \union {<<"0", f>> : f \in F \ {"0"}} \union {<<"#", "-">>, <<" ", "+">>}
Widths == {<< <<>>, 0 >>, << <<"2">>, 0 >>, << <<"7">>, 0 >>, << <<"*">>, 4 >>, << <<"*">>, -4 >>}
Precs == {<< <<>>, 0 >>, << <<".">>, 0 >>, << <<".", "3">>, 0 >>, << <<".", "*">>, 2 >>, << <<".", "*">>, -1 >>}
Lengths == {<<>>, <<"h", "h">>, <<"l">>}

Integers1 ==
  {D(<<>>, f, w[1], w[2], p[1], p[2], l, s, a) :
     f \in FlagLists, w \in Widths, p \in Precs, l \in Lengths,
     s \in {"d", "u", "x", "X", "o", "b"}, a \in {0, 5, 16, 100, -1}}
Others1 ==
  {D(<<"a">>, f, w[1], w[2], p[1], p[2], <<>>, s, a) :
     f \in {<<>>, <<"-">>, <<"0">>}, w \in Widths, p \in Precs, s \in {"c", "s", "p", "%", "k"}, a \in {1, 2, 3}}
Long1 ==
  {D(<<"a">>, <<>>, <<>>, 0, p, 0, l, s, a) :
     p \in {<<>>, <<".", "2">>}, l \in {<<"h">>, <<"l", "l">>, <<"z">>, <<"t">>, <<"j">>}, s \in {"i", "x"}, a \in {16, -1}}

First == {D(<<>>, <<"-">>, <<"3">>, 0, <<>>, 0, <<>>, "d", 5), D(<<>>, <<"0">>, <<"3">>, 0, <<>>, 0, <<"h", "h">>, "u", 7),
          D(<<"a">>, <<>>, <<>>, 0, <<".", "2">>, 0, <<>>, "x", 5)}
Second == {D(<<>>, <<>>, <<>>, 0, <<>>, 0, <<>>, s, 3) : s \in {"d", "s", "u"}}

SomePrograms == {<<d>> : d \in Integers1 \union Others1 \union Long1} \union {<<d, e>> : d \in First, e \in Second}

Word(n) == <<D(<<>>, <<>>, <<>>, 0, <<>>, 0, <<>>, "s", n)>>
SomeMessages == {Word(1), Word(4), Word(5)}
ATick == Word(6)

SomeStrings == <<<<"p">>, <<"q", "r", "s">>, <<>>, <<"u", "v", "w", "x">>,
                 <<"a", "b", "c", "d", "e", "f", "g">>, <<"T">>>>
SomeStarts == {0, PRINTK_BUF_SIZE - 2}
SomeCharacters == <<"NUL", "y", "z">>
=============================================================================
