----------------------------- MODULE Induction -----------------------------
(***************************************************************************)
(* Induction over the natural numbers in the form the provers can use: for *)
(* a set, not for a predicate; and what it means to fold a sequence.       *)
(***************************************************************************)
EXTENDS Integers, FiniteSetsExt, WellFoundedInduction, TLAPS

\* A set of natural numbers that is not empty has a smallest element.
LEMMA SmallestElement ==
  ASSUME NEW T \in SUBSET Nat, T # {}
  PROVE  \E n \in T : \A m \in T : n <= m
  <1> DEFINE R == OpToRel(<, Nat)
  <1>1. IsWellFoundedOn(R, Nat) BY NatLessThanWellFounded
  <1> HIDE DEF R
  <1>2. PICK n \in T : \A m \in T : ~(<<m, n>> \in R) BY <1>1, WFMin
  <1>3. \A m \in T : m < n => <<m, n>> \in R BY DEF R, OpToRel
  <1>4. \A m \in T : ~(m < n) BY <1>2, <1>3, Zenon
  <1>5. \A m \in T : n <= m BY <1>4
  <1> QED BY <1>5

\* What holds at 0 and with every number also at its successor, up to n, holds
\* up to n.
LEMMA InductionUpTo ==
  ASSUME NEW n \in Nat, NEW S, 0 \in S, \A i \in 0 .. n - 1 : i \in S => i + 1 \in S
  PROVE  0 .. n \subseteq S
  <1> DEFINE T == (0 .. n) \ S
  <1> SUFFICES ASSUME T # {} PROVE FALSE OBVIOUS
  <1>0. T \in SUBSET Nat OBVIOUS
  <1> HIDE DEF T
  <1>1. PICK m \in T : \A k \in T : m <= k BY <1>0, SmallestElement
  <1>2. m - 1 \in 0 .. n - 1 /\ m - 1 \in S BY <1>1 DEF T
  <1> QED BY <1>1, <1>2 DEF T

\* f starts with a and goes on as the rule g says, up to n.
Follows(f, n, a, g) == f[0] = a /\ \A i \in 1 .. n : f[i] = g[i][f[i - 1]]

\* A value and a rule for the next one define a sequence of values.
LEMMA Recursion ==
  ASSUME NEW n \in Nat, NEW T, NEW a \in T, NEW g \in [1 .. n -> [T -> T]]
  PROVE  \E f \in [0 .. n -> T] : Follows(f, n, a, g)
  <1> DEFINE Ok(k, f) == f[0] = a /\ \A i \in 1 .. k : f[i] = g[i][f[i - 1]]
             S == {k \in 0 .. n : \E f \in [0 .. k -> T] : Ok(k, f)}
  <1>1. 0 \in S
    <2> DEFINE f == [i \in 0 .. 0 |-> a]
    <2>1. f \in [0 .. 0 -> T] /\ f[0] = a OBVIOUS
    <2> HIDE DEF f
    <2>2. 0 \in 0 .. n /\ \A i \in 1 .. 0 : FALSE OBVIOUS
    <2> QED BY <2>1, <2>2
  <1>2. ASSUME NEW k \in 0 .. n - 1, k \in S PROVE k + 1 \in S
    <2>1. PICK f \in [0 .. k -> T] : Ok(k, f) BY <1>2
    <2>2. k + 1 \in 1 .. n /\ k \in 0 .. k OBVIOUS
    <2> DEFINE x == g[k + 1][f[k]]
               h == [i \in 0 .. k + 1 |-> IF i = k + 1 THEN x ELSE f[i]]
    <2>3. x \in T BY <2>2
    <2>4. h[k + 1] = x /\ \A i \in 0 .. k : h[i] = f[i] OBVIOUS
    <2>5. h \in [0 .. k + 1 -> T] BY <2>3
    <2> HIDE DEF x, h
    <2>6. ASSUME NEW i \in 1 .. k + 1 PROVE h[i] = g[i][h[i - 1]]
      <3>1. CASE i = k + 1
        <4>1. i - 1 = k /\ h[k] = f[k] BY <2>2, <2>4, <3>1
        <4> QED BY <2>4, <3>1, <4>1 DEF x
      <3>2. CASE i # k + 1
        <4>1. i \in 1 .. k /\ i \in 0 .. k /\ i - 1 \in 0 .. k BY <3>2
        <4> QED BY <2>1, <2>4, <4>1
      <3> QED BY <3>1, <3>2
    <2>7. h[0] = a BY <2>1, <2>4
    <2>8. k + 1 \in 0 .. n BY <2>2
    <2> QED BY <2>5, <2>6, <2>7, <2>8
  <1> HIDE DEF S
  <1>3. 0 .. n \subseteq S BY <1>1, <1>2, InductionUpTo
  <1>4. n \in S BY <1>3
  <1> QED BY <1>4 DEF S, Follows

-----------------------------------------------------------------------------
(* Folding a sequence *)

LEMMA Largest ==
  ASSUME NEW n \in Nat, NEW S \in SUBSET (1 .. n), S # {}
  PROVE  Max(S) \in S /\ \A i \in S : i <= Max(S)
  <1> DEFINE D == {n - i : i \in S}
  <1>0. \A i \in S : i \in 1 .. n /\ n - i \in Nat OBVIOUS
  <1>1. D \in SUBSET Nat /\ D # {} BY <1>0
  <1>2. PICK d \in D : \A e \in D : d <= e BY <1>1, SmallestElement
  <1>3. PICK m \in S : d = n - m BY <1>2
  <1>4. ASSUME NEW i \in S PROVE m >= i
    <2>1. n - m <= n - i BY <1>2, <1>3
    <2> QED BY <1>0, <2>1
  <1>5. \E x \in S : \A y \in S : x >= y BY <1>4
  <1>6. Max(S) \in S /\ \A i \in S : Max(S) >= i BY <1>5 DEF Max
  <1> QED BY <1>6

\* h is what a fold computes: the elements of a set of indices, largest last.
Folds(h, n, a, g) ==
  \A s \in SUBSET (1 .. n) : h[s] = IF s = {} THEN a ELSE g[Max(s)][h[s \ {Max(s)}]]

\* The rule that applies g at the indices in s only
Restricted(n, T, g, s) == [i \in 1 .. n |-> IF i \in s THEN g[i] ELSE [x \in T |-> x]]

\* There is such a function.
LEMMA FoldExists ==
  ASSUME NEW n \in Nat, NEW T, NEW a \in T, NEW g \in [1 .. n -> [T -> T]]
  PROVE  \E h \in [SUBSET (1 .. n) -> T] : Folds(h, n, a, g)
  <1> DEFINE F(s) == CHOOSE f \in [0 .. n -> T] : Follows(f, n, a, Restricted(n, T, g, s))
             h == [s \in SUBSET (1 .. n) |-> F(s)[n]]
  <1>1. ASSUME NEW s \in SUBSET (1 .. n)
        PROVE  F(s) \in [0 .. n -> T] /\ Follows(F(s), n, a, Restricted(n, T, g, s))
    <2>1. Restricted(n, T, g, s) \in [1 .. n -> [T -> T]] BY DEF Restricted
    <2>2. \E f \in [0 .. n -> T] : Follows(f, n, a, Restricted(n, T, g, s)) BY <2>1, Recursion
    <2> QED BY <2>2
  <1> HIDE DEF F
  <1>2. ASSUME NEW s \in SUBSET (1 .. n)
        PROVE  /\ F(s)[0] = a
               /\ \A i \in 1 .. n : F(s)[i] = IF i \in s THEN g[i][F(s)[i - 1]] ELSE F(s)[i - 1]
    <2>1. F(s)[0] = a BY <1>1 DEF Follows
    <2>2. ASSUME NEW i \in 1 .. n PROVE F(s)[i] = IF i \in s THEN g[i][F(s)[i - 1]] ELSE F(s)[i - 1]
      <3>1. i - 1 \in 0 .. n /\ F(s)[i - 1] \in T BY <1>1
      <3>2. F(s)[i] = Restricted(n, T, g, s)[i][F(s)[i - 1]] BY <1>1 DEF Follows
      <3> QED BY <3>1, <3>2 DEF Restricted
    <2> QED BY <2>1, <2>2
  <1>3. ASSUME NEW s \in SUBSET (1 .. n), NEW r \in SUBSET (1 .. n), NEW k \in 0 .. n,
               \A i \in 1 .. k : i \in s <=> i \in r
        PROVE  F(s)[k] = F(r)[k]
    <2> DEFINE I == {i \in 0 .. n : i <= k => F(s)[i] = F(r)[i]}
    <2>1. 0 \in I BY <1>2
    <2>2. ASSUME NEW i \in 0 .. n - 1, i \in I PROVE i + 1 \in I
      <3>1. i + 1 \in 1 .. n /\ i + 1 \in 0 .. n /\ (i + 1) - 1 = i OBVIOUS
      <3>2. i + 1 <= k => i <= k /\ (i + 1 \in s <=> i + 1 \in r) BY <1>3
      <3>3. /\ F(s)[i + 1] = IF i + 1 \in s THEN g[i + 1][F(s)[i]] ELSE F(s)[i]
            /\ F(r)[i + 1] = IF i + 1 \in r THEN g[i + 1][F(r)[i]] ELSE F(r)[i]
        <4>1. /\ F(s)[i + 1] = IF i + 1 \in s THEN g[i + 1][F(s)[(i + 1) - 1]] ELSE F(s)[(i + 1) - 1]
              /\ F(r)[i + 1] = IF i + 1 \in r THEN g[i + 1][F(r)[(i + 1) - 1]] ELSE F(r)[(i + 1) - 1]
          BY <1>2, <3>1, Zenon
        <4> QED BY <3>1, <4>1
      <3> QED BY <2>2, <3>1, <3>2, <3>3
    <2> HIDE DEF I
    <2>3. 0 .. n \subseteq I BY <2>1, <2>2, InductionUpTo
    <2> QED BY <2>3 DEF I
  <1>4. ASSUME NEW s \in SUBSET (1 .. n), NEW k \in 0 .. n, \A i \in s : i <= k
        PROVE  F(s)[n] = F(s)[k]
    <2> DEFINE I == {i \in 0 .. n : i >= k => F(s)[i] = F(s)[k]}
    <2>1. 0 \in I OBVIOUS
    <2>2. ASSUME NEW i \in 0 .. n - 1, i \in I PROVE i + 1 \in I
      <3>1. i + 1 \in 1 .. n /\ i + 1 \in 0 .. n /\ (i + 1) - 1 = i OBVIOUS
      <3>2. F(s)[i + 1] = IF i + 1 \in s THEN g[i + 1][F(s)[i]] ELSE F(s)[i] BY <1>2, <3>1
      <3>3. CASE i + 1 <= k BY <3>1, <3>3
      <3>4. CASE i + 1 > k
        <4>1. i + 1 \notin s /\ i >= k BY <1>4, <3>4
        <4> QED BY <2>2, <3>1, <3>2, <4>1
      <3> QED BY <3>3, <3>4
    <2> HIDE DEF I
    <2>3. 0 .. n \subseteq I BY <2>1, <2>2, InductionUpTo
    <2>4. n \in I BY <2>3
    <2> QED BY <2>4 DEF I
  <1>5. h \in [SUBSET (1 .. n) -> T] /\ \A s \in SUBSET (1 .. n) : h[s] = F(s)[n]
    <2>1. \A s \in SUBSET (1 .. n) : F(s)[n] \in T BY <1>1
    <2> QED BY <2>1
  <1> HIDE DEF h
  <1>6. ASSUME NEW s \in SUBSET (1 .. n)
        PROVE  h[s] = IF s = {} THEN a ELSE g[Max(s)][h[s \ {Max(s)}]]
    <2>1. CASE s = {}
      <3>1. F(s)[n] = F(s)[0] BY <1>4, <2>1
      <3> QED BY <1>2, <1>5, <2>1, <3>1
    <2>2. CASE s # {}
      <3>1. PICK m \in s : m = Max(s) /\ \A i \in s : i <= m BY <2>2, Largest
      <3>2. PICK r \in SUBSET (1 .. n) : r = s \ {m} OBVIOUS
      <3>3. m \in 1 .. n /\ m \in 0 .. n /\ m - 1 \in 0 .. n OBVIOUS
      <3>4. F(s)[n] = F(s)[m] BY <1>4, <3>1, <3>3
      <3>5. F(s)[m] = g[m][F(s)[m - 1]] BY <1>2, <3>1, <3>3
      <3>6. F(r)[n] = F(r)[m - 1]
        <4>1. \A i \in r : i <= m - 1 BY <3>1, <3>2
        <4> QED BY <1>4, <3>3, <4>1
      <3>7. F(r)[m - 1] = F(s)[m - 1]
        <4>1. \A i \in 1 .. m - 1 : i \in r <=> i \in s BY <3>2
        <4> QED BY <1>3, <3>3, <4>1
      <3>8. h[s] = g[m][h[r]] BY <1>5, <3>4, <3>5, <3>6, <3>7
      <3> QED BY <2>2, <3>1, <3>2, <3>8
    <2> QED BY <2>1, <2>2
  <1> QED BY <1>5, <1>6 DEF Folds
=============================================================================
