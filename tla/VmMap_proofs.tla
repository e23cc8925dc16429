---------------------------- MODULE VmMap_proofs ----------------------------
(***************************************************************************)
(* Proofs about an address space, for every page size, every set of frames *)
(* and any number of areas.                                                *)
(***************************************************************************)
EXTENDS VmMap, Induction

-----------------------------------------------------------------------------
(* Rounding to pages *)

LEMMA Quotient ==
  ASSUME NEW a \in Nat, NEW n \in Nat \ {0}
  PROVE  /\ a \div n \in Nat /\ a % n \in 0 .. n - 1
         /\ a = n * (a \div n) + (a % n)
         /\ n * (a \div n) \in Nat
  OBVIOUS

LEMMA Multiple ==
  ASSUME NEW k \in Int, NEW n \in Nat \ {0}
  PROVE  n * k \in Int /\ (n * k) % n = 0 /\ (n * k) \div n = k
  OBVIOUS

LEMMA RoundUp ==
  ASSUME NEW a \in Nat
  PROVE  /\ ALIGN_UP(a) \in Nat /\ ALIGN_UP(a) % PAGE_SIZE = 0
         /\ a <= ALIGN_UP(a) /\ ALIGN_UP(a) < a + PAGE_SIZE
  <1> DEFINE k == (a + PAGE_SIZE - 1) \div PAGE_SIZE
  <1>1. PAGE_SIZE \in Nat \ {0} /\ a + PAGE_SIZE - 1 \in Nat BY VmAssumption
  <1>2. /\ k \in Nat /\ a + PAGE_SIZE - 1 = PAGE_SIZE * k + ((a + PAGE_SIZE - 1) % PAGE_SIZE)
        /\ (a + PAGE_SIZE - 1) % PAGE_SIZE \in 0 .. PAGE_SIZE - 1 /\ PAGE_SIZE * k \in Nat
    BY <1>1, Quotient
  <1>3. ALIGN_UP(a) = PAGE_SIZE * k BY <1>1, <1>2 DEF ALIGN_UP
  <1> HIDE DEF k
  <1>4. (PAGE_SIZE * k) % PAGE_SIZE = 0
    <2>1. k \in Int /\ PAGE_SIZE \in Nat \ {0} BY <1>1, <1>2
    <2> QED BY <2>1, Multiple
  <1> QED BY <1>1, <1>2, <1>3, <1>4

LEMMA RoundDown ==
  ASSUME NEW a \in Nat
  PROVE  /\ ALIGN_DOWN(a) \in Nat /\ ALIGN_DOWN(a) % PAGE_SIZE = 0
         /\ ALIGN_DOWN(a) <= a /\ a < ALIGN_DOWN(a) + PAGE_SIZE
  <1> DEFINE k == a \div PAGE_SIZE
  <1>1. PAGE_SIZE \in Nat \ {0} BY VmAssumption
  <1>2. /\ k \in Nat /\ a = PAGE_SIZE * k + (a % PAGE_SIZE)
        /\ a % PAGE_SIZE \in 0 .. PAGE_SIZE - 1 /\ PAGE_SIZE * k \in Nat
    BY <1>1, Quotient
  <1>3. ALIGN_DOWN(a) = PAGE_SIZE * k BY <1>1, <1>2 DEF ALIGN_DOWN
  <1> HIDE DEF k
  <1>4. (PAGE_SIZE * k) % PAGE_SIZE = 0
    <2>1. k \in Int /\ PAGE_SIZE \in Nat \ {0} BY <1>1, <1>2
    <2> QED BY <2>1, Multiple
  <1> QED BY <1>1, <1>2, <1>3, <1>4

\* Two whole pages apart
LEMMA Apart ==
  ASSUME NEW a \in Nat, NEW b \in Nat, a % PAGE_SIZE = 0, b % PAGE_SIZE = 0
  PROVE  /\ (a + b) % PAGE_SIZE = 0
         /\ a < b + PAGE_SIZE => a <= b
  <1> DEFINE i == a \div PAGE_SIZE
             j == b \div PAGE_SIZE
  <1>1. PAGE_SIZE \in Nat \ {0} BY VmAssumption
  <1>2. i \in Nat /\ j \in Nat /\ a = PAGE_SIZE * i /\ b = PAGE_SIZE * j BY <1>1, Quotient
  <1> HIDE DEF i, j
  <1>3. a + b = PAGE_SIZE * (i + j) BY <1>1, <1>2
  <1>4. (a + b) % PAGE_SIZE = 0 BY <1>1, <1>2, <1>3, Multiple
  <1>5. ASSUME a < b + PAGE_SIZE PROVE a <= b
    <2>1. b + PAGE_SIZE = PAGE_SIZE * (j + 1) BY <1>1, <1>2
    <2>2. i < j + 1
      <3> SUFFICES ASSUME i >= j + 1 PROVE FALSE BY <1>2
      <3>1. PAGE_SIZE * i >= PAGE_SIZE * (j + 1) BY <1>1, <1>2
      <3> QED BY <1>1, <1>2, <1>5, <2>1, <3>1
    <2>3. i <= j BY <1>2, <2>2
    <2> QED BY <1>1, <1>2, <2>3
  <1> QED BY <1>4, <1>5

-----------------------------------------------------------------------------
(* Sequences *)

LEMMA Inserted ==
  ASSUME NEW X, NEW s \in Seq(X), NEW k \in 1 .. Len(s) + 1, NEW e \in X
  PROVE  /\ InsertAt(s, k, e) \in Seq(X) /\ Len(InsertAt(s, k, e)) = Len(s) + 1
         /\ \A i \in 1 .. Len(s) + 1 :
              InsertAt(s, k, e)[i] = IF i < k THEN s[i] ELSE IF i = k THEN e ELSE s[i - 1]
  <1> DEFINE u == SubSeq(s, 1, k - 1)
             v == SubSeq(s, k, Len(s))
  <1>1. u \in Seq(X) /\ Len(u) = k - 1 /\ \A i \in 1 .. k - 1 : u[i] = s[i] OBVIOUS
  <1>2. v \in Seq(X) /\ Len(v) = Len(s) - k + 1 /\ \A i \in 1 .. Len(s) - k + 1 : v[i] = s[k + i - 1]
    OBVIOUS
  <1>3. InsertAt(s, k, e) = u \o <<e>> \o v BY DEF InsertAt
  <1> HIDE DEF u, v
  <1> DEFINE w == u \o <<e>>
  <1>4. /\ w \in Seq(X) /\ Len(w) = k
        /\ \A i \in 1 .. k : w[i] = IF i < k THEN s[i] ELSE e
    BY <1>1
  <1> HIDE DEF w
  <1> DEFINE z == w \o v
  <1>5. InsertAt(s, k, e) = z BY <1>3 DEF w
  <1>6. /\ z \in Seq(X) /\ Len(z) = Len(s) + 1
        /\ \A i \in 1 .. Len(s) + 1 : z[i] = IF i <= k THEN w[i] ELSE v[i - k]
    BY <1>2, <1>4
  <1> HIDE DEF z
  <1>7. ASSUME NEW i \in 1 .. Len(s) + 1
        PROVE  z[i] = IF i < k THEN s[i] ELSE IF i = k THEN e ELSE s[i - 1]
    <2>1. CASE i <= k BY <1>4, <1>6, <2>1
    <2>2. CASE i > k
      <3>1. i - k \in 1 .. Len(s) - k + 1 /\ k + (i - k) - 1 = i - 1 BY <2>2
      <3>2. z[i] = v[i - k] BY <1>6, <2>2
      <3>3. v[i - k] = s[i - 1] BY <1>2, <3>1
      <3>4. ~(i < k) /\ i # k BY <2>2
      <3> QED BY <3>2, <3>3, <3>4
    <2> QED BY <2>1, <2>2
  <1> QED BY <1>5, <1>6, <1>7

\* FlattenSeq appends the sequences one by one: f holds what it has after each.
Flattens(f, s) ==
  /\ f[0] = << >> /\ \A i \in 1 .. Len(s) : f[i] = f[i - 1] \o s[i]
  /\ FlattenSeq(s) = f[Len(s)]

LEMMA Flattened ==
  ASSUME NEW X, NEW s \in Seq(Seq(X))
  PROVE  \E f \in [0 .. Len(s) -> Seq(X)] : Flattens(f, s)
  <1> DEFINE n == Len(s)
             g == [i \in 1 .. n |-> [x \in Seq(X) |-> x \o s[i]]]
  <1>1. n \in Nat /\ \A i \in 1 .. n : s[i] \in Seq(X) OBVIOUS
  <1>2. \A i \in 1 .. n : \A x \in Seq(X) : x \o s[i] \in Seq(X) BY <1>1
  <1>3. g \in [1 .. n -> [Seq(X) -> Seq(X)]] /\ << >> \in Seq(X) BY <1>2
  <1>4. \A i \in 1 .. n : \A x \in Seq(X) : g[i][x] = x \o s[i] OBVIOUS
  <1> HIDE DEF n, g
  <1>5. PICK f \in [0 .. n -> Seq(X)] : f[0] = << >> /\ \A i \in 1 .. n : f[i] = g[i][f[i - 1]]
    <2> DEFINE T == Seq(X)
               a == << >>
    <2>1. a \in T /\ g \in [1 .. n -> [T -> T]] BY <1>3
    <2> HIDE DEF T, a
    <2>2. \E f \in [0 .. n -> T] : Follows(f, n, a, g) BY <1>1, <2>1, Recursion
    <2> QED BY <2>2 DEF T, a, Follows
  <1>6. \A i \in 1 .. n : i - 1 \in 0 .. n /\ i \in 0 .. n BY <1>1
  <1>7. \A i \in 1 .. n : f[i] = f[i - 1] \o s[i] BY <1>4, <1>5, <1>6
  <1>8. CASE n = 0
    <2>1. s = << >> /\ FlattenSeq(s) = s BY <1>8 DEF n, FlattenSeq
    <2>2. FlattenSeq(s) = f[n] BY <1>5, <1>8, <2>1
    <2> QED BY <1>5, <1>7, <2>2 DEF n, Flattens
  <1>9. CASE n # 0
    <2> DEFINE Eq(h) == h = [i \in 1 .. n |-> IF i = 1 THEN s[i] ELSE h[i - 1] \o s[i]]
               w == [i \in 1 .. n |-> f[i]]
               flatten == CHOOSE h : Eq(h)
    <2>1. FlattenSeq(s) = flatten[n] BY <1>9 DEF FlattenSeq, n
    <2>2. f[1] = s[1]
      <3>0. 1 \in 1 .. n /\ 1 - 1 = 0 BY <1>1, <1>9
      <3>1. f[1] = f[0] \o s[1] BY <1>7, <3>0
      <3>2. \A x \in Seq(X) : << >> \o x = x OBVIOUS
      <3> QED BY <1>1, <1>5, <3>0, <3>1, <3>2
    <2>3. Eq(w)
      <3> SUFFICES \A i \in 1 .. n : w[i] = IF i = 1 THEN s[i] ELSE w[i - 1] \o s[i]
        OBVIOUS
      <3> TAKE i \in 1 .. n
      <3>1. CASE i = 1 BY <2>2, <3>1
      <3>2. CASE i # 1
        <4>1. i - 1 \in 1 .. n /\ w[i - 1] = f[i - 1] BY <1>1, <3>2
        <4> QED BY <1>7, <3>2, <4>1
      <3> QED BY <3>1, <3>2
    <2> HIDE DEF w
    <2>4. Eq(flatten) BY <2>3
    <2> HIDE DEF flatten
    <2>5. \A i \in 1 .. n : flatten[i] = IF i = 1 THEN s[i] ELSE flatten[i - 1] \o s[i] BY <2>4
    <2> DEFINE I == {i \in 0 .. n : i # 0 => flatten[i] = f[i]}
    <2>6. 0 \in I BY <1>1
    <2>7. ASSUME NEW i \in 0 .. n - 1, i \in I PROVE i + 1 \in I
      <3>1. i + 1 \in 1 .. n /\ i + 1 \in 0 .. n /\ (i + 1) - 1 = i BY <1>1
      <3>2. f[i + 1] = f[i] \o s[i + 1] BY <1>7, <3>1
      <3>3. CASE i = 0 BY <2>2, <2>5, <3>1, <3>3
      <3>4. CASE i # 0
        <4>0. i + 1 # 1 BY <3>4
        <4>1. flatten[i + 1] = flatten[i] \o s[i + 1]
          <5>1. flatten[i + 1] = flatten[(i + 1) - 1] \o s[i + 1] BY <2>5, <3>1, <4>0
          <5> QED BY <3>1, <5>1
        <4> QED BY <2>7, <3>1, <3>2, <3>4, <4>1
      <3> QED BY <3>3, <3>4
    <2> HIDE DEF I
    <2>8. 0 .. n \subseteq I BY <1>1, <2>6, <2>7, InductionUpTo
    <2>9. flatten[n] = f[n] BY <1>1, <1>9, <2>8 DEF I
    <2> QED BY <1>5, <1>7, <2>1, <2>9 DEF n, Flattens
  <1> QED BY <1>8, <1>9

LEMMA Smallest ==
  ASSUME NEW T \in SUBSET Nat, T # {}
  PROVE  Min(T) \in T /\ \A m \in T : Min(T) <= m
  <1>1. \E n \in T : \A m \in T : n <= m BY SmallestElement
  <1> QED BY <1>1 DEF Min

-----------------------------------------------------------------------------
(* Lists of areas *)

AreaType == [start : Nat, end : Nat]

\* An area of whole pages inside the address space, not empty
Sound(v) == /\ v \in AreaType
            /\ v.start % PAGE_SIZE = 0 /\ v.end % PAGE_SIZE = 0
            /\ VM_ALLOC_BASE <= v.start /\ v.start < v.end /\ v.end <= Limit

\* Unlike AreasOrdered this compares every two areas, not only neighbours.
Ordered(s) ==
  /\ s \in Seq(AreaType)
  /\ \A i \in 1 .. Len(s) : Sound(s[i])
  /\ \A i, j \in 1 .. Len(s) : i < j => s[i].end <= s[j].start

\* Address a lies in an area of s.
Holds(s, a) == \E i \in 1 .. Len(s) : InArea(a, s[i])

LEMMA Lookup ==
  ASSUME NEW s \in Seq(AreaType)
  PROVE  DOMAIN s = 1 .. Len(s)
  OBVIOUS

LEMMA Fields == \A v \in AreaType : v.start \in Nat /\ v.end \in Nat
  BY DEF AreaType

LEMMA Transitive == \A x, y, z \in Nat : x <= y /\ y <= z => x <= z
  OBVIOUS

LEMMA OrderedEmpty == Ordered(<< >>) /\ \A a : ~Holds(<< >>, a)
  BY DEF Ordered, Holds

LEMMA Joined ==
  ASSUME NEW u, NEW v, Ordered(u), Ordered(v),
         \A i \in 1 .. Len(u), j \in 1 .. Len(v) : u[i].end <= v[j].start
  PROVE  Ordered(u \o v) /\ \A a : Holds(u \o v, a) <=> Holds(u, a) \/ Holds(v, a)
  <1> DEFINE w == u \o v
             m == Len(u)
             n == Len(v)
  <1>1. u \in Seq(AreaType) /\ v \in Seq(AreaType) /\ m \in Nat /\ n \in Nat BY DEF Ordered
  <1>2. /\ w \in Seq(AreaType) /\ Len(w) = m + n
        /\ \A i \in 1 .. m : w[i] = u[i]
        /\ \A i \in 1 .. n : w[m + i] = v[i]
    BY <1>1
  <1>3. \A i \in 1 .. m + n : i \in 1 .. m \/ (i - m \in 1 .. n /\ m + (i - m) = i)
    BY <1>1
  <1> HIDE DEF w
  <1>4. \A i \in 1 .. m + n : i \notin 1 .. m => w[i] = v[i - m] /\ i - m \in 1 .. n
    BY <1>2, <1>3
  <1>5. \A i \in 1 .. m + n : Sound(w[i]) BY <1>2, <1>3, <1>4 DEF Ordered
  <1>6. ASSUME NEW i \in 1 .. m + n, NEW j \in 1 .. m + n, i < j PROVE w[i].end <= w[j].start
    <2>1. CASE i \in 1 .. m /\ j \in 1 .. m BY <1>2, <1>6, <2>1 DEF Ordered
    <2>2. CASE i \in 1 .. m /\ j \notin 1 .. m BY <1>2, <1>4, <2>2
    <2>3. CASE i \notin 1 .. m /\ j \notin 1 .. m
      <3>1. i - m < j - m BY <1>1, <1>6
      <3>2. v[i - m].end <= v[j - m].start BY <1>4, <2>3, <3>1 DEF Ordered
      <3> QED BY <1>4, <2>3, <3>2
    <2>4. i \in 1 .. m \/ j \notin 1 .. m BY <1>1, <1>6
    <2> QED BY <2>1, <2>2, <2>3, <2>4
  <1>7. Ordered(w) BY <1>2, <1>5, <1>6 DEF Ordered
  <1>8. ASSUME NEW a PROVE Holds(w, a) <=> Holds(u, a) \/ Holds(v, a)
    <2>1. ASSUME Holds(w, a) PROVE Holds(u, a) \/ Holds(v, a)
      <3>1. PICK i \in 1 .. m + n : InArea(a, w[i]) BY <1>2, <2>1 DEF Holds
      <3>2. CASE i \in 1 .. m BY <1>2, <3>1, <3>2 DEF Holds
      <3>3. CASE i \notin 1 .. m BY <1>4, <3>1, <3>3 DEF Holds
      <3> QED BY <3>2, <3>3
    <2>2. ASSUME Holds(u, a) PROVE Holds(w, a)
      <3>1. PICK i \in 1 .. m : InArea(a, u[i]) BY <2>2 DEF Holds
      <3>2. i \in 1 .. m + n /\ w[i] = u[i] BY <1>1, <1>2
      <3> QED BY <1>2, <3>1, <3>2 DEF Holds
    <2>3. ASSUME Holds(v, a) PROVE Holds(w, a)
      <3>1. PICK i \in 1 .. n : InArea(a, v[i]) BY <2>3 DEF Holds
      <3>2. m + i \in 1 .. m + n /\ w[m + i] = v[i] BY <1>1, <1>2
      <3> QED BY <1>2, <3>1, <3>2 DEF Holds
    <2> QED BY <2>1, <2>2, <2>3
  <1> QED BY <1>7, <1>8 DEF w

\* Pieces of the areas, put one behind the other, are a list of areas again.
LEMMA JoinedPieces ==
  ASSUME NEW l, Ordered(l), NEW s \in Seq(Seq(AreaType)), Len(s) = Len(l),
         \A i \in 1 .. Len(l) :
           /\ Ordered(s[i])
           /\ \A j \in 1 .. Len(s[i]) : l[i].start <= s[i][j].start /\ s[i][j].end <= l[i].end
  PROVE  /\ Ordered(FlattenSeq(s))
         /\ \A a : Holds(FlattenSeq(s), a) <=> \E i \in 1 .. Len(l) : Holds(s[i], a)
  <1> DEFINE n == Len(l)
  <1>1. n \in Nat /\ l \in Seq(AreaType) BY DEF Ordered
  <1>2. PICK f \in [0 .. n -> Seq(AreaType)] :
          /\ f[0] = << >> /\ \A i \in 1 .. n : f[i] = f[i - 1] \o s[i]
          /\ FlattenSeq(s) = f[n]
    <2>1. \E f \in [0 .. Len(s) -> Seq(AreaType)] : Flattens(f, s) BY Flattened
    <2> QED BY <2>1 DEF Flattens
  <1> DEFINE Good(k) ==
               /\ Ordered(f[k])
               /\ k # 0 => \A j \in 1 .. Len(f[k]) : f[k][j].end <= l[k].end
               /\ \A a : Holds(f[k], a) <=> \E i \in 1 .. k : Holds(s[i], a)
             I == {k \in 0 .. n : Good(k)}
  <1>3. 0 \in I
    <2>1. 0 \in 0 .. n /\ \A i \in 1 .. 0 : FALSE BY <1>1
    <2>2. Ordered(f[0]) /\ \A a : ~Holds(f[0], a) BY <1>2, OrderedEmpty
    <2> QED BY <2>1, <2>2
  <1>4. ASSUME NEW k \in 0 .. n - 1, k \in I PROVE k + 1 \in I
    <2> DEFINE u == f[k]
               v == s[k + 1]
    <2>1. k + 1 \in 1 .. n /\ k + 1 \in 0 .. n /\ (k + 1) - 1 = k /\ k \in Nat /\ k + 1 # 0 BY <1>1
    <2>2. f[k + 1] = u \o v BY <1>2, <2>1
    <2>3. Ordered(u) BY <1>4
    <2>4. /\ Ordered(v)
          /\ \A j \in 1 .. Len(v) : l[k + 1].start <= v[j].start /\ v[j].end <= l[k + 1].end
      BY <2>1
    <2>5. u \in Seq(AreaType) /\ v \in Seq(AreaType) BY <2>3, <2>4 DEF Ordered
    <2>11. /\ k = 0 => u = << >>
           /\ k # 0 => \A j \in 1 .. Len(u) : u[j].end <= l[k].end
           /\ \A a : Holds(u, a) <=> \E i \in 1 .. k : Holds(s[i], a)
      BY <1>2, <1>4
    <2> HIDE DEF u, v
    <2>12. l[k + 1].start \in Nat /\ l[k + 1].end \in Nat /\ l[k + 1].start < l[k + 1].end
      BY <2>1, Fields DEF Ordered, Sound
    <2>6. \A j \in 1 .. Len(u) : u[j].end <= l[k + 1].start /\ u[j].end <= l[k + 1].end
      <3> TAKE j \in 1 .. Len(u)
      <3>1. k # 0
        <4> SUFFICES ASSUME k = 0 PROVE FALSE OBVIOUS
        <4>1. u = << >> BY <2>11
        <4>2. j \in 1 .. 0 BY <4>1
        <4> QED BY <4>2
      <3>2. k \in 1 .. n /\ k < k + 1 BY <2>1, <3>1
      <3>3. u[j].end <= l[k].end BY <2>11, <3>1
      <3>4. l[k].end <= l[k + 1].start BY <2>1, <3>2 DEF Ordered
      <3>5. l[k].end \in Nat /\ u[j].end \in Nat BY <1>1, <2>5, <3>2, Fields
      <3>6. u[j].end <= l[k + 1].start BY <2>12, <3>3, <3>4, <3>5, Transitive, Zenon
      <3> QED BY <2>12, <3>5, <3>6
    <2>7. \A i \in 1 .. Len(u), j \in 1 .. Len(v) : u[i].end <= v[j].start
      <3> TAKE i \in 1 .. Len(u), j \in 1 .. Len(v)
      <3>1. u[i].end \in Nat /\ v[j].start \in Nat BY <2>5, Fields
      <3>2. u[i].end <= l[k + 1].start /\ l[k + 1].start <= v[j].start BY <2>4, <2>6
      <3> QED BY <2>12, <3>1, <3>2, Transitive, Zenon
    <2>8. /\ Ordered(u \o v)
          /\ \A a : Holds(u \o v, a) <=> Holds(u, a) \/ Holds(v, a)
      BY <2>3, <2>4, <2>7, Joined
    <2>9. ASSUME NEW j \in 1 .. Len(u \o v) PROVE (u \o v)[j].end <= l[k + 1].end
      <3>1. CASE j \in 1 .. Len(u)
        <4>1. (u \o v)[j] = u[j] BY <2>5, <3>1
        <4> QED BY <2>6, <3>1, <4>1
      <3>2. CASE j \notin 1 .. Len(u)
        <4>1. j - Len(u) \in 1 .. Len(v) /\ (u \o v)[j] = v[j - Len(u)] BY <2>5, <3>2
        <4> QED BY <2>4, <4>1
      <3> QED BY <3>1, <3>2
    <2>10. ASSUME NEW a
           PROVE  Holds(u \o v, a) <=> \E i \in 1 .. k + 1 : Holds(s[i], a)
      <3>1. Holds(u, a) <=> \E i \in 1 .. k : Holds(s[i], a) BY <2>11
      <3>2. \A i \in 1 .. k + 1 : i \in 1 .. k \/ i = k + 1 BY <2>1
      <3>3. k + 1 \in 1 .. k + 1 /\ \A i \in 1 .. k : i \in 1 .. k + 1 BY <2>1
      <3> QED BY <2>8, <3>1, <3>2, <3>3 DEF v
    <2> QED BY <2>1, <2>2, <2>8, <2>9, <2>10
  <1> HIDE DEF I
  <1>5. 0 .. n \subseteq I BY <1>1, <1>3, <1>4, InductionUpTo
  <1>6. n \in I BY <1>1, <1>5
  <1> QED BY <1>2, <1>6 DEF I

\* insert_vma keeps the order, and adds the new area and nothing else.
LEMMA InsertKeeps ==
  ASSUME Ordered(areas), NEW start \in Nat, NEW size \in Nat,
         Sound(Area(start, start + size)), ~vma_overlaps(start, size)
  PROVE  /\ Ordered(insert_vma(Area(start, start + size)))
         /\ \A a : Holds(insert_vma(Area(start, start + size)), a) <=>
                     Holds(areas, a) \/ InArea(a, Area(start, start + size))
  <1> DEFINE new == Area(start, start + size)
             n == Len(areas)
             stops == {i \in DOMAIN areas : areas[i].start >= new.start} \cup {n + 1}
             k == Min(stops)
             z == InsertAt(areas, k, new)
  <1>1. areas \in Seq(AreaType) /\ n \in Nat /\ DOMAIN areas = 1 .. n BY DEF Ordered
  <1>2. new \in AreaType /\ new.start = start /\ new.end = start + size BY DEF Area, AreaType
  <1>3. insert_vma(new) = z BY DEF insert_vma
  <1>4. k \in stops /\ \A i \in stops : k <= i
    <2>1. stops \in SUBSET Nat /\ stops # {} BY <1>1
    <2> HIDE DEF stops
    <2> QED BY <2>1, Smallest
  <1>5. k \in 1 .. n + 1 /\ \A i \in 1 .. n : areas[i].start >= start => k <= i
    BY <1>1, <1>2, <1>4
  <1>6. k \in 1 .. n => areas[k].start >= start BY <1>1, <1>2, <1>4
  <1> HIDE DEF k
  <1>7. /\ z \in Seq(AreaType) /\ Len(z) = n + 1
        /\ \A i \in 1 .. n + 1 : z[i] = IF i < k THEN areas[i] ELSE IF i = k THEN new ELSE areas[i - 1]
    <2>1. areas \in Seq(AreaType) /\ k \in 1 .. Len(areas) + 1 /\ new \in AreaType BY <1>1, <1>2, <1>5
    <2> HIDE DEF new, n, z
    <2>2. /\ InsertAt(areas, k, new) \in Seq(AreaType) /\ Len(InsertAt(areas, k, new)) = Len(areas) + 1
          /\ \A i \in 1 .. Len(areas) + 1 : InsertAt(areas, k, new)[i] =
               IF i < k THEN areas[i] ELSE IF i = k THEN new ELSE areas[i - 1]
      BY <2>1, Inserted
    <2>3. z = InsertAt(areas, k, new) /\ n = Len(areas) BY DEF z, n
    <2> QED BY <2>2, <2>3
  <1> HIDE DEF z, new
  <1>8. \A i \in 1 .. n : /\ areas[i].start \in Nat /\ areas[i].end \in Nat
                          /\ areas[i].start < areas[i].end
                          /\ areas[i].end <= start \/ start + size <= areas[i].start
    <2> TAKE i \in 1 .. n
    <2>1. areas[i].start \in Nat /\ areas[i].end \in Nat BY <1>1, Fields
    <2>2. areas[i].start < areas[i].end BY DEF Ordered, Sound
    <2>3. ~(start < areas[i].end /\ start + size > areas[i].start)
      BY <1>1 DEF vma_overlaps, Overlap
    <2> QED BY <2>1, <2>2, <2>3
  <1>9. start < start + size BY <1>2 DEF Sound, new
  <1>10. \A i \in 1 .. n : i < k => areas[i].end <= start
    <2> TAKE i \in 1 .. n
    <2> HAVE i < k
    <2>1. areas[i].start < start BY <1>1, <1>5, <1>8
    <2> QED BY <1>8, <1>9, <2>1
  <1>11. \A i \in 1 .. n : k <= i => start + size <= areas[i].start
    <2> TAKE i \in 1 .. n
    <2> HAVE k <= i
    <2>1. k \in 1 .. n BY <1>1, <1>5
    <2>2. areas[k].start <= areas[i].start
      <3>1. CASE i = k BY <1>8, <3>1
      <3>2. CASE i # k
        <4>1. areas[k].end <= areas[i].start BY <2>1, <3>2, <1>5 DEF Ordered
        <4> QED BY <1>8, <2>1, <4>1
      <3> QED BY <3>1, <3>2
    <2>3. start <= areas[i].start BY <1>6, <1>8, <2>1, <2>2
    <2> QED BY <1>8, <1>9, <2>3
  <1>12. \A i \in 1 .. n + 1 : /\ i < k => i \in 1 .. n
                               /\ i > k => i - 1 \in 1 .. n /\ k <= i - 1
                               /\ i < k \/ i = k \/ i > k
    BY <1>1, <1>5
  <1>13. \A i \in 1 .. n + 1 : /\ i < k => z[i] = areas[i]
                               /\ i = k => z[i] = new
                               /\ i > k => z[i] = areas[i - 1]
    BY <1>1, <1>5, <1>7
  <1>14. \A i \in 1 .. n + 1 : Sound(z[i]) BY <1>12, <1>13 DEF Ordered, new
  <1>15. ASSUME NEW i \in 1 .. n + 1, NEW j \in 1 .. n + 1, i < j
         PROVE  z[i].end <= z[j].start
    <2>1. CASE j < k
      <3>1. i < k /\ z[i] = areas[i] /\ z[j] = areas[j] BY <1>1, <1>5, <1>13, <1>15, <2>1
      <3> QED BY <1>12, <1>15, <2>1, <3>1 DEF Ordered
    <2>2. CASE i < k /\ j = k BY <1>2, <1>10, <1>12, <1>13, <2>2
    <2>3. CASE i < k /\ j > k
      <3>1. areas[i].end <= start /\ start + size <= areas[j - 1].start BY <1>10, <1>11, <1>12, <2>3
      <3>2. areas[i].end \in Nat /\ areas[j - 1].start \in Nat BY <1>8, <1>12, <2>3
      <3>3. areas[i].end <= areas[j - 1].start BY <1>9, <3>1, <3>2
      <3> QED BY <1>13, <2>3, <3>3
    <2>4. CASE i = k
      <3>1. j > k BY <1>5, <1>15, <2>4
      <3> QED BY <1>2, <1>11, <1>12, <1>13, <2>4, <3>1
    <2>5. CASE i > k
      <3>1. j > k /\ i - 1 < j - 1 BY <1>1, <1>5, <1>15, <2>5
      <3>2. areas[i - 1].end <= areas[j - 1].start BY <1>12, <2>5, <3>1 DEF Ordered
      <3> QED BY <1>13, <2>5, <3>1, <3>2
    <2>6. j < k \/ j = k \/ j > k BY <1>12
    <2> QED BY <1>5, <1>12, <1>15, <2>1, <2>2, <2>3, <2>4, <2>5, <2>6
  <1>16. Ordered(z) BY <1>7, <1>14, <1>15 DEF Ordered
  <1>17. ASSUME NEW a PROVE Holds(z, a) <=> Holds(areas, a) \/ InArea(a, new)
    <2>1. ASSUME Holds(z, a) PROVE Holds(areas, a) \/ InArea(a, new)
      <3>1. PICK i \in 1 .. n + 1 : InArea(a, z[i]) BY <1>7, <2>1 DEF Holds
      <3> QED BY <1>12, <1>13, <3>1 DEF Holds
    <2>2. ASSUME InArea(a, new) PROVE Holds(z, a) BY <1>5, <1>7, <1>13, <2>2 DEF Holds
    <2>3. ASSUME Holds(areas, a) PROVE Holds(z, a)
      <3>1. PICK i \in 1 .. n : InArea(a, areas[i]) BY <2>3 DEF Holds
      <3>2. CASE i < k
        <4>1. i \in 1 .. n + 1 /\ z[i] = areas[i] BY <1>1, <1>13, <3>2
        <4> QED BY <1>7, <3>1, <4>1 DEF Holds
      <3>3. CASE k <= i
        <4>1. i + 1 \in 1 .. n + 1 /\ i + 1 > k /\ (i + 1) - 1 = i BY <1>1, <1>5, <3>3
        <4>2. z[i + 1] = areas[i] BY <1>13, <4>1
        <4> QED BY <1>7, <3>1, <4>1, <4>2 DEF Holds
      <3> QED BY <1>1, <1>5, <3>2, <3>3
    <2> QED BY <2>1, <2>2, <2>3
  <1> QED BY <1>3, <1>16, <1>17 DEF new

\* What is left of one area after [start, end) was taken out of it
LEMMA PiecesLeft ==
  ASSUME NEW v, Sound(v), NEW start \in Nat, NEW end \in Nat, start < end,
         start % PAGE_SIZE = 0, end % PAGE_SIZE = 0, NEW tail \in BOOLEAN
  PROVE  LET s == Pieces(v, start, end, tail)
         IN /\ Ordered(s)
            /\ \A j \in 1 .. Len(s) : v.start <= s[j].start /\ s[j].end <= v.end
            /\ \A a \in Nat : Holds(s, a) <=>
                 /\ InArea(a, v) /\ ~(start <= a /\ a < end)
                 /\ tail \/ ~(v.start < start /\ v.end > end /\ a >= end)
  <1> DEFINE Left(s) ==
               /\ Ordered(s)
               /\ \A j \in 1 .. Len(s) : v.start <= s[j].start /\ s[j].end <= v.end
               /\ \A a \in Nat : Holds(s, a) <=>
                    /\ InArea(a, v) /\ ~(start <= a /\ a < end)
                    /\ tail \/ ~(v.start < start /\ v.end > end /\ a >= end)
  <1>1. v \in AreaType /\ v.start \in Nat /\ v.end \in Nat /\ v.start < v.end BY Fields DEF Sound
  <1>2. \A x : Sound(x) => /\ Ordered(<<x>>) /\ \A a : Holds(<<x>>, a) <=> InArea(a, x)
                           /\ \A j \in 1 .. Len(<<x>>) : <<x>>[j] = x
    BY DEF Ordered, Holds, Sound
  <1>3. \A s, e \in Nat : /\ Area(s, e).start = s /\ Area(s, e).end = e
                          /\ \A a : InArea(a, Area(s, e)) <=> s <= a /\ a < e
                          /\ Area(s, e) \in AreaType
    BY DEF Area, InArea, AreaType
  <1> DEFINE head == Area(v.start, start)
             rest == Area(end, v.end)
  <1>4. v.start < start /\ start < v.end => Sound(head) BY <1>1, <1>3, VmAssumption DEF Sound
  <1>5. v.start < end /\ end < v.end => Sound(rest)
    <2>1. /\ VM_ALLOC_BASE <= v.start /\ v.end <= Limit /\ v.end % PAGE_SIZE = 0
          /\ VM_ALLOC_BASE \in Nat
      BY VmAssumption DEF Sound
    <2>2. rest.start = end /\ rest.end = v.end /\ rest \in AreaType BY <1>1, <1>3
    <2> HIDE DEF rest
    <2>3. v.start < end => VM_ALLOC_BASE <= end BY <1>1, <2>1
    <2> QED BY <2>1, <2>2, <2>3 DEF Sound
  <1>6. CASE v.end <= start \/ v.start >= end
    <2>1. Pieces(v, start, end, tail) = <<v>> BY <1>1, <1>6 DEF Pieces
    <2>2. Left(<<v>>) BY <1>1, <1>2, <1>6 DEF InArea
    <2> QED BY <2>1, <2>2
  <1>7. CASE v.start >= start /\ v.end <= end
    <2>1. Pieces(v, start, end, tail) = << >> BY <1>1, <1>7 DEF Pieces
    <2>2. Left(<< >>) BY <1>1, <1>7, OrderedEmpty DEF InArea
    <2> QED BY <2>1, <2>2
  <1>8. CASE v.start < start /\ v.end > end /\ ~tail
    <2>1. Pieces(v, start, end, tail) = <<head>> BY <1>1, <1>8 DEF Pieces
    <2>2. Left(<<head>>) BY <1>1, <1>2, <1>3, <1>4, <1>8 DEF InArea
    <2> QED BY <2>1, <2>2
  <1>9. CASE v.start < start /\ v.end > end /\ tail
    <2>1. Pieces(v, start, end, tail) = <<head>> \o <<rest>> BY <1>1, <1>9 DEF Pieces
    <2>2. Sound(head) /\ Sound(rest) BY <1>1, <1>4, <1>5, <1>9
    <2>3. /\ head.start = v.start /\ head.end = start /\ rest.start = end /\ rest.end = v.end
          /\ \A a : InArea(a, head) <=> v.start <= a /\ a < start
          /\ \A a : InArea(a, rest) <=> end <= a /\ a < v.end
      BY <1>1, <1>3
    <2> HIDE DEF head, rest
    <2>4. \A i \in 1 .. Len(<<head>>), j \in 1 .. Len(<<rest>>) :
            <<head>>[i].end <= <<rest>>[j].start
      BY <1>2, <2>2, <2>3
    <2>5. /\ Ordered(<<head>> \o <<rest>>)
          /\ \A a : Holds(<<head>> \o <<rest>>, a) <=> Holds(<<head>>, a) \/ Holds(<<rest>>, a)
      <3> DEFINE x == <<head>>
                 y == <<rest>>
      <3>1. Ordered(x) /\ Ordered(y) BY <1>2, <2>2
      <3>2. \A i \in 1 .. Len(x), j \in 1 .. Len(y) : x[i].end <= y[j].start BY <2>4
      <3> HIDE DEF x, y
      <3>3. Ordered(x \o y) /\ \A a : Holds(x \o y, a) <=> Holds(x, a) \/ Holds(y, a)
        BY <3>1, <3>2, Joined
      <3> QED BY <3>3 DEF x, y
    <2> DEFINE z == <<head>> \o <<rest>>
    <2>6. Len(z) = 2 /\ z[1] = head /\ z[2] = rest OBVIOUS
    <2>7. \A a : Holds(z, a) <=> InArea(a, head) \/ InArea(a, rest) BY <1>2, <2>2, <2>5
    <2> HIDE DEF z
    <2>8. \A j \in 1 .. Len(z) : v.start <= z[j].start /\ z[j].end <= v.end
      <3>1. \A j \in 1 .. Len(z) : z[j] = head \/ z[j] = rest BY <2>6
      <3>2. v.start <= head.start /\ head.end <= v.end BY <1>1, <1>9, <2>3
      <3>3. v.start <= rest.start /\ rest.end <= v.end BY <1>1, <1>9, <2>3
      <3> QED BY <3>1, <3>2, <3>3
    <2>9. ASSUME NEW a \in Nat
          PROVE  Holds(z, a) <=> InArea(a, v) /\ ~(start <= a /\ a < end)
      BY <1>1, <1>9, <2>3, <2>7 DEF InArea
    <2>10. Left(z) BY <1>9, <2>5, <2>8, <2>9 DEF z
    <2> QED BY <2>1, <2>10 DEF z
  <1>10. CASE v.start < start /\ start < v.end /\ v.end <= end
    <2>1. Pieces(v, start, end, tail) = <<head>> BY <1>1, <1>10 DEF Pieces
    <2>2. Left(<<head>>) BY <1>1, <1>2, <1>3, <1>4, <1>10 DEF InArea
    <2> QED BY <2>1, <2>2
  <1>11. CASE v.start >= start /\ v.start < end /\ v.end > end
    <2>1. Pieces(v, start, end, tail) = <<rest>> BY <1>1, <1>11 DEF Pieces
    <2>2. Left(<<rest>>) BY <1>1, <1>2, <1>3, <1>5, <1>11 DEF InArea
    <2> QED BY <2>1, <2>2
  <1> QED BY <1>1, <1>6, <1>7, <1>8, <1>9, <1>10, <1>11

\* The candidate of vm_map_allocate is a page, and at every lower address the
\* range would overlap an area.
LEMMA FirstFit ==
  ASSUME Ordered(areas), NEW size \in Nat
  PROVE  /\ Candidate(size) \in Nat /\ VM_ALLOC_BASE <= Candidate(size)
         /\ Candidate(size) % PAGE_SIZE = 0
         /\ \A d \in Nat : VM_ALLOC_BASE <= d /\ d < Candidate(size) =>
              \E i \in 1 .. Len(areas) : Overlap(areas[i], d, d + size)
  <1> DEFINE n == Len(areas)
             Eq(f) == f = [i \in 0 .. n |->
                             IF i = 0 THEN VM_ALLOC_BASE
                             ELSE IF areas[i].end > f[i - 1] THEN areas[i].end ELSE f[i - 1]]
             b == [i \in 0 .. n |-> IF i = 0 THEN VM_ALLOC_BASE ELSE areas[i].end]
             behind == CHOOSE f : Eq(f)
             Stops(f) == {i \in 1 .. n : areas[i].start >= f[i - 1] + size}
  <1>1. /\ areas \in Seq(AreaType) /\ n \in Nat
        /\ VM_ALLOC_BASE \in Nat /\ VM_ALLOC_BASE % PAGE_SIZE = 0
    BY VmAssumption DEF Ordered
  <1>2. \A i \in 1 .. n : /\ areas[i].start \in Nat /\ areas[i].end \in Nat
                          /\ areas[i].start < areas[i].end /\ VM_ALLOC_BASE <= areas[i].start
                          /\ areas[i].end % PAGE_SIZE = 0
    BY <1>1, Fields DEF Ordered, Sound
  <1>3. /\ b[0] = VM_ALLOC_BASE /\ \A i \in 1 .. n : b[i] = areas[i].end
        /\ b \in [0 .. n -> Nat]
    BY <1>1, <1>2
  <1> HIDE DEF b
  <1>4. \A i \in 1 .. n : i - 1 \in 0 .. n /\ b[i - 1] \in Nat /\ areas[i].end > b[i - 1]
    <2> TAKE i \in 1 .. n
    <2>1. i - 1 \in 0 .. n BY <1>1
    <2>2. CASE i = 1 BY <1>1, <1>2, <1>3, <2>2
    <2>3. CASE i # 1
      <3>1. i - 1 \in 1 .. n /\ i - 1 < i BY <1>1, <2>3
      <3>2. areas[i - 1].end <= areas[i].start BY <3>1 DEF Ordered
      <3>3. b[i - 1] = areas[i - 1].end BY <1>3, <3>1
      <3> QED BY <1>2, <2>1, <3>1, <3>2, <3>3
    <2> QED BY <2>2, <2>3
  <1>5. Eq(b)
    <2>1. \A i \in 0 .. n : b[i] = IF i = 0 THEN VM_ALLOC_BASE
                                   ELSE IF areas[i].end > b[i - 1] THEN areas[i].end ELSE b[i - 1]
      <3> TAKE i \in 0 .. n
      <3>1. CASE i = 0 BY <1>3, <3>1
      <3>2. CASE i # 0
        <4>1. i \in 1 .. n BY <1>1, <3>2
        <4> QED BY <1>3, <1>4, <3>2, <4>1
      <3> QED BY <3>1, <3>2
    <2> QED BY <1>3, <2>1
  <1>6. Eq(behind) BY <1>5
  <1>7. behind = b
    <2> HIDE DEF behind
    <2>1. \A i \in 0 .. n : behind[i] = IF i = 0 THEN VM_ALLOC_BASE
                                        ELSE IF areas[i].end > behind[i - 1] THEN areas[i].end
                                        ELSE behind[i - 1]
      BY <1>6
    <2> DEFINE I == {i \in 0 .. n : behind[i] = b[i]}
    <2>2. 0 \in I BY <1>1, <1>3, <2>1
    <2>3. ASSUME NEW i \in 0 .. n - 1, i \in I PROVE i + 1 \in I
      <3>1. i + 1 \in 1 .. n /\ i + 1 \in 0 .. n /\ (i + 1) - 1 = i /\ i + 1 # 0 BY <1>1
      <3>2. behind[i] = b[i] /\ areas[i + 1].end > b[i] /\ b[i + 1] = areas[i + 1].end
        BY <1>3, <1>4, <2>3, <3>1
      <3>3. behind[i + 1] = IF areas[i + 1].end > behind[(i + 1) - 1] THEN areas[i + 1].end
                            ELSE behind[(i + 1) - 1]
        BY <2>1, <3>1
      <3> QED BY <3>1, <3>2, <3>3
    <2> HIDE DEF I
    <2>4. 0 .. n \subseteq I BY <1>1, <2>2, <2>3, InductionUpTo
    <2>5. \A i \in 0 .. n : behind[i] = b[i] BY <2>4 DEF I
    <2>6. behind \in [0 .. n -> Nat]
      <3>1. behind = [i \in 0 .. n |-> IF i = 0 THEN VM_ALLOC_BASE
                                       ELSE IF areas[i].end > behind[i - 1] THEN areas[i].end
                                       ELSE behind[i - 1]]
        BY <1>6
      <3>2. DOMAIN behind = 0 .. n BY <3>1
      <3> QED BY <1>3, <2>5, <3>1, <3>2
    <2> QED BY <1>3, <2>5, <2>6
  <1>8. Candidate(size) = IF Stops(behind) = {} THEN behind[n] ELSE behind[Min(Stops(behind)) - 1]
    BY DEF Candidate
  <1> HIDE DEF behind
  <1>9. PICK k \in 0 .. n : /\ Candidate(size) = b[k]
                            /\ \A i \in 1 .. k : areas[i].start < b[i - 1] + size
    <2> DEFINE S == Stops(b)
    <2>1. Candidate(size) = IF S = {} THEN b[n] ELSE b[Min(S) - 1] BY <1>7, <1>8
    <2>2. S \in SUBSET Nat BY <1>1
    <2>3. \A i \in 1 .. n : i \notin S => areas[i].start < b[i - 1] + size BY <1>2, <1>4
    <2>4. CASE S = {}
      <3>1. n \in 0 .. n BY <1>1
      <3> QED BY <2>1, <2>3, <2>4, <3>1
    <2>5. CASE S # {}
      <3>1. S \subseteq 1 .. n OBVIOUS
      <3> HIDE DEF S
      <3>2. Min(S) \in S /\ \A m \in S : Min(S) <= m BY <2>2, <2>5, Smallest
      <3>3. Min(S) - 1 \in 0 .. n /\ \A i \in 1 .. Min(S) - 1 : i \in 1 .. n /\ i \notin S
        <4>1. PICK m \in S : m = Min(S) /\ \A i \in S : m <= i BY <3>2
        <4>2. m \in 1 .. n BY <3>1
        <4>3. m - 1 \in 0 .. n /\ \A i \in 1 .. m - 1 : i \in 1 .. n /\ ~(m <= i) BY <1>1, <4>2
        <4> QED BY <4>1, <4>3
      <3> QED BY <2>1, <2>3, <2>5, <3>3
    <2> QED BY <2>4, <2>5
  <1>10. b[k] \in Nat /\ VM_ALLOC_BASE <= b[k] /\ b[k] % PAGE_SIZE = 0
    <2>1. CASE k = 0 BY <1>1, <1>3, <2>1
    <2>2. CASE k # 0
      <3>1. k \in 1 .. n BY <2>2
      <3>2. b[k] = areas[k].end BY <1>3, <3>1
      <3> QED BY <1>1, <1>2, <3>1, <3>2
    <2> QED BY <2>1, <2>2
  <1>11. ASSUME NEW d \in Nat, VM_ALLOC_BASE <= d, d < b[k]
         PROVE  \E i \in 1 .. n : Overlap(areas[i], d, d + size)
    <2> DEFINE T == {i \in 1 .. k : d < areas[i].end}
    <2>1. k \in T
      <3>1. k # 0 BY <1>1, <1>3, <1>11
      <3>2. k \in 1 .. n /\ k \in 1 .. k BY <3>1
      <3> QED BY <1>3, <1>11, <3>2
    <2>2. T \in SUBSET Nat /\ T \subseteq 1 .. k /\ \A i \in 1 .. k : i \notin T => ~(d < areas[i].end)
      OBVIOUS
    <2>3. \A i \in T : d < areas[i].end OBVIOUS
    <2> HIDE DEF T
    <2>4. PICK m \in T : \A i \in T : m <= i BY <2>1, <2>2, SmallestElement
    <2>5. m \in 1 .. k /\ m \in 1 .. n BY <1>1, <2>2
    <2>6. b[m - 1] <= d
      <3>1. CASE m = 1 BY <1>3, <1>11, <3>1
      <3>2. CASE m # 1
        <4>1. m - 1 \in 1 .. k /\ m - 1 \in 1 .. n /\ m - 1 \notin T BY <2>4, <2>5, <3>2
        <4>2. b[m - 1] = areas[m - 1].end /\ areas[m - 1].end \in Nat BY <1>2, <1>3, <4>1
        <4> QED BY <2>2, <4>1, <4>2
      <3> QED BY <3>1, <3>2
    <2>7. areas[m].start < d + size
      <3>1. areas[m].start < b[m - 1] + size /\ b[m - 1] \in Nat BY <1>4, <1>9, <2>5
      <3> QED BY <1>2, <2>5, <2>6, <3>1
    <2>8. Overlap(areas[m], d, d + size) BY <1>2, <2>3, <2>5, <2>7 DEF Overlap
    <2> QED BY <2>5, <2>8
  <1> QED BY <1>9, <1>10, <1>11

-----------------------------------------------------------------------------
(* The inductive invariant *)

FrameInv ==
  /\ pt = [a \in PageAddrs |-> pt[a]] /\ ident \subseteq PageAddrs
  /\ NoFrame \notin free /\ HugePage \notin free /\ lost \subseteq Frames
  /\ \A a \in Own : pt[a] # HugePage
  /\ \A a \in ident : pt[a] # NoFrame
  /\ FramesConserved
  /\ space \in {"none", "user"} => ident = {}
  /\ space = "none" => \A a \in PageAddrs : pt[a] = NoFrame

IInv == Ordered(areas) /\ MappedInAreas /\ FrameInv

LEMMA Pages == \A a : a \in PageAddrs <=>
  a \in Nat /\ VM_ALLOC_BASE <= a /\ a < Limit /\ a % PAGE_SIZE = 0
  BY VmAssumption DEF PageAddrs

\* vm_map_lookup in the words of the lemmas above
LEMMA LookupHolds ==
  ASSUME NEW s, Ordered(s), NEW a
  PROVE  (\E i \in DOMAIN s : InArea(a, s[i])) <=> Holds(s, a)
  BY Lookup DEF Ordered, Holds

\* A range of whole pages is what a caller of Enter passes.
LEMMA RangeSound ==
  ASSUME NEW start \in Nat, start % PAGE_SIZE = 0, VM_ALLOC_BASE <= start,
         NEW asked \in Nat \ {0}, start + ALIGN_UP(asked) <= Limit
  PROVE  /\ ALIGN_UP(asked) \in Nat \ {0} /\ ALIGN_UP(asked) % PAGE_SIZE = 0
         /\ start < start + ALIGN_UP(asked) /\ (start + ALIGN_UP(asked)) % PAGE_SIZE = 0
         /\ Sound(Area(start, start + ALIGN_UP(asked)))
  <1>1. /\ ALIGN_UP(asked) \in Nat /\ ALIGN_UP(asked) % PAGE_SIZE = 0
        /\ asked <= ALIGN_UP(asked)
    BY RoundUp
  <1>2. ALIGN_UP(asked) # 0 BY <1>1
  <1>3. (start + ALIGN_UP(asked)) % PAGE_SIZE = 0 BY <1>1, Apart
  <1> QED BY <1>1, <1>2, <1>3 DEF Sound, Area, AreaType

LEMMA EnterStep ==
  ASSUME Ordered(areas), NEW start \in Nat, NEW size \in Nat,
         Sound(Area(start, start + size)), Enter(start, size)
  PROVE  /\ Ordered(areas)'
         /\ \A a : vm_map_lookup(a) => vm_map_lookup(a)'
         /\ areas' # areas => \A a : vm_map_lookup(a)' <=>
                                      vm_map_lookup(a) \/ InArea(a, Area(start, start + size))
  <1>1. CASE UNCHANGED areas BY <1>1 DEF Ordered, vm_map_lookup
  <1>2. CASE ~vma_overlaps(start, size) /\ areas' = insert_vma(Area(start, start + size))
    <2>1. /\ Ordered(areas')
          /\ \A a : Holds(areas', a) <=> Holds(areas, a) \/ InArea(a, Area(start, start + size))
      BY <1>2, InsertKeeps
    <2>2. \A a : vm_map_lookup(a) <=> Holds(areas, a) BY LookupHolds DEF vm_map_lookup
    <2>3. \A a : vm_map_lookup(a)' <=> Holds(areas', a) BY <2>1, LookupHolds DEF vm_map_lookup
    <2> QED BY <2>1, <2>2, <2>3
  <1> QED BY <1>1, <1>2 DEF Enter

\* More addresses in areas, nothing else changed
LEMMA MoreAreas ==
  ASSUME IInv, Ordered(areas)', \A a : vm_map_lookup(a) => vm_map_lookup(a)',
         UNCHANGED <<space, pt, free, dropped, lost, ident, stray>>
  PROVE  IInv'
  <1>1. MappedInAreas' BY DEF IInv, MappedInAreas
  <1>2. FrameInv' BY DEF IInv, FrameInv, FramesConserved, FramesAt, Own, Kept
  <1> QED BY <1>1, <1>2 DEF IInv

\* Frames go back to the manager as their pages are unmapped; those that went
\* through the identity map are stray.
LEMMA UnmapStep ==
  ASSUME FrameInv, NEW S, Unmap(S), Up, UNCHANGED <<space, lost>>,
         ident' = ident \ Cleared(S), stray' = stray \cup FramesAt(S \cap ident)
  PROVE  FrameInv'
  <1>1. /\ pt = [a \in PageAddrs |-> pt[a]] /\ ident \subseteq PageAddrs
        /\ NoFrame \notin free /\ HugePage \notin free /\ lost \subseteq Frames
        /\ \A a \in Own : pt[a] # HugePage
        /\ \A a \in ident : pt[a] # NoFrame
        /\ Kept \subseteq free \cup FramesAt(Own) \cup lost
        /\ \A a \in Own : pt[a] \in Kept => pt[a] \notin free \cup lost
        /\ lost \cap free \subseteq stray
        /\ \A a, b \in Own : pt[a] = pt[b] /\ a # b => pt[a] \notin Kept
        /\ space \in {"none", "user"} => ident = {}
        /\ space # "none"
    BY DEF FrameInv, FramesConserved, Up
  <1>2. /\ \A a \in PageAddrs : pt'[a] = IF a \in S /\ pt[a] # HugePage THEN NoFrame ELSE pt[a]
        /\ pt' = [a \in PageAddrs |-> pt'[a]]
    BY <1>1 DEF Unmap, Cleared
  <1>3. \A f : f \in free' <=>
          f \in free \/ (/\ f # NoFrame /\ f # HugePage
                         /\ \E a \in PageAddrs : a \in S /\ pt[a] = f)
    BY DEF Unmap, FramesAt
  <1>4. \A f : f \in stray' <=>
          f \in stray \/ (/\ f # NoFrame /\ f # HugePage
                          /\ \E a \in ident : a \in S /\ pt[a] = f)
    BY DEF FramesAt
  <1>5. \A a \in Own' : \/ a \in Own /\ pt'[a] = pt[a] /\ a \notin S
                       \/ pt'[a] = NoFrame
    BY <1>1, <1>2 DEF Own, Cleared
  <1>6. NoFrame \notin Frames /\ HugePage \notin Frames /\ NoFrame # HugePage
    BY VmAssumption
  <1>7. Own \subseteq Own' /\ Kept' \subseteq Kept /\ Own \subseteq PageAddrs
    BY DEF Own, Kept
  <1>8. Kept' \subseteq free' \cup FramesAt(Own)' \cup lost
    <2> SUFFICES ASSUME NEW f \in Kept', f \notin lost, f \notin free'
                 PROVE  f \in FramesAt(Own)'
      BY <1>1, <1>3
    <2>1. f \in FramesAt(Own) /\ f # NoFrame /\ f # HugePage
      BY <1>1, <1>3, <1>6, <1>7 DEF Kept
    <2>2. PICK a \in Own : pt[a] = f BY <2>1 DEF FramesAt
    <2>3. a \notin S BY <1>3, <1>7, <2>1, <2>2
    <2>4. pt'[a] = f BY <1>2, <1>7, <2>2, <2>3
    <2> QED BY <1>7, <2>1, <2>2, <2>4 DEF FramesAt
  <1>9. \A a \in Own' : pt'[a] \in Kept' => pt'[a] \notin free' \cup lost
    <2> SUFFICES ASSUME NEW a \in Own', pt'[a] \in Kept' PROVE pt'[a] \notin free' \cup lost
      OBVIOUS
    <2>1. a \in Own /\ pt'[a] = pt[a] /\ a \notin S BY <1>5, <1>6 DEF Kept
    <2>2. pt[a] \notin free \cup lost /\ pt[a] \in Kept BY <1>1, <1>7, <2>1
    <2>3. \A b \in Own : b \in S => pt[b] # pt[a] BY <1>1, <2>1, <2>2
    <2>4. \A b \in ident : b \in S => pt[b] # pt[a] BY <1>4, <1>6, <2>1 DEF Kept
    <2>5. \A b \in PageAddrs : b \in Own \/ b \in ident BY DEF Own
    <2> QED BY <1>3, <2>1, <2>2, <2>3, <2>4, <2>5
  <1>10. lost \cap free' \subseteq stray'
    <2> SUFFICES ASSUME NEW f \in lost, f \in free', f \notin stray' PROVE FALSE OBVIOUS
    <2>1. f \in Kept /\ f \notin free BY <1>1, <1>4 DEF Kept
    <2>2. PICK a \in PageAddrs : a \in S /\ pt[a] = f /\ f # NoFrame /\ f # HugePage
      BY <1>3, <2>1
    <2>3. a \notin ident BY <1>4, <2>2
    <2> QED BY <1>1, <2>1, <2>2, <2>3 DEF Own
  <1>11. \A a, b \in Own' : pt'[a] = pt'[b] /\ a # b => pt'[a] \notin Kept'
    <2> SUFFICES ASSUME NEW a \in Own', NEW b \in Own', pt'[a] = pt'[b], a # b, pt'[a] \in Kept'
                 PROVE  FALSE
      OBVIOUS
    <2>1. pt'[a] # NoFrame BY <1>6 DEF Kept
    <2> QED BY <1>1, <1>5, <1>7, <2>1
  <1>12. NoFrame \notin free' /\ HugePage \notin free' BY <1>1, <1>3
  <1>13. \A a \in Own' : pt'[a] # HugePage BY <1>1, <1>5, <1>6
  <1>14. /\ ident' \subseteq PageAddrs /\ \A a \in ident' : pt'[a] # NoFrame
         /\ (space \in {"none", "user"} => ident' = {})
    BY <1>1, <1>2 DEF Cleared
  <1>15. FramesConserved' BY <1>1, <1>8, <1>9, <1>10, <1>11 DEF FramesConserved
  <1> QED BY <1>1, <1>2, <1>12, <1>13, <1>14, <1>15 DEF FrameInv

-----------------------------------------------------------------------------
(* The steps *)

LEMMA RegionStep ==
  ASSUME IInv, NEW start \in PageAddrs, NEW asked \in Sizes \ {0},
         vm_map_allocate_region(start, asked)
  PROVE  IInv'
  <1>1. asked \in Nat \ {0} BY VmAssumption
  <1>2. start \in Nat /\ VM_ALLOC_BASE <= start /\ start % PAGE_SIZE = 0 BY Pages
  <1>3. /\ start + ALIGN_UP(asked) <= Limit /\ Enter(start, ALIGN_UP(asked))
        /\ UNCHANGED <<space, pt, free, dropped, lost, ident, stray>>
    BY DEF vm_map_allocate_region
  <1>4. ALIGN_UP(asked) \in Nat /\ Sound(Area(start, start + ALIGN_UP(asked)))
    BY <1>1, <1>2, <1>3, RangeSound
  <1>5. Ordered(areas)' /\ \A a : vm_map_lookup(a) => vm_map_lookup(a)'
    BY <1>2, <1>3, <1>4, EnterStep DEF IInv
  <1> QED BY <1>3, <1>5, MoreAreas

LEMMA AllocateStep ==
  ASSUME IInv, NEW asked \in Sizes, vm_map_allocate(asked)
  PROVE  IInv'
  <1> DEFINE size == ALIGN_UP(asked)
             c == Candidate(size)
  <1>1. asked \in Nat \ {0} BY VmAssumption DEF vm_map_allocate
  <1>2. size \in Nat BY <1>1, RoundUp
  <1>3. c \in Nat /\ VM_ALLOC_BASE <= c /\ c % PAGE_SIZE = 0 BY <1>2, FirstFit DEF IInv
  <1>4. c + size <= Limit /\ Enter(c, size) /\ UNCHANGED <<space, pt, free, dropped, lost, ident, stray>>
    BY DEF vm_map_allocate
  <1> HIDE DEF c
  <1>5. Sound(Area(c, c + size)) BY <1>1, <1>3, <1>4, RangeSound
  <1>6. Ordered(areas)' /\ \A a : vm_map_lookup(a) => vm_map_lookup(a)'
    BY <1>2, <1>3, <1>4, <1>5, EnterStep DEF IInv
  <1> QED BY <1>4, <1>6, MoreAreas

\* What vm_map_free_region does to the areas: the range goes, and with it
\* the rest of a split area for which no object was left.
LEMMA FreeAreas ==
  ASSUME Ordered(areas), NEW start \in Nat, NEW end \in Nat, start < end,
         start % PAGE_SIZE = 0, end % PAGE_SIZE = 0, NEW tail \in BOOLEAN,
         areas' = FlattenSeq([i \in DOMAIN areas |-> Pieces(areas[i], start, end, tail)])
  PROVE  /\ Ordered(areas)'
         /\ \A a \in Nat : vm_map_lookup(a)' <=>
              \E i \in DOMAIN areas :
                /\ InArea(a, areas[i]) /\ ~(start <= a /\ a < end)
                /\ tail \/ ~(areas[i].start < start /\ areas[i].end > end /\ a >= end)
  <1> DEFINE n == Len(areas)
             P(i) == Pieces(areas[i], start, end, tail)
             s == [i \in 1 .. n |-> P(i)]
  <1>1. areas \in Seq(AreaType) /\ n \in Nat /\ DOMAIN areas = 1 .. n BY DEF Ordered
  <1>2. \A i \in 1 .. n : Sound(areas[i]) BY DEF Ordered
  <1>3. ASSUME NEW i \in 1 .. n
        PROVE  /\ Ordered(P(i))
               /\ \A j \in 1 .. Len(P(i)) : areas[i].start <= P(i)[j].start /\ P(i)[j].end <= areas[i].end
               /\ \A a \in Nat : Holds(P(i), a) <=>
                    /\ InArea(a, areas[i]) /\ ~(start <= a /\ a < end)
                    /\ tail \/ ~(areas[i].start < start /\ areas[i].end > end /\ a >= end)
    BY <1>2, PiecesLeft
  <1>4. \A i \in 1 .. n : P(i) \in Seq(AreaType) BY <1>3 DEF Ordered
  <1> HIDE DEF P
  <1>5. s \in Seq(Seq(AreaType)) /\ Len(s) = n /\ \A i \in 1 .. n : s[i] = P(i) BY <1>1, <1>4
  <1>6. areas' = FlattenSeq(s) BY <1>1 DEF P
  <1> HIDE DEF s
  <1>7. /\ Ordered(areas')
        /\ \A a : Holds(areas', a) <=> \E i \in 1 .. n : Holds(s[i], a)
    BY <1>3, <1>5, <1>6, JoinedPieces
  <1>8. \A a : vm_map_lookup(a)' <=> Holds(areas', a) BY <1>7, LookupHolds DEF vm_map_lookup
  <1>9. \A a \in Nat : vm_map_lookup(a)' <=> \E i \in 1 .. n : Holds(P(i), a) BY <1>5, <1>7, <1>8
  <1>10. \A a \in Nat : vm_map_lookup(a)' <=>
           \E i \in 1 .. n :
             /\ InArea(a, areas[i]) /\ ~(start <= a /\ a < end)
             /\ tail \/ ~(areas[i].start < start /\ areas[i].end > end /\ a >= end)
    BY <1>3, <1>9, Zenon
  <1> QED BY <1>1, <1>7, <1>10, Zenon

LEMMA FreeStep ==
  ASSUME IInv, NEW start \in PageAddrs, NEW asked \in Nat, vm_map_free_region(start, asked)
  PROVE  IInv'
  <1> DEFINE end == start + ALIGN_UP(asked)
             S == start .. end - 1
  <1>1. asked \in Nat \ {0} /\ end <= Limit /\ Up BY DEF vm_map_free_region
  <1>2. start \in Nat /\ VM_ALLOC_BASE <= start /\ start % PAGE_SIZE = 0 BY Pages
  <1>3. ALIGN_UP(asked) \in Nat /\ end \in Nat /\ start < end /\ end % PAGE_SIZE = 0
    BY <1>1, <1>2, RangeSound
  <1>4. /\ Unmap(S) /\ UNCHANGED <<space, lost>>
        /\ ident' = ident \ Cleared(S) /\ stray' = stray \cup FramesAt(S \cap ident)
    BY DEF vm_map_free_region
  <1>5. PICK tail \in BOOLEAN :
          /\ areas' = FlattenSeq([i \in DOMAIN areas |-> Pieces(areas[i], start, end, tail)])
          /\ dropped' = (dropped \ S) \cup
               {a \in PageAddrs \ (S \cup ident) :
                  pt[a] # NoFrame /\ vm_map_lookup(a) /\ ~vm_map_lookup(a)'}
    BY DEF vm_map_free_region
  <1> HIDE DEF end, S
  <1>6. Ordered(areas)' BY <1>2, <1>3, <1>5, FreeAreas DEF IInv
  <1>7. FrameInv' BY <1>1, <1>4, UnmapStep DEF IInv
  <1>8. /\ \A a \in PageAddrs : pt'[a] = IF a \in S /\ pt[a] # HugePage THEN NoFrame ELSE pt[a]
        /\ ident \subseteq PageAddrs /\ \A a \in PageAddrs \ ident : pt[a] # HugePage
    BY <1>4 DEF Unmap, Cleared, IInv, FrameInv, Own
  <1>9. \A a \in PageAddrs : a \in ident' <=> a \in ident /\ ~(a \in S /\ pt[a] # HugePage)
    BY <1>4 DEF Cleared
  <1>10. \A a \in PageAddrs : pt'[a] # NoFrame => vm_map_lookup(a)' \/ a \in dropped' \/ a \in ident'
    <2> SUFFICES ASSUME NEW a \in PageAddrs, pt'[a] # NoFrame, ~vm_map_lookup(a)', a \notin ident'
                 PROVE  a \in dropped'
      OBVIOUS
    <2>1. a \notin ident /\ pt[a] # HugePage /\ a \notin S /\ pt[a] # NoFrame BY <1>8, <1>9
    <2>2. vm_map_lookup(a) \/ a \in dropped BY <2>1 DEF IInv, MappedInAreas
    <2> QED BY <1>5, <2>1, <2>2
  <1>11. \A a \in ident' : pt'[a] = Identity[a] /\ a \notin dropped'
    <2> SUFFICES ASSUME NEW a \in ident' PROVE pt'[a] = Identity[a] /\ a \notin dropped'
      OBVIOUS
    <2>1. a \in ident /\ a \in PageAddrs BY <1>4, <1>8
    <2>2. pt'[a] = pt[a] BY <1>8, <1>9, <2>1
    <2>3. pt[a] = Identity[a] /\ a \notin dropped BY <2>1 DEF IInv, MappedInAreas
    <2> QED BY <1>5, <2>1, <2>2, <2>3
  <1>12. MappedInAreas' BY <1>10, <1>11 DEF MappedInAreas
  <1> QED BY <1>6, <1>7, <1>12 DEF IInv

LEMMA DestroyStep ==
  ASSUME IInv, vm_map_destroy
  PROVE  IInv'
  <1> DEFINE kept == {a \in PageAddrs : vm_map_lookup(a)}
  <1>1. /\ space = "user" /\ space' = "none" /\ areas' = << >>
        /\ free' = free \cup FramesAt(kept)
        /\ pt' = [a \in PageAddrs |-> NoFrame]
        /\ lost' = lost \cup (FramesAt(PageAddrs \ kept) \cap Frames)
        /\ ident' = ident /\ stray' = stray
    BY DEF vm_map_destroy
  <1>2. /\ NoFrame \notin free /\ HugePage \notin free /\ lost \subseteq Frames
        /\ ident = {} /\ Own = PageAddrs
        /\ Kept \subseteq free \cup FramesAt(PageAddrs) \cup lost
        /\ \A a \in PageAddrs : pt[a] \in Kept => pt[a] \notin free \cup lost
        /\ lost \cap free \subseteq stray
        /\ \A a, b \in PageAddrs : pt[a] = pt[b] /\ a # b => pt[a] \notin Kept
    BY <1>1 DEF IInv, FrameInv, FramesConserved, Own
  <1>3. kept \subseteq PageAddrs OBVIOUS
  <1> HIDE DEF kept
  <1>4. \A f : f \in free' <=>
          f \in free \/ (f # NoFrame /\ f # HugePage /\ \E a \in kept : pt[a] = f)
    BY <1>1 DEF FramesAt
  <1>5. \A f : f \in lost' <=>
          f \in lost \/ (/\ f \in Frames /\ f # NoFrame /\ f # HugePage
                         /\ \E a \in PageAddrs \ kept : pt[a] = f)
    BY <1>1 DEF FramesAt
  <1>6. Ordered(areas)' BY <1>1, OrderedEmpty
  <1>7. \A a \in PageAddrs : pt'[a] = NoFrame BY <1>1
  <1>8. MappedInAreas' BY <1>1, <1>2, <1>7 DEF MappedInAreas
  <1>9. NoFrame \notin Frames /\ NoFrame # HugePage BY VmAssumption
  <1>10. Kept' = Kept /\ Kept \subseteq Frames /\ Own' = PageAddrs BY <1>1, <1>2 DEF Kept, Own
  <1>11. Kept \subseteq free' \cup lost'
    <2> SUFFICES ASSUME NEW f \in Kept, f \in FramesAt(PageAddrs) PROVE f \in free' \cup lost'
      BY <1>2, <1>4, <1>5
    <2>1. PICK a \in PageAddrs : pt[a] = f /\ f # NoFrame /\ f # HugePage BY DEF FramesAt
    <2> QED BY <1>4, <1>5, <1>10, <2>1
  <1>12. lost' \cap free' \subseteq stray
    <2> SUFFICES ASSUME NEW f, f \in lost', f \in free', f \notin stray PROVE FALSE OBVIOUS
    <2>1. f \in Kept BY <1>2, <1>5 DEF Kept
    <2>2. CASE f \in free BY <1>2, <1>5, <2>1, <2>2
    <2>3. CASE f \notin free
      <3>1. PICK a \in kept : pt[a] = f BY <1>4, <2>3
      <3>2. f \notin lost BY <1>2, <1>3, <2>1, <3>1
      <3>3. PICK b \in PageAddrs \ kept : pt[b] = f BY <1>5, <3>2
      <3> QED BY <1>2, <1>3, <2>1, <3>1, <3>3
    <2> QED BY <2>2, <2>3
  <1>13. lost' \subseteq Frames /\ NoFrame \notin free' /\ HugePage \notin free'
    BY <1>2, <1>4, <1>5
  <1>14. FramesConserved' BY <1>1, <1>7, <1>9, <1>10, <1>11, <1>12 DEF FramesConserved
  <1>15. FrameInv' BY <1>1, <1>2, <1>7, <1>9, <1>10, <1>13, <1>14 DEF FrameInv
  <1> QED BY <1>6, <1>8, <1>15 DEF IInv

LEMMA SameIInv ==
  ASSUME IInv, UNCHANGED vars
  PROVE  IInv'
  <1>1. Ordered(areas)' BY DEF IInv, vars
  <1>2. \A a : vm_map_lookup(a) => vm_map_lookup(a)' BY DEF vars, vm_map_lookup
  <1> QED BY <1>1, <1>2, MoreAreas DEF vars

LEMMA FaultStep ==
  ASSUME IInv, NEW addr \in VM_ALLOC_BASE .. Limit - 1, NEW user \in BOOLEAN,
         vm_fault_handler(addr, user)
  PROVE  IInv'
  <1>1. PICK va : va = ALIGN_DOWN(addr) OBVIOUS
  <1>2. va \in PageAddrs
    <2>1. addr \in Nat /\ VM_ALLOC_BASE \in Nat /\ VM_ALLOC_BASE % PAGE_SIZE = 0 BY VmAssumption
    <2>2. va \in Nat /\ va % PAGE_SIZE = 0 /\ va <= addr /\ addr < va + PAGE_SIZE
      BY <1>1, <2>1, RoundDown
    <2>3. VM_ALLOC_BASE < va + PAGE_SIZE BY <2>1, <2>2, VmAssumption
    <2>4. VM_ALLOC_BASE <= va BY <2>1, <2>2, <2>3, Apart
    <2>5. va < Limit BY <2>1, <2>2, VmAssumption
    <2> QED BY <2>2, <2>4, <2>5, Pages
  <1>3. CASE Segfault(user) /\ Up
    <2>1. /\ UNCHANGED <<areas, pt, free, dropped, lost, ident, stray>>
          /\ space' # "none" /\ (space' \in {"none", "user"} => space = "user")
      BY <1>3 DEF Segfault, Up
    <2>2. Ordered(areas)' BY <2>1 DEF IInv
    <2>3. MappedInAreas' BY <2>1 DEF IInv, MappedInAreas, vm_map_lookup
    <2>4. FrameInv' BY <2>1 DEF IInv, FrameInv, FramesConserved, FramesAt, Own, Kept
    <2> QED BY <2>2, <2>3, <2>4 DEF IInv
  <1>4. CASE UNCHANGED vars BY <1>4, SameIInv
  <1>5. ASSUME Up, pt[va] = NoFrame, vm_map_lookup(va),
               UNCHANGED <<space, areas, dropped, ident, stray>>,
               NEW f \in free, free' = free \ {f},
               \/ pt' = [pt EXCEPT ![va] = f] /\ UNCHANGED lost
               \/ free' = {} /\ lost' = lost \cup ({f} \cap Frames) /\ UNCHANGED pt
        PROVE  IInv'
    <2>1. /\ pt = [a \in PageAddrs |-> pt[a]] /\ ident \subseteq PageAddrs
          /\ NoFrame \notin free /\ HugePage \notin free /\ lost \subseteq Frames
          /\ \A a \in Own : pt[a] # HugePage
          /\ \A a \in ident : pt[a] # NoFrame
          /\ Kept \subseteq free \cup FramesAt(Own) \cup lost
          /\ \A a \in Own : pt[a] \in Kept => pt[a] \notin free \cup lost
          /\ lost \cap free \subseteq stray
          /\ \A a, b \in Own : pt[a] = pt[b] /\ a # b => pt[a] \notin Kept
          /\ space \in {"none", "user"} => ident = {}
      BY DEF IInv, FrameInv, FramesConserved
    <2>2. Ordered(areas)' BY <1>5 DEF IInv
    <2>3. NoFrame \notin Frames /\ HugePage \notin Frames /\ f # NoFrame /\ f # HugePage
      BY <1>5, <2>1, VmAssumption
    <2>4. Own' = Own /\ Kept' = Kept /\ space' = space /\ space # "none" /\ Own \subseteq PageAddrs
          /\ Kept \subseteq Frames /\ Kept \cap stray = {} /\ Frames \subseteq Kept \cup stray
      BY <1>5 DEF Own, Kept, Up
    <2>5. ident' = ident /\ stray' = stray BY <1>5
    <2>6. CASE pt' = [pt EXCEPT ![va] = f] /\ UNCHANGED lost
      <3>1. /\ pt' = [a \in PageAddrs |-> pt'[a]]
            /\ \A a \in PageAddrs : pt'[a] = IF a = va THEN f ELSE pt[a]
        BY <1>2, <1>5, <2>1, <2>6
      <3>2. va \in Own /\ va \notin ident BY <1>2, <1>5, <2>1 DEF Own
      <3>3. MappedInAreas'
        <4>1. \A a \in PageAddrs : vm_map_lookup(a)' <=> vm_map_lookup(a) BY <1>5 DEF vm_map_lookup
        <4>2. \A a \in ident : pt'[a] = pt[a] BY <2>1, <3>1, <3>2
        <4> QED BY <1>5, <2>1, <3>1, <4>1, <4>2 DEF IInv, MappedInAreas
      <3>4. Kept \subseteq free' \cup FramesAt(Own)' \cup lost'
        <4> SUFFICES ASSUME NEW g \in Kept, g \notin free', g \notin lost'
                     PROVE  g \in FramesAt(Own)'
          OBVIOUS
        <4>1. g # NoFrame /\ g # HugePage BY <2>3, <2>4
        <4>2. CASE g = f BY <1>2, <2>4, <3>1, <3>2, <4>1, <4>2 DEF FramesAt
        <4>3. CASE g # f
          <5>1. g \in FramesAt(Own) BY <1>5, <2>1, <2>6, <4>3
          <5>2. PICK a \in Own : pt[a] = g BY <5>1 DEF FramesAt
          <5>3. a # va BY <1>5, <4>1, <5>2
          <5> QED BY <2>4, <3>1, <4>1, <5>2, <5>3 DEF FramesAt
        <4> QED BY <4>2, <4>3
      <3>5. \A a \in Own : pt'[a] \in Kept => pt'[a] \notin free' \cup lost'
        BY <1>5, <2>1, <2>4, <2>6, <3>1
      <3>6. \A a, b \in Own : pt'[a] = pt'[b] /\ a # b => pt'[a] \notin Kept
        BY <1>5, <2>1, <2>4, <3>1
      <3>7. \A a \in Own : pt'[a] # HugePage BY <2>1, <2>3, <2>4, <3>1
      <3>8. NoFrame \notin free' /\ HugePage \notin free' /\ lost' \subseteq Frames
            /\ lost' \cap free' \subseteq stray
        BY <1>5, <2>1, <2>6
      <3>9. FramesConserved' BY <2>4, <2>5, <3>4, <3>5, <3>6, <3>8 DEF FramesConserved
      <3>10. FrameInv' BY <2>1, <2>4, <2>5, <3>1, <3>7, <3>8, <3>9 DEF FrameInv
      <3> QED BY <2>2, <3>3, <3>10 DEF IInv
    <2>7. CASE free' = {} /\ lost' = lost \cup ({f} \cap Frames) /\ UNCHANGED pt
      <3>1. MappedInAreas' BY <1>5, <2>7 DEF IInv, MappedInAreas, vm_map_lookup
      <3>2. FramesAt(Own)' = FramesAt(Own) BY <2>4, <2>7 DEF FramesAt
      <3>3. Kept \subseteq free' \cup FramesAt(Own)' \cup lost' BY <1>5, <2>1, <2>4, <2>7, <3>2
      <3>4. \A a \in Own : pt'[a] \in Kept => pt'[a] \notin free' \cup lost'
        BY <1>5, <2>1, <2>7
      <3>5. FramesConserved' BY <1>5, <2>1, <2>4, <2>5, <2>7, <3>3, <3>4 DEF FramesConserved
      <3>6. FrameInv' BY <1>5, <2>1, <2>4, <2>5, <2>7, <3>5 DEF FrameInv
      <3> QED BY <2>2, <3>1, <3>6 DEF IInv
    <2> QED BY <1>5, <2>6, <2>7
  <1> QED BY <1>1, <1>3, <1>4, <1>5 DEF vm_fault_handler

LEMMA MapStep ==
  ASSUME IInv, NEW i \in DOMAIN Firmware, NEW off \in 0 .. PAGE_SIZE - 1,
         NEW len \in Sizes \ {0}, uacpi_kernel_map(i, off, len)
  PROVE  IInv'
  <1>1. PICK size, c, n : size = ALIGN_UP(off + len) /\ c = Candidate(size) /\ n = size \div PAGE_SIZE
    OBVIOUS
  <1> DEFINE At(a) == (a - c) \div PAGE_SIZE
             New(m) == {a \in PageAddrs : a >= c /\ a < c + m * PAGE_SIZE}
  <1>2. PAGE_SIZE \in Nat \ {0} /\ off \in Nat /\ len \in Nat \ {0} /\ off + len \in Nat \ {0}
    BY VmAssumption
  <1>3. size \in Nat /\ size % PAGE_SIZE = 0 BY <1>1, <1>2, RoundUp
  <1>4. c \in Nat /\ VM_ALLOC_BASE <= c /\ c % PAGE_SIZE = 0 BY <1>1, <1>3, FirstFit DEF IInv
  <1>5. n \in Nat /\ size = PAGE_SIZE * n
    <2>1. /\ size \div PAGE_SIZE \in Nat
          /\ size = PAGE_SIZE * (size \div PAGE_SIZE) + (size % PAGE_SIZE)
      BY <1>2, <1>3, Quotient
    <2>2. n = size \div PAGE_SIZE BY <1>1
    <2> QED BY <1>2, <1>3, <2>1, <2>2
  <1>6. /\ space = "kernel" /\ i + n - 1 <= Len(Firmware) /\ c + size <= Limit /\ Enter(c, size)
        /\ UNCHANGED <<space, free, dropped, stray>>
        /\ \/ areas' = areas /\ UNCHANGED <<pt, lost, ident>>
           \/ areas' # areas /\ \E m \in 0 .. n :
                /\ pt' = [a \in PageAddrs |-> IF a \in New(m) THEN Firmware[i + At(a)] ELSE pt[a]]
                /\ lost' = lost \cup (FramesAt(New(m) \ ident) \cap Frames)
                /\ ident' = ident \ New(m)
    BY <1>1, Zenon DEF uacpi_kernel_map
  <1>7. Sound(Area(c, c + size)) BY <1>1, <1>2, <1>4, <1>6, RangeSound
  <1>8. /\ Ordered(areas)'
        /\ \A a : vm_map_lookup(a) => vm_map_lookup(a)'
        /\ areas' # areas => \A a : InArea(a, Area(c, c + size)) => vm_map_lookup(a)'
    BY <1>3, <1>4, <1>6, <1>7, EnterStep DEF IInv
  <1>9. CASE areas' = areas /\ UNCHANGED <<pt, lost, ident>> BY <1>6, <1>8, <1>9, MoreAreas
  <1>10. ASSUME areas' # areas, NEW m \in 0 .. n,
                pt' = [a \in PageAddrs |-> IF a \in New(m) THEN Firmware[i + At(a)] ELSE pt[a]],
                lost' = lost \cup (FramesAt(New(m) \ ident) \cap Frames),
                ident' = ident \ New(m)
         PROVE  IInv'
    <2>1. \A a \in New(m) : /\ a \in PageAddrs /\ InArea(a, Area(c, c + size))
                            /\ At(a) \in 0 .. n - 1
      <3> TAKE a \in New(m)
      <3>1. a \in Nat /\ c <= a /\ a < c + m * PAGE_SIZE BY Pages
      <3>2. m * PAGE_SIZE <= size /\ m * PAGE_SIZE \in Nat BY <1>2, <1>5
      <3>3. a < c + size BY <1>3, <1>4, <3>1, <3>2
      <3>4. InArea(a, Area(c, c + size)) BY <3>1, <3>3 DEF InArea, Area
      <3>5. a - c \in Nat /\ a - c < PAGE_SIZE * n BY <1>3, <1>4, <1>5, <3>1, <3>3
      <3>6. PICK q : q = At(a) OBVIOUS
      <3>7. q \in Nat /\ PAGE_SIZE * q <= a - c
        <4>1. PICK d \in Nat : d = a - c BY <3>5
        <4>2. /\ d \div PAGE_SIZE \in Nat /\ d % PAGE_SIZE \in 0 .. PAGE_SIZE - 1
              /\ d = PAGE_SIZE * (d \div PAGE_SIZE) + (d % PAGE_SIZE)
          BY <1>2, Quotient
        <4>3. q = d \div PAGE_SIZE BY <3>6, <4>1
        <4> QED BY <1>2, <4>1, <4>2, <4>3
      <3>8. q < n
        <4> SUFFICES ASSUME n <= q PROVE FALSE BY <1>5, <3>7
        <4>1. PAGE_SIZE * n <= PAGE_SIZE * q BY <1>2, <1>5, <3>7
        <4> QED BY <1>2, <1>5, <3>5, <3>7, <4>1
      <3> QED BY <1>5, <3>4, <3>6, <3>7, <3>8
    <2> HIDE DEF At
    <2> DEFINE N == New(m)
    <2>2. N \subseteq PageAddrs OBVIOUS
    <2>3. \A a \in N : i + At(a) \in 1 .. Len(Firmware) /\ vm_map_lookup(a)'
      BY <1>5, <1>6, <1>8, <1>10, <2>1, VmAssumption
    <2>4. \A k \in 1 .. Len(Firmware) :
            Firmware[k] \notin Frames /\ Firmware[k] # NoFrame /\ Firmware[k] # HugePage
      BY VmAssumption DEF Range
    <2>5. pt' = [a \in PageAddrs |-> IF a \in N THEN Firmware[i + At(a)] ELSE pt[a]] BY <1>10
    <2>6. lost' = lost \cup (FramesAt(N \ ident) \cap Frames) /\ ident' = ident \ N BY <1>10
    <2> HIDE DEF N
    <2>7. /\ pt = [a \in PageAddrs |-> pt[a]] /\ ident \subseteq PageAddrs
          /\ NoFrame \notin free /\ HugePage \notin free /\ lost \subseteq Frames
          /\ \A a \in Own : pt[a] # HugePage
          /\ \A a \in ident : pt[a] # NoFrame
          /\ Kept \subseteq free \cup FramesAt(Own) \cup lost
          /\ \A a \in Own : pt[a] \in Kept => pt[a] \notin free \cup lost
          /\ lost \cap free \subseteq stray
          /\ \A a, b \in Own : pt[a] = pt[b] /\ a # b => pt[a] \notin Kept
      BY DEF IInv, FrameInv, FramesConserved
    <2>8. /\ pt' = [a \in PageAddrs |-> pt'[a]]
          /\ \A a \in N : pt'[a] \notin Frames /\ pt'[a] # HugePage
          /\ \A a \in PageAddrs \ N : pt'[a] = pt[a]
      BY <2>2, <2>3, <2>4, <2>5
    <2>9. \A f : f \in lost' <=>
            f \in lost \/ (/\ f \in Frames /\ f # NoFrame /\ f # HugePage
                           /\ \E a \in N \ ident : pt[a] = f)
      BY <2>6 DEF FramesAt
    <2>10. /\ Kept' = Kept /\ Kept \subseteq Frames /\ Own \subseteq Own' /\ Own' \subseteq PageAddrs
           /\ \A a \in Own' : a \in N \/ (a \notin N /\ a \in Own /\ pt'[a] = pt[a])
           /\ Frames \subseteq Kept \cup stray /\ free' = free /\ stray' = stray /\ space' = "kernel"
           /\ \A a \in N \ ident : a \in Own
      BY <1>6, <2>2, <2>6, <2>8 DEF Kept, Own
    <2>11. MappedInAreas'
      <3>1. ASSUME NEW a \in PageAddrs, pt'[a] # NoFrame
            PROVE  vm_map_lookup(a)' \/ a \in dropped' \/ a \in ident'
        <4>1. CASE a \in N BY <2>3, <4>1
        <4>2. CASE a \notin N
          <5>1. pt[a] # NoFrame BY <2>8, <3>1, <4>2
          <5>2. vm_map_lookup(a) \/ a \in dropped \/ a \in ident BY <5>1 DEF IInv, MappedInAreas
          <5> QED BY <1>6, <1>8, <2>6, <4>2, <5>2
        <4> QED BY <4>1, <4>2
      <3>2. \A a \in ident' : pt'[a] = Identity[a] /\ a \notin dropped'
        BY <1>6, <2>6, <2>7, <2>8 DEF IInv, MappedInAreas
      <3> QED BY <3>1, <3>2 DEF MappedInAreas
    <2>12. Kept \subseteq free \cup FramesAt(Own)' \cup lost'
      <3> SUFFICES ASSUME NEW f \in Kept, f \notin free, f \notin lost' PROVE f \in FramesAt(Own)'
        OBVIOUS
      <3>1. f \in FramesAt(Own) BY <2>7, <2>9
      <3>2. PICK a \in Own : pt[a] = f /\ f # NoFrame /\ f # HugePage BY <3>1 DEF FramesAt
      <3>3. a \notin N BY <2>9, <2>10, <3>2 DEF Own
      <3>4. pt'[a] = f /\ a \in Own' BY <2>8, <2>10, <3>2, <3>3
      <3> QED BY <3>2, <3>4 DEF FramesAt
    <2>13. \A a \in Own' : pt'[a] \in Kept => pt'[a] \notin free \cup lost'
      <3> SUFFICES ASSUME NEW a \in Own', pt'[a] \in Kept PROVE pt'[a] \notin free \cup lost'
        OBVIOUS
      <3>1. a \notin N /\ a \in Own /\ pt'[a] = pt[a] BY <2>8, <2>10
      <3>2. pt[a] \notin free \cup lost BY <2>7, <3>1
      <3>3. \A b \in N \ ident : pt[b] # pt[a] BY <2>7, <2>10, <3>1
      <3> QED BY <2>9, <3>1, <3>2, <3>3
    <2>14. \A a, b \in Own' : pt'[a] = pt'[b] /\ a # b => pt'[a] \notin Kept
      <3> SUFFICES ASSUME NEW a \in Own', NEW b \in Own', pt'[a] = pt'[b], a # b, pt'[a] \in Kept
                   PROVE  FALSE
        OBVIOUS
      <3>1. a \notin N /\ b \notin N /\ pt'[a] \in Frames BY <2>8, <2>10
      <3> QED BY <2>7, <2>10, <3>1
    <2>15. lost' \subseteq Frames /\ lost' \cap free \subseteq stray
      <3> SUFFICES ASSUME NEW f \in lost' PROVE f \in Frames /\ (f \in free => f \in stray)
        OBVIOUS
      <3> QED BY <2>7, <2>9, <2>10
    <2>16. \A a \in Own' : pt'[a] # HugePage BY <2>7, <2>8, <2>10
    <2>17. FramesConserved' BY <2>10, <2>12, <2>13, <2>14, <2>15 DEF FramesConserved
    <2>18. ident' \subseteq PageAddrs /\ \A a \in ident' : pt'[a] # NoFrame BY <2>6, <2>7, <2>8
    <2>19. FrameInv' BY <2>7, <2>8, <2>10, <2>15, <2>16, <2>17, <2>18 DEF FrameInv
    <2> QED BY <1>8, <2>11, <2>19 DEF IInv
  <1> QED BY <1>6, <1>9, <1>10

-----------------------------------------------------------------------------
(* The theorems *)

LEMMA InitIInv == Init => IInv
  <1> SUFFICES ASSUME Init PROVE IInv OBVIOUS
  <1>1. /\ areas = << >> /\ free = Frames /\ lost = {} /\ stray = {} /\ dropped = {}
        /\ space = "kernel" \/ (space = "none" /\ ident = {})
        /\ pt = [a \in PageAddrs |-> pt[a]]
        /\ ident = {a \in PageAddrs : pt[a] # NoFrame}
        /\ \A a \in ident : pt[a] = Identity[a]
    BY DEF Init
  <1>2. Ordered(areas) BY <1>1, OrderedEmpty
  <1>3. MappedInAreas BY <1>1 DEF MappedInAreas
  <1>4. \A a \in Own : pt[a] = NoFrame BY <1>1 DEF Own
  <1>5. NoFrame \notin Frames /\ HugePage \notin Frames /\ NoFrame # HugePage BY VmAssumption
  <1>6. FramesConserved BY <1>1, <1>4, <1>5 DEF FramesConserved, Kept
  <1>7. space = "none" => \A a \in PageAddrs : pt[a] = NoFrame BY <1>1, <1>4 DEF Own
  <1>8. FrameInv BY <1>1, <1>4, <1>5, <1>6, <1>7 DEF FrameInv
  <1> QED BY <1>2, <1>3, <1>8 DEF IInv

LEMMA NextIInv ==
  ASSUME IInv, [Next]_vars
  PROVE  IInv'
  <1>1. CASE UNCHANGED vars BY <1>1, SameIInv
  <1>2. CASE vm_map_create
    <2>1. /\ space' = "user" /\ space = "none"
          /\ UNCHANGED <<areas, pt, free, dropped, lost, ident, stray>>
      BY <1>2 DEF vm_map_create
    <2>2. Ordered(areas)' BY <2>1 DEF IInv
    <2>3. MappedInAreas' BY <2>1 DEF IInv, MappedInAreas, vm_map_lookup
    <2>4. FrameInv' BY <2>1 DEF IInv, FrameInv, FramesConserved, FramesAt, Own, Kept
    <2> QED BY <2>2, <2>3, <2>4 DEF IInv
  <1>3. ASSUME NEW start \in PageAddrs, NEW len \in 1 .. Len(Firmware) * PAGE_SIZE,
               uacpi_kernel_unmap(start, len)
        PROVE  IInv'
    <2>1. len \in Nat OBVIOUS
    <2> QED BY <1>3, <2>1, FreeStep DEF uacpi_kernel_unmap
  <1>4. ASSUME NEW start \in PageAddrs, NEW asked \in Sizes, vm_map_free_region(start, asked)
        PROVE  IInv'
    <2>1. asked \in Nat BY VmAssumption
    <2> QED BY <1>4, <2>1, FreeStep
  <1> QED BY <1>1, <1>2, <1>3, <1>4, AllocateStep, RegionStep, DestroyStep, FaultStep, MapStep
          DEF Next, Halted

LEMMA Inductive == Spec => []IInv
  <1>1. IInv /\ [Next]_vars => IInv' BY NextIInv
  <1> QED BY <1>1, InitIInv, PTL DEF Spec

\* vm_map_allocate, vm_map_allocate_region, vm_map_free_region and
\* vm_map_destroy keep the list sorted and its areas apart, whatever they
\* cut, split or insert.
THEOREM AreasStayOrdered == Spec => []AreasOrdered
  <1>1. IInv => AreasOrdered
    <2> SUFFICES ASSUME IInv PROVE AreasOrdered OBVIOUS
    <2>1. areas \in Seq(AreaType) /\ Len(areas) \in Nat /\ DOMAIN areas = 1 .. Len(areas)
      BY DEF IInv, Ordered
    <2>2. \A i \in DOMAIN areas : areas[i].start < areas[i].end BY <2>1 DEF IInv, Ordered, Sound
    <2>3. \A i \in 1 .. Len(areas) - 1 : i \in 1 .. Len(areas) /\ i + 1 \in 1 .. Len(areas) /\ i < i + 1
      BY <2>1
    <2> QED BY <2>2, <2>3 DEF AreasOrdered, IInv, Ordered
  <1> QED BY <1>1, Inductive, PTL

\* No page stays mapped outside the areas, but for the half of a split that
\* vm_map_free_region had no object for.
THEOREM MappedOnlyInAreas == Spec => []MappedInAreas
  <1>1. IInv => MappedInAreas BY DEF IInv
  <1> QED BY <1>1, Inductive, PTL

\* Page faults, unmapping and destroying an address space neither lose nor
\* share a frame of usable memory, but where the code is known to lose one.
THEOREM FramesAreConserved == Spec => []FramesConserved
  <1>1. IInv => FramesConserved BY DEF IInv, FrameInv
  <1> QED BY <1>1, Inductive, PTL

\* The first half of RegionsExact: vm_map_free_region
LEMMA FreeExact ==
  ASSUME IInv, NEW start \in PageAddrs, NEW size \in Nat \ {0}, vm_map_free_region(start, size)
  PROVE  LET range == PagesOf(start, size)
             split == {i \in DOMAIN areas :
                         areas[i].start < start /\ areas[i].end > start + ALIGN_UP(size)}
             rest == {a \in PageAddrs : a > start /\ \E i \in split : InArea(a, areas[i])}
         IN Covered' \in {Covered \ range, Covered \ (range \cup rest)}
  <1> DEFINE end == start + ALIGN_UP(size)
             range == PagesOf(start, size)
             split == {i \in DOMAIN areas : areas[i].start < start /\ areas[i].end > end}
             rest == {a \in PageAddrs : a > start /\ \E i \in split : InArea(a, areas[i])}
  <1>1. start \in Nat /\ VM_ALLOC_BASE <= start /\ start % PAGE_SIZE = 0 BY Pages
  <1>2. end <= Limit BY DEF vm_map_free_region
  <1>3. end \in Nat /\ start < end /\ end % PAGE_SIZE = 0 BY <1>1, <1>2, RangeSound
  <1>4. PICK tail \in BOOLEAN :
          areas' = FlattenSeq([i \in DOMAIN areas |-> Pieces(areas[i], start, end, tail)])
    BY DEF vm_map_free_region
  <1>5. \A a : a \in range <=> a \in PageAddrs /\ start <= a /\ a < end BY DEF PagesOf
  <1>6. \A i \in split : i \in DOMAIN areas /\ areas[i].start < start /\ areas[i].end > end OBVIOUS
  <1>7. \A i \in DOMAIN areas : areas[i].start < start /\ areas[i].end > end => i \in split OBVIOUS
  <1>8. \A a : a \in rest <=> a \in PageAddrs /\ a > start /\ \E i \in split : InArea(a, areas[i])
    OBVIOUS
  <1> HIDE DEF range, split, rest, end
  <1>9. \A a \in Nat : vm_map_lookup(a)' <=>
          \E i \in DOMAIN areas :
            /\ InArea(a, areas[i]) /\ ~(start <= a /\ a < end)
            /\ tail \/ ~(areas[i].start < start /\ areas[i].end > end /\ a >= end)
    BY <1>1, <1>3, <1>4, FreeAreas DEF IInv
  <1>10. \A a : a \in Covered <=> a \in PageAddrs /\ \E i \in DOMAIN areas : InArea(a, areas[i])
    BY DEF Covered, vm_map_lookup
  <1>11. \A a : a \in Covered' <=> a \in PageAddrs /\ vm_map_lookup(a)' BY DEF Covered
  <1>12. \A a \in PageAddrs : a \in Nat BY Pages
  <1>13. \A a \in Nat : \A i, j \in DOMAIN areas : InArea(a, areas[i]) /\ InArea(a, areas[j]) => i = j
    <2> SUFFICES ASSUME NEW a \in Nat, NEW i \in DOMAIN areas, NEW j \in DOMAIN areas,
                        InArea(a, areas[i]), InArea(a, areas[j]), i # j
                 PROVE  FALSE
      OBVIOUS
    <2>1. areas \in Seq(AreaType) /\ i \in 1 .. Len(areas) /\ j \in 1 .. Len(areas) BY DEF IInv, Ordered
    <2>2. areas[i].end <= areas[j].start \/ areas[j].end <= areas[i].start
      <3>1. i < j \/ j < i BY <2>1
      <3> QED BY <2>1, <3>1 DEF IInv, Ordered
    <2>3. /\ areas[i].start \in Nat /\ areas[i].end \in Nat
          /\ areas[j].start \in Nat /\ areas[j].end \in Nat
      BY <2>1, Fields
    <2> QED BY <2>2, <2>3 DEF InArea
  <1>14. CASE tail
    <2>1. \A a : a \in Covered' <=> a \in Covered /\ a \notin range
      BY <1>5, <1>9, <1>10, <1>11, <1>12, <1>14
    <2>2. Covered' = Covered \ range BY <2>1
    <2> QED BY <2>2 DEF range, rest, split, end
  <1>15. CASE ~tail
    <2>1. ASSUME NEW a \in PageAddrs
          PROVE  a \in Covered' <=> a \in Covered /\ a \notin range /\ a \notin rest
      <3>0. a \in Nat BY <1>12
      <3>1. ASSUME a \in Covered' PROVE a \in Covered /\ a \notin range /\ a \notin rest
        <4>1. PICK i \in DOMAIN areas :
                /\ InArea(a, areas[i]) /\ ~(start <= a /\ a < end)
                /\ ~(areas[i].start < start /\ areas[i].end > end /\ a >= end)
          BY <1>9, <1>11, <1>15, <3>0, <3>1
        <4>2. a \in Covered /\ a \notin range BY <1>5, <1>10, <4>1
        <4>3. ASSUME a \in rest PROVE FALSE
          <5>1. a > start BY <1>8, <4>3
          <5>2. a >= end BY <1>1, <1>3, <3>0, <4>1, <5>1
          <5>3. i \notin split BY <1>6, <4>1, <5>2
          <5>4. PICK j \in split : InArea(a, areas[j]) BY <1>8, <4>3
          <5>5. j \in DOMAIN areas BY <1>6
          <5> QED BY <1>13, <3>0, <4>1, <5>3, <5>4, <5>5
        <4> QED BY <4>2, <4>3
      <3>2. ASSUME a \in Covered, a \notin range, a \notin rest PROVE a \in Covered'
        <4>1. PICK i \in DOMAIN areas : InArea(a, areas[i]) BY <1>10, <3>2
        <4>2. ~(start <= a /\ a < end) BY <1>5, <3>2
        <4>3. ~(areas[i].start < start /\ areas[i].end > end /\ a >= end)
          <5> SUFFICES ASSUME areas[i].start < start, areas[i].end > end, a >= end PROVE FALSE
            OBVIOUS
          <5>1. i \in split BY <1>7
          <5>2. a > start BY <1>1, <1>3, <3>0
          <5> QED BY <1>8, <3>2, <4>1, <5>1, <5>2
        <4> QED BY <1>9, <1>11, <3>0, <4>1, <4>2, <4>3
      <3> QED BY <3>1, <3>2
    <2>2. Covered' \subseteq PageAddrs /\ Covered \subseteq PageAddrs BY <1>10, <1>11
    <2>3. Covered' = Covered \ (range \cup rest) BY <2>1, <2>2
    <2> QED BY <2>3 DEF range, rest, split, end
  <1> QED BY <1>14, <1>15

\* The second half: vm_map_allocate takes the first place that is large enough.
LEMMA AllocateExact ==
  ASSUME IInv, NEW asked \in Nat \ {0}, vm_map_allocate(asked), areas' # areas
  PROVE  LET fits == {c \in PageAddrs : PagesOf(c, asked) \cap Covered = {}}
         IN Covered' = Covered \cup PagesOf(Min(fits), asked)
  <1>1. PICK size, c : size = ALIGN_UP(asked) /\ c = Candidate(size) OBVIOUS
  <1> DEFINE fits == {d \in PageAddrs : PagesOf(d, asked) \cap Covered = {}}
  <1>2. size \in Nat BY <1>1, RoundUp
  <1>3. c \in Nat /\ VM_ALLOC_BASE <= c /\ c % PAGE_SIZE = 0 BY <1>1, <1>2, FirstFit DEF IInv
  <1>4. c + size <= Limit /\ Enter(c, size) BY <1>1 DEF vm_map_allocate
  <1>5. size # 0 /\ Sound(Area(c, c + size)) /\ size % PAGE_SIZE = 0
    BY <1>1, <1>3, <1>4, RangeSound
  <1>6. ~vma_overlaps(c, size) BY <1>4 DEF Enter
  <1>7. c \in PageAddrs
    <2>1. c < Limit BY <1>2, <1>3, <1>4, <1>5, VmAssumption
    <2> QED BY <1>3, <2>1, Pages
  <1>8. \A d, a : a \in PagesOf(d, asked) <=> a \in PageAddrs /\ d <= a /\ a < d + size
    BY <1>1 DEF PagesOf
  <1>9. areas \in Seq(AreaType) /\ DOMAIN areas = 1 .. Len(areas) BY DEF IInv, Ordered
  <1>10. \A i \in DOMAIN areas :
           /\ areas[i].start \in Nat /\ areas[i].end \in Nat /\ areas[i].start < areas[i].end
           /\ VM_ALLOC_BASE <= areas[i].start /\ areas[i].end <= Limit
           /\ areas[i].start % PAGE_SIZE = 0
    BY <1>9, Fields DEF IInv, Ordered, Sound
  <1>11. \A a : a \in Covered <=> a \in PageAddrs /\ \E i \in DOMAIN areas : InArea(a, areas[i])
    BY DEF Covered, vm_map_lookup
  <1>12. PagesOf(c, asked) \cap Covered = {}
    <2> SUFFICES ASSUME NEW a \in PageAddrs, c <= a, a < c + size, a \in Covered PROVE FALSE
      BY <1>8
    <2>1. PICK i \in DOMAIN areas : InArea(a, areas[i]) BY <1>11
    <2>2. a \in Nat BY Pages
    <2>3. Overlap(areas[i], c, c + size) BY <1>2, <1>3, <1>10, <2>1, <2>2 DEF InArea, Overlap
    <2> QED BY <1>6, <2>3 DEF vma_overlaps
  <1>13. ASSUME NEW d \in PageAddrs, d < c PROVE PagesOf(d, asked) \cap Covered # {}
    <2>1. d \in Nat /\ VM_ALLOC_BASE <= d /\ d % PAGE_SIZE = 0 BY Pages
    <2>2. PICK i \in DOMAIN areas : Overlap(areas[i], d, d + size)
      BY <1>1, <1>2, <1>9, <1>13, <2>1, FirstFit DEF IInv
    <2>3. d < areas[i].end /\ d + size > areas[i].start BY <2>2 DEF Overlap
    <2>4. PICK a \in Nat : a = IF d >= areas[i].start THEN d ELSE areas[i].start BY <1>10, <2>1
    <2>5. VM_ALLOC_BASE <= a /\ a % PAGE_SIZE = 0 BY <1>10, <2>1, <2>4
    <2>6. a < areas[i].end /\ areas[i].start <= a /\ d <= a /\ a < d + size
      BY <1>2, <1>5, <1>10, <2>1, <2>3, <2>4
    <2>7. a < Limit BY <1>10, <2>6, VmAssumption
    <2>8. a \in PageAddrs BY <2>5, <2>7, Pages
    <2>9. a \in Covered BY <1>11, <2>6, <2>8 DEF InArea
    <2> QED BY <1>8, <2>6, <2>8, <2>9
  <1>14. Min(fits) = c
    <2>1. fits \in SUBSET Nat /\ c \in fits BY <1>7, <1>12, Pages
    <2>2. \A d \in fits : d \in PageAddrs /\ ~(d < c) BY <1>13
    <2> HIDE DEF fits
    <2>3. Min(fits) \in fits /\ Min(fits) <= c BY <2>1, Smallest
    <2>4. PICK m \in Nat : m = Min(fits) /\ m \in fits /\ m <= c BY <2>1, <2>3
    <2> QED BY <1>3, <2>2, <2>4
  <1>15. \A a : vm_map_lookup(a)' <=> vm_map_lookup(a) \/ InArea(a, Area(c, c + size))
    BY <1>2, <1>3, <1>4, <1>5, EnterStep DEF IInv
  <1>16. \A a : InArea(a, Area(c, c + size)) <=> c <= a /\ a < c + size BY DEF InArea, Area
  <1>17. \A a : a \in Covered' <=> a \in Covered \/ a \in PagesOf(c, asked)
    BY <1>8, <1>15, <1>16 DEF Covered
  <1>18. Covered' = Covered \cup PagesOf(c, asked) BY <1>17
  <1> QED BY <1>14, <1>18

\* vm_map_free_region removes exactly its range (and the rest of an area it
\* could not split), vm_map_allocate adds exactly the first free range of the
\* rounded size.
THEOREM RegionsAreExact == Spec => RegionsExact
  <1>1. ASSUME IInv, NEW size \in Sizes \ {0}, NEW start \in PageAddrs, vm_map_free_region(start, size)
        PROVE  LET range == PagesOf(start, size)
                   split == {i \in DOMAIN areas :
                               areas[i].start < start /\ areas[i].end > start + ALIGN_UP(size)}
                   rest == {a \in PageAddrs : a > start /\ \E i \in split : InArea(a, areas[i])}
               IN Covered' \in {Covered \ range, Covered \ (range \cup rest)}
    <2>1. size \in Nat \ {0} BY VmAssumption
    <2> QED BY <1>1, <2>1, FreeExact
  <1>2. ASSUME IInv, NEW size \in Sizes \ {0}, vm_map_allocate(size), areas' # areas
        PROVE  LET fits == {c \in PageAddrs : PagesOf(c, size) \cap Covered = {}}
               IN Covered' = Covered \cup PagesOf(Min(fits), size)
    <2>1. size \in Nat \ {0} BY VmAssumption
    <2> QED BY <1>2, <2>1, AllocateExact
  <1> DEFINE A == \A size \in Sizes \ {0} :
               /\ \A start \in PageAddrs : vm_map_free_region(start, size) =>
                    LET range == PagesOf(start, size)
                        split == {i \in DOMAIN areas :
                                    areas[i].start < start /\ areas[i].end > start + ALIGN_UP(size)}
                        rest == {a \in PageAddrs : a > start /\ \E i \in split : InArea(a, areas[i])}
                    IN Covered' \in {Covered \ range, Covered \ (range \cup rest)}
               /\ vm_map_allocate(size) /\ areas' # areas =>
                    LET fits == {c \in PageAddrs : PagesOf(c, size) \cap Covered = {}}
                    IN Covered' = Covered \cup PagesOf(Min(fits), size)
  <1>3. IInv => A BY <1>1, <1>2
  <1>4. IInv /\ [Next]_vars => [A]_vars BY <1>3
  <1> HIDE DEF A
  <1>5. Spec => [][A]_vars BY <1>4, Inductive, PTL DEF Spec
  <1> QED BY <1>5, PTL DEF A, RegionsExact
=============================================================================
