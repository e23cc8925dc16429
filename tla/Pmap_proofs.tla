---------------------------- MODULE Pmap_proofs ----------------------------
(***************************************************************************)
(* Proofs about the page tables, for tables of any even number of entries, *)
(* any number of frames and of address spaces, and every memory map.       *)
(***************************************************************************)
EXTENDS Pmap, Induction

-----------------------------------------------------------------------------
(* Addresses and indices *)

LEMMA Quotient ==
  ASSUME NEW a \in Nat, NEW n \in Nat \ {0}
  PROVE  /\ a \div n \in Nat /\ a % n \in 0 .. n - 1
         /\ a = n * (a \div n) + (a % n)
         /\ n * (a \div n) \in Nat
  OBVIOUS

LEMMA UniqueQuotient ==
  ASSUME NEW a \in Nat, NEW n \in Nat \ {0}, NEW q \in Int, NEW r \in 0 .. n - 1, a = n * q + r
  PROVE  a \div n = q /\ a % n = r
  OBVIOUS

\* Dividing in two steps
LEMMA QuotientTwice ==
  ASSUME NEW a \in Nat, NEW n \in Nat \ {0}, NEW k \in Nat \ {0}
  PROVE  (a \div n) \div k = a \div (k * n)
  <1>1. PICK q \in Nat, r \in 0 .. n - 1 : a \div n = q /\ a = n * q + r BY Quotient
  <1>2. PICK c \in Nat, d \in 0 .. k - 1 : q \div k = c /\ q = k * c + d BY <1>1, Quotient
  <1>3. PICK m \in Nat \ {0} : m = k * n OBVIOUS
  <1>4. n * q = m * c + n * d
    <2>1. n * q = n * (k * c) + n * d BY <1>2
    <2>2. n * (k * c) = m * c BY <1>3
    <2> QED BY <2>1, <2>2
  <1>5. n * d + r \in 0 .. m - 1
    <2>1. n * d \in Nat OBVIOUS
    <2>2. n * d + n <= m
      <3>1. d + 1 <= k OBVIOUS
      <3>2. n * (d + 1) <= n * k BY <3>1
      <3>3. n * (d + 1) = n * d + n /\ n * k = m BY <1>3
      <3> QED BY <3>2, <3>3
    <2> QED BY <2>1, <2>2
  <1>6. a = m * c + (n * d + r) BY <1>1, <1>4
  <1>7. PICK e \in 0 .. m - 1 : e = n * d + r BY <1>5
  <1>8. a \div m = c BY <1>6, <1>7, UniqueQuotient
  <1> QED BY <1>1, <1>2, <1>3, <1>8

LEMMA EvenF ==
  F \in Nat \ {0} /\ F = 2 * (F \div 2) /\ F \div 2 \in Nat \ {0} /\ F \div 2 < F
  BY PmapAssumption

\* The pages that a table of the level covers
Reach(level) == F * Span(level)

LEMMA Spans ==
  /\ \A l \in 1 .. 4 : Span(l) \in Nat \ {0} /\ Reach(l) \in Nat \ {0}
  /\ \A l \in 2 .. 4 : Span(l) = Reach(l - 1)
  /\ Reach(4) = NumPages /\ NumPages \in Nat \ {0} /\ Span(1) = 1
  <1>1. F \in Nat \ {0} BY EvenF
  <1>2. F * F \in Nat \ {0} BY <1>1
  <1>3. F * F * F \in Nat \ {0}
    <2>1. PICK x \in Nat \ {0} : x = F * F BY <1>2
    <2> QED BY <1>1, <2>1
  <1>4. F * F * F * F \in Nat \ {0}
    <2>1. PICK x \in Nat \ {0} : x = F * F * F BY <1>3
    <2> QED BY <1>1, <2>1
  <1>5. Span(1) = 1 /\ Span(2) = F /\ Span(3) = F * F /\ Span(4) = F * F * F BY DEF Span
  <1>6. /\ Reach(1) = F /\ Reach(2) = F * F
    BY <1>1, <1>5 DEF Reach
  <1>7. Reach(3) = F * F * F BY <1>1, <1>5 DEF Reach
  <1>8. Reach(4) = F * F * F * F BY <1>1, <1>5 DEF Reach
  <1>9. \A l \in 1 .. 4 : l = 1 \/ l = 2 \/ l = 3 \/ l = 4 OBVIOUS
  <1>10. \A l \in 1 .. 4 : Span(l) \in Nat \ {0} /\ Reach(l) \in Nat \ {0}
    BY <1>1, <1>2, <1>3, <1>4, <1>5, <1>6, <1>7, <1>8, <1>9
  <1>11. \A l \in 2 .. 4 : Span(l) = Reach(l - 1)
    <2>1. \A l \in 2 .. 4 : l = 2 \/ l = 3 \/ l = 4 OBVIOUS
    <2>2. 2 - 1 = 1 /\ 3 - 1 = 2 /\ 4 - 1 = 3 OBVIOUS
    <2>3. Span(2) = Reach(1) /\ Span(3) = Reach(2) /\ Span(4) = Reach(3) BY <1>5, <1>6, <1>7
    <2> QED BY <2>1, <2>2, <2>3
  <1> QED BY <1>4, <1>5, <1>8, <1>10, <1>11 DEF NumPages

\* The first page that the table of the level on the way to va covers
Base(va, level) == Reach(level) * (va \div Reach(level))

LEMMA Inside ==
  ASSUME NEW va \in Virt, NEW l \in 1 .. 4
  PROVE  Base(va, l) \in Nat /\ va \in Base(va, l) .. Base(va, l) + Reach(l) - 1
  <1>1. va \in Nat /\ Reach(l) \in Nat \ {0} BY Spans DEF Virt
  <1>2. PICK n \in Nat \ {0} : n = Reach(l) BY <1>1
  <1>3. Base(va, l) = n * (va \div n) BY <1>2 DEF Base
  <1>4. /\ va % n \in 0 .. n - 1 /\ va = n * (va \div n) + (va % n) /\ n * (va \div n) \in Nat
    BY <1>1, Quotient
  <1>5. PICK b \in Nat, r \in 0 .. n - 1 : b = Base(va, l) /\ va = b + r BY <1>3, <1>4
  <1> QED BY <1>2, <1>5

\* The index of va at a level leads from the table's first page to the block of
\* the level that holds va.
LEMMA Digit ==
  ASSUME NEW va \in Virt, NEW l \in 1 .. 4
  PROVE  /\ Idx(va, l) \in 0 .. F - 1
         /\ Base(va, l) + Idx(va, l) * Span(l) = Span(l) * (va \div Span(l))
  <1>1. va \in Nat /\ Span(l) \in Nat \ {0} /\ F \in Nat \ {0} BY Spans, EvenF DEF Virt
  <1>2. PICK p \in Nat \ {0} : p = Span(l) BY <1>1
  <1>3. PICK q \in Nat : q = va \div p BY <1>1, <1>2, Quotient
  <1>4. PICK c \in Nat, d \in 0 .. F - 1 : c = q \div F /\ d = q % F /\ q = F * c + d
    <2>1. q \div F \in Nat /\ q % F \in 0 .. F - 1 /\ q = F * (q \div F) + (q % F)
      BY <1>1, Quotient
    <2> QED BY <2>1
  <1>5. Idx(va, l) = d BY <1>2, <1>3, <1>4 DEF Idx
  <1>6. va \div (F * p) = c
    <2>1. (va \div p) \div F = va \div (F * p) BY <1>1, QuotientTwice
    <2> QED BY <1>3, <1>4, <2>1
  <1>7. Base(va, l) = (F * p) * c BY <1>2, <1>6 DEF Base, Reach
  <1>8. p * q = p * (F * c) + p * d BY <1>1, <1>4
  <1>9. p * (F * c) = (F * p) * c BY <1>1
  <1>10. (F * p) * c + d * p = p * q BY <1>1, <1>8, <1>9
  <1> QED BY <1>2, <1>3, <1>4, <1>5, <1>7, <1>10

\* The next table on the way begins there; the top table covers everything.
LEMMA NextBase ==
  ASSUME NEW va \in Virt
  PROVE  /\ \A l \in 2 .. 4 : Base(va, l) + Idx(va, l) * Span(l) = Base(va, l - 1)
         /\ Base(va, 4) = 0
  <1>1. ASSUME NEW l \in 2 .. 4 PROVE Base(va, l) + Idx(va, l) * Span(l) = Base(va, l - 1)
    <2>1. l \in 1 .. 4 /\ Span(l) = Reach(l - 1) BY Spans
    <2>2. Base(va, l) + Idx(va, l) * Span(l) = Span(l) * (va \div Span(l)) BY <2>1, Digit
    <2>3. Base(va, l - 1) = Span(l) * (va \div Span(l)) BY <2>1 DEF Base
    <2> QED BY <2>2, <2>3
  <1>2. Base(va, 4) = 0
    <2>1. PICK n \in Nat \ {0} : n = NumPages BY Spans
    <2>2. va \in 0 .. n - 1 /\ va = n * 0 + va BY <2>1 DEF Virt
    <2>3. va \div n = 0 BY <2>1, <2>2, UniqueQuotient
    <2>4. Base(va, 4) = n * 0 BY <2>1, <2>3, Spans DEF Base
    <2> QED BY <2>1, <2>4
  <1> QED BY <1>1, <1>2

\* The upper half of the addresses is the upper half of the top table.
LEMMA Halves ==
  ASSUME NEW va \in Virt
  PROVE  va < Half <=> Idx(va, 4) < F \div 2
  <1>1. PICK h \in Nat \ {0} : h = F \div 2 /\ F = 2 * h BY EvenF
  <1>2. PICK p \in Nat \ {0} : p = Span(4) BY Spans
  <1>3. NumPages = F * p BY <1>2, Spans DEF Reach
  <1>4. Half = h * p
    <2>1. PICK x \in Nat : x = h * p OBVIOUS
    <2>2. NumPages = 2 * x BY <1>1, <1>3, <2>1
    <2> QED BY <2>1, <2>2 DEF Half
  <1>5. PICK q \in 0 .. F - 1 : q = Idx(va, 4) BY Digit
  <1>6. va \in Nat /\ Base(va, 4) = 0 BY NextBase DEF Virt
  <1>7. PICK r \in 0 .. p - 1 : va = p * (va \div p) + r
    <2>1. va % p \in 0 .. p - 1 /\ va = p * (va \div p) + (va % p) BY <1>6, Quotient
    <2> QED BY <2>1
  <1>8. 0 + q * p = p * (va \div p) BY <1>2, <1>5, <1>6, Digit
  <1>9. va = q * p + r BY <1>1, <1>2, <1>5, <1>7, <1>8
  <1>10. q \in Nat BY <1>5
  <1>11. CASE q < h
    <2>1. (q + 1) * p <= h * p BY <1>10, <1>11
    <2>2. (q + 1) * p = q * p + p BY <1>10
    <2> QED BY <1>1, <1>4, <1>5, <1>9, <1>10, <1>11, <2>1, <2>2
  <1>12. CASE ~(q < h)
    <2>1. q * p >= h * p BY <1>10, <1>12
    <2> QED BY <1>1, <1>4, <1>5, <1>9, <1>10, <1>12, <2>1
  <1> QED BY <1>11, <1>12

\* Two addresses in one block of a level have the same indices from there up ...
LEMMA SameIndices ==
  ASSUME NEW va \in Virt, NEW v \in Virt, NEW k \in 1 .. 3, va \div Span(k) = v \div Span(k)
  PROVE  \A l \in k .. 4 : Idx(va, l) = Idx(v, l)
  <1>1. ASSUME NEW l \in 1 .. 3, va \div Span(l) = v \div Span(l)
        PROVE  va \div Span(l + 1) = v \div Span(l + 1)
    <2>1. PICK p \in Nat \ {0} : p = Span(l) BY Spans
    <2>2. Span(l + 1) = F * p
      <3>1. l + 1 \in 2 .. 4 /\ l + 1 - 1 = l OBVIOUS
      <3> QED BY <2>1, <3>1, Spans DEF Reach
    <2>3. va \in Nat /\ v \in Nat /\ F \in Nat \ {0} BY Spans, EvenF DEF Virt
    <2>4. (va \div p) \div F = va \div (F * p) /\ (v \div p) \div F = v \div (F * p)
      BY <2>3, QuotientTwice
    <2> QED BY <1>1, <2>1, <2>2, <2>4
  <1>2. \A l \in k .. 4 : va \div Span(l) = v \div Span(l)
    <2>1. 1 + 1 = 2 /\ 2 + 1 = 3 /\ 3 + 1 = 4 OBVIOUS
    <2>2. va \div Span(3) = v \div Span(3) => va \div Span(4) = v \div Span(4) BY <1>1, <2>1
    <2>3. va \div Span(2) = v \div Span(2) => va \div Span(3) = v \div Span(3) BY <1>1, <2>1
    <2>4. va \div Span(1) = v \div Span(1) => va \div Span(2) = v \div Span(2) BY <1>1, <2>1
    <2>5. k = 1 \/ k = 2 \/ k = 3 OBVIOUS
    <2>6. \A l \in k .. 4 : l = 1 \/ l = 2 \/ l = 3 \/ l = 4 OBVIOUS
    <2>7. CASE k = 1 BY <2>2, <2>3, <2>4, <2>6, <2>7
    <2>8. CASE k = 2
      <3>1. \A l \in 2 .. 4 : l = 2 \/ l = 3 \/ l = 4 OBVIOUS
      <3> QED BY <2>2, <2>3, <2>8, <3>1
    <2>9. CASE k = 3
      <3>1. \A l \in 3 .. 4 : l = 3 \/ l = 4 OBVIOUS
      <3> QED BY <2>2, <2>9, <3>1
    <2> QED BY <2>5, <2>7, <2>8, <2>9
  <1> QED BY <1>2 DEF Idx

\* ... and those with the same table and index are in one block.
LEMMA SameBlock ==
  ASSUME NEW va \in Virt, NEW v \in Virt, NEW l \in 1 .. 4,
         Base(va, l) = Base(v, l), Idx(va, l) = Idx(v, l)
  PROVE  va \div Span(l) = v \div Span(l)
  <1>1. PICK p \in Nat \ {0} : p = Span(l) BY Spans
  <1>2. p * (va \div p) = p * (v \div p) BY <1>1, Digit
  <1>3. PICK x \in Nat, y \in Nat : x = va \div p /\ y = v \div p
    <2>1. va \in Nat /\ v \in Nat BY DEF Virt
    <2>2. va \div p \in Nat /\ v \div p \in Nat BY <2>1, Quotient
    <2> QED BY <2>2
  <1>4. x = y BY <1>2, <1>3
  <1> QED BY <1>1, <1>3, <1>4

LEMMA AlignedBlock ==
  ASSUME NEW va \in Virt, NEW v \in Virt, NEW l \in 1 .. 4, v % Span(l) = 0
  PROVE  /\ va \div Span(l) = v \div Span(l) <=> va \in v .. v + Span(l) - 1
         /\ va \div Span(l) = v \div Span(l) => va % Span(l) = va - v
         /\ Span(l) * (v \div Span(l)) = v
  <1>1. PICK p \in Nat \ {0} : p = Span(l) BY Spans
  <1>2. va \in Nat /\ v \in Nat BY DEF Virt
  <1>3. PICK y \in Nat : y = v \div p /\ v = p * y
    <2>1. v \div p \in Nat /\ v = p * (v \div p) + (v % p) /\ p * (v \div p) \in Nat BY <1>2, Quotient
    <2>2. v % p = 0 BY <1>1
    <2>3. v = p * (v \div p) BY <2>1, <2>2
    <2> QED BY <2>1, <2>3
  <1>4. PICK x \in Nat, r \in 0 .. p - 1 : x = va \div p /\ r = va % p /\ va = p * x + r
    <2>1. va \div p \in Nat /\ va % p \in 0 .. p - 1 /\ va = p * (va \div p) + (va % p)
      BY <1>2, Quotient
    <2> QED BY <2>1
  <1>5. ASSUME x = y PROVE va \in v .. v + p - 1 /\ r = va - v BY <1>3, <1>4, <1>5
  <1>6. ASSUME va \in v .. v + p - 1 PROVE x = y
    <2>1. va - v \in 0 .. p - 1 /\ va = p * y + (va - v) BY <1>2, <1>3, <1>6
    <2>2. va \div p = y BY <1>2, <2>1, UniqueQuotient
    <2> QED BY <1>4, <2>2
  <1> QED BY <1>1, <1>3, <1>4, <1>5, <1>6

-----------------------------------------------------------------------------
(* The trees.  A ghost says of every frame which level of which space's    *)
(* tree it is and where the pages begin that it covers.                    *)

Cell == [kind : {"none", "page", "table"}, to : Nat]
Memories == [Frames -> [0 .. F - 1 -> Cell]]
Ghost == [lv : 1 .. 4, own : All, bs : Nat]
Place(lv, own, bs) == [lv |-> lv, own |-> own, bs |-> bs]

\* The entry is one that the spaces have in common, seen from a user space.
Shared(r, f, i) == i >= F \div 2 /\ \E s \in Spaces : f = r[s]
Link(m, r, f, i) == m[f][i].kind = "table" /\ ~Shared(r, f, i)

\* There are no user spaces.
Alone(r) == \A s \in Spaces : r[s] = NULL

TreeType(m, u, r, g) ==
  /\ m \in Memories /\ u \in SUBSET Frames /\ r \in [All -> Frames \union {NULL}]
  /\ g \in [Frames -> Ghost] /\ r[KERNEL] # NULL

Roots(u, r, g) ==
  /\ \A s \in All : r[s] # NULL => r[s] \in u /\ g[r[s]] = Place(4, s, 0)
  /\ \A f \in u : r[g[f].own] # NULL

\* Every table is a root or hangs on another, ...
Hangs(m, u, r, g) ==
  \A f \in u : f = r[g[f].own] \/ \E p \in u, i \in 0 .. F - 1 : Link(m, r, p, i) /\ m[p][i].to = f

\* ... one level above, ...
Children(m, u, r, g) ==
  \A f \in u, i \in 0 .. F - 1 : Link(m, r, f, i) =>
    LET c == m[f][i].to
    IN /\ g[f].lv > 1 /\ c \in u
       /\ g[c] = Place(g[f].lv - 1, g[f].own, g[f].bs + i * Span(g[f].lv))

\* ... in one place.
Once(m, u, r) ==
  \A f, h \in u, i, j \in 0 .. F - 1 :
    Link(m, r, f, i) /\ Link(m, r, h, j) /\ m[f][i].to = m[h][j].to => f = h /\ i = j

\* User spaces have no huge pages.
PagesLow(m, u, r, g) ==
  \A f \in u, i \in 0 .. F - 1 :
    m[f][i].kind = "page" /\ ~Shared(r, f, i) => g[f].lv <= 3 /\ (g[f].own # KERNEL => g[f].lv = 1)

UpperHalf(m, r) ==
  \A s \in Spaces, i \in 0 .. F - 1 :
    r[s] # NULL /\ i >= F \div 2 => m[r[s]][i] = m[r[KERNEL]][i]

Tree(m, u, r, g) ==
  /\ TreeType(m, u, r, g) /\ Roots(u, r, g) /\ Hangs(m, u, r, g) /\ Children(m, u, r, g)
  /\ Once(m, u, r) /\ PagesLow(m, u, r, g) /\ UpperHalf(m, r)

LEMMA FramesNull == NULL \notin Frames /\ Frames \subseteq Nat /\ KERNEL \in All /\ KERNEL \notin Spaces
  BY PmapAssumption DEF NULL, Frames, All

\* A frame that is not in use points nowhere and nothing points at it.
LEMMA Alloc ==
  ASSUME NEW m, NEW u, NEW r, NEW g, Tree(m, u, r, g),
         NEW f \in Frames, f \notin u, NEW t \in u, NEW i \in 0 .. F - 1,
         m[t][i].kind = "none", g[t].lv > 1, ~Shared(r, t, i),
         t = r[KERNEL] /\ i >= F \div 2 => Alone(r)
  PROVE  Tree([m EXCEPT ![f] = Empty, ![t][i] = Table(f)], u \union {f}, r,
              [g EXCEPT ![f] = Place(g[t].lv - 1, g[t].own, g[t].bs + i * Span(g[t].lv))])
  <1> DEFINE m2 == [m EXCEPT ![f] = Empty, ![t][i] = Table(f)]
             x == Place(g[t].lv - 1, g[t].own, g[t].bs + i * Span(g[t].lv))
             g2 == [g EXCEPT ![f] = x]
             v == u \union {f}
  <1>0. TreeType(m, u, r, g) BY DEF Tree
  <1>1. t # f /\ t \in Frames /\ f # NULL /\ f \in Nat BY <1>0, FramesNull DEF TreeType
  <1>2. \A h \in Frames, j \in 0 .. F - 1 :
          m2[h][j] = IF h = f THEN None ELSE IF h = t /\ j = i THEN Table(f) ELSE m[h][j]
    BY <1>0, <1>1 DEF TreeType, Memories, Empty
  <1>3. x \in Ghost
    <2>1. g[t].lv \in 1 .. 4 /\ g[t].own \in All /\ g[t].bs \in Nat BY <1>0, <1>1 DEF TreeType, Ghost
    <2>2. Span(g[t].lv) \in Nat /\ i \in Nat BY <2>1, Spans
    <2>3. i * Span(g[t].lv) \in Nat BY <2>2
    <2>4. g[t].lv - 1 \in 1 .. 4 BY <2>1
    <2>5. g[t].bs + i * Span(g[t].lv) \in Nat BY <2>1, <2>3
    <2> QED BY <2>1, <2>4, <2>5 DEF Ghost, Place
  <1>4. g2[f] = x /\ \A h \in Frames : h # f => g2[h] = g[h] BY <1>0, <1>3 DEF TreeType
  <1>5. TreeType(m2, v, r, g2)
    <2>1. Empty \in [0 .. F - 1 -> Cell] /\ Table(f) \in Cell BY <1>1 DEF Empty, None, Cell, Table
    <2>2. m2 \in Memories BY <1>0, <1>1, <2>1 DEF TreeType, Memories
    <2>3. g2 \in [Frames -> Ghost] BY <1>0, <1>3 DEF TreeType
    <2> HIDE DEF m2, g2
    <2> QED BY <1>0, <2>2, <2>3 DEF TreeType
  <1> HIDE DEF m2, g2, x
  <1>6. u \subseteq Frames BY <1>0 DEF TreeType
  <1>7. /\ ~\E s \in Spaces : f = r[s]
        /\ \A s \in All : r[s] # f
    BY FramesNull DEF Tree, Roots, All
  <1>8. /\ Link(m2, r, t, i) /\ m2[t][i].to = f
        /\ \A j \in 0 .. F - 1 : ~Link(m2, r, f, j)
        /\ \A h \in u, j \in 0 .. F - 1 : h # t \/ j # i =>
             m2[h][j] = m[h][j] /\ (Link(m2, r, h, j) <=> Link(m, r, h, j))
        /\ ~Link(m, r, t, i)
    BY <1>1, <1>2, <1>6 DEF Link, None, Table
  <1>9. Roots(v, r, g2)
    <2>1. \A s \in All : r[s] # NULL => r[s] \in v /\ g2[r[s]] = Place(4, s, 0)
      BY <1>4, <1>6, <1>7 DEF Tree, Roots
    <2>2. \A h \in u : r[g2[h].own] # NULL BY <1>4, <1>6 DEF Tree, Roots
    <2>3. g2[f].own = g[t].own BY <1>4 DEF x, Place
    <2>4. r[g2[f].own] # NULL BY <2>3 DEF Tree, Roots
    <2> QED BY <2>1, <2>2, <2>4 DEF Roots
  <1>10. Hangs(m2, v, r, g2)
    <2> SUFFICES ASSUME NEW h \in v, h # r[g2[h].own]
                 PROVE  \E p \in v, j \in 0 .. F - 1 : Link(m2, r, p, j) /\ m2[p][j].to = h
      BY DEF Hangs
    <2>1. CASE h = f BY <1>8, <2>1
    <2>2. CASE h # f
      <3>1. h \in u /\ h # r[g[h].own] BY <1>4, <1>6, <2>2
      <3>2. PICK p \in u, j \in 0 .. F - 1 : Link(m, r, p, j) /\ m[p][j].to = h
        BY <3>1 DEF Tree, Hangs
      <3>3. p # t \/ j # i BY <1>8, <3>2
      <3> QED BY <1>8, <3>2, <3>3
    <2> QED BY <2>1, <2>2
  <1>11. Children(m2, v, r, g2)
    <2> SUFFICES ASSUME NEW h \in v, NEW j \in 0 .. F - 1, Link(m2, r, h, j)
                 PROVE  /\ g2[h].lv > 1 /\ m2[h][j].to \in v
                        /\ g2[m2[h][j].to] =
                             Place(g2[h].lv - 1, g2[h].own, g2[h].bs + j * Span(g2[h].lv))
      BY DEF Children
    <2>1. CASE h = t /\ j = i
      <3>1. g2[t] = g[t] BY <1>1, <1>4
      <3> QED BY <1>4, <1>8, <2>1, <3>1 DEF x
    <2>2. CASE ~(h = t /\ j = i)
      <3>1. h \in u /\ Link(m, r, h, j) /\ m2[h][j] = m[h][j] BY <1>8, <2>2
      <3>2. PICK c : c = m[h][j].to OBVIOUS
      <3>3. /\ g[h].lv > 1 /\ c \in u
            /\ g[c] = Place(g[h].lv - 1, g[h].own, g[h].bs + j * Span(g[h].lv))
        BY <3>1, <3>2 DEF Tree, Children
      <3>4. g2[h] = g[h] /\ g2[c] = g[c] BY <1>4, <1>6, <3>1, <3>3
      <3> QED BY <3>1, <3>2, <3>3, <3>4
    <2> QED BY <2>1, <2>2
  <1>12. Once(m2, v, r)
    <2> SUFFICES ASSUME NEW h \in v, NEW k \in v, NEW j \in 0 .. F - 1, NEW l \in 0 .. F - 1,
                        Link(m2, r, h, j), Link(m2, r, k, l), m2[h][j].to = m2[k][l].to
                 PROVE  h = k /\ j = l
      BY DEF Once
    <2>1. h \in u /\ k \in u BY <1>8
    <2>2. ASSUME NEW p \in u, NEW q \in 0 .. F - 1, Link(m, r, p, q) PROVE m[p][q].to # f
      BY <2>2 DEF Tree, Children
    <2>3. CASE h = t /\ j = i
      <3>1. SUFFICES ASSUME ~(k = t /\ l = i) PROVE FALSE BY <2>3
      <3> QED BY <1>8, <2>1, <2>2, <2>3, <3>1
    <2>4. CASE k = t /\ l = i
      <3>1. SUFFICES ASSUME ~(h = t /\ j = i) PROVE FALSE BY <2>4
      <3> QED BY <1>8, <2>1, <2>2, <2>4, <3>1
    <2>5. CASE ~(h = t /\ j = i) /\ ~(k = t /\ l = i)
      <3>1. Link(m, r, h, j) /\ Link(m, r, k, l) /\ m[h][j].to = m[k][l].to BY <1>8, <2>1, <2>5
      <3> QED BY <2>1, <3>1 DEF Tree, Once
    <2> QED BY <2>3, <2>4, <2>5
  <1>13. PagesLow(m2, v, r, g2)
    <2> SUFFICES ASSUME NEW h \in v, NEW j \in 0 .. F - 1, m2[h][j].kind = "page", ~Shared(r, h, j)
                 PROVE  g2[h].lv <= 3 /\ (g2[h].own # KERNEL => g2[h].lv = 1)
      BY DEF PagesLow
    <2>1. h # f /\ ~(h = t /\ j = i) BY <1>1, <1>2, <1>6 DEF None, Table
    <2>2. h \in u /\ m2[h][j] = m[h][j] /\ g2[h] = g[h] BY <1>4, <1>6, <1>8, <2>1
    <2> QED BY <2>2 DEF Tree, PagesLow
  <1>14. UpperHalf(m2, r)
    <2> SUFFICES ASSUME NEW s \in Spaces, NEW j \in 0 .. F - 1, r[s] # NULL, j >= F \div 2
                 PROVE  m2[r[s]][j] = m2[r[KERNEL]][j]
      BY DEF UpperHalf
    <2>1. m[r[s]][j] = m[r[KERNEL]][j] BY DEF Tree, UpperHalf
    <2>2. r[s] \in u /\ r[KERNEL] \in u BY <1>0, FramesNull DEF Tree, Roots, TreeType, All
    <2>3. ~(r[KERNEL] = t /\ j = i) BY DEF Alone
    <2>4. ~(r[s] = t /\ j = i) BY DEF Shared
    <2> QED BY <1>8, <2>1, <2>2, <2>3, <2>4
  <1>15. Tree(m2, v, r, g2) BY <1>5, <1>9, <1>10, <1>11, <1>12, <1>13, <1>14 DEF Tree
  <1> QED BY <1>15 DEF m2, g2, x

\* A page is entered, or an entry cleared, in place of one that was no table.
LEMMA Put ==
  ASSUME NEW m, NEW u, NEW r, NEW g, Tree(m, u, r, g),
         NEW t \in u, NEW i \in 0 .. F - 1, NEW c \in Cell,
         m[t][i].kind # "table", c.kind # "table", g[t].lv <= 3,
         c.kind = "page" /\ g[t].own # KERNEL => g[t].lv = 1
  PROVE  Tree([m EXCEPT ![t][i] = c], u, r, g)
  <1> DEFINE m2 == [m EXCEPT ![t][i] = c]
  <1>0. TreeType(m, u, r, g) /\ u \subseteq Frames BY DEF Tree, TreeType
  <1>1. \A h \in Frames, j \in 0 .. F - 1 : m2[h][j] = IF h = t /\ j = i THEN c ELSE m[h][j]
    BY <1>0 DEF TreeType, Memories
  <1>2. TreeType(m2, u, r, g)
    <2>1. m2 \in Memories BY <1>0 DEF TreeType, Memories
    <2> HIDE DEF m2
    <2> QED BY <1>0, <2>1 DEF TreeType
  <1> HIDE DEF m2
  <1>3. \A h \in u, j \in 0 .. F - 1 :
          /\ Link(m2, r, h, j) <=> Link(m, r, h, j)
          /\ Link(m, r, h, j) => m2[h][j] = m[h][j]
    BY <1>0, <1>1 DEF Link
  <1>4. Roots(u, r, g) BY DEF Tree
  <1>5. Hangs(m2, u, r, g)
    <2> SUFFICES ASSUME NEW h \in u, h # r[g[h].own]
                 PROVE  \E p \in u, j \in 0 .. F - 1 : Link(m2, r, p, j) /\ m2[p][j].to = h
      BY DEF Hangs
    <2>1. PICK p \in u, j \in 0 .. F - 1 : Link(m, r, p, j) /\ m[p][j].to = h BY DEF Tree, Hangs
    <2> QED BY <1>3, <2>1
  <1>6. Children(m2, u, r, g)
    <2> SUFFICES ASSUME NEW h \in u, NEW j \in 0 .. F - 1, Link(m2, r, h, j)
                 PROVE  /\ g[h].lv > 1 /\ m2[h][j].to \in u
                        /\ g[m2[h][j].to] =
                             Place(g[h].lv - 1, g[h].own, g[h].bs + j * Span(g[h].lv))
      BY DEF Children
    <2>1. Link(m, r, h, j) /\ m2[h][j] = m[h][j] BY <1>3
    <2> QED BY <2>1 DEF Tree, Children
  <1>7. Once(m2, u, r)
    <2> SUFFICES ASSUME NEW h \in u, NEW k \in u, NEW j \in 0 .. F - 1, NEW l \in 0 .. F - 1,
                        Link(m2, r, h, j), Link(m2, r, k, l), m2[h][j].to = m2[k][l].to
                 PROVE  h = k /\ j = l
      BY DEF Once
    <2>1. Link(m, r, h, j) /\ Link(m, r, k, l) /\ m[h][j].to = m[k][l].to BY <1>3
    <2> QED BY <2>1 DEF Tree, Once
  <1>8. PagesLow(m2, u, r, g)
    <2> SUFFICES ASSUME NEW h \in u, NEW j \in 0 .. F - 1, m2[h][j].kind = "page", ~Shared(r, h, j)
                 PROVE  g[h].lv <= 3 /\ (g[h].own # KERNEL => g[h].lv = 1)
      BY DEF PagesLow
    <2>1. CASE h = t /\ j = i BY <1>0, <1>1, <2>1
    <2>2. CASE ~(h = t /\ j = i)
      <3>1. m[h][j].kind = "page" BY <1>0, <1>1, <2>2
      <3> QED BY <3>1 DEF Tree, PagesLow
    <2> QED BY <2>1, <2>2
  <1>9. UpperHalf(m2, r)
    <2>1. \A s \in All : r[s] # NULL => r[s] # t /\ r[s] \in Frames
      <3> SUFFICES ASSUME NEW s \in All, r[s] # NULL PROVE r[s] # t /\ r[s] \in Frames OBVIOUS
      <3>1. r[s] \in u /\ g[r[s]] = Place(4, s, 0) BY DEF Tree, Roots
      <3>2. g[r[s]].lv = 4 BY <3>1 DEF Place
      <3> QED BY <1>0, <3>1, <3>2
    <2>2. r[KERNEL] # NULL /\ Spaces \subseteq All /\ KERNEL \in All BY <1>0 DEF TreeType, All
    <2>3. ASSUME NEW s \in All, NEW j \in 0 .. F - 1, r[s] # NULL PROVE m2[r[s]][j] = m[r[s]][j]
      BY <1>1, <2>1, <2>3
    <2> QED BY <2>2, <2>3 DEF UpperHalf, Tree
  <1>10. Tree(m2, u, r, g) BY <1>2, <1>4, <1>5, <1>6, <1>7, <1>8, <1>9 DEF Tree
  <1> QED BY <1>10 DEF m2

LEMMA Places ==
  ASSUME NEW lv, NEW own, NEW bs
  PROVE  Place(lv, own, bs).lv = lv /\ Place(lv, own, bs).own = own /\ Place(lv, own, bs).bs = bs
  BY DEF Place

\* Only the roots are tables of level 4.
LEMMA OnlyRoots ==
  ASSUME NEW m, NEW u, NEW r, NEW g, Tree(m, u, r, g), NEW f \in u
  PROVE  g[f].lv = 4 <=> f = r[g[f].own]
  <1>0. TreeType(m, u, r, g) BY DEF Tree
  <1>1. g[f] \in Ghost BY <1>0 DEF TreeType
  <1>2. g[f].own \in All BY <1>1 DEF Ghost
  <1>3. ASSUME f = r[g[f].own] PROVE g[f].lv = 4
    <2>1. g[f] = Place(4, g[f].own, 0) BY <1>2, <1>3 DEF Tree, Roots
    <2> QED BY <2>1, Places
  <1>4. ASSUME f # r[g[f].own] PROVE g[f].lv # 4
    <2>1. PICK p \in u, i \in 0 .. F - 1 : Link(m, r, p, i) /\ m[p][i].to = f
      BY <1>4 DEF Tree, Hangs
    <2>2. g[f] = Place(g[p].lv - 1, g[p].own, g[p].bs + i * Span(g[p].lv))
      BY <2>1 DEF Tree, Children
    <2>3. g[f].lv = g[p].lv - 1 BY <2>2, Places
    <2>4. g[p].lv \in 1 .. 4 BY <1>0 DEF TreeType, Ghost
    <2> QED BY <2>3, <2>4
  <1> QED BY <1>3, <1>4

\* pmap_create_table: the new top table has its own lower half, which is empty.
LEMMA Create ==
  ASSUME NEW m, NEW u, NEW r, NEW g, Tree(m, u, r, g), NEW s \in Spaces, r[s] = NULL,
         NEW f \in Frames, f \notin u, NEW c \in [0 .. F - 1 -> Cell],
         \A i \in 0 .. F - 1 : c[i] = IF i < F \div 2 THEN None ELSE m[r[KERNEL]][i]
  PROVE  Tree([m EXCEPT ![f] = c], u \union {f}, [r EXCEPT ![s] = f], [g EXCEPT ![f] = Place(4, s, 0)])
  <1> DEFINE m2 == [m EXCEPT ![f] = c]
             v == u \union {f}
             r2 == [r EXCEPT ![s] = f]
             x == Place(4, s, 0)
             g2 == [g EXCEPT ![f] = x]
  <1>0. TreeType(m, u, r, g) /\ u \subseteq Frames BY DEF Tree, TreeType
  <1>1. f # NULL /\ s \in All /\ s # KERNEL /\ KERNEL \in All /\ Spaces \subseteq All
    BY FramesNull DEF All
  <1>2. m2[f] = c /\ \A h \in u : m2[h] = m[h] BY <1>0 DEF TreeType, Memories
  <1>3. r2[s] = f /\ \A q \in All : q # s => r2[q] = r[q] BY <1>0, <1>1 DEF TreeType
  <1>4. x \in Ghost BY <1>1 DEF Ghost, Place
  <1>5. g2[f] = x /\ \A h \in u : g2[h] = g[h] BY <1>0 DEF TreeType
  <1>6. TreeType(m2, v, r2, g2)
    <2>1. m2 \in Memories BY <1>0 DEF TreeType, Memories
    <2>2. r2 \in [All -> Frames \union {NULL}] BY <1>0 DEF TreeType
    <2>3. g2 \in [Frames -> Ghost] BY <1>0, <1>4 DEF TreeType
    <2>4. r2[KERNEL] # NULL BY <1>0, <1>1, <1>3 DEF TreeType
    <2> HIDE DEF m2, r2, g2
    <2> QED BY <1>0, <2>1, <2>2, <2>3, <2>4 DEF TreeType
  <1> HIDE DEF m2, r2, g2, x
  <1>7. x.lv = 4 /\ x.own = s BY Places DEF x
  <1>8. \A h \in u, j \in 0 .. F - 1 : Shared(r2, h, j) <=> Shared(r, h, j)
    <2>1. \A h \in u : h # NULL /\ h # f BY <1>0, FramesNull
    <2> QED BY <1>1, <1>3, <2>1 DEF Shared
  <1>9. \A h \in u, j \in 0 .. F - 1 : Link(m2, r2, h, j) <=> Link(m, r, h, j) BY <1>2, <1>8 DEF Link
  <1>10. \A j \in 0 .. F - 1 : ~Link(m2, r2, f, j) /\ (m2[f][j].kind = "page" => Shared(r2, f, j))
    <2> TAKE j \in 0 .. F - 1
    <2>1. CASE j < F \div 2
      <3>1. m2[f][j] = None BY <1>2, <2>1
      <3> QED BY <3>1 DEF None, Link
    <2>2. CASE ~(j < F \div 2)
      <3>1. j >= F \div 2 BY <2>2, EvenF
      <3>2. Shared(r2, f, j) BY <1>3, <3>1 DEF Shared
      <3> QED BY <3>2 DEF Link
    <2> QED BY <2>1, <2>2
  <1>11. Roots(v, r2, g2)
    <2>1. ASSUME NEW q \in All, r2[q] # NULL PROVE r2[q] \in v /\ g2[r2[q]] = Place(4, q, 0)
      <3>1. CASE q = s BY <1>3, <1>5, <3>1 DEF x
      <3>2. CASE q # s
        <4>1. r[q] \in u /\ g[r[q]] = Place(4, q, 0) BY <1>3, <2>1, <3>2 DEF Tree, Roots
        <4> QED BY <1>3, <1>5, <3>2, <4>1
      <3> QED BY <3>1, <3>2
    <2>2. ASSUME NEW h \in v PROVE r2[g2[h].own] # NULL
      <3>1. CASE h = f BY <1>1, <1>3, <1>5, <1>7, <3>1
      <3>2. CASE h # f
        <4>1. h \in u /\ g2[h] = g[h] BY <1>5, <3>2
        <4>2. r[g[h].own] # NULL /\ g[h].own \in All BY <1>0, <4>1 DEF Tree, Roots, TreeType, Ghost
        <4> QED BY <1>3, <4>1, <4>2
      <3> QED BY <3>1, <3>2
    <2> QED BY <2>1, <2>2 DEF Roots
  <1>12. Hangs(m2, v, r2, g2)
    <2> SUFFICES ASSUME NEW h \in v, h # r2[g2[h].own]
                 PROVE  \E p \in v, j \in 0 .. F - 1 : Link(m2, r2, p, j) /\ m2[p][j].to = h
      BY DEF Hangs
    <2>1. h # f BY <1>3, <1>5, <1>7
    <2>2. h \in u /\ g2[h] = g[h] BY <1>5, <2>1
    <2>3. g[h].own \in All /\ r[g[h].own] # NULL BY <1>0, <2>2 DEF Tree, Roots, TreeType, Ghost
    <2>4. h # r[g[h].own] BY <1>3, <2>2, <2>3
    <2>5. PICK p \in u, j \in 0 .. F - 1 : Link(m, r, p, j) /\ m[p][j].to = h
      BY <2>2, <2>4 DEF Tree, Hangs
    <2> QED BY <1>2, <1>9, <2>5
  <1>13. Children(m2, v, r2, g2)
    <2> SUFFICES ASSUME NEW h \in v, NEW j \in 0 .. F - 1, Link(m2, r2, h, j)
                 PROVE  /\ g2[h].lv > 1 /\ m2[h][j].to \in v
                        /\ g2[m2[h][j].to] =
                             Place(g2[h].lv - 1, g2[h].own, g2[h].bs + j * Span(g2[h].lv))
      BY DEF Children
    <2>1. h \in u BY <1>10
    <2>2. Link(m, r, h, j) /\ m2[h][j] = m[h][j] /\ g2[h] = g[h] BY <1>2, <1>5, <1>9, <2>1
    <2>3. PICK d : d = m[h][j].to OBVIOUS
    <2>4. /\ g[h].lv > 1 /\ d \in u
          /\ g[d] = Place(g[h].lv - 1, g[h].own, g[h].bs + j * Span(g[h].lv))
      BY <2>1, <2>2, <2>3 DEF Tree, Children
    <2> QED BY <1>5, <2>2, <2>3, <2>4
  <1>14. Once(m2, v, r2)
    <2> SUFFICES ASSUME NEW h \in v, NEW k \in v, NEW j \in 0 .. F - 1, NEW l \in 0 .. F - 1,
                        Link(m2, r2, h, j), Link(m2, r2, k, l), m2[h][j].to = m2[k][l].to
                 PROVE  h = k /\ j = l
      BY DEF Once
    <2>1. h \in u /\ k \in u BY <1>10
    <2>2. Link(m, r, h, j) /\ Link(m, r, k, l) /\ m[h][j].to = m[k][l].to BY <1>2, <1>9, <2>1
    <2> QED BY <2>1, <2>2 DEF Tree, Once
  <1>15. PagesLow(m2, v, r2, g2)
    <2> SUFFICES ASSUME NEW h \in v, NEW j \in 0 .. F - 1, m2[h][j].kind = "page", ~Shared(r2, h, j)
                 PROVE  g2[h].lv <= 3 /\ (g2[h].own # KERNEL => g2[h].lv = 1)
      BY DEF PagesLow
    <2>1. h \in u BY <1>10
    <2>2. m[h][j].kind = "page" /\ ~Shared(r, h, j) /\ g2[h] = g[h] BY <1>2, <1>5, <1>8, <2>1
    <2> QED BY <2>1, <2>2 DEF Tree, PagesLow
  <1>16. UpperHalf(m2, r2)
    <2> SUFFICES ASSUME NEW q \in Spaces, NEW j \in 0 .. F - 1, r2[q] # NULL, j >= F \div 2
                 PROVE  m2[r2[q]][j] = m2[r2[KERNEL]][j]
      BY DEF UpperHalf
    <2>1. r2[KERNEL] = r[KERNEL] /\ r[KERNEL] \in u BY <1>0, <1>1, <1>3 DEF Tree, Roots, TreeType
    <2>2. m2[r2[KERNEL]][j] = m[r[KERNEL]][j] BY <1>2, <2>1
    <2>3. CASE q = s
      <3>1. ~(j < F \div 2) BY EvenF
      <3> QED BY <1>2, <1>3, <2>2, <2>3, <3>1
    <2>4. CASE q # s
      <3>1. r2[q] = r[q] /\ r[q] \in u BY <1>1, <1>3, <2>4 DEF Tree, Roots
      <3>2. m[r[q]][j] = m[r[KERNEL]][j] BY <3>1 DEF Tree, UpperHalf
      <3> QED BY <1>2, <2>2, <3>1, <3>2
    <2> QED BY <2>3, <2>4
  <1>17. Tree(m2, v, r2, g2) BY <1>6, <1>11, <1>12, <1>13, <1>14, <1>15, <1>16 DEF Tree
  <1> QED BY <1>17 DEF m2, r2, g2, x

Owned(u, g, s) == {f \in u : g[f].own = s}

\* pmap_destroy_table: the tables of one space go, all of them and no others.
LEMMA Destroy ==
  ASSUME NEW m, NEW u, NEW r, NEW g, Tree(m, u, r, g), NEW s \in Spaces, r[s] # NULL
  PROVE  Tree([f \in Frames |-> IF f \in Owned(u, g, s) THEN Empty ELSE m[f]],
              u \ Owned(u, g, s), [r EXCEPT ![s] = NULL], g)
  <1> DEFINE m2 == [f \in Frames |-> IF f \in Owned(u, g, s) THEN Empty ELSE m[f]]
             v == u \ Owned(u, g, s)
             r2 == [r EXCEPT ![s] = NULL]
  <1>0. TreeType(m, u, r, g) /\ u \subseteq Frames BY DEF Tree, TreeType
  <1>1. s \in All /\ s # KERNEL /\ KERNEL \in All /\ Spaces \subseteq All BY FramesNull DEF All
  <1>2. \A h \in v : m2[h] = m[h] BY <1>0
  <1>3. r2[s] = NULL /\ \A q \in All : q # s => r2[q] = r[q] BY <1>0, <1>1 DEF TreeType
  <1>4. TreeType(m2, v, r2, g)
    <2>1. Empty \in [0 .. F - 1 -> Cell] BY DEF Empty, None, Cell
    <2>2. m2 \in Memories BY <1>0, <2>1 DEF TreeType, Memories
    <2>3. r2 \in [All -> Frames \union {NULL}] BY <1>0 DEF TreeType
    <2>4. r2[KERNEL] # NULL BY <1>0, <1>1, <1>3 DEF TreeType
    <2> HIDE DEF m2, r2
    <2> QED BY <1>0, <2>2, <2>3, <2>4 DEF TreeType
  <1> HIDE DEF m2, r2
  <1>5. \A h \in v : h \in u /\ g[h].own # s BY DEF Owned
  <1>6. ASSUME NEW h \in u, g[h].own # s PROVE h \in v BY <1>6 DEF Owned
  <1> HIDE DEF v
  <1>7. \A h \in v : h # NULL /\ h # r[s]
    <2> TAKE h \in v
    <2>1. g[r[s]] = Place(4, s, 0) BY <1>1 DEF Tree, Roots
    <2>2. g[r[s]].own = s BY <2>1, Places
    <2> QED BY <1>0, <1>5, <2>2, FramesNull
  <1>8. \A h \in v, j \in 0 .. F - 1 : Shared(r2, h, j) <=> Shared(r, h, j)
    BY <1>1, <1>3, <1>7 DEF Shared
  <1>9. \A h \in v, j \in 0 .. F - 1 : Link(m2, r2, h, j) <=> Link(m, r, h, j)
    BY <1>2, <1>8 DEF Link
  <1>10. ASSUME NEW h \in u, NEW j \in 0 .. F - 1, Link(m, r, h, j)
         PROVE  m[h][j].to \in u /\ g[m[h][j].to].own = g[h].own
    BY <1>10, Places DEF Tree, Children
  <1>11. Roots(v, r2, g)
    <2>1. ASSUME NEW q \in All, r2[q] # NULL PROVE r2[q] \in v /\ g[r2[q]] = Place(4, q, 0)
      <3>1. q # s /\ r2[q] = r[q] BY <1>3, <2>1
      <3>2. r[q] \in u /\ g[r[q]] = Place(4, q, 0) BY <2>1, <3>1 DEF Tree, Roots
      <3>3. g[r[q]].own = q BY <3>2, Places
      <3> QED BY <1>6, <3>1, <3>2, <3>3
    <2>2. ASSUME NEW h \in v PROVE r2[g[h].own] # NULL
      <3>1. r[g[h].own] # NULL /\ g[h].own \in All /\ g[h].own # s
        BY <1>0, <1>5 DEF Tree, Roots, TreeType, Ghost
      <3> QED BY <1>3, <3>1
    <2> QED BY <2>1, <2>2 DEF Roots
  <1>12. Hangs(m2, v, r2, g)
    <2> SUFFICES ASSUME NEW h \in v, h # r2[g[h].own]
                 PROVE  \E p \in v, j \in 0 .. F - 1 : Link(m2, r2, p, j) /\ m2[p][j].to = h
      BY DEF Hangs
    <2>1. h \in u /\ g[h].own \in All /\ g[h].own # s BY <1>0, <1>5 DEF TreeType, Ghost
    <2>2. h # r[g[h].own] BY <1>3, <2>1
    <2>3. PICK p \in u, j \in 0 .. F - 1 : Link(m, r, p, j) /\ m[p][j].to = h
      BY <2>1, <2>2 DEF Tree, Hangs
    <2>4. p \in v BY <1>6, <1>10, <2>1, <2>3
    <2> QED BY <1>2, <1>9, <2>3, <2>4
  <1>13. Children(m2, v, r2, g)
    <2> SUFFICES ASSUME NEW h \in v, NEW j \in 0 .. F - 1, Link(m2, r2, h, j)
                 PROVE  /\ g[h].lv > 1 /\ m2[h][j].to \in v
                        /\ g[m2[h][j].to] =
                             Place(g[h].lv - 1, g[h].own, g[h].bs + j * Span(g[h].lv))
      BY DEF Children
    <2>1. h \in u /\ g[h].own # s /\ Link(m, r, h, j) /\ m2[h][j] = m[h][j] BY <1>2, <1>5, <1>9
    <2>2. m[h][j].to \in v BY <1>6, <1>10, <2>1
    <2> QED BY <2>1, <2>2 DEF Tree, Children
  <1>14. Once(m2, v, r2)
    <2> SUFFICES ASSUME NEW h \in v, NEW k \in v, NEW j \in 0 .. F - 1, NEW l \in 0 .. F - 1,
                        Link(m2, r2, h, j), Link(m2, r2, k, l), m2[h][j].to = m2[k][l].to
                 PROVE  h = k /\ j = l
      BY DEF Once
    <2>1. /\ h \in u /\ k \in u /\ Link(m, r, h, j) /\ Link(m, r, k, l)
          /\ m[h][j].to = m[k][l].to
      BY <1>2, <1>5, <1>9
    <2> QED BY <2>1 DEF Tree, Once
  <1>15. PagesLow(m2, v, r2, g)
    <2> SUFFICES ASSUME NEW h \in v, NEW j \in 0 .. F - 1, m2[h][j].kind = "page", ~Shared(r2, h, j)
                 PROVE  g[h].lv <= 3 /\ (g[h].own # KERNEL => g[h].lv = 1)
      BY DEF PagesLow
    <2>1. h \in u /\ m[h][j].kind = "page" /\ ~Shared(r, h, j) BY <1>2, <1>5, <1>8
    <2> QED BY <2>1 DEF Tree, PagesLow
  <1>16. UpperHalf(m2, r2)
    <2> SUFFICES ASSUME NEW q \in Spaces, NEW j \in 0 .. F - 1, r2[q] # NULL, j >= F \div 2
                 PROVE  m2[r2[q]][j] = m2[r2[KERNEL]][j]
      BY DEF UpperHalf
    <2>1. q # s /\ q \in All /\ r2[q] = r[q] /\ r2[KERNEL] = r[KERNEL] /\ r2[KERNEL] # NULL
      BY <1>0, <1>1, <1>3 DEF TreeType
    <2>2. r[q] \in v /\ r[KERNEL] \in v BY <1>1, <1>11, <2>1 DEF Roots
    <2>3. m[r[q]][j] = m[r[KERNEL]][j] BY <2>1 DEF Tree, UpperHalf
    <2> QED BY <1>2, <2>1, <2>2, <2>3
  <1>17. Tree(m2, v, r2, g) BY <1>4, <1>11, <1>12, <1>13, <1>14, <1>15, <1>16 DEF Tree
  <1> QED BY <1>17 DEF m2, r2, v

-----------------------------------------------------------------------------
(* Where a walk leads *)

Owner(s, va) == IF va < Half THEN s ELSE KERNEL

LEMMA NotShared ==
  ASSUME NEW m, NEW u, NEW r, NEW g, Tree(m, u, r, g), NEW f \in u, NEW i \in 0 .. F - 1,
         g[f].lv # 4 \/ g[f].own = KERNEL \/ i < F \div 2
  PROVE  ~Shared(r, f, i)
  <1> SUFFICES ASSUME i >= F \div 2, NEW s \in Spaces, f = r[s] PROVE FALSE BY DEF Shared
  <1>1. f # NULL /\ s \in All /\ s # KERNEL BY FramesNull DEF Tree, TreeType, All
  <1>2. g[f] = Place(4, s, 0) BY <1>1 DEF Tree, Roots
  <1>3. g[f].lv = 4 /\ g[f].own = s BY <1>2, Places
  <1>4. i < F \div 2 BY <1>1, <1>3
  <1> QED BY <1>4, EvenF

\* From a table on the way to va to the next
LEMMA Deeper ==
  ASSUME NEW m, NEW u, NEW r, NEW g, Tree(m, u, r, g), NEW va \in Virt, NEW l \in 2 .. 4,
         NEW o, NEW f \in u, g[f] = Place(l, o, Base(va, l)), ~Shared(r, f, Idx(va, l)),
         m[f][Idx(va, l)].kind = "table"
  PROVE  LET c == m[f][Idx(va, l)].to IN c \in u /\ g[c] = Place(l - 1, o, Base(va, l - 1))
  <1>1. l \in 1 .. 4 OBVIOUS
  <1>2. PICK i \in 0 .. F - 1 : i = Idx(va, l) BY <1>1, Digit
  <1>3. PICK c : c = m[f][i].to OBVIOUS
  <1>4. Link(m, r, f, i) BY <1>2 DEF Link
  <1>5. c \in u /\ g[c] = Place(g[f].lv - 1, g[f].own, g[f].bs + i * Span(g[f].lv))
    BY <1>3, <1>4 DEF Tree, Children
  <1>6. g[f].lv = l /\ g[f].own = o /\ g[f].bs = Base(va, l) BY Places
  <1>7. Base(va, l) + i * Span(l) = Base(va, l - 1) BY <1>2, NextBase
  <1> QED BY <1>2, <1>3, <1>5, <1>6, <1>7

\* The entries the processor reads
E4(m, a, va) == m[a][Idx(va, 4)]
E3(m, a, va) == m[E4(m, a, va).to][Idx(va, 3)]
E2(m, a, va) == m[E3(m, a, va).to][Idx(va, 2)]
E1(m, a, va) == m[E2(m, a, va).to][Idx(va, 1)]

Tr(m, a, va) ==
  CASE E4(m, a, va).kind = "none" -> NumPages
    [] E4(m, a, va).kind = "table" /\ E3(m, a, va).kind # "table" ->
         IF E3(m, a, va).kind = "page" THEN E3(m, a, va).to + (va % Span(3)) ELSE NumPages
    [] E4(m, a, va).kind = "table" /\ E3(m, a, va).kind = "table" /\ E2(m, a, va).kind # "table" ->
         IF E2(m, a, va).kind = "page" THEN E2(m, a, va).to + (va % Span(2)) ELSE NumPages
    [] OTHER -> IF E1(m, a, va).kind = "page" THEN E1(m, a, va).to + (va % Span(1)) ELSE NumPages

LEMMA TranslateIsTr ==
  ASSUME NEW s, NEW va
  PROVE  Translate(s, va) = Tr(mem, root[s], va)
  BY DEF Translate, Tr, E1, E2, E3, E4

\* Where the processor's walk for va in space s goes
Path(m, u, r, g, s, va) ==
  LET a == r[s]  o == Owner(s, va)
  IN /\ a \in u /\ E4(m, a, va).kind \in {"none", "table"}
     /\ g[a] = Place(4, s, 0)
     /\ E4(m, a, va).kind = "table" =>
          /\ E4(m, a, va).to \in u /\ g[E4(m, a, va).to] = Place(3, o, Base(va, 3))
          /\ E3(m, a, va).kind = "table" =>
               /\ E3(m, a, va).to \in u /\ g[E3(m, a, va).to] = Place(2, o, Base(va, 2))
               /\ E2(m, a, va).kind = "table" =>
                    E2(m, a, va).to \in u /\ g[E2(m, a, va).to] = Place(1, o, Base(va, 1))

LEMMA Paths ==
  ASSUME NEW m, NEW u, NEW r, NEW g, Tree(m, u, r, g), NEW s \in All, r[s] # NULL, NEW va \in Virt
  PROVE  Path(m, u, r, g, s, va)
  <1> DEFINE a == r[s]  o == Owner(s, va)
             t3 == E4(m, a, va).to
             t2 == E3(m, a, va).to
  <1>0. TreeType(m, u, r, g) /\ u \subseteq Frames BY DEF Tree, TreeType
  <1>1. a \in u /\ g[a] = Place(4, s, 0) BY DEF Tree, Roots
  <1>2. \A l \in 1 .. 4 : Idx(va, l) \in 0 .. F - 1 BY Digit
  <1>3. PICK i \in 0 .. F - 1 : i = Idx(va, 4) BY <1>2
  <1>4. PICK b : /\ b \in u /\ g[b] = Place(4, o, 0) /\ ~Shared(r, b, i)
                 /\ m[b][i] = m[a][i]
    <2>1. CASE va < Half
      <3>1. i < F \div 2 BY <1>3, <2>1, Halves
      <3>2. ~Shared(r, a, i) BY <1>1, <3>1, NotShared
      <3> QED BY <1>1, <2>1, <3>2 DEF Owner
    <2>2. CASE ~(va < Half)
      <3>1. ~(i < F \div 2) BY <1>3, <2>2, Halves
      <3>2. i >= F \div 2 BY <3>1, EvenF
      <3>3. r[KERNEL] \in u /\ g[r[KERNEL]] = Place(4, KERNEL, 0)
        BY <1>0, FramesNull DEF Tree, Roots, TreeType
      <3>4. g[r[KERNEL]].own = KERNEL BY <3>3, Places
      <3>5. ~Shared(r, r[KERNEL], i) BY <3>3, <3>4, NotShared
      <3>6. m[r[KERNEL]][i] = m[a][i]
        <4>1. CASE s = KERNEL BY <4>1
        <4>2. CASE s # KERNEL
          <5>1. s \in Spaces BY <4>2 DEF All
          <5> QED BY <3>2, <5>1 DEF Tree, UpperHalf
        <4> QED BY <4>1, <4>2
      <3> QED BY <2>2, <3>3, <3>5, <3>6 DEF Owner
    <2> QED BY <2>1, <2>2
  <1>5. E4(m, a, va) = m[b][i] BY <1>3, <1>4 DEF E4
  <1>6. m[b][i].kind \in {"none", "table"}
    <2>1. m[b][i] \in Cell BY <1>0, <1>4 DEF TreeType, Memories
    <2>2. m[b][i].kind \in {"none", "page", "table"} BY <2>1 DEF Cell
    <2>3. g[b].lv = 4 BY <1>4, Places
    <2>4. m[b][i].kind # "page" BY <1>4, <2>3 DEF Tree, PagesLow
    <2> QED BY <2>2, <2>4
  <1>7. ASSUME m[b][i].kind = "table"
        PROVE  t3 \in u /\ g[t3] = Place(3, o, Base(va, 3))
    <2>1. Base(va, 4) = 0 BY NextBase
    <2>2. 4 - 1 = 3 /\ 4 \in 2 .. 4 OBVIOUS
    <2>3. m[b][i].to \in u /\ g[m[b][i].to] = Place(3, o, Base(va, 3))
      <3> HIDE DEF o
      <3> QED BY <1>3, <1>4, <1>7, <2>1, <2>2, Deeper
    <2> QED BY <1>5, <2>3
  <1> HIDE DEF o
  <1>8. ASSUME NEW l \in 2 .. 3, NEW f \in u, g[f] = Place(l, o, Base(va, l)),
               m[f][Idx(va, l)].kind = "table"
        PROVE  LET c == m[f][Idx(va, l)].to IN c \in u /\ g[c] = Place(l - 1, o, Base(va, l - 1))
    <2>1. g[f].lv = l BY <1>8, Places
    <2>2. g[f].lv # 4 /\ l \in 2 .. 4 BY <2>1
    <2>3. ~Shared(r, f, Idx(va, l)) BY <1>2, <2>2, NotShared
    <2> QED BY <1>8, <2>2, <2>3, Deeper
  <1>9. ASSUME m[b][i].kind = "table", E3(m, a, va).kind = "table"
        PROVE  t2 \in u /\ g[t2] = Place(2, o, Base(va, 2))
    <2>1. E3(m, a, va) = m[t3][Idx(va, 3)] BY DEF E3
    <2>2. 3 - 1 = 2 /\ 3 \in 2 .. 3 OBVIOUS
    <2> HIDE DEF t3
    <2> QED BY <1>7, <1>8, <1>9, <2>1, <2>2
  <1>10. ASSUME m[b][i].kind = "table", E3(m, a, va).kind = "table", E2(m, a, va).kind = "table"
         PROVE  E2(m, a, va).to \in u /\ g[E2(m, a, va).to] = Place(1, o, Base(va, 1))
    <2>1. E2(m, a, va) = m[t2][Idx(va, 2)] BY DEF E2
    <2>2. 2 - 1 = 1 /\ 2 \in 2 .. 3 OBVIOUS
    <2> HIDE DEF t2
    <2> QED BY <1>8, <1>9, <1>10, <2>1, <2>2
  <1> QED BY <1>1, <1>5, <1>6, <1>7, <1>9, <1>10 DEF Path, o

\* What walked to tables in m walks to the same tables in m2, and ends up alike.
Keeps(m, m2, a, va) ==
  /\ Tr(m2, a, va) = Tr(m, a, va)
  /\ E4(m, a, va).kind = "table" =>
       /\ E4(m2, a, va) = E4(m, a, va)
       /\ E3(m, a, va).kind = "table" =>
            /\ E3(m2, a, va) = E3(m, a, va)
            /\ E2(m, a, va).kind = "table" => E2(m2, a, va) = E2(m, a, va)

\* m2 is m with the empty table f at entry i of t.
Hung(m, m2, u, f, t, i) ==
  /\ \A h \in u, j \in 0 .. F - 1 : m2[h][j] = IF h = t /\ j = i THEN Table(f) ELSE m[h][j]
  /\ \A j \in 0 .. F - 1 : m2[f][j] = None

\* An empty table changes no translation.
LEMMA AllocKeeps ==
  ASSUME NEW m, NEW u, NEW r, NEW g, Tree(m, u, r, g), NEW f, NEW t, NEW i,
         m[t][i].kind = "none", NEW m2, Hung(m, m2, u, f, t, i),
         NEW s \in All, r[s] # NULL, NEW va \in Virt
  PROVE  Keeps(m, m2, r[s], va)
  <1> DEFINE a == r[s]
             e4 == E4(m, a, va)  e3 == E3(m, a, va)  e2 == E2(m, a, va)  e1 == E1(m, a, va)
             d4 == E4(m2, a, va) d3 == E3(m2, a, va) d2 == E2(m2, a, va) d1 == E1(m2, a, va)
  <1>0. Path(m, u, r, g, s, va) BY Paths
  <1> USE DEF Hung
  <1>1. \A l \in 1 .. 4 : Idx(va, l) \in 0 .. F - 1 BY Digit
  <1>2. /\ a \in u /\ e4.kind \in {"none", "table"}
        /\ e4.kind = "table" => e4.to \in u /\ (e3.kind = "table" => e3.to \in u /\ (e2.kind = "table" => e2.to \in u))
    BY <1>0 DEF Path
  <1>3. Table(f).kind = "table" /\ Table(f).to = f /\ None.kind = "none" BY DEF Table, None
  <1>4. e4 = m[a][Idx(va, 4)] /\ d4 = m2[a][Idx(va, 4)] BY DEF E4
  <1>5. e3 = m[e4.to][Idx(va, 3)] /\ d3 = m2[d4.to][Idx(va, 3)] BY DEF E3
  <1>6. e2 = m[e3.to][Idx(va, 2)] /\ d2 = m2[d3.to][Idx(va, 2)] BY DEF E2
  <1>7. e1 = m[e2.to][Idx(va, 1)] /\ d1 = m2[d2.to][Idx(va, 1)] BY DEF E1
  <1>8. Tr(m, a, va) =
          CASE e4.kind = "none" -> NumPages
            [] e4.kind = "table" /\ e3.kind # "table" ->
                 IF e3.kind = "page" THEN e3.to + (va % Span(3)) ELSE NumPages
            [] e4.kind = "table" /\ e3.kind = "table" /\ e2.kind # "table" ->
                 IF e2.kind = "page" THEN e2.to + (va % Span(2)) ELSE NumPages
            [] OTHER -> IF e1.kind = "page" THEN e1.to + (va % Span(1)) ELSE NumPages
    BY DEF Tr
  <1>9. Tr(m2, a, va) =
          CASE d4.kind = "none" -> NumPages
            [] d4.kind = "table" /\ d3.kind # "table" ->
                 IF d3.kind = "page" THEN d3.to + (va % Span(3)) ELSE NumPages
            [] d4.kind = "table" /\ d3.kind = "table" /\ d2.kind # "table" ->
                 IF d2.kind = "page" THEN d2.to + (va % Span(2)) ELSE NumPages
            [] OTHER -> IF d1.kind = "page" THEN d1.to + (va % Span(1)) ELSE NumPages
    BY DEF Tr
  <1> HIDE DEF a, e4, e3, e2, e1, d4, d3, d2, d1
  <1>10. CASE e4.kind = "none"
    <2>1. ASSUME d4 = e4 PROVE Tr(m2, a, va) = Tr(m, a, va) BY <1>8, <1>9, <1>10, <2>1
    <2>2. ASSUME d4 # e4 PROVE Tr(m2, a, va) = Tr(m, a, va)
      <3>1. d4 = Table(f) BY <1>1, <1>2, <1>4, <2>2
      <3>2. d3 = None BY <1>1, <1>3, <1>5, <3>1
      <3> QED BY <1>3, <1>8, <1>9, <1>10, <3>1, <3>2
    <2>3. Tr(m2, a, va) = Tr(m, a, va) BY <2>1, <2>2
    <2> QED BY <1>10, <2>3 DEF Keeps, a, e4
  <1>11. CASE e4.kind = "table"
    <2>1. d4 = e4 BY <1>1, <1>2, <1>4, <1>11
    <2>2. CASE e3.kind # "table"
      <3>1. ASSUME d3 = e3 PROVE Tr(m2, a, va) = Tr(m, a, va) BY <1>8, <1>9, <1>11, <2>1, <2>2, <3>1
      <3>2. ASSUME d3 # e3 PROVE Tr(m2, a, va) = Tr(m, a, va)
        <4>1. d3 = Table(f) /\ e3.kind = "none" BY <1>1, <1>2, <1>5, <1>11, <2>1, <3>2
        <4>2. d2 = None BY <1>1, <1>3, <1>6, <4>1
        <4> QED BY <1>3, <1>8, <1>9, <1>11, <2>1, <4>1, <4>2
      <3>3. Tr(m2, a, va) = Tr(m, a, va) BY <3>1, <3>2
      <3> QED BY <2>1, <2>2, <3>3 DEF Keeps, a, e4, d4, e3
    <2>3. CASE e3.kind = "table"
      <3>1. d3 = e3 BY <1>1, <1>2, <1>5, <1>11, <2>1, <2>3
      <3>2. CASE e2.kind # "table"
        <4>1. ASSUME d2 = e2 PROVE Tr(m2, a, va) = Tr(m, a, va) BY <1>8, <1>9, <1>11, <2>1, <2>3, <3>1, <3>2, <4>1
        <4>2. ASSUME d2 # e2 PROVE Tr(m2, a, va) = Tr(m, a, va)
          <5>1. d2 = Table(f) /\ e2.kind = "none" BY <1>1, <1>2, <1>6, <1>11, <2>3, <3>1, <4>2
          <5>2. d1 = None BY <1>1, <1>3, <1>7, <5>1
          <5> QED BY <1>3, <1>8, <1>9, <1>11, <2>1, <2>3, <3>1, <5>1, <5>2
        <4>3. Tr(m2, a, va) = Tr(m, a, va) BY <4>1, <4>2
        <4> QED BY <2>1, <3>1, <3>2, <4>3 DEF Keeps, a, e4, d4, e3, d3, e2
      <3>3. CASE e2.kind = "table"
        <4>1. d2 = e2 BY <1>1, <1>2, <1>6, <1>11, <2>3, <3>1, <3>3
        <4>2. d1 = e1 \/ (e1.kind = "none" /\ d1 = Table(f))
          BY <1>1, <1>2, <1>7, <1>11, <2>3, <3>3, <4>1
        <4>3. Tr(m2, a, va) = Tr(m, a, va)
          BY <1>3, <1>8, <1>9, <1>11, <2>1, <2>3, <3>1, <3>3, <4>1, <4>2
        <4> QED BY <2>1, <3>1, <4>1, <4>3 DEF Keeps, a, e4, d4, e3, d3, e2, d2
      <3> QED BY <3>2, <3>3
    <2> QED BY <2>2, <2>3
  <1> QED BY <1>2, <1>10, <1>11

\* The walk for va from the top table a has come to table x of level l.
Reached(m, a, va, l, x) ==
  /\ l = 4 => x = a
  /\ l <= 3 => E4(m, a, va).kind = "table" /\ (l = 3 => x = E4(m, a, va).to)
  /\ l <= 2 => E3(m, a, va).kind = "table" /\ (l = 2 => x = E3(m, a, va).to)
  /\ l <= 1 => E2(m, a, va).kind = "table" /\ x = E2(m, a, va).to

\* m2 is m with the page p at entry i of t.
Entered(m, m2, u, t, i, p) ==
  \A h \in u, j \in 0 .. F - 1 : m2[h][j] = IF h = t /\ j = i THEN Page(p) ELSE m[h][j]

\* An entry at level l changes the translation of the pages of its block.
LEMMA PutTranslates ==
  ASSUME NEW m, NEW u, NEW r, NEW g, Tree(m, u, r, g), NEW o \in All, r[o] # NULL,
         NEW v \in Virt, NEW l \in 1 .. 3, v % Span(l) = 0, NEW t \in u,
         g[t] = Place(l, o, Base(v, l)), Reached(m, r[o], v, l, t),
         m[t][Idx(v, l)].kind # "table", NEW p, NEW m2, Entered(m, m2, u, t, Idx(v, l), p),
         (o = KERNEL /\ Alone(r)) \/ (v < Half /\ l = 1),
         NEW s \in All, r[s] # NULL, NEW va \in Virt
  PROVE  Tr(m2, r[s], va) =
           IF s = o /\ va \in v .. v + Span(l) - 1 THEN p + (va - v) ELSE Tr(m, r[s], va)
  <1> DEFINE a == r[s]
             e4 == E4(m, a, va)  e3 == E3(m, a, va)  e2 == E2(m, a, va)  e1 == E1(m, a, va)
             d4 == E4(m2, a, va) d3 == E3(m2, a, va) d2 == E2(m2, a, va) d1 == E1(m2, a, va)
             hit == s = o /\ va \in v .. v + Span(l) - 1
  <1> USE DEF Entered
  <1>0. Path(m, u, r, g, s, va) BY Paths
  <1>1. \A k \in 1 .. 4 : Idx(va, k) \in 0 .. F - 1 /\ Idx(v, k) \in 0 .. F - 1 BY Digit
  <1>2. /\ a \in u /\ e4.kind \in {"none", "table"} /\ g[a].lv = 4
        /\ e4.kind = "table" =>
             /\ e4.to \in u /\ g[e4.to] = Place(3, Owner(s, va), Base(va, 3))
             /\ e3.kind = "table" =>
                  /\ e3.to \in u /\ g[e3.to] = Place(2, Owner(s, va), Base(va, 2))
                  /\ e2.kind = "table" => e2.to \in u /\ g[e2.to] = Place(1, Owner(s, va), Base(va, 1))
    BY <1>0, Places DEF Path
  <1>3. Page(p).kind = "page" /\ Page(p).to = p BY DEF Page
  <1>4. e4 = m[a][Idx(va, 4)] /\ d4 = m2[a][Idx(va, 4)] BY DEF E4
  <1>5. e3 = m[e4.to][Idx(va, 3)] /\ d3 = m2[d4.to][Idx(va, 3)] BY DEF E3
  <1>6. e2 = m[e3.to][Idx(va, 2)] /\ d2 = m2[d3.to][Idx(va, 2)] BY DEF E2
  <1>7. e1 = m[e2.to][Idx(va, 1)] /\ d1 = m2[d2.to][Idx(va, 1)] BY DEF E1
  <1>8. Tr(m, a, va) =
          CASE e4.kind = "none" -> NumPages
            [] e4.kind = "table" /\ e3.kind # "table" ->
                 IF e3.kind = "page" THEN e3.to + (va % Span(3)) ELSE NumPages
            [] e4.kind = "table" /\ e3.kind = "table" /\ e2.kind # "table" ->
                 IF e2.kind = "page" THEN e2.to + (va % Span(2)) ELSE NumPages
            [] OTHER -> IF e1.kind = "page" THEN e1.to + (va % Span(1)) ELSE NumPages
    BY DEF Tr
  <1>9. Tr(m2, a, va) =
          CASE d4.kind = "none" -> NumPages
            [] d4.kind = "table" /\ d3.kind # "table" ->
                 IF d3.kind = "page" THEN d3.to + (va % Span(3)) ELSE NumPages
            [] d4.kind = "table" /\ d3.kind = "table" /\ d2.kind # "table" ->
                 IF d2.kind = "page" THEN d2.to + (va % Span(2)) ELSE NumPages
            [] OTHER -> IF d1.kind = "page" THEN d1.to + (va % Span(1)) ELSE NumPages
    BY DEF Tr
  <1>10. g[t].lv = l /\ g[t].own = o /\ g[t].bs = Base(v, l) BY Places
  <1>11. l = 1 \/ l = 2 \/ l = 3 OBVIOUS
  \* An address whose walk comes to the entry lies in the block.
  <1>12. ASSUME NEW k \in 1 .. 3, NEW h \in u, g[h] = Place(k, Owner(s, va), Base(va, k)),
                h = t, Idx(va, k) = Idx(v, l)
         PROVE  k = l /\ hit
    <2>1. k = l /\ Owner(s, va) = o /\ Base(va, k) = Base(v, l) BY <1>10, <1>12, Places
    <2>2. va \div Span(l) = v \div Span(l) BY <1>12, <2>1, SameBlock
    <2>3. va \in v .. v + Span(l) - 1 BY <2>2, AlignedBlock
    <2>4. s = o
      <3>1. CASE va < Half BY <2>1, <3>1 DEF Owner
      <3>2. CASE ~(va < Half)
        <4>1. o = KERNEL BY <2>1, <3>2 DEF Owner
        <4>2. ~(v < Half /\ l = 1) BY <2>3, <3>2, Spans DEF Virt
        <4> QED BY <4>1, <4>2 DEF Alone, All
      <3> QED BY <3>1, <3>2
    <2> QED BY <2>1, <2>3, <2>4
  <1>13. ASSUME hit
         PROVE  /\ \A k \in l .. 4 : Idx(va, k) = Idx(v, k)
                /\ va % Span(l) = va - v
    <2>1. va \div Span(l) = v \div Span(l) BY <1>13, AlignedBlock
    <2> QED BY <2>1, SameIndices, AlignedBlock
  <1>14. ASSUME hit PROVE Reached(m, a, va, l, t)
    <2>1. \A k \in l .. 4 : Idx(va, k) = Idx(v, k) BY <1>13, <1>14
    <2>2. E4(m, a, va) = E4(m, a, v)
      <3>1. 4 \in l .. 4 OBVIOUS
      <3> QED BY <2>1, <3>1 DEF E4
    <2>3. l <= 3 => E3(m, a, va) = E3(m, a, v)
      <3>1. l <= 3 => 3 \in l .. 4 OBVIOUS
      <3> QED BY <2>1, <2>2, <3>1 DEF E3
    <2>4. l <= 2 => E2(m, a, va) = E2(m, a, v)
      <3>1. l <= 2 => 2 \in l .. 4 OBVIOUS
      <3> QED BY <2>1, <2>3, <3>1 DEF E2
    <2>5. Reached(m, a, v, l, t) BY <1>14
    <2> QED BY <2>2, <2>3, <2>4, <2>5 DEF Reached
  <1>15. ASSUME NEW h \in u, NEW j \in 0 .. F - 1, ~(h = t /\ j = Idx(v, l)) PROVE m2[h][j] = m[h][j]
    BY <1>15
  <1>16. m2[t][Idx(v, l)] = Page(p)
    <2>1. l \in 1 .. 4 OBVIOUS
    <2> QED BY <1>1, <2>1
  <1>17. d4 = e4
    <2>1. a # t BY <1>2, <1>10
    <2> QED BY <1>1, <1>2, <1>4, <1>15, <2>1
  <1>18. CASE hit
    <2>1. /\ e4.kind = "table" /\ (l = 3 => t = e4.to)
          /\ l <= 2 => e3.kind = "table" /\ (l = 2 => t = e3.to)
          /\ l = 1 => e2.kind = "table" /\ t = e2.to
      BY <1>14, <1>18 DEF Reached
    <2>2. Idx(va, l) = Idx(v, l) /\ va % Span(l) = va - v BY <1>13, <1>18
    <2> HIDE DEF a, e4, e3, e2, e1, d4, d3, d2, d1, hit
    <2>3. CASE l = 3
      <3>1. d3 = Page(p) BY <1>5, <1>16, <1>17, <2>1, <2>2, <2>3
      <3>2. Tr(m2, a, va) = p + (va - v) BY <1>3, <1>9, <1>17, <2>1, <2>2, <2>3, <3>1
      <3> QED BY <1>18, <3>2 DEF hit, a
    <2>4. CASE l = 2
      <3>1. e4.to # t BY <1>2, <1>10, <2>1, <2>4, Places
      <3>2. d3 = e3 BY <1>1, <1>2, <1>5, <1>15, <1>17, <2>1, <3>1
      <3>3. d2 = Page(p) BY <1>6, <1>16, <2>1, <2>2, <2>4, <3>2
      <3>4. Tr(m2, a, va) = p + (va - v) BY <1>3, <1>9, <1>17, <2>1, <2>2, <2>4, <3>2, <3>3
      <3> QED BY <1>18, <3>4 DEF hit, a
    <2>5. CASE l = 1
      <3>1. e4.to # t BY <1>2, <1>10, <2>1, <2>5, Places
      <3>2. d3 = e3 BY <1>1, <1>2, <1>5, <1>15, <1>17, <2>1, <3>1
      <3>3. e3.to # t BY <1>2, <1>10, <2>1, <2>5, Places
      <3>4. d2 = e2 BY <1>1, <1>2, <1>6, <1>15, <2>1, <2>5, <3>2, <3>3
      <3>5. d1 = Page(p) BY <1>7, <1>16, <2>1, <2>2, <2>5, <3>4
      <3>6. Tr(m2, a, va) = p + (va - v) BY <1>3, <1>9, <1>17, <2>1, <2>2, <2>5, <3>2, <3>4, <3>5
      <3> QED BY <1>18, <3>6 DEF hit, a
    <2> QED BY <1>11, <2>3, <2>4, <2>5
  <1>19. CASE ~hit
    <2> HIDE DEF a, e4, e3, e2, e1, d4, d3, d2, d1, hit
    <2>1. CASE e4.kind = "none" BY <1>8, <1>9, <1>17, <1>19, <2>1 DEF hit, a
    <2>2. CASE e4.kind = "table"
      <3>1. d3 = e3
        <4>1. 3 \in 1 .. 3 OBVIOUS
        <4>2. ~(e4.to = t /\ Idx(va, 3) = Idx(v, l)) BY <1>2, <1>12, <1>19, <2>2, <4>1
        <4> QED BY <1>1, <1>2, <1>5, <1>15, <1>17, <2>2, <4>2
      <3>2. CASE e3.kind # "table" BY <1>8, <1>9, <1>17, <1>19, <2>2, <3>1, <3>2 DEF hit, a
      <3>3. CASE e3.kind = "table"
        <4>1. d2 = e2
          <5>1. 2 \in 1 .. 3 OBVIOUS
          <5>2. ~(e3.to = t /\ Idx(va, 2) = Idx(v, l)) BY <1>2, <1>12, <1>19, <2>2, <3>3, <5>1
          <5> QED BY <1>1, <1>2, <1>6, <1>15, <2>2, <3>1, <3>3, <5>2
        <4>2. CASE e2.kind # "table" BY <1>8, <1>9, <1>17, <1>19, <2>2, <3>1, <3>3, <4>1, <4>2 DEF hit, a
        <4>3. CASE e2.kind = "table"
          <5>1. d1 = e1
            <6>1. 1 \in 1 .. 3 OBVIOUS
            <6>2. ~(e2.to = t /\ Idx(va, 1) = Idx(v, l)) BY <1>2, <1>12, <1>19, <2>2, <3>3, <4>3, <6>1
            <6> QED BY <1>1, <1>2, <1>7, <1>15, <2>2, <3>3, <4>1, <4>3, <6>2
          <5> QED BY <1>8, <1>9, <1>17, <1>19, <2>2, <3>1, <3>3, <4>1, <4>3, <5>1 DEF hit, a
        <4> QED BY <4>2, <4>3
      <3> QED BY <3>2, <3>3
    <2> QED BY <1>2, <2>1, <2>2
  <1> QED BY <1>18, <1>19

-----------------------------------------------------------------------------
(* get_next_level and the walks made of it *)

LEMMA FreshFrame ==
  ASSUME NEW u \in SUBSET Frames, u # Frames
  PROVE  Min(Frames \ u) \in Frames \ u
  <1>1. Frames \ u \in SUBSET Nat /\ Frames \ u # {} BY FramesNull
  <1>2. \E x \in Frames \ u : \A y \in Frames \ u : x <= y BY <1>1, SmallestElement
  <1> QED BY <1>2 DEF Min

\* The walk w for va in space s is at a table of level l, or has failed.
At(w, r, g, va, l, s) ==
  /\ w = [mem |-> w.mem, used |-> w.used, t |-> w.t]
  /\ Tree(w.mem, w.used, r, g)
  /\ w.t # NULL => /\ w.t \in w.used /\ g[w.t] = Place(l, s, Base(va, l))
                   /\ Reached(w.mem, r[s], va, l, w.t)

Covered(x) == x.bs .. x.bs + Reach(x.lv) - 1

\* w2 has the tables of w and new ones on the way to va down to level l, and
\* translates alike.
Grown(w, g, w2, g2, r, va, s, l) ==
  /\ w.used \subseteq w2.used /\ \A f \in w.used : g2[f] = g[f]
  /\ \A f \in w2.used : f \notin w.used => g2[f].lv \in l .. 4 /\ va \in Covered(g2[f])
  /\ \A q \in All, x \in Virt : r[q] # NULL => Tr(w2.mem, r[q], x) = Tr(w.mem, r[q], x)

LEMMA GrownTwice ==
  ASSUME NEW w, NEW g, NEW w2, NEW g2, NEW w3, NEW g3, NEW r, NEW va, NEW s,
         NEW k \in 1 .. 4, NEW l \in 1 .. k,
         Grown(w, g, w2, g2, r, va, s, k), Grown(w2, g2, w3, g3, r, va, s, l)
  PROVE  Grown(w, g, w3, g3, r, va, s, l)
  <1>1. w.used \subseteq w3.used /\ \A f \in w.used : g3[f] = g[f] BY DEF Grown
  <1>2. ASSUME NEW f \in w3.used, f \notin w.used PROVE g3[f].lv \in l .. 4 /\ va \in Covered(g3[f])
    <2>1. CASE f \in w2.used
      <3>1. g3[f] = g2[f] BY <2>1 DEF Grown
      <3>2. k .. 4 \subseteq l .. 4 OBVIOUS
      <3> QED BY <1>2, <2>1, <3>1, <3>2 DEF Grown
    <2>2. CASE f \notin w2.used BY <2>2 DEF Grown
    <2> QED BY <2>1, <2>2
  <1>3. \A q \in All, x \in Virt : r[q] # NULL => Tr(w3.mem, r[q], x) = Tr(w.mem, r[q], x)
    BY DEF Grown
  <1> QED BY <1>1, <1>2, <1>3 DEF Grown

\* A step of the walk
Advanced(w, g, w2, g2, r, va, s, l, allocate) ==
  /\ At(w2, r, g2, va, l, s) /\ Grown(w, g, w2, g2, r, va, s, l)
  /\ ~allocate => w2.mem = w.mem /\ w2.used = w.used

LEMMA OneLevel ==
  ASSUME NEW w, NEW r, NEW g, NEW va \in Virt, NEW l \in 2 .. 4, NEW s \in All, NEW allocate \in BOOLEAN,
         At(w, r, g, va, l, s), r[s] # NULL, va < Half \/ s = KERNEL,
         allocate => va < Half \/ Alone(r)
  PROVE  \E g2 : Advanced(w, g, get_next_level(w, Idx(va, l), allocate), g2, r, va, s, l - 1, allocate)
  <1> DEFINE i == Idx(va, l)
             w2 == get_next_level(w, i, allocate)
             m == w.mem  u == w.used  t == w.t
  <1>0. Tree(m, u, r, g) /\ TreeType(m, u, r, g) /\ u \subseteq Frames BY DEF At, Tree, TreeType
  <1>1. i \in 0 .. F - 1 /\ l \in 1 .. 4 BY Digit
  <1>2. Grown(w, g, w, g, r, va, s, l - 1) BY DEF Grown
  <1>3. CASE t = NULL
    <2>1. w2 = w BY <1>3 DEF get_next_level
    <2>2. At(w, r, g, va, l - 1, s) BY <1>3 DEF At
    <2> QED BY <1>2, <2>1, <2>2 DEF Advanced
  <1>4. CASE t # NULL
    <2>1. t \in u /\ g[t] = Place(l, s, Base(va, l)) /\ Reached(m, r[s], va, l, t) BY <1>4 DEF At
    <2>2. g[t].lv = l /\ g[t].own = s /\ g[t].bs = Base(va, l) BY <2>1, Places
    <2>3. ~Shared(r, t, i)
      <3>1. l = 4 /\ s # KERNEL => i < F \div 2 BY Halves
      <3> HIDE DEF i, m, u, t
      <3> QED BY <1>0, <1>1, <2>1, <2>2, <3>1, NotShared
    <2>4. PICK e : e = m[t][i] OBVIOUS
    <2>5. CASE e.kind = "table"
      <3>1. w2 = [w EXCEPT !.t = e.to] BY <1>4, <2>4, <2>5 DEF get_next_level
      <3>2. w2 = [mem |-> m, used |-> u, t |-> e.to] BY <3>1 DEF At
      <3> HIDE DEF w2
      <3>3. w2.mem = m /\ w2.used = u /\ w2.t = e.to /\ w2 = [mem |-> w2.mem, used |-> w2.used, t |-> w2.t]
        BY <3>2
      <3>4. e.to \in u /\ g[e.to] = Place(l - 1, s, Base(va, l - 1))
        BY <1>0, <2>1, <2>3, <2>4, <2>5, Deeper
      <3>5. Reached(m, r[s], va, l - 1, e.to)
        <4>1. CASE l = 4
          <5>1. E4(m, r[s], va) = e BY <2>1, <2>4, <4>1 DEF Reached, E4
          <5> QED BY <2>5, <4>1, <5>1 DEF Reached
        <4>2. CASE l = 3
          <5>1. E3(m, r[s], va) = e BY <2>1, <2>4, <4>2 DEF Reached, E3
          <5> QED BY <2>1, <2>5, <4>2, <5>1 DEF Reached
        <4>3. CASE l = 2
          <5>1. E2(m, r[s], va) = e BY <2>1, <2>4, <4>3 DEF Reached, E2
          <5> QED BY <2>1, <2>5, <4>3, <5>1 DEF Reached
        <4> QED BY <4>1, <4>2, <4>3
      <3>6. At(w2, r, g, va, l - 1, s) BY <1>0, <3>3, <3>4, <3>5 DEF At
      <3>7. Grown(w, g, w2, g, r, va, s, l - 1) BY <1>2, <3>3 DEF Grown
      <3> QED BY <3>3, <3>6, <3>7 DEF w2, Advanced
    <2>6. CASE e.kind # "table" /\ (e.kind = "page" \/ ~allocate \/ u = Frames)
      <3>1. w2 = [w EXCEPT !.t = NULL] BY <1>4, <2>4, <2>6 DEF get_next_level
      <3>2. w2 = [mem |-> m, used |-> u, t |-> NULL] BY <3>1 DEF At
      <3> HIDE DEF w2
      <3>3. w2.mem = m /\ w2.used = u /\ w2.t = NULL /\ w2 = [mem |-> w2.mem, used |-> w2.used, t |-> w2.t]
        BY <3>2
      <3>4. At(w2, r, g, va, l - 1, s) BY <1>0, <3>3 DEF At
      <3>5. Grown(w, g, w2, g, r, va, s, l - 1) BY <1>2, <3>3 DEF Grown
      <3> QED BY <3>3, <3>4, <3>5 DEF w2, Advanced
    <2>7. CASE e.kind # "table" /\ e.kind # "page" /\ allocate /\ u # Frames
      <3>1. PICK f : f = Min(Frames \ u) OBVIOUS
      <3>2. f \in Frames /\ f \notin u BY <1>0, <2>7, <3>1, FreshFrame
      <3> DEFINE m2 == [m EXCEPT ![f] = Empty, ![t][i] = Table(f)]
                 x == Place(l - 1, s, Base(va, l - 1))
                 g2 == [g EXCEPT ![f] = x]
                 v == u \union {f}
      <3>3. w2 = [mem |-> m2, used |-> v, t |-> f] BY <1>4, <2>4, <2>7, <3>1 DEF get_next_level
      <3>4. e.kind = "none"
        <4>1. e \in Cell BY <1>0, <1>1, <2>1, <2>4 DEF TreeType, Memories
        <4> QED BY <2>7, <4>1 DEF Cell
      <3>5. Tree(m2, v, r, g2)
        <4>1. t = r[KERNEL] /\ i >= F \div 2 => Alone(r)
          <5>1. t = r[KERNEL] => g[t] = Place(4, KERNEL, 0) BY <1>0, <1>4, FramesNull DEF Tree, Roots
          <5>2. t = r[KERNEL] => l = 4 BY <2>2, <5>1, Places
          <5>3. l = 4 /\ va < Half => i < F \div 2 BY Halves
          <5>4. i \in Nat /\ F \div 2 \in Nat BY <1>1, EvenF
          <5> HIDE DEF i, t
          <5> QED BY <2>7, <5>2, <5>3, <5>4
        <4>2. x = Place(g[t].lv - 1, g[t].own, g[t].bs + i * Span(g[t].lv)) BY <2>2, NextBase
        <4>3. g[t].lv > 1 BY <2>2
        <4>4. Tree(m2, v, r, [g EXCEPT ![f] = Place(g[t].lv - 1, g[t].own, g[t].bs + i * Span(g[t].lv))])
          <5> HIDE DEF i, m, u, t, x, g2
          <5> QED BY <1>0, <1>1, <2>1, <2>3, <2>4, <2>7, <3>2, <3>4, <4>1, <4>3, Alloc
        <4> QED BY <4>2, <4>4
      <3>6. \A h \in Frames, j \in 0 .. F - 1 :
              m2[h][j] = IF h = f THEN None ELSE IF h = t /\ j = i THEN Table(f) ELSE m[h][j]
        <4> HIDE DEF i, m, u, t
        <4>1. t # f BY <2>1, <3>2
        <4> QED BY <1>0, <1>1, <2>1, <3>2, <4>1 DEF TreeType, Memories, Empty
      <3>7. g2[f] = x /\ \A h \in u : g2[h] = g[h] BY <1>0, <3>2 DEF TreeType
      <3> HIDE DEF w2, m2, g2, x, i, m, u, t, v
      <3>8. ASSUME NEW q \in All, r[q] # NULL, NEW y \in Virt PROVE Keeps(m, m2, r[q], y)
        <4>1. \A h \in u, j \in 0 .. F - 1 : m2[h][j] = IF h = t /\ j = i THEN Table(f) ELSE m[h][j]
          BY <1>0, <3>2, <3>6
        <4>2. \A j \in 0 .. F - 1 : m2[f][j] = None BY <3>2, <3>6
        <4>3. m[t][i].kind = "none" /\ Hung(m, m2, u, f, t, i) BY <2>4, <3>4, <4>1, <4>2 DEF Hung
        <4> QED BY <1>0, <3>8, <4>3, AllocKeeps
      <3>9. w2.mem = m2 /\ w2.used = v /\ w2.t = f /\ w2 = [mem |-> w2.mem, used |-> w2.used, t |-> w2.t]
        BY <3>3
      <3>10. m2[t][i] = Table(f) /\ Table(f).kind = "table" /\ Table(f).to = f
        BY <1>0, <1>1, <2>1, <3>2, <3>6 DEF Table
      <3>11. Reached(m2, r[s], va, l - 1, f)
        <4>1. Keeps(m, m2, r[s], va) BY <3>8
        <4>2. CASE l = 4
          <5>1. E4(m2, r[s], va) = m2[t][i] BY <2>1, <4>2 DEF Reached, E4, i
          <5> QED BY <3>10, <4>2, <5>1 DEF Reached
        <4>3. CASE l = 3
          <5>1. E4(m, r[s], va).kind = "table" /\ t = E4(m, r[s], va).to BY <2>1, <4>3 DEF Reached
          <5>2. E4(m2, r[s], va) = E4(m, r[s], va) BY <4>1, <5>1 DEF Keeps
          <5>3. E3(m2, r[s], va) = m2[t][i] BY <4>3, <5>1, <5>2 DEF E3, i
          <5> QED BY <3>10, <4>3, <5>1, <5>2, <5>3 DEF Reached
        <4>4. CASE l = 2
          <5>1. /\ E4(m, r[s], va).kind = "table" /\ E3(m, r[s], va).kind = "table"
                /\ t = E3(m, r[s], va).to
            BY <2>1, <4>4 DEF Reached
          <5>2. E4(m2, r[s], va) = E4(m, r[s], va) /\ E3(m2, r[s], va) = E3(m, r[s], va)
            BY <4>1, <5>1 DEF Keeps
          <5>3. E2(m2, r[s], va) = m2[t][i] BY <4>4, <5>1, <5>2 DEF E2, i
          <5> QED BY <3>10, <4>4, <5>1, <5>2, <5>3 DEF Reached
        <4> QED BY <4>2, <4>3, <4>4
      <3>12. At(w2, r, g2, va, l - 1, s) BY <3>5, <3>7, <3>9, <3>11 DEF At, x, v
      <3>13. Grown(w, g, w2, g2, r, va, s, l - 1)
        <4>1. u \subseteq v /\ \A h \in v : h \notin u => h = f BY DEF v
        <4>2. x.own = s /\ x.lv = l - 1 /\ x.bs = Base(va, l - 1) BY Places DEF x
        <4>3. x.lv \in l - 1 .. 4 /\ va \in Covered(x)
          <5>1. l - 1 \in 1 .. 4 /\ l - 1 \in l - 1 .. 4 OBVIOUS
          <5> QED BY <4>2, <5>1, Inside DEF Covered
        <4>4. \A q \in All, y \in Virt : r[q] # NULL => Tr(m2, r[q], y) = Tr(m, r[q], y)
          BY <3>8 DEF Keeps
        <4> QED BY <3>7, <3>9, <4>1, <4>2, <4>3, <4>4 DEF Grown, m, u
      <3> QED BY <2>7, <3>12, <3>13 DEF w2, i, Advanced
    <2> QED BY <2>5, <2>6, <2>7
  <1> QED BY <1>3, <1>4

\* The walk from the top table
Start(s) == [mem |-> mem, used |-> used, t |-> root[s]]

LEMMA Walk ==
  ASSUME NEW g, Tree(mem, used, root, g), NEW va \in Virt, NEW l \in 1 .. 3, NEW s \in All,
         root[s] # NULL, va < Half \/ s = KERNEL,
         NEW allocate \in BOOLEAN, allocate => va < Half \/ Alone(root)
  PROVE  \E g2 : Advanced(Start(s), g, WalkTo(s, va, l, allocate), g2, root, va, s, l, allocate)
  <1> DEFINE w4 == Start(s)
             w3 == get_next_level(w4, Idx(va, 4), allocate)
             w2 == get_next_level(w3, Idx(va, 3), allocate)
             w1 == get_next_level(w2, Idx(va, 2), allocate)
  <1>1. WalkTo(s, va, l, allocate) = CASE l = 3 -> w3 [] l = 2 -> w2 [] OTHER -> w1
    BY DEF WalkTo, Start
  <1>2. w4.mem = mem /\ w4.used = used /\ w4.t = root[s] /\ w4 = [mem |-> w4.mem, used |-> w4.used, t |-> w4.t]
    BY DEF Start
  <1> HIDE DEF w4
  <1>3. At(w4, root, g, va, 4, s)
    <2>1. root[s] \in used /\ g[root[s]] = Place(4, s, 0) BY DEF Tree, Roots
    <2>2. Base(va, 4) = 0 BY NextBase
    <2>3. Reached(mem, root[s], va, 4, root[s]) BY DEF Reached
    <2> QED BY <1>2, <2>1, <2>2, <2>3 DEF At
  <1>4. 4 - 1 = 3 /\ 3 - 1 = 2 /\ 2 - 1 = 1 /\ 4 \in 2 .. 4 /\ 3 \in 2 .. 4 /\ 2 \in 2 .. 4 OBVIOUS
  <1>5. PICK g3 : Advanced(w4, g, w3, g3, root, va, s, 3, allocate)
    BY <1>3, <1>4, OneLevel
  <1> HIDE DEF w3
  <1>6. PICK g2 : Advanced(w3, g3, w2, g2, root, va, s, 2, allocate)
    <2>1. At(w3, root, g3, va, 3, s) BY <1>5 DEF Advanced
    <2> QED BY <1>4, <2>1, OneLevel
  <1> HIDE DEF w2
  <1>7. PICK g1 : Advanced(w2, g2, w1, g1, root, va, s, 1, allocate)
    <2>1. At(w2, root, g2, va, 2, s) BY <1>6 DEF Advanced
    <2> QED BY <1>4, <2>1, OneLevel
  <1> HIDE DEF w1
  <1>8. Advanced(w4, g, w2, g2, root, va, s, 2, allocate)
    <2>1. 3 \in 1 .. 4 /\ 2 \in 1 .. 3 OBVIOUS
    <2>2. Grown(w4, g, w2, g2, root, va, s, 2) BY <1>5, <1>6, <2>1, GrownTwice DEF Advanced
    <2> QED BY <1>5, <1>6, <2>2 DEF Advanced
  <1>9. Advanced(w4, g, w1, g1, root, va, s, 1, allocate)
    <2>1. 2 \in 1 .. 4 /\ 1 \in 1 .. 2 OBVIOUS
    <2>2. Grown(w4, g, w1, g1, root, va, s, 1) BY <1>7, <1>8, <2>1, GrownTwice DEF Advanced
    <2> QED BY <1>7, <1>8, <2>2 DEF Advanced
  <1>10. CASE l = 3
    <2>1. WalkTo(s, va, l, allocate) = w3 BY <1>1, <1>10
    <2> QED BY <1>5, <1>10, <2>1 DEF w4
  <1>11. CASE l = 2
    <2>1. WalkTo(s, va, l, allocate) = w2 BY <1>1, <1>11
    <2> QED BY <1>8, <1>11, <2>1 DEF w4
  <1>12. CASE l = 1
    <2>1. WalkTo(s, va, l, allocate) = w1 BY <1>1, <1>12
    <2> QED BY <1>9, <1>12, <2>1 DEF w4
  <1>13. l = 1 \/ l = 2 \/ l = 3 OBVIOUS
  <1> QED BY <1>10, <1>11, <1>12, <1>13

\* pmap_destroy_table finds the tables of the space.
LEMMA TablesOfOwned ==
  ASSUME NEW g, Tree(mem, used, root, g), NEW s \in Spaces, root[s] # NULL
  PROVE  TablesOf(s) = Owned(used, g, s)
  <1> DEFINE O(l) == {f \in used : g[f].own = s /\ g[f].lv = l}
  <1>0. TreeType(mem, used, root, g) /\ s \in All /\ s # KERNEL BY FramesNull DEF Tree, All
  <1>1. \A f \in used : g[f].lv \in 1 .. 4 BY <1>0 DEF TreeType, Ghost
  <1>2. O(4) = {root[s]}
    <2>1. root[s] \in used /\ g[root[s]] = Place(4, s, 0) BY <1>0 DEF Tree, Roots
    <2>2. g[root[s]].own = s /\ g[root[s]].lv = 4 BY <2>1, Places
    <2> QED BY <2>1, <2>2, OnlyRoots
  <1>3. ASSUME NEW l \in 2 .. 4, NEW I \in SUBSET (0 .. F - 1), I = IF l = 4 THEN 0 .. F \div 2 - 1 ELSE 0 .. F - 1
        PROVE  Below(O(l), I) = O(l - 1)
    <2>1. ASSUME NEW f \in O(l), NEW i \in I, mem[f][i].kind # "none" PROVE mem[f][i].to \in O(l - 1)
      <3>1. l = 4 => i < F \div 2 BY <1>3, EvenF
      <3>2. ~Shared(root, f, i) BY <1>3, <3>1, NotShared
      <3>3. mem[f][i].kind # "page" BY <1>0, <3>2 DEF Tree, PagesLow
      <3>4. mem[f][i].kind = "table"
        <4>1. mem[f][i] \in Cell BY <1>0 DEF TreeType, Memories
        <4> QED BY <2>1, <3>3, <4>1 DEF Cell
      <3>5. PICK c : c = mem[f][i].to OBVIOUS
      <3>6. c \in used /\ g[c] = Place(g[f].lv - 1, g[f].own, g[f].bs + i * Span(g[f].lv))
        BY <3>2, <3>4, <3>5 DEF Tree, Children, Link
      <3> QED BY <3>5, <3>6, Places
    <2>2. ASSUME NEW c \in O(l - 1) PROVE \E f \in O(l), i \in I : mem[f][i].kind # "none" /\ mem[f][i].to = c
      <3>1. g[c].lv # 4 BY <1>3
      <3>2. c # root[g[c].own] BY <3>1, OnlyRoots
      <3>3. PICK f \in used, i \in 0 .. F - 1 : Link(mem, root, f, i) /\ mem[f][i].to = c
        BY <3>2 DEF Tree, Hangs
      <3>4. g[c] = Place(g[f].lv - 1, g[f].own, g[f].bs + i * Span(g[f].lv))
        BY <3>3 DEF Tree, Children
      <3>5. g[f].lv - 1 = l - 1 /\ g[f].own = s BY <3>4, Places
      <3>6. f \in O(l)
        <4>1. g[f].lv = l BY <1>1, <3>5
        <4> QED BY <3>5, <4>1
      <3>7. i \in I
        <4>1. CASE l = 4
          <5>1. f = root[s] BY <1>2, <3>6, <4>1
          <5>2. ~(i >= F \div 2) BY <3>3, <5>1 DEF Link, Shared
          <5> QED BY <1>3, <4>1, <5>2, EvenF
        <4>2. CASE l # 4 BY <1>3, <4>2
        <4> QED BY <4>1, <4>2
      <3>8. mem[f][i].kind # "none" BY <3>3 DEF Link
      <3> QED BY <3>3, <3>6, <3>7, <3>8
    <2> HIDE DEF O
    <2>3. Below(O(l), I) \subseteq O(l - 1)
      <3> SUFFICES ASSUME NEW x \in Below(O(l), I) PROVE x \in O(l - 1) OBVIOUS
      <3>1. PICK f \in O(l), i \in I : mem[f][i].kind # "none" /\ x = mem[f][i].to BY DEF Below
      <3> QED BY <2>1, <3>1
    <2>4. O(l - 1) \subseteq Below(O(l), I)
      <3> SUFFICES ASSUME NEW x \in O(l - 1) PROVE x \in Below(O(l), I) OBVIOUS
      <3>1. PICK f \in O(l), i \in I : mem[f][i].kind # "none" /\ mem[f][i].to = x BY <2>2
      <3> QED BY <3>1 DEF Below
    <2> QED BY <2>3, <2>4
  <1>4. 0 .. F \div 2 - 1 \in SUBSET (0 .. F - 1) BY EvenF
  <1>5. 4 - 1 = 3 /\ 3 - 1 = 2 /\ 2 - 1 = 1 /\ 4 \in 2 .. 4 /\ 3 \in 2 .. 4 /\ 2 \in 2 .. 4 OBVIOUS
  <1>6. O(1) \union O(2) \union O(3) \union O(4) = Owned(used, g, s)
    <2>1. \A f \in used : g[f].lv = 1 \/ g[f].lv = 2 \/ g[f].lv = 3 \/ g[f].lv = 4 BY <1>1
    <2> QED BY <2>1 DEF Owned
  <1> HIDE DEF O
  <1>7. Below(O(4), 0 .. F \div 2 - 1) = O(3) BY <1>3, <1>4, <1>5
  <1>8. Below(O(3), 0 .. F - 1) = O(2)
    <2>1. 0 .. F - 1 \in SUBSET (0 .. F - 1) /\ 3 # 4 OBVIOUS
    <2> QED BY <1>3, <1>5, <2>1
  <1>9. Below(O(2), 0 .. F - 1) = O(1)
    <2>1. 0 .. F - 1 \in SUBSET (0 .. F - 1) /\ 2 # 4 OBVIOUS
    <2> QED BY <1>3, <1>5, <2>1
  <1>10. TablesOf(s) = O(4) \union O(3) \union O(2) \union O(1) BY <1>2, <1>7, <1>8, <1>9, Zenon DEF TablesOf
  <1> QED BY <1>6, <1>10

-----------------------------------------------------------------------------
(* The invariant.  While init_pmap may still map huge pages, every table   *)
(* below the top covers a page of a range that was mapped before: so no    *)
(* huge page takes the place of a table.                                   *)

Booting == todo # << >> \/ job.huge

JobInv ==
  /\ job \in [space : All, virt : Nat, phys : Nat, remain : Nat, huge : BOOLEAN]
  /\ mapped \in Nat /\ todo \in Seq(Jobs)
  /\ job # NoJob => /\ job.remain > 0 /\ job.virt + job.remain <= NumPages
                    /\ root[job.space] # NULL
                    /\ \/ job.space = KERNEL /\ Alone(root)
                       \/ job.virt < Half /\ job.remain = 1 /\ ~job.huge
  /\ todo # << >> => Alone(root)

\* k of the ranges R have been begun.
BootInv(R, k) ==
  /\ k \in 0 .. Len(R) /\ Len(todo) = Len(R) - k
  /\ \A i \in 1 .. Len(todo) : todo[i] = R[k + i]
  /\ Booting /\ job # NoJob =>
       /\ k >= 1 /\ job.space = KERNEL /\ job.huge = R[k].huge
       /\ R[k].virt <= job.virt /\ job.virt + job.remain = R[k].virt + R[k].remain

Touched(R, k, p) == \E i \in 1 .. k : p \in Pages(R[i]) /\ (i = k /\ job # NoJob => p < job.virt)

FreshInv(R, k, g) ==
  Booting => \A f \in used : g[f].lv # 4 => \E p \in Covered(g[f]) : Touched(R, k, p)

BootLists == {BootRanges(m) : m \in Memmaps}

PmapInv ==
  \E R \in BootLists, k \in Nat : \E g :
    Tree(mem, used, root, g) /\ JobInv /\ BootInv(R, k) /\ FreshInv(R, k, g)

LEMMA Ranges ==
  ASSUME NEW R \in BootLists
  PROVE  /\ R \in Seq(Jobs) /\ Len(R) \in Nat
         /\ \A i \in 1 .. Len(R) :
              /\ R[i] \in Jobs /\ R[i].virt \in Nat /\ R[i].remain \in Nat \ {0}
              /\ R[i].virt + R[i].remain <= NumPages
         /\ \A i, j \in 1 .. Len(R) : i < j /\ R[j].huge =>
              \A p \in Pages(R[i]) : ~(F * (p \div F) .. F * (p \div F) + F - 1 \subseteq Pages(R[j]))
  <1>1. PICK m \in Memmaps : R = BootRanges(m) BY DEF BootLists
  <1>2. R \in Seq(Jobs) BY <1>1, RangesAssumption
  <1>3. \A i \in 1 .. Len(R) : Pages(R[i]) \subseteq Virt BY <1>1, RangesAssumption
  <1>4. \A i, j \in 1 .. Len(R) : i < j /\ R[j].huge =>
              \A p \in Pages(R[i]) : ~(F * (p \div F) .. F * (p \div F) + F - 1 \subseteq Pages(R[j]))
    BY <1>1, RangesAssumption, Zenon
  <1>5. ASSUME NEW i \in 1 .. Len(R)
        PROVE  /\ R[i] \in Jobs /\ R[i].virt \in Nat /\ R[i].remain \in Nat \ {0}
               /\ R[i].virt + R[i].remain <= NumPages
    <2>1. R[i] \in Jobs BY <1>2
    <2>2. R[i].virt \in Nat /\ R[i].remain \in Nat \ {0} BY <2>1 DEF Jobs
    <2>3. PICK x \in Nat, y \in Nat \ {0} : x = R[i].virt /\ y = R[i].remain BY <2>2
    <2>4. x + y - 1 \in Pages(R[i])
      <3>1. x + y - 1 \in x .. x + y - 1 OBVIOUS
      <3>2. Pages(R[i]) = x .. x + y - 1 BY <2>3 DEF Pages
      <3> QED BY <3>1, <3>2
    <2>5. x + y - 1 \in Virt BY <1>3, <2>4
    <2>6. x + y <= NumPages BY <2>5, Spans DEF Virt
    <2> QED BY <2>1, <2>2, <2>3, <2>6
  <1>6. Len(R) \in Nat BY <1>2
  <1> QED BY <1>2, <1>4, <1>5, <1>6, Zenon

LEMMA TwoHalves == Half \in Nat /\ Half + Half = NumPages
  <1>1. PICK h \in Nat \ {0} : F = 2 * h BY EvenF
  <1>2. PICK p \in Nat \ {0} : p = Span(4) BY Spans
  <1>3. NumPages = F * p BY <1>2, Spans DEF Reach
  <1>4. PICK x \in Nat : x = h * p OBVIOUS
  <1>5. NumPages = 2 * x BY <1>1, <1>3, <1>4
  <1> QED BY <1>5 DEF Half

LEMMA InitPmap == Init => PmapInv
  <1> SUFFICES ASSUME Init PROVE PmapInv OBVIOUS
  <1> DEFINE g == [f \in Frames |-> Place(4, KERNEL, 0)]
  <1>1. /\ mem = [f \in Frames |-> Empty] /\ used = {1} /\ job = NoJob /\ mapped = 0
        /\ root = [s \in All |-> IF s = KERNEL THEN 1 ELSE NULL]
    BY DEF Init
  <1>2. PICK m \in Memmaps : todo = BootRanges(m) BY DEF Init
  <1>3. PICK R \in BootLists : todo = R BY <1>2 DEF BootLists
  <1>4. 1 \in Frames /\ KERNEL \in All /\ 1 # NULL BY PmapAssumption DEF Init, Frames, All, NULL
  <1>5. \A f \in Frames, i \in 0 .. F - 1 : mem[f][i] = None BY <1>1 DEF Empty
  <1>6. \A f \in Frames, i \in 0 .. F - 1 : ~Link(mem, root, f, i) /\ mem[f][i].kind # "page"
    BY <1>5 DEF Link, None
  <1>7. g \in [Frames -> Ghost] /\ g[1] = Place(4, KERNEL, 0) /\ g[1].own = KERNEL /\ g[1].lv = 4
    BY <1>4 DEF Ghost, Place
  <1>8. root[KERNEL] = 1 /\ \A s \in All : s # KERNEL => root[s] = NULL BY <1>1, <1>4
  <1>9. Tree(mem, used, root, g)
    <2>1. Empty \in [0 .. F - 1 -> Cell] BY DEF Empty, None, Cell
    <2>2. mem \in Memories BY <1>1, <2>1 DEF Memories
    <2>3. root \in [All -> Frames \union {NULL}] BY <1>1, <1>4
    <2> HIDE DEF g
    <2>4. TreeType(mem, used, root, g) BY <1>1, <1>4, <1>7, <1>8, <2>2, <2>3 DEF TreeType
    <2>5. Roots(used, root, g) BY <1>1, <1>4, <1>7, <1>8 DEF Roots
    <2>6. Hangs(mem, used, root, g) BY <1>1, <1>7, <1>8 DEF Hangs
    <2>7. Children(mem, used, root, g) /\ Once(mem, used, root) /\ PagesLow(mem, used, root, g)
      BY <1>1, <1>4, <1>6 DEF Children, Once, PagesLow
    <2>8. UpperHalf(mem, root) BY <1>8, FramesNull DEF UpperHalf, All
    <2> QED BY <2>4, <2>5, <2>6, <2>7, <2>8 DEF Tree
  <1> HIDE DEF g
  <1>10. Alone(root) BY <1>8, FramesNull DEF Alone, All
  <1>11. JobInv
    <2>1. NoJob \in [space : All, virt : Nat, phys : Nat, remain : Nat, huge : BOOLEAN]
      BY <1>4 DEF NoJob, Job
    <2> QED BY <1>1, <1>3, <1>10, <2>1, Ranges DEF JobInv
  <1>12. BootInv(R, 0)
    <2>1. Len(R) \in Nat BY Ranges
    <2> QED BY <1>1, <1>3, <2>1 DEF BootInv
  <1>13. FreshInv(R, 0, g) BY <1>1, <1>7 DEF FreshInv
  <1> QED BY <1>9, <1>11, <1>12, <1>13 DEF PmapInv

LEMMA InitPmapStep ==
  ASSUME PmapInv, init_pmap
  PROVE  PmapInv'
  <1>0. PICK R \in BootLists, k \in Nat : \E g :
          Tree(mem, used, root, g) /\ JobInv /\ BootInv(R, k) /\ FreshInv(R, k, g)
    BY DEF PmapInv
  <1>1. PICK g : Tree(mem, used, root, g) /\ JobInv /\ BootInv(R, k) /\ FreshInv(R, k, g) BY <1>0
  <1>2. /\ todo # << >> /\ job = NoJob /\ job' = Head(todo) /\ todo' = Tail(todo) /\ mapped' = 0
        /\ UNCHANGED <<mem, used, root>>
    BY DEF init_pmap, pmap_map_range
  <1>3. /\ Len(R) \in Nat /\ k \in 0 .. Len(R) /\ Len(todo) = Len(R) - k /\ todo \in Seq(Jobs)
        /\ \A i \in 1 .. Len(todo) : todo[i] = R[k + i]
    BY <1>1, Ranges DEF BootInv, JobInv
  <1>4. Len(todo) \in Nat \ {0} /\ Head(todo) = todo[1] BY <1>2, <1>3
  <1>5. job' = R[k + 1] /\ k + 1 \in 1 .. Len(R) BY <1>2, <1>3, <1>4
  <1>6. /\ todo' \in Seq(Jobs) /\ Len(todo') = Len(todo) - 1
        /\ \A i \in 1 .. Len(todo') : todo'[i] = todo[i + 1]
    BY <1>2, <1>3, <1>4
  <1>7. /\ job' \in Jobs /\ job'.virt + job'.remain <= NumPages
    BY <1>5, Ranges
  <1>8. /\ job' \in [space : All, virt : Nat, phys : Nat, remain : Nat, huge : BOOLEAN]
        /\ job'.remain > 0 /\ job'.space = KERNEL
    BY <1>7, FramesNull DEF Jobs
  <1>9. Alone(root) /\ root[KERNEL] # NULL BY <1>1, <1>2 DEF JobInv, Tree, TreeType
  <1>10. JobInv' BY <1>2, <1>6, <1>7, <1>8, <1>9 DEF JobInv, Alone
  <1>11. BootInv(R, k + 1)'
    <2>1. Len(todo') = Len(R) - (k + 1) /\ k + 1 \in 0 .. Len(R) /\ k + 1 >= 1 BY <1>3, <1>5, <1>6
    <2>2. ASSUME NEW i \in 1 .. Len(todo') PROVE todo'[i] = R[(k + 1) + i]
      <3>1. i + 1 \in 1 .. Len(todo) /\ k + (i + 1) = (k + 1) + i BY <1>3, <1>4, <1>6
      <3>2. todo'[i] = todo[i + 1] BY <1>6
      <3> QED BY <1>3, <3>1, <3>2
    <2>3. R[k + 1].virt \in Nat /\ R[k + 1].remain \in Nat BY <1>5, Ranges
    <2> QED BY <1>5, <1>8, <2>1, <2>2, <2>3 DEF BootInv
  <1>12. FreshInv(R, k + 1, g)'
    <2> SUFFICES ASSUME NEW f \in used, g[f].lv # 4
                 PROVE  \E p \in Covered(g[f]) : Touched(R, k + 1, p)'
      BY <1>2 DEF FreshInv
    <2>1. PICK p \in Covered(g[f]) : Touched(R, k, p) BY <1>1, <1>2 DEF FreshInv, Booting
    <2>2. PICK i \in 1 .. k : p \in Pages(R[i]) BY <2>1 DEF Touched
    <2>3. i \in 1 .. k + 1 /\ i # k + 1 OBVIOUS
    <2> QED BY <2>2, <2>3 DEF Touched
  <1>13. Tree(mem', used', root', g) BY <1>1, <1>2
  <1> QED BY <1>10, <1>11, <1>12, <1>13 DEF PmapInv

\* A job after init_pmap has mapped its ranges: one page
LEMMA SinglePage ==
  ASSUME PmapInv, NEW s \in All, NEW va \in Nat, NEW p \in Nat, todo = << >>, todo' = todo,
         pmap_map_range(Job(s, va, p, 1, FALSE)), va < NumPages, root[s] # NULL,
         (s = KERNEL /\ Alone(root)) \/ va < Half
  PROVE  PmapInv'
  <1>0. PICK R \in BootLists, k \in Nat : \E g :
          Tree(mem, used, root, g) /\ JobInv /\ BootInv(R, k) /\ FreshInv(R, k, g)
    BY DEF PmapInv
  <1>1. PICK g : Tree(mem, used, root, g) /\ JobInv /\ BootInv(R, k) /\ FreshInv(R, k, g) BY <1>0
  <1>2. /\ job' = Job(s, va, p, 1, FALSE) /\ mapped' = 0 /\ UNCHANGED <<mem, used, root>>
    BY DEF pmap_map_range
  <1>3. /\ job' \in [space : All, virt : Nat, phys : Nat, remain : Nat, huge : BOOLEAN]
        /\ job'.space = s /\ job'.virt = va /\ job'.remain = 1 /\ job'.huge = FALSE
    BY <1>2 DEF Job
  <1>4. va + 1 <= NumPages BY Spans
  <1>5. JobInv'
    <2>1. job'.remain > 0 /\ job'.virt + job'.remain <= NumPages BY <1>3, <1>4
    <2>2. root'[job'.space] # NULL BY <1>2, <1>3
    <2>3. (job'.space = KERNEL /\ Alone(root')) \/ (job'.virt < Half /\ job'.remain = 1 /\ ~job'.huge)
      BY <1>2, <1>3
    <2>4. mapped' \in Nat /\ todo' \in Seq(Jobs) /\ todo' = << >> BY <1>1, <1>2 DEF JobInv
    <2> QED BY <1>3, <2>1, <2>2, <2>3, <2>4 DEF JobInv
  <1>6. ~Booting' BY <1>3 DEF Booting
  <1>7. BootInv(R, k)' BY <1>1, <1>6 DEF BootInv
  <1>8. FreshInv(R, k, g)' BY <1>6 DEF FreshInv
  <1>9. Tree(mem', used', root', g) BY <1>1, <1>2
  <1> QED BY <1>5, <1>7, <1>8, <1>9 DEF PmapInv

LEMMA MmioStep ==
  ASSUME PmapInv, NEW p \in Mmio, pmap_map_mmio(p)
  PROVE  PmapInv'
  <1>1. /\ todo = << >> /\ todo' = todo /\ Alone(root)
        /\ pmap_map_range(Job(KERNEL, Half + p, p, 1, FALSE))
    BY DEF pmap_map_mmio, Alone
  <1>2. p \in Nat /\ p < Half BY PmapAssumption, TwoHalves
  <1>3. Half + p \in Nat /\ Half + p < NumPages BY <1>2, TwoHalves
  <1>4. root[KERNEL] # NULL /\ KERNEL \in All BY FramesNull DEF PmapInv, Tree, TreeType
  <1> QED BY <1>1, <1>2, <1>3, <1>4, SinglePage

LEMMA MapPageStep ==
  ASSUME PmapInv, NEW s \in All, NEW va \in LowVirt, NEW p \in LowPhys, pmap_map_page(s, va, p)
  PROVE  PmapInv'
  <1>1. /\ todo = << >> /\ todo' = todo /\ root[s] # NULL
        /\ pmap_map_range(Job(s, va, p, 1, FALSE))
    BY DEF pmap_map_page
  <1>2. va \in Nat /\ va < Half /\ p \in Nat BY PmapAssumption, TwoHalves
  <1>3. va < NumPages BY <1>2, TwoHalves
  <1> QED BY <1>1, <1>2, <1>3, SinglePage

\* Nothing is being mapped: the ranges do not matter.
LEMMA Idle ==
  ASSUME NEW R \in BootLists, NEW k \in Nat, JobInv, BootInv(R, k), job = NoJob, todo = << >>,
         UNCHANGED <<job, todo, mapped>>, NEW g, Tree(mem', used', root', g)
  PROVE  PmapInv'
  <1>1. ~Booting' BY DEF Booting, NoJob, Job
  <1>2. JobInv' BY DEF JobInv
  <1>3. BootInv(R, k)' BY <1>1 DEF BootInv
  <1>4. FreshInv(R, k, g)' BY <1>1 DEF FreshInv
  <1> QED BY <1>2, <1>3, <1>4 DEF PmapInv

LEMMA UnmapStep ==
  ASSUME PmapInv, NEW s \in All, NEW va \in LowVirt, pmap_unmap_page(s, va)
  PROVE  PmapInv'
  <1>0. PICK R \in BootLists, k \in Nat : \E g :
          Tree(mem, used, root, g) /\ JobInv /\ BootInv(R, k) /\ FreshInv(R, k, g)
    BY DEF PmapInv
  <1>1. PICK g : Tree(mem, used, root, g) /\ JobInv /\ BootInv(R, k) /\ FreshInv(R, k, g) BY <1>0
  <1>2. PICK w : w = WalkTo(s, va, 1, FALSE) OBVIOUS
  <1>3. /\ job = NoJob /\ todo = << >> /\ root[s] # NULL /\ UNCHANGED <<used, root, todo, job, mapped>>
        /\ mem' = IF w.t = NULL THEN mem ELSE [mem EXCEPT ![w.t][Idx(va, 1)] = None]
    BY <1>2 DEF pmap_unmap_page
  <1>4. va \in Virt /\ va < Half
    <2>1. va \in Nat /\ va < Half BY PmapAssumption, TwoHalves
    <2> QED BY <2>1, TwoHalves DEF Virt
  <1>5. 1 \in 1 .. 3 OBVIOUS
  <1>6. PICK g2 : Advanced(Start(s), g, w, g2, root, va, s, 1, FALSE)
    BY <1>1, <1>2, <1>3, <1>4, <1>5, Walk
  <1>7. w.mem = mem /\ w.used = used BY <1>6 DEF Advanced, Start
  <1>8. Tree(mem', used', root', g2)
    <2>1. Tree(mem, used, root, g2) BY <1>6, <1>7 DEF Advanced, At
    <2>2. CASE w.t = NULL BY <1>3, <2>1, <2>2
    <2>3. CASE w.t # NULL
      <3>1. w.t \in used /\ g2[w.t] = Place(1, s, Base(va, 1)) BY <1>6, <1>7, <2>3 DEF Advanced, At
      <3>2. g2[w.t].lv = 1 /\ g2[w.t].own = s BY <3>1, Places
      <3>3. PICK i \in 0 .. F - 1 : i = Idx(va, 1) BY <1>4, Digit
      <3>4. mem[w.t][i].kind # "table"
        <4>1. ~Shared(root, w.t, i) BY <2>1, <3>1, <3>2, NotShared
        <4>2. Link(mem, root, w.t, i) => g2[w.t].lv > 1 BY <2>1, <3>1 DEF Tree, Children
        <4> QED BY <3>2, <4>1, <4>2 DEF Link
      <3>5. None \in Cell /\ None.kind = "none" BY DEF None, Cell
      <3>6. g2[w.t].lv <= 3 BY <3>2
      <3>7. Tree([mem EXCEPT ![w.t][i] = None], used, root, g2)
        BY <2>1, <3>1, <3>4, <3>5, <3>6, Put
      <3> QED BY <1>3, <2>3, <3>3, <3>7
    <2> QED BY <2>2, <2>3
  <1> QED BY <1>1, <1>3, <1>8, Idle

LEMMA CreateStep ==
  ASSUME PmapInv, NEW s \in Spaces, pmap_create_table(s)
  PROVE  PmapInv'
  <1>0. PICK R \in BootLists, k \in Nat : \E g :
          Tree(mem, used, root, g) /\ JobInv /\ BootInv(R, k) /\ FreshInv(R, k, g)
    BY DEF PmapInv
  <1>1. PICK g : Tree(mem, used, root, g) /\ JobInv /\ BootInv(R, k) /\ FreshInv(R, k, g) BY <1>0
  <1> DEFINE c == pmap_copy_kernel_mappings(Empty)
  <1>2. PICK f \in Frames \ used :
          used' = used \union {f} /\ root' = [root EXCEPT ![s] = f] /\ mem' = [mem EXCEPT ![f] = c]
    BY DEF pmap_create_table
  <1>3. job = NoJob /\ todo = << >> /\ root[s] = NULL /\ UNCHANGED <<todo, job, mapped>>
    BY DEF pmap_create_table
  <1>4. TreeType(mem, used, root, g) /\ root[KERNEL] \in Frames
    BY <1>1, FramesNull DEF Tree, TreeType
  <1>5. \A i \in 0 .. F - 1 : c[i] = IF i < F \div 2 THEN None ELSE mem[root[KERNEL]][i]
    BY DEF pmap_copy_kernel_mappings, Empty
  <1>6. c \in [0 .. F - 1 -> Cell]
    <2>1. None \in Cell BY DEF None, Cell
    <2>2. \A i \in 0 .. F - 1 : mem[root[KERNEL]][i] \in Cell BY <1>4 DEF TreeType, Memories
    <2>3. \A i \in 0 .. F - 1 : c[i] \in Cell BY <1>5, <2>1, <2>2
    <2>4. c = [i \in 0 .. F - 1 |-> c[i]] BY DEF pmap_copy_kernel_mappings
    <2> HIDE DEF c
    <2> QED BY <2>3, <2>4
  <1> HIDE DEF c
  <1> DEFINE g2 == [g EXCEPT ![f] = Place(4, s, 0)]
  <1>7. Tree(mem', used', root', g2) BY <1>1, <1>2, <1>3, <1>5, <1>6, Create
  <1> HIDE DEF g2
  <1> QED BY <1>1, <1>3, <1>7, Idle

LEMMA DestroyStep ==
  ASSUME PmapInv, NEW s \in Spaces, pmap_destroy_table(s)
  PROVE  PmapInv'
  <1>0. PICK R \in BootLists, k \in Nat : \E g :
          Tree(mem, used, root, g) /\ JobInv /\ BootInv(R, k) /\ FreshInv(R, k, g)
    BY DEF PmapInv
  <1>1. PICK g : Tree(mem, used, root, g) /\ JobInv /\ BootInv(R, k) /\ FreshInv(R, k, g) BY <1>0
  <1>2. /\ job = NoJob /\ todo = << >> /\ root[s] # NULL /\ UNCHANGED <<todo, job, mapped>>
        /\ used' = used \ TablesOf(s) /\ root' = [root EXCEPT ![s] = NULL]
        /\ mem' = [f \in Frames |-> IF f \in TablesOf(s) THEN Empty ELSE mem[f]]
    BY DEF pmap_destroy_table
  <1>3. TablesOf(s) = Owned(used, g, s) BY <1>1, <1>2, TablesOfOwned
  <1>4. Tree(mem', used', root', g)
    <2>1. mem' = [f \in Frames |-> IF f \in Owned(used, g, s) THEN Empty ELSE mem[f]]
      BY <1>2, <1>3, Zenon
    <2>2. used' = used \ Owned(used, g, s) BY <1>2, <1>3, Zenon
    <2>3. Tree([f \in Frames |-> IF f \in Owned(used, g, s) THEN Empty ELSE mem[f]],
               used \ Owned(used, g, s), [root EXCEPT ![s] = NULL], g)
      BY <1>1, <1>2, Destroy
    <2> QED BY <1>2, <2>1, <2>2, <2>3, Zenon
  <1> QED BY <1>1, <1>2, <1>4, Idle

LEMMA MapLevel ==
  ASSUME JobInv, job.remain > 0
  PROVE  /\ map_huge_ok(job) \in 1 .. 3 /\ job.virt % Span(map_huge_ok(job)) = 0
         /\ job.remain >= Span(map_huge_ok(job)) /\ (map_huge_ok(job) # 1 => job.huge)
  <1>1. job.virt \in Nat /\ job.remain \in Nat BY DEF JobInv
  <1>2. job.virt % 1 = 0 BY <1>1
  <1>3. Span(1) = 1 BY Spans
  <1>4. CASE job.huge /\ Aligned(job, 3) /\ job.remain >= Span(3)
    <2>1. map_huge_ok(job) = 3 BY <1>4 DEF map_huge_ok
    <2> QED BY <1>4, <2>1 DEF Aligned
  <1>5. CASE /\ job.huge /\ ~(Aligned(job, 3) /\ job.remain >= Span(3))
             /\ Aligned(job, 2) /\ job.remain >= Span(2)
    <2>1. map_huge_ok(job) = 2 BY <1>5 DEF map_huge_ok
    <2> QED BY <1>5, <2>1 DEF Aligned
  <1>6. CASE /\ ~(job.huge /\ Aligned(job, 3) /\ job.remain >= Span(3))
             /\ ~(/\ job.huge /\ ~(Aligned(job, 3) /\ job.remain >= Span(3))
                  /\ Aligned(job, 2) /\ job.remain >= Span(2))
    <2>1. map_huge_ok(job) = 1 BY <1>6 DEF map_huge_ok
    <2>2. job.remain >= 1 BY <1>1
    <2> QED BY <1>2, <1>3, <2>1, <2>2
  <1> QED BY <1>4, <1>5, <1>6

\* A small block that reaches into a large one lies in it.
LEMMA SmallBlock ==
  ASSUME NEW n \in Nat \ {0}, NEW y \in Nat, NEW z \in Nat, NEW p \in n * y .. n * (y + z) - 1
  PROVE  n * (p \div n) >= n * y /\ n * (p \div n) + n <= n * (y + z) /\ n * (p \div n) \in Nat
  <1>1. n * y \in Nat /\ n * (y + z) \in Nat BY Quotient
  <1>2. p \in Nat BY <1>1
  <1>3. PICK q \in Nat, r \in 0 .. n - 1 : q = p \div n /\ p = n * q + r
    <2>1. p \div n \in Nat /\ p % n \in 0 .. n - 1 /\ p = n * (p \div n) + (p % n) BY <1>2, Quotient
    <2> QED BY <2>1
  <1>4. n * q \in Nat OBVIOUS
  <1>5. q >= y
    <2> SUFFICES ASSUME q + 1 <= y PROVE FALSE OBVIOUS
    <2>1. n * (q + 1) <= n * y OBVIOUS
    <2>2. n * (q + 1) = n * q + n OBVIOUS
    <2> QED BY <1>1, <1>3, <1>4, <2>1, <2>2
  <1>6. q + 1 <= y + z
    <2> SUFFICES ASSUME q >= y + z PROVE FALSE OBVIOUS
    <2>1. n * q >= n * (y + z) OBVIOUS
    <2> QED BY <1>1, <1>3, <1>4, <2>1
  <1>7. n * q >= n * y BY <1>5
  <1>8. n * (q + 1) <= n * (y + z) BY <1>6
  <1>9. n * (q + 1) = n * q + n OBVIOUS
  <1> QED BY <1>3, <1>4, <1>7, <1>8, <1>9

\* The table that a huge page would take the place of covers a page of an
\* earlier range, which cannot be.
LEMMA NothingThere ==
  ASSUME JobInv, NEW R \in BootLists, NEW k \in Nat, BootInv(R, k), job # NoJob, job.huge,
         NEW l \in 2 .. 3, job.virt % Span(l) = 0, job.remain >= Span(l),
         NEW p \in job.virt .. job.virt + Span(l) - 1, Touched(R, k, p)
  PROVE  FALSE
  <1>1. /\ k \in 1 .. Len(R) /\ R[k].huge /\ R[k].virt <= job.virt
        /\ job.virt + job.remain = R[k].virt + R[k].remain
    <2>1. Booting BY DEF Booting
    <2>2. /\ k >= 1 /\ job.huge = R[k].huge /\ R[k].virt <= job.virt /\ k \in 0 .. Len(R)
          /\ job.virt + job.remain = R[k].virt + R[k].remain
      BY <2>1 DEF BootInv
    <2>3. Len(R) \in Nat BY Ranges
    <2>4. k \in 1 .. Len(R) BY <2>2, <2>3
    <2> QED BY <2>2, <2>4
  <1>2. PICK v \in Nat, n \in Nat : v = job.virt /\ n = job.remain BY DEF JobInv
  <1>3. PICK i \in 1 .. k : p \in Pages(R[i]) /\ (i = k => p < v) BY <1>2 DEF Touched
  <1>4. PICK x \in Nat \ {0} : x = Span(l) BY Spans
  <1>5. p \in v .. v + x - 1 /\ x <= n BY <1>2, <1>4
  <1>6. i < k BY <1>3, <1>5
  <1>7. PICK y \in Nat, z \in Nat : v = F * y /\ x = F * z
    <2>1. F \in Nat \ {0} BY EvenF
    <2>2. PICK q \in Nat : v = x * q
      <3>1. v \div x \in Nat /\ v = x * (v \div x) + (v % x) /\ x * (v \div x) \in Nat BY Quotient
      <3>2. v % x = 0 BY <1>2, <1>4
      <3>3. v = x * (v \div x) BY <3>1, <3>2
      <3> QED BY <3>1, <3>3
    <2>3. CASE l = 2
      <3>1. x = F BY <1>4, <2>3 DEF Span
      <3>2. v = F * q /\ x = F * 1 BY <2>1, <2>2, <3>1
      <3> QED BY <3>2
    <2>4. CASE l = 3
      <3>1. x = F * F BY <1>4, <2>4 DEF Span
      <3>2. PICK y \in Nat : y = F * q BY <2>1
      <3>3. v = F * y BY <2>1, <2>2, <3>1, <3>2
      <3> QED BY <2>1, <3>1, <3>3
    <2> QED BY <2>3, <2>4
  <1>8. F \in Nat \ {0} BY EvenF
  <1>9. F * (y + z) = v + x BY <1>7, <1>8
  <1>10. p \in F * y .. F * (y + z) - 1 BY <1>5, <1>7, <1>9
  <1>11. /\ F * (p \div F) >= F * y /\ F * (p \div F) + F <= F * (y + z)
         /\ F * (p \div F) \in Nat
    BY <1>8, <1>10, SmallBlock
  <1>12. PICK b \in Nat : b = F * (p \div F) BY <1>11
  <1>13. b >= v /\ b + F <= v + x BY <1>7, <1>9, <1>11, <1>12
  <1>14. PICK a \in Nat, c \in Nat : a = R[k].virt /\ c = R[k].remain BY <1>1, Ranges
  <1>15. a <= v /\ v + n = a + c BY <1>1, <1>2, <1>14
  <1>16. b .. b + F - 1 \subseteq a .. a + c - 1 BY <1>5, <1>8, <1>13, <1>15
  <1>17. b .. b + F - 1 \subseteq Pages(R[k]) BY <1>14, <1>16 DEF Pages
  <1>18. i \in 1 .. Len(R) /\ Len(R) \in Nat BY <1>1, Ranges
  <1> QED BY <1>1, <1>3, <1>6, <1>12, <1>17, <1>18, Ranges

\* One iteration moves the job on by the x pages of a block, or ends it.
Moved(x) ==
  \/ job' = NoJob
  \/ /\ job.remain > x
     /\ job' = [job EXCEPT !.virt = @ + x, !.phys = @ + x, !.remain = @ - x]

\* The books of init_pmap after an iteration; it made tables that cover job.virt.
LEMMA MovedOn ==
  ASSUME JobInv, NEW R \in BootLists, NEW k \in Nat, BootInv(R, k), NEW g, FreshInv(R, k, g),
         job # NoJob, NEW x \in Nat \ {0}, Moved(x), mapped' \in Nat, UNCHANGED <<root, todo>>,
         NEW g2, used \subseteq used', \A f \in used : g2[f] = g[f],
         \A f \in used' : f \notin used => job.virt \in Covered(g2[f])
  PROVE  JobInv' /\ BootInv(R, k)' /\ FreshInv(R, k, g2)'
  <1> DEFINE JobSet == [space : All, virt : Nat, phys : Nat, remain : Nat, huge : BOOLEAN]
  <1>1. /\ job \in JobSet /\ todo \in Seq(Jobs) /\ job.remain > 0 /\ job.virt + job.remain <= NumPages
        /\ root[job.space] # NULL /\ (todo # << >> => Alone(root))
    BY DEF JobInv
  <1>11. (job.space = KERNEL /\ Alone(root)) \/ (job.virt < Half /\ job.remain = 1 /\ ~job.huge)
    BY Zenon DEF JobInv
  <1>2. job.virt \in Nat /\ job.phys \in Nat /\ job.remain \in Nat /\ NumPages \in Nat BY <1>1, Spans
  <1>3. NoJob \in JobSet /\ ~NoJob.huge BY FramesNull DEF NoJob, Job
  <1>4. ASSUME job' # NoJob
        PROVE  /\ job' \in JobSet /\ job'.space = job.space /\ job'.huge = job.huge
               /\ job'.virt = job.virt + x /\ job'.remain = job.remain - x /\ job.remain > x
    <2>1. job.remain > x /\ job' = [job EXCEPT !.virt = @ + x, !.phys = @ + x, !.remain = @ - x]
      BY <1>4 DEF Moved
    <2>2. job.virt + x \in Nat /\ job.phys + x \in Nat /\ job.remain - x \in Nat BY <1>2, <2>1
    <2> QED BY <1>1, <2>1, <2>2
  <1>5. job' \in JobSet BY <1>3, <1>4
  <1> HIDE DEF JobSet
  <1>6. ASSUME job' # NoJob
        PROVE  /\ job'.remain > 0 /\ job'.virt + job'.remain = job.virt + job.remain
               /\ job'.virt > job.virt /\ job.space = KERNEL /\ Alone(root)
    <2>1. PICK v \in Nat, n \in Nat : v = job.virt /\ n = job.remain BY <1>2
    <2>2. job'.virt = v + x /\ job'.remain = n - x /\ n > x BY <1>4, <1>6, <2>1
    <2>3. job'.remain > 0 /\ job'.virt + job'.remain = v + n /\ job'.virt > v BY <2>2
    <2>4. n # 1 BY <2>2
    <2>5. job.space = KERNEL /\ Alone(root) BY <1>11, <2>1, <2>4
    <2> QED BY <2>1, <2>3, <2>5
  <1>7. JobInv'
    <2>1. job' # NoJob => /\ job'.remain > 0 /\ job'.virt + job'.remain <= NumPages
                          /\ root'[job'.space] # NULL
                          /\ job'.space = KERNEL /\ Alone(root')
      BY <1>1, <1>4, <1>6 DEF Alone
    <2>2. job' \in [space : All, virt : Nat, phys : Nat, remain : Nat, huge : BOOLEAN] BY <1>5 DEF JobSet
    <2> QED BY <1>1, <2>1, <2>2 DEF JobInv
  <1>8. Booting' => Booting BY <1>3, <1>4 DEF Booting
  <1>9. BootInv(R, k)'
    <2>1. ASSUME Booting', job' # NoJob
          PROVE  /\ k >= 1 /\ job'.space = KERNEL /\ job'.huge = R[k].huge
                 /\ R[k].virt <= job'.virt /\ job'.virt + job'.remain = R[k].virt + R[k].remain
      <3>1. /\ k >= 1 /\ job.huge = R[k].huge /\ k \in 0 .. Len(R)
            /\ R[k].virt <= job.virt /\ job.virt + job.remain = R[k].virt + R[k].remain
        BY <1>8, <2>1 DEF BootInv
      <3>2. Len(R) \in Nat BY Ranges
      <3>3. k \in 1 .. Len(R) BY <3>1, <3>2
      <3>4. R[k].virt \in Nat BY <3>3, Ranges
      <3>5. R[k].virt <= job'.virt BY <1>2, <1>4, <2>1, <3>1, <3>4
      <3> QED BY <1>4, <1>6, <2>1, <3>1, <3>5
    <2>2. /\ k \in 0 .. Len(R) /\ Len(todo') = Len(R) - k
          /\ \A i \in 1 .. Len(todo') : todo'[i] = R[k + i]
      BY DEF BootInv
    <2> QED BY <2>1, <2>2 DEF BootInv
  <1>10. FreshInv(R, k, g2)'
    <2> SUFFICES ASSUME Booting, NEW f \in used', g2[f].lv # 4
                 PROVE  \E p \in Covered(g2[f]) : Touched(R, k, p)'
      BY <1>8 DEF FreshInv
    <2>1. CASE f \in used
      <3>1. g2[f] = g[f] BY <2>1
      <3>2. PICK p \in Covered(g[f]) : Touched(R, k, p) BY <2>1, <3>1 DEF FreshInv
      <3>3. PICK i \in 1 .. k : p \in Pages(R[i]) /\ (i = k => p < job.virt) BY <3>2 DEF Touched
      <3>4. k \in 0 .. Len(R) /\ Len(R) \in Nat BY Ranges DEF BootInv
      <3>5. i \in 1 .. Len(R) BY <3>4
      <3>6. R[i].virt \in Nat /\ R[i].remain \in Nat BY <3>5, Ranges
      <3>7. p \in Int BY <3>3, <3>6 DEF Pages
      <3>8. i = k /\ job' # NoJob => p < job'.virt BY <1>2, <1>4, <3>3, <3>7
      <3>9. Touched(R, k, p)' BY <3>3, <3>8 DEF Touched
      <3> QED BY <3>1, <3>9
    <2>2. CASE f \notin used
      <3>1. job.virt \in Covered(g2[f]) BY <2>2
      <3>2. /\ k >= 1 /\ k \in 0 .. Len(R) /\ R[k].virt <= job.virt
            /\ job.virt + job.remain = R[k].virt + R[k].remain
        BY DEF BootInv
      <3>3. Len(R) \in Nat BY Ranges
      <3>4. k \in 1 .. Len(R) /\ k \in 1 .. k BY <3>2, <3>3
      <3>5. PICK a \in Nat, b \in Nat : a = R[k].virt /\ b = R[k].remain BY <3>4, Ranges
      <3>6. job.virt \in a .. a + b - 1
        <4>1. PICK v \in Nat, n \in Nat : v = job.virt /\ n = job.remain BY <1>2
        <4>2. n > 0 BY <1>1, <4>1
        <4>3. a <= v /\ v + n = a + b BY <3>2, <3>5, <4>1
        <4>4. v \in a .. a + b - 1 BY <4>2, <4>3
        <4> QED BY <4>1, <4>4
      <3>7. job.virt \in Pages(R[k]) BY <3>5, <3>6 DEF Pages
      <3>8. job' # NoJob => job.virt < job'.virt BY <1>2, <1>6
      <3>9. PICK q : q = job.virt OBVIOUS
      <3>10. Touched(R, k, q)' BY <3>4, <3>7, <3>8, <3>9 DEF Touched
      <3> QED BY <3>1, <3>9, <3>10
    <2> QED BY <2>1, <2>2
  <1> QED BY <1>7, <1>9, <1>10

\* Where map enters its page there is no table yet.
LEMMA NoTable ==
  ASSUME JobInv, NEW R \in BootLists, NEW k \in Nat, BootInv(R, k), NEW g, FreshInv(R, k, g),
         job # NoJob, NEW l \in 1 .. 3, job.virt \in Virt, job.virt % Span(l) = 0,
         job.remain >= Span(l), l # 1 => job.huge,
         NEW w, NEW g2, Tree(w.mem, w.used, root, g2), w.t \in w.used,
         g2[w.t] = Place(l, job.space, Base(job.virt, l)),
         used \subseteq w.used, \A f \in used : g2[f] = g[f],
         \A f \in w.used : f \notin used => g2[f].lv \in l .. 4
  PROVE  w.mem[w.t][Idx(job.virt, l)].kind # "table"
  <1> SUFFICES ASSUME w.mem[w.t][Idx(job.virt, l)].kind = "table" PROVE FALSE OBVIOUS
  <1>1. PICK v \in Virt : v = job.virt OBVIOUS
  <1>2. l \in 1 .. 4 OBVIOUS
  <1>3. PICK i \in 0 .. F - 1 : i = Idx(v, l) BY <1>2, Digit
  <1>4. g2[w.t].lv = l BY Places
  <1>5. ~Shared(root, w.t, i) BY <1>4, NotShared
  <1>6. CASE l = 1
    <2>1. Link(w.mem, root, w.t, i) BY <1>1, <1>3, <1>5 DEF Link
    <2>2. g2[w.t].lv > 1 BY <2>1 DEF Tree, Children
    <2> QED BY <1>4, <1>6, <2>2
  <1>7. CASE l # 1
    <2>1. l \in 2 .. 3 /\ l \in 2 .. 4 /\ job.huge BY <1>7
    <2>2. PICK c : c = w.mem[w.t][i].to OBVIOUS
    <2>3. c \in w.used /\ g2[c] = Place(l - 1, job.space, Base(v, l - 1))
      BY <1>1, <1>3, <1>5, <2>1, <2>2, Deeper
    <2>4. g2[c].lv = l - 1 /\ g2[c].bs = Base(v, l - 1) BY <2>3, Places
    <2>5. c \in used BY <2>1, <2>3, <2>4
    <2>6. g[c] = g2[c] /\ g[c].lv # 4 BY <2>1, <2>4, <2>5
    <2>7. Booting BY <2>1 DEF Booting
    <2>8. PICK p \in Covered(g[c]) : Touched(R, k, p) BY <2>5, <2>6, <2>7 DEF FreshInv
    <2>9. Span(l) = Reach(l - 1) BY <2>1, Spans
    <2>10. Base(v, l - 1) = v
      <3>1. Span(l) * (v \div Span(l)) = v BY <1>1, <1>2, AlignedBlock
      <3> QED BY <2>9, <3>1 DEF Base
    <2>11. p \in job.virt .. job.virt + Span(l) - 1
      BY <1>1, <2>4, <2>6, <2>8, <2>9, <2>10 DEF Covered
    <2> QED BY <2>1, <2>8, <2>11, NothingThere
  <1> QED BY <1>6, <1>7

\* What MapsExactly says of a step
Exactly ==
  \A s \in Live, va \in Virt :
    Translate(s, va)' =
      IF mapped' > mapped /\ va \in Block /\ va < job.virt + job.remain
           /\ (s = job.space \/ va >= Half)
        THEN job.phys + (va - job.virt) ELSE Translate(s, va)

LEMMA MapStep ==
  ASSUME PmapInv, map
  PROVE  PmapInv' /\ Exactly
  <1>0. PICK R \in BootLists, k \in Nat : \E g :
          Tree(mem, used, root, g) /\ JobInv /\ BootInv(R, k) /\ FreshInv(R, k, g)
    BY DEF PmapInv
  <1>1. PICK g : Tree(mem, used, root, g) /\ JobInv /\ BootInv(R, k) /\ FreshInv(R, k, g) BY <1>0
  <1>2. PICK l : l = map_huge_ok(job) OBVIOUS
  <1>3. PICK w : w = WalkTo(job.space, job.virt, l, TRUE) OBVIOUS
  <1>4. /\ job.remain > 0 /\ used' = w.used /\ UNCHANGED <<root, todo>>
        /\ w.t = NULL => mem' = w.mem /\ job' = NoJob /\ mapped' = mapped
        /\ w.t # NULL => /\ mem' = [w.mem EXCEPT ![w.t][Idx(job.virt, l)] = Page(job.phys)]
                         /\ mapped' = mapped + Span(l)
                         /\ job' = IF job.remain = Span(l) THEN NoJob
                                   ELSE [job EXCEPT !.virt = @ + Span(l), !.phys = @ + Span(l),
                                                    !.remain = @ - Span(l)]
    BY <1>2, <1>3 DEF map
  <1>5. job # NoJob BY <1>4 DEF NoJob, Job
  <1>6. l \in 1 .. 3 /\ job.virt % Span(l) = 0 /\ job.remain >= Span(l) /\ (l # 1 => job.huge)
    BY <1>1, <1>2, <1>4, MapLevel
  <1>7. /\ job.virt \in Nat /\ job.phys \in Nat /\ job.remain \in Nat /\ job.space \in All /\ mapped \in Nat
        /\ job.virt + job.remain <= NumPages /\ root[job.space] # NULL
    BY <1>1, <1>5 DEF JobInv
  <1>20. (job.space = KERNEL /\ Alone(root)) \/ (job.virt < Half /\ job.remain = 1 /\ ~job.huge)
    BY <1>1, <1>5, Zenon DEF JobInv
  <1>8. PICK v \in Nat, p \in Nat, n \in Nat, o \in All :
          v = job.virt /\ p = job.phys /\ n = job.remain /\ o = job.space
    BY <1>7
  <1>9. v \in Virt /\ n > 0 /\ v + n <= NumPages
    <2>1. n > 0 /\ v + n <= NumPages BY <1>4, <1>7, <1>8
    <2> QED BY <2>1, Spans DEF Virt
  <1>10. PICK x \in Nat \ {0} : x = Span(l) BY <1>6, Spans
  <1>11. v % x = 0 /\ n >= x /\ root[o] # NULL /\ ((o = KERNEL /\ Alone(root)) \/ (v < Half /\ l = 1))
    BY <1>6, <1>7, <1>8, <1>10, <1>20
  <1>12. PICK g2 : Advanced(Start(o), g, w, g2, root, v, o, l, TRUE)
    BY <1>1, <1>3, <1>6, <1>8, <1>9, <1>11, Walk
  <1>13. /\ Tree(w.mem, w.used, root, g2) /\ used \subseteq w.used /\ \A f \in used : g2[f] = g[f]
         /\ \A f \in w.used : f \notin used => g2[f].lv \in l .. 4 /\ v \in Covered(g2[f])
    BY <1>12 DEF Advanced, At, Grown, Start
  <1>14. \A s \in All, va \in Virt : root[s] # NULL => Tr(w.mem, root[s], va) = Tr(mem, root[s], va)
    BY <1>12 DEF Advanced, Grown, Start
  <1>15. w.t # NULL => /\ w.t \in w.used /\ g2[w.t] = Place(l, o, Base(v, l))
                       /\ Reached(w.mem, root[o], v, l, w.t)
    BY <1>12 DEF Advanced, At
  <1>16. JobInv' /\ BootInv(R, k)' /\ FreshInv(R, k, g2)'
    <2>1. Moved(x) BY <1>4, <1>8, <1>10, <1>11 DEF Moved
    <2>2. mapped' \in Nat BY <1>4, <1>7, <1>10
    <2> QED BY <1>1, <1>4, <1>5, <1>8, <1>13, <2>1, <2>2, MovedOn
  <1>17. \A s \in Live, va \in Virt : /\ s \in All /\ root[s] # NULL
                                      /\ Translate(s, va) = Tr(mem, root[s], va)
                                      /\ Translate(s, va)' = Tr(mem', root[s], va)
    <2> SUFFICES ASSUME NEW s \in Live, NEW va \in Virt
                 PROVE  /\ s \in All /\ root[s] # NULL
                        /\ Translate(s, va) = Tr(mem, root[s], va)
                        /\ Translate(s, va)' = Tr(mem', root[s], va)
      OBVIOUS
    <2>1. s \in All /\ root[s] # NULL BY DEF Live
    <2>2. Translate(s, va) = Tr(mem, root[s], va) BY TranslateIsTr
    <2>3. Translate(s, va)' = Tr(mem', root'[s], va) BY DEF Translate, Tr, E1, E2, E3, E4
    <2> QED BY <1>4, <2>1, <2>2, <2>3
  <1>18. CASE w.t = NULL
    <2>1. Tree(mem', used', root', g2) BY <1>4, <1>13, <1>18
    <2>2. ~(mapped' > mapped) BY <1>4, <1>7, <1>18
    <2>3. Exactly BY <1>4, <1>14, <1>17, <1>18, <2>2 DEF Exactly
    <2> QED BY <1>16, <2>1, <2>3 DEF PmapInv
  <1>19. CASE w.t # NULL
    <2>1. PICK i \in 0 .. F - 1 : i = Idx(v, l) BY <1>6, <1>9, Digit
    <2>2. w.mem[w.t][i].kind # "table"
      <3>1. job.virt \in Virt BY <1>8, <1>9
      <3>2. w.t \in w.used /\ g2[w.t] = Place(l, job.space, Base(job.virt, l)) BY <1>8, <1>15, <1>19
      <3>3. \A f \in w.used : f \notin used => g2[f].lv \in l .. 4 BY <1>13
      <3>4. Tree(w.mem, w.used, root, g2) /\ used \subseteq w.used /\ \A f \in used : g2[f] = g[f]
        BY <1>13
      <3>5. w.mem[w.t][Idx(job.virt, l)].kind # "table"
        BY <1>1, <1>5, <1>6, <3>1, <3>2, <3>3, <3>4, NoTable
      <3> QED BY <1>8, <2>1, <3>5
    <2>3. Page(p) \in Cell /\ Page(p).kind = "page" BY DEF Page, Cell
    <2>4. g2[w.t].lv = l /\ g2[w.t].own = o BY <1>15, <1>19, Places
    <2>5. o # KERNEL => l = 1 BY <1>11
    <2>6. mem' = [w.mem EXCEPT ![w.t][i] = Page(p)] BY <1>4, <1>8, <1>19, <2>1
    <2>7. Tree(mem', used', root', g2)
      <3>1. g2[w.t].lv <= 3 BY <1>6, <2>4
      <3>2. Tree([w.mem EXCEPT ![w.t][i] = Page(p)], w.used, root, g2)
        BY <1>13, <1>15, <1>19, <2>2, <2>3, <2>4, <2>5, <3>1, Put
      <3> QED BY <1>4, <2>6, <3>2
    <2>8. \A h \in w.used, j \in 0 .. F - 1 :
            mem'[h][j] = IF h = w.t /\ j = Idx(v, l) THEN Page(p) ELSE w.mem[h][j]
      <3>1. w.mem \in Memories /\ w.used \subseteq Frames BY <1>13 DEF Tree, TreeType
      <3> QED BY <1>15, <1>19, <2>1, <2>6, <3>1 DEF Memories
    <2>9. mapped' > mapped BY <1>4, <1>7, <1>10, <1>19
    <2>10. Block = v .. v + x - 1 BY <1>2, <1>8, <1>10 DEF Block
    <2>11. ASSUME NEW s \in Live, NEW va \in Virt
           PROVE  Translate(s, va)' =
                    IF mapped' > mapped /\ va \in Block /\ va < job.virt + job.remain
                         /\ (s = job.space \/ va >= Half)
                      THEN job.phys + (va - job.virt) ELSE Translate(s, va)
      <3>1. /\ s \in All /\ root[s] # NULL /\ Translate(s, va) = Tr(mem, root[s], va)
            /\ Translate(s, va)' = Tr(mem', root[s], va)
        BY <1>17
      <3>2. PICK m2 : m2 = mem' OBVIOUS
      <3>3. Tr(m2, root[s], va) = IF s = o /\ va \in v .. v + Span(l) - 1 THEN p + (va - v)
                                    ELSE Tr(w.mem, root[s], va)
        <4>1. PICK t \in w.used : t = w.t BY <1>15, <1>19
        <4>2. PICK r, u, m : r = root /\ u = w.used /\ m = w.mem OBVIOUS
        <4>3. Tree(m, u, r, g2) /\ r[o] # NULL /\ ((o = KERNEL /\ Alone(r)) \/ (v < Half /\ l = 1))
          BY <1>11, <1>13, <4>2
        <4>4. v \in Virt /\ l \in 1 .. 3 /\ v % Span(l) = 0 BY <1>9, <1>6, <1>10, <1>11
        <4>5. t \in u /\ g2[t] = Place(l, o, Base(v, l)) /\ Reached(m, r[o], v, l, t)
          BY <1>15, <1>19, <4>1, <4>2
        <4>6. m[t][Idx(v, l)].kind # "table" BY <2>1, <2>2, <4>1, <4>2
        <4>7. Entered(m, m2, u, t, Idx(v, l), p) BY <2>8, <3>2, <4>1, <4>2 DEF Entered
        <4>8. s \in All /\ r[s] # NULL BY <3>1, <4>2
        <4>9. Tr(m2, r[s], va) = IF s = o /\ va \in v .. v + Span(l) - 1 THEN p + (va - v)
                                   ELSE Tr(m, r[s], va)
          BY <4>3, <4>4, <4>5, <4>6, <4>7, <4>8, PutTranslates
        <4> QED BY <4>2, <4>9
      <3>4. Tr(w.mem, root[s], va) = Translate(s, va) BY <1>14, <3>1
      <3>5. ASSUME va \in v .. v + x - 1 PROVE va < v + n /\ (s = o <=> s = o \/ va >= Half)
        <4>1. va < v + n BY <1>9, <1>11, <3>5 DEF Virt
        <4>2. CASE o = KERNEL /\ Alone(root)
          <5>1. s = KERNEL BY <3>1, <4>2 DEF Alone, All
          <5> QED BY <4>1, <4>2, <5>1
        <4>3. CASE ~(o = KERNEL /\ Alone(root))
          <5>1. x = 1 BY <1>10, <1>11, <4>3, Spans
          <5>2. va = v BY <3>5, <5>1 DEF Virt
          <5> QED BY <1>11, <4>1, <4>3, <5>2, TwoHalves
        <4> QED BY <4>2, <4>3
      <3>6. Translate(s, va)' = IF s = o /\ va \in v .. v + x - 1 THEN p + (va - v) ELSE Translate(s, va)
        BY <1>10, <3>1, <3>2, <3>3, <3>4
      <3> QED BY <1>8, <2>9, <2>10, <3>5, <3>6
    <2>12. Exactly BY <2>11 DEF Exactly
    <2> QED BY <1>16, <2>7, <2>12 DEF PmapInv
  <1> QED BY <1>18, <1>19

LEMMA NextPmap == PmapInv /\ [Next]_vars => PmapInv'
  <1> SUFFICES ASSUME PmapInv, [Next]_vars PROVE PmapInv' OBVIOUS
  <1>1. CASE init_pmap BY <1>1, InitPmapStep
  <1>2. CASE map BY <1>2, MapStep
  <1>3. CASE \E p \in Mmio : pmap_map_mmio(p) BY <1>3, MmioStep
  <1>4. CASE \E s \in All, va \in LowVirt, p \in LowPhys : pmap_map_page(s, va, p)
    BY <1>4, MapPageStep
  <1>5. CASE \E s \in All, va \in LowVirt : pmap_unmap_page(s, va) BY <1>5, UnmapStep
  <1>6. CASE \E s \in Spaces : pmap_create_table(s) BY <1>6, CreateStep
  <1>7. CASE \E s \in Spaces : pmap_destroy_table(s) BY <1>7, DestroyStep
  <1>8. CASE UNCHANGED vars
    <2>0. PICK R \in BootLists, k \in Nat : \E g :
            Tree(mem, used, root, g) /\ JobInv /\ BootInv(R, k) /\ FreshInv(R, k, g)
      BY DEF PmapInv
    <2>1. PICK g : Tree(mem, used, root, g) /\ JobInv /\ BootInv(R, k) /\ FreshInv(R, k, g) BY <2>0
    <2>2. mem' = mem /\ used' = used /\ root' = root /\ todo' = todo /\ job' = job /\ mapped' = mapped
      BY <1>8 DEF vars
    <2>3. JobInv' BY <2>1, <2>2 DEF JobInv
    <2>4. BootInv(R, k)' BY <2>1, <2>2 DEF BootInv, Booting
    <2>5. FreshInv(R, k, g)' BY <2>1, <2>2 DEF FreshInv, Booting, Touched
    <2>6. Tree(mem', used', root', g) BY <2>1, <2>2
    <2> QED BY <2>3, <2>4, <2>5, <2>6 DEF PmapInv
  <1> QED BY <1>1, <1>2, <1>3, <1>4, <1>5, <1>6, <1>7, <1>8 DEF Next

\* In every reachable state of the page tables the invariant above holds: the
\* frames taken by get_next_level and pmap_create_table form one tree per space,
\* and init_pmap has yet made no table where it will still enter a huge page.
THEOREM PmapInvHolds == Spec => []PmapInv
  BY InitPmap, NextPmap, PTL DEF Spec

-----------------------------------------------------------------------------
(* Theorems *)

\* Every frame that get_next_level and pmap_create_table took from the physical
\* memory manager hangs at one place of the tree of one existing space, for every
\* interleaving of maps, failed maps, creations and destructions.
THEOREM TablesAreConserved == Spec => []TablesConserved
  <1>1. ASSUME PmapInv PROVE TablesConserved
    <2>1. PICK g : Tree(mem, used, root, g) BY <1>1 DEF PmapInv
    <2> DEFINE links == {x \in used \X (0 .. F - 1) :
                           /\ mem[x[1]][x[2]].kind = "table"
                           /\ ~(x[2] >= F \div 2 /\ \E s \in Spaces : x[1] = root[s])}
               to(x) == mem[x[1]][x[2]].to
               roots == {root[s] : s \in Live}
    <2>2. TreeType(mem, used, root, g) /\ used \subseteq Frames BY <2>1 DEF Tree, TreeType
    <2>3. \A s \in Live : s \in All /\ root[s] \in used /\ g[root[s]] = Place(4, s, 0)
      BY <2>1 DEF Live, Tree, Roots
    <2>4. \A s \in Live : g[root[s]].lv = 4 /\ g[root[s]].own = s BY <2>3, Places
    <2>5. \A s, t \in Live : root[s] = root[t] => s = t BY <2>4
    <2>6. \A x \in links : x[1] \in used /\ x[2] \in 0 .. F - 1 /\ Link(mem, root, x[1], x[2]) /\ x = <<x[1], x[2]>>
      BY DEF Link, Shared
    <2>7. \A f \in used, i \in 0 .. F - 1 : Link(mem, root, f, i) => <<f, i>> \in links /\ to(<<f, i>>) = mem[f][i].to
      BY DEF Link, Shared
    <2>8. \A x \in links : to(x) \in used /\ g[to(x)].lv # 4
      <3> SUFFICES ASSUME NEW x \in links PROVE to(x) \in used /\ g[to(x)].lv # 4 OBVIOUS
      <3>1. PICK f \in used, i \in 0 .. F - 1 : f = x[1] /\ i = x[2] /\ Link(mem, root, f, i) BY <2>6
      <3>2. PICK c : c = mem[f][i].to OBVIOUS
      <3>3. c \in used /\ g[c] = Place(g[f].lv - 1, g[f].own, g[f].bs + i * Span(g[f].lv))
        BY <2>1, <3>1, <3>2 DEF Tree, Children
      <3>4. g[c].lv = g[f].lv - 1 BY <3>3, Places
      <3>5. g[f].lv \in 1 .. 4 BY <2>2 DEF TreeType, Ghost
      <3>6. g[c].lv # 4 BY <3>4, <3>5
      <3> QED BY <3>1, <3>2, <3>3, <3>6
    <2>9. \A x, y \in links : to(x) = to(y) => x = y
      <3> SUFFICES ASSUME NEW x \in links, NEW y \in links, to(x) = to(y) PROVE x = y OBVIOUS
      <3>1. x[1] = y[1] /\ x[2] = y[2] BY <2>1, <2>6 DEF Tree, Once
      <3> QED BY <2>6, <3>1
    <2> HIDE DEF links, to
    <2>10. roots \cap {to(x) : x \in links} = {} BY <2>4, <2>8
    <2>11. roots \cup {to(x) : x \in links} \subseteq used BY <2>3, <2>8
    <2>12. ASSUME NEW f \in used PROVE f \in roots \cup {to(x) : x \in links}
      <3>1. CASE f = root[g[f].own]
        <4>1. g[f].own \in All BY <2>2 DEF TreeType, Ghost
        <4>2. g[f].own \in Live BY <2>1, <4>1 DEF Live, Tree, Roots
        <4> QED BY <3>1, <4>2
      <3>2. CASE \E p \in used, i \in 0 .. F - 1 : Link(mem, root, p, i) /\ mem[p][i].to = f
        BY <2>7, <3>2
      <3> QED BY <2>1, <3>1, <3>2 DEF Tree, Hangs
    <2>13. used = roots \cup {to(x) : x \in links} BY <2>11, <2>12
    <2> QED BY <2>2, <2>5, <2>9, <2>10, <2>13 DEF TablesConserved, links, to
  <1> QED BY <1>1, PmapInvHolds, PTL

\* pmap_copy_kernel_mappings copies the kernel's upper entries once, and nothing
\* adds to them afterwards: every address space translates kernel addresses alike.
THEOREM KernelIsShared == Spec => []KernelShared
  <1>1. ASSUME PmapInv PROVE KernelShared
    <2>1. PICK g : Tree(mem, used, root, g) BY <1>1 DEF PmapInv
    <2> SUFFICES ASSUME NEW s \in Live, NEW va \in Half .. NumPages - 1
                 PROVE  Translate(s, va) = Translate(KERNEL, va)
      BY DEF KernelShared
    <2>2. va \in Virt /\ va >= Half BY TwoHalves DEF Virt
    <2>3. PICK i \in 0 .. F - 1 : i = Idx(va, 4) BY <2>2, Digit
    <2>4. i >= F \div 2 BY <2>2, <2>3, Halves, TwoHalves, EvenF
    <2>5. s \in All /\ root[s] # NULL BY DEF Live
    <2>6. mem[root[s]][i] = mem[root[KERNEL]][i]
      <3>1. CASE s = KERNEL BY <3>1
      <3>2. CASE s \in Spaces BY <2>1, <2>4, <2>5, <3>2 DEF Tree, UpperHalf
      <3> QED BY <2>5, <3>1, <3>2 DEF All
    <2>7. E4(mem, root[s], va) = E4(mem, root[KERNEL], va) BY <2>3, <2>6 DEF E4
    <2>8. Tr(mem, root[s], va) = Tr(mem, root[KERNEL], va) BY <2>7 DEF Tr, E3, E2, E1
    <2> QED BY <2>8, TranslateIsTr
  <1> QED BY <1>1, PmapInvHolds, PTL

\* Each iteration of pmap_map_range (map, map_2m or map_1g) changes exactly the
\* translations of its block, and one that runs out of frames for tables changes
\* none, in whatever order ranges, huge pages and user pages come.
THEOREM MapsAreExact == Spec => MapsExactly
  <1>1. ASSUME PmapInv, [Next]_vars
        PROVE  [map => Exactly]_vars
    BY <1>1, MapStep
  <1>2. Spec => [][map => Exactly]_vars BY <1>1, PmapInvHolds, PTL DEF Spec
  <1> QED BY <1>2 DEF MapsExactly, Exactly
=============================================================================
