--------------------------- MODULE RBTree_proofs ---------------------------
(***************************************************************************)
(* Proofs about the red-black tree and the operations of the run queue,    *)
(* for every number of nodes.                                              *)
(*                                                                         *)
(* First, of any state of the memory, also one that two operations at once *)
(* have damaged: every pointer stays NULL or a node.  Then, of a tree: the *)
(* operations keep it a tree, an insertion puts the new member into its    *)
(* place and an erasure takes out that member, and both leave the order of *)
(* the others as it was.                                                   *)
(***************************************************************************)
EXTENDS RunQueue, Induction, FiniteSetTheorems, SequenceTheorems

-----------------------------------------------------------------------------
(* Loops: a loop of the code ends where its function says, after at most   *)
(* as many turns as there are nodes.                                       *)

\* go[k][y] is where at most k turns lead from y.
Goes(go, f, S) ==
  /\ go \in [0 .. Cardinality(Nodes) -> [S -> S]]
  /\ \A y \in S : go[0][y] = y
  /\ \A k \in 1 .. Cardinality(Nodes) : \A y \in S :
       go[k][y] = IF f[y] = NULL THEN y ELSE go[k - 1][f[y]]

LEMMA LoopGoes ==
  ASSUME NEW S, NEW f \in [S -> S \cup {NULL}]
  PROVE  \E go : Goes(go, f, S) /\ \A x \in S : Loop(f, x) = go[Cardinality(Nodes)][x]
  <1> DEFINE N == Cardinality(Nodes)
             T == [S -> S]
             turn(k, go) == [y \in DOMAIN f |-> LET z == f[y] IN IF k = 0 \/ z = NULL THEN y ELSE go[k - 1][z]]
             step == [go \in T |-> [y \in S |-> IF f[y] = NULL THEN y ELSE go[f[y]]]]
             stay == [y \in S |-> y]
             go0 == CHOOSE go : go = [k \in 0 .. N |-> turn(k, go)]
  <1>1. N \in Nat BY TreeAssumption, FS_CardinalityType
  <1>2. stay \in T /\ step \in [T -> T] OBVIOUS
  <1>3. PICK go \in [0 .. N -> T] : Follows(go, N, stay, [i \in 1 .. N |-> step])
    <2> HIDE DEF N, T, stay, step
    <2>1. [i \in 1 .. N |-> step] \in [1 .. N -> [T -> T]] BY <1>2
    <2> QED BY <1>1, <1>2, <2>1, Recursion
  <1>4. ASSUME NEW k \in 0 .. N PROVE go[k] = turn(k, go)
    <2>1. CASE k = 0
      <3>1. go[0] = stay BY <1>3 DEF Follows
      <3>2. turn(0, go) = stay OBVIOUS
      <3> QED BY <2>1, <3>1, <3>2
    <2>2. CASE k # 0
      <3>1. k \in 1 .. N /\ k - 1 \in 0 .. N BY <1>1, <2>2
      <3>2. go[k] = step[go[k - 1]] /\ go[k - 1] \in T BY <1>3, <3>1 DEF Follows
      <3>3. step[go[k - 1]] = [y \in S |-> IF f[y] = NULL THEN y ELSE go[k - 1][f[y]]] BY <3>2
      <3>4. turn(k, go) = [y \in S |-> IF f[y] = NULL THEN y ELSE go[k - 1][f[y]]] BY <2>2
      <3> QED BY <3>2, <3>3, <3>4
    <2> QED BY <2>1, <2>2
  <1>5. go = [k \in 0 .. N |-> turn(k, go)]
    <2> HIDE DEF N, T, turn
    <2> QED BY <1>3, <1>4
  <1>6. go0 = [k \in 0 .. N |-> turn(k, go0)]
    <2> HIDE DEF turn, N
    <2> QED BY <1>5
  <1>7. \A x \in S : Loop(f, x) = go0[N][x] BY DEF Loop
  <1> DEFINE I == {k \in 0 .. N : go0[k] \in T}
  <1>8. ASSUME NEW k \in 0 .. N PROVE go0[k] = turn(k, go0)
    <2> HIDE DEF turn, N, go0
    <2> QED BY <1>6
  <1> HIDE DEF go0
  <1>9. 0 \in I /\ \A y \in S : go0[0][y] = y
    <2>1. turn(0, go0) = stay OBVIOUS
    <2>2. 0 \in 0 .. N BY <1>1
    <2>3. go0[0] = stay BY <1>8, <2>1, <2>2
    <2> QED BY <1>2, <2>2, <2>3
  <1>12. ASSUME NEW k \in 0 .. N - 1
         PROVE go0[k + 1] = [y \in S |-> IF f[y] = NULL THEN y ELSE go0[k][f[y]]]
    <2>1. k + 1 \in 0 .. N /\ k + 1 # 0 /\ (k + 1) - 1 = k BY <1>1
    <2>3. turn(k + 1, go0) = [y \in S |-> IF f[y] = NULL THEN y ELSE go0[k][f[y]]] BY <2>1
    <2> QED BY <1>8, <2>1, <2>3
  <1>10. ASSUME NEW k \in 0 .. N - 1, k \in I PROVE k + 1 \in I
    <2>1. k + 1 \in 0 .. N BY <1>1
    <2>2. go0[k] \in T BY <1>10
    <2>3. [y \in S |-> IF f[y] = NULL THEN y ELSE go0[k][f[y]]] \in T BY <2>2
    <2>4. go0[k + 1] \in T
      <3> HIDE DEF T
      <3> QED BY <2>3, <1>12
    <2> QED BY <2>1, <2>4
  <1>11. \A k \in 0 .. N : go0[k] \in T
    <2>1. 0 .. N \subseteq I
      <3> HIDE DEF I, N
      <3> QED BY <1>1, <1>9, <1>10, InductionUpTo
    <2> QED BY <2>1
  <1>13. go0 \in [0 .. N -> T]
    <2> HIDE DEF turn, T
    <2>1. DOMAIN go0 = 0 .. N BY <1>6
    <2>2. go0 = [k \in 0 .. N |-> go0[k]] BY <1>6, <2>1
    <2> QED BY <2>2, <1>11
  <1>14. ASSUME NEW k \in 1 .. N, NEW y \in S PROVE go0[k][y] = IF f[y] = NULL THEN y ELSE go0[k - 1][f[y]]
    <2>1. k - 1 \in 0 .. N - 1 /\ (k - 1) + 1 = k BY <1>1
    <2>2. go0[(k - 1) + 1] = [z \in S |-> IF f[z] = NULL THEN z ELSE go0[k - 1][f[z]]] BY <1>12, <2>1
    <2> QED BY <2>1, <2>2
  <1>15. Goes(go0, f, S) BY <1>9, <1>13, <1>14 DEF Goes
  <1> QED BY <1>7, <1>15

\* A loop stays among the values that its turns lead to.
LEMMA LoopTyped ==
  ASSUME NEW S, NEW f \in [S -> S \cup {NULL}], NEW x \in S
  PROVE  Loop(f, x) \in S
  <1>1. Cardinality(Nodes) \in Nat BY TreeAssumption, FS_CardinalityType
  <1> QED BY <1>1, LoopGoes DEF Goes

\* What every turn preserves holds at the end.
LEMMA LoopStays ==
  ASSUME NEW D, NEW f \in [D -> D \cup {NULL}], NEW S \in SUBSET D, NEW x \in S,
         \A y \in S : f[y] = NULL \/ f[y] \in S
  PROVE  Loop(f, x) \in S
  <1> DEFINE N == Cardinality(Nodes)
  <1>1. N \in Nat BY TreeAssumption, FS_CardinalityType
  <1>2. PICK go : Goes(go, f, D) /\ Loop(f, x) = go[N][x] BY LoopGoes
  <1> DEFINE I == {k \in 0 .. N : \A y \in S : go[k][y] \in S}
  <1>3. 0 \in I BY <1>1, <1>2 DEF Goes
  <1>4. ASSUME NEW k \in 0 .. N - 1, k \in I PROVE k + 1 \in I
    <2>1. k + 1 \in 1 .. N /\ (k + 1) - 1 = k BY <1>1
    <2>2. \A y \in S : go[k + 1][y] = IF f[y] = NULL THEN y ELSE go[k][f[y]] BY <1>2, <2>1 DEF Goes
    <2> QED BY <2>1, <2>2, <1>4
  <1>5. 0 .. N \subseteq I
    <2> HIDE DEF I, N
    <2> QED BY <1>1, <1>3, <1>4, InductionUpTo
  <1> QED BY <1>1, <1>2, <1>5

\* A loop whose turns bring a measure down that is at most the number of nodes
\* comes to its end.
LEMMA LoopEnds ==
  ASSUME NEW D, NEW f \in [D -> D \cup {NULL}], NEW S \in SUBSET D, NEW x \in S,
         \A y \in S : f[y] = NULL \/ f[y] \in S,
         NEW m \in [S -> Nat], m[x] <= Cardinality(Nodes),
         \A y \in S : f[y] # NULL => m[f[y]] < m[y]
  PROVE  f[Loop(f, x)] = NULL
  <1> DEFINE N == Cardinality(Nodes)
  <1>1. N \in Nat BY TreeAssumption, FS_CardinalityType
  <1>2. PICK go : Goes(go, f, D) /\ Loop(f, x) = go[N][x] BY LoopGoes
  <1> DEFINE I == {k \in 0 .. N : \A y \in S : m[y] <= k => f[go[k][y]] = NULL}
  <1>3. 0 \in I
    <2>1. ASSUME NEW y \in S, m[y] <= 0 PROVE f[y] = NULL
      <3>1. f[y] # NULL => m[f[y]] \in Nat /\ m[f[y]] < m[y] OBVIOUS
      <3> QED BY <2>1, <3>1
    <2> QED BY <1>1, <1>2, <2>1 DEF Goes
  <1>4. ASSUME NEW k \in 0 .. N - 1, k \in I PROVE k + 1 \in I
    <2>1. k + 1 \in 1 .. N /\ (k + 1) - 1 = k BY <1>1
    <2>2. \A y \in S : go[k + 1][y] = IF f[y] = NULL THEN y ELSE go[k][f[y]] BY <1>2, <2>1 DEF Goes
    <2>3. ASSUME NEW y \in S, m[y] <= k + 1 PROVE f[go[k + 1][y]] = NULL
      <3>1. CASE f[y] = NULL BY <3>1, <2>2
      <3>2. CASE f[y] # NULL
        <4>1. f[y] \in S /\ m[f[y]] < m[y] /\ m[f[y]] \in Nat /\ m[y] \in Nat BY <3>2
        <4>2. m[f[y]] <= k BY <4>1, <2>3
        <4> QED BY <1>4, <2>2, <3>2, <4>1, <4>2
      <3> QED BY <3>1, <3>2
    <2> QED BY <2>1, <2>3
  <1>5. 0 .. N \subseteq I
    <2> HIDE DEF I, N
    <2> QED BY <1>1, <1>3, <1>4, InductionUpTo
  <1> QED BY <1>1, <1>2, <1>5

-----------------------------------------------------------------------------
(* The red-black tree keeps to its nodes: whatever state the tree is in, also
   after a tick has met a task_wake half way, every operation leaves pointers
   to nodes or NULL and follows no other. *)

Sides == {"left", "right"}

LEMMA SetTyped ==
  ASSUME NEW h \in Heap, NEW x, NEW p \in Pointer
  PROVE  /\ Set(h, x, "parent", p) \in Heap
         /\ Set(h, x, "left", p) \in Heap
         /\ Set(h, x, "right", p) \in Heap
  BY DEF Set, Heap, rb_node

LEMMA ColorTyped ==
  ASSUME NEW h \in Heap, NEW x, NEW c \in {Red, Black}
  PROVE  Set(h, x, "color", c) \in Heap
  BY DEF Set, Heap, rb_node

LEMMA Field ==
  ASSUME NEW h \in Heap, NEW x \in Nodes, NEW side \in Sides
  PROVE  h.n[x][side] \in Pointer /\ h.n[x].parent \in Pointer /\ h.n[x].left \in Pointer /\ h.n[x].right \in Pointer
         /\ h.n[x].color \in {Red, Black}
  BY DEF Heap, rb_node, Sides

LEMMA SetSide ==
  ASSUME NEW h \in Heap, NEW x, NEW p \in Pointer, NEW side \in Sides
  PROVE  Set(h, x, side, p) \in Heap /\ Other(side) \in Sides
  BY SetTyped DEF Sides, Other

LEMMA SideIs ==
  ASSUME NEW h, NEW x, NEW parent
  PROVE  SideOf(h, x, parent) \in Sides /\ Other(SideOf(h, x, parent)) \in Sides
  BY DEF SideOf, Sides, Other

LEMMA ParentColorTyped ==
  ASSUME NEW h \in Heap, NEW x, NEW p \in Pointer, NEW c \in {Red, Black}
  PROVE  rb_set_parent_color(h, x, p, c) \in Heap
  BY SetTyped, ColorTyped DEF rb_set_parent_color

LEMMA CopyTyped ==
  ASSUME NEW h \in Heap, NEW x, NEW from \in Nodes
  PROVE  CopyParentColor(h, from, x) \in Heap
  <1>1. h.n[from].parent \in Pointer /\ h.n[from].color \in {Red, Black} BY Field DEF Sides
  <1> QED BY <1>1, ParentColorTyped DEF CopyParentColor

LEMMA ChangeChildTyped ==
  ASSUME NEW h \in Heap, NEW old, NEW new \in Pointer, NEW parent
  PROVE  __rb_change_child(h, old, new, parent) \in Heap
  <1>1. [h EXCEPT !.root = new] \in Heap BY DEF Heap
  <1> QED BY <1>1, SetTyped DEF __rb_change_child

LEMMA CrashTyped ==
  ASSUME NEW h \in Heap
  PROVE  Crash(h) \in Heap
  BY DEF Crash, Heap

LEMMA RotateTyped ==
  ASSUME NEW h \in Heap, NEW old \in Nodes, NEW new \in Nodes, NEW side \in Sides,
         NEW c \in {Red, Black}, NEW d \in {Red, Black}
  PROVE  Rotate(h, old, new, side, c, d) \in Heap
  <1> DEFINE tmp == h.n[new][Other(side)]
             h1 == Set(Set(h, old, side, tmp), new, Other(side), old)
             h2 == IF tmp = NULL THEN h1 ELSE rb_set_parent_color(h1, tmp, old, d)
  <1>1. Other(side) \in Sides BY DEF Other, Sides
  <1>2. tmp \in Pointer BY <1>1, Field
  <1>3. old \in Pointer /\ new \in Pointer BY DEF Pointer
  <1>4. h1 \in Heap BY <1>1, <1>2, <1>3, SetSide
  <1>5. h2 \in Heap BY <1>3, <1>4, ParentColorTyped
  <1>6. Rotate(h, old, new, side, c, d) = __rb_rotate_set_parents(h2, old, new, c) BY DEF Rotate
  <1> HIDE DEF h2
  <1>7. CopyParentColor(h2, old, new) \in Heap BY <1>5, CopyTyped
  <1>8. rb_set_parent_color(CopyParentColor(h2, old, new), old, new, c) \in Heap
    BY <1>3, <1>7, ParentColorTyped
  <1> QED BY <1>3, <1>6, <1>8, ChangeChildTyped DEF __rb_rotate_set_parents

LEMMA RedIsNode ==
  ASSUME NEW h, NEW x \in Pointer, IsRed(h, x)
  PROVE  x \in Nodes
  BY DEF IsRed, Pointer

LEMMA LinkTyped ==
  ASSUME NEW h \in Heap, NEW node \in Nodes, NEW parent \in Pointer, NEW side \in Sides
  PROVE  rb_link_node(h, node, parent, side) \in Heap
  <1> DEFINE z == [ZeroNode EXCEPT !.parent = parent]
             h1 == [h EXCEPT !.n[node] = z]
  <1>1. z \in rb_node BY DEF rb_node, ZeroNode, Pointer
  <1> HIDE DEF z
  <1>2. h1 \in Heap BY <1>1 DEF Heap
  <1>3. node \in Pointer BY DEF Pointer
  <1>4. [h1 EXCEPT !.root = node] \in Heap BY <1>2, <1>3 DEF Heap
  <1>5. Set(h1, parent, side, node) \in Heap BY <1>2, <1>3, SetSide
  <1> QED BY <1>4, <1>5 DEF rb_link_node, z

LEMMA InsertTurnIs ==
  ASSUME NEW h \in Heap, NEW node \in Nodes
  PROVE  LET parent == h.n[node].parent
             gparent == h.n[parent].parent
         IN InsertTurn(h, node) \in IF IsRed(h, parent) /\ gparent # NULL /\ IsRed(h, Uncle(h, parent, gparent))
                                    THEN [h : Heap, node : Nodes] ELSE {NULL}
  <1> DEFINE parent == h.n[node].parent
             gparent == h.n[parent].parent
             uncle == Uncle(h, parent, gparent)
             h1 == rb_set_parent_color(h, uncle, gparent, Black)
             h2 == rb_set_parent_color(h1, parent, gparent, Black)
  <1> SUFFICES ASSUME IsRed(h, parent) /\ gparent # NULL /\ IsRed(h, uncle)
               PROVE  Set(h2, gparent, "color", Red) \in Heap /\ gparent \in Nodes
    BY DEF InsertTurn
  <1>1. parent \in Nodes BY Field, RedIsNode DEF Sides
  <1>2. gparent \in Pointer /\ gparent \in Nodes BY <1>1, Field DEF Sides, Pointer
  <1> HIDE DEF parent, gparent, uncle
  <1>3. h1 \in Heap BY <1>2, ParentColorTyped
  <1> HIDE DEF h1
  <1>4. h2 \in Heap BY <1>2, <1>3, ParentColorTyped
  <1> QED BY <1>2, <1>4, ColorTyped

LEMMA InsertTurnTyped ==
  ASSUME NEW h \in Heap, NEW node \in Nodes
  PROVE  InsertTurn(h, node) \in [h : Heap, node : Nodes] \cup {NULL}
  BY InsertTurnIs

LEMMA InsertEndTyped ==
  ASSUME NEW h \in Heap, NEW node \in Nodes
  PROVE  InsertEnd(h, node) \in Heap
  <1> DEFINE parent == h.n[node].parent
             gparent == h.n[parent].parent
             side == SideOf(h, parent, gparent)
  <1>1. parent \in Pointer BY Field DEF Sides
  <1>2. rb_set_parent_color(h, node, NULL, Black) \in Heap BY ParentColorTyped DEF Pointer
  <1>3. side \in Sides /\ Other(side) \in Sides BY SideIs
  <1>4. ASSUME IsRed(h, parent), gparent # NULL
        PROVE  /\ Rotate(Rotate(h, parent, node, Other(side), Red, Black), gparent, node, side, Red, Black) \in Heap
               /\ Rotate(h, gparent, parent, side, Red, Black) \in Heap
    <2>1. parent \in Nodes BY <1>1, <1>4, RedIsNode
    <2>2. gparent \in Nodes BY <1>4, <2>1, Field DEF Sides, Pointer
    <2> HIDE DEF parent, gparent, side
    <2>3. Rotate(h, parent, node, Other(side), Red, Black) \in Heap BY <1>3, <2>1, RotateTyped
    <2> QED BY <1>3, <2>1, <2>2, <2>3, RotateTyped
  <1>5. Crash(h) \in Heap BY CrashTyped
  <1> QED BY <1>2, <1>4, <1>5 DEF InsertEnd

LEMMA InsertTyped ==
  ASSUME NEW h \in Heap, NEW node \in Nodes
  PROVE  rb_insert_color(h, node) \in Heap
  <1> DEFINE S == [h : Heap, node : Nodes]
             f == [s \in S |-> InsertTurn(s.h, s.node)]
             end == Loop(f, [h |-> h, node |-> node])
  <1>1. f \in [S -> S \cup {NULL}] BY InsertTurnTyped
  <1>2. [h |-> h, node |-> node] \in S OBVIOUS
  <1>3. end \in S
    <2> HIDE DEF S, f
    <2> QED BY <1>1, <1>2, LoopTyped
  <1>4. rb_insert_color(h, node) = InsertEnd(end.h, end.node) BY DEF rb_insert_color
  <1> HIDE DEF end
  <1> QED BY <1>3, <1>4, InsertEndTyped

LEMMA SiblingTyped ==
  ASSUME NEW h \in Heap, NEW node \in Pointer, NEW parent \in Nodes
  PROVE  Sibling(h, node, parent) \in [h : Heap, sibling : Pointer]
  <1> DEFINE side == SideOf(h, node, parent)
             sibling == h.n[parent][Other(side)]
  <1>1. side \in Sides /\ Other(side) \in Sides BY SideIs
  <1>2. sibling \in Pointer BY <1>1, Field
  <1>3. ASSUME IsRed(h, sibling)
        PROVE  Rotate(h, parent, sibling, Other(side), Red, Black) \in Heap /\ h.n[sibling][side] \in Pointer
    <2>1. sibling \in Nodes BY <1>2, <1>3, RedIsNode
    <2> HIDE DEF side, sibling
    <2> QED BY <1>1, <2>1, RotateTyped, Field
  <1> QED BY <1>2, <1>3 DEF Sibling

LEMMA EraseTurnIs ==
  ASSUME NEW h \in Heap, NEW node \in Pointer, NEW parent \in Nodes
  PROVE  LET c == Sibling(h, node, parent)
         IN EraseTurn(h, node, parent) \in
              IF c.sibling # NULL /\ BlackChildren(c.h, c.sibling) /\ ~IsRed(c.h, parent) /\ c.h.n[parent].parent # NULL
              THEN [h : Heap, node : Pointer, parent : Nodes] ELSE {NULL}
  <1> DEFINE c == Sibling(h, node, parent)
             up == c.h.n[parent].parent
  <1>1. c \in [h : Heap, sibling : Pointer] BY SiblingTyped
  <1>2. c.h \in Heap /\ c.sibling \in Pointer BY <1>1
  <1>3. parent \in Pointer /\ up \in Pointer BY <1>2, Field DEF Sides, Pointer
  <1>4. rb_set_parent_color(c.h, c.sibling, parent, Red) \in Heap BY <1>2, <1>3, ParentColorTyped
  <1>5. up # NULL => up \in Nodes BY <1>3 DEF Pointer
  <1> QED BY <1>3, <1>4, <1>5 DEF EraseTurn

LEMMA EraseTurnTyped ==
  ASSUME NEW h \in Heap, NEW node \in Pointer, NEW parent \in Nodes
  PROVE  EraseTurn(h, node, parent) \in [h : Heap, node : Pointer, parent : Nodes] \cup {NULL}
  BY EraseTurnIs

LEMMA EraseEndTyped ==
  ASSUME NEW h \in Heap, NEW node \in Pointer, NEW parent \in Nodes
  PROVE  EraseEnd(h, node, parent) \in Heap
  <1> DEFINE c == Sibling(h, node, parent)
             side == SideOf(h, node, parent)
             far == Other(side)
             flipped == rb_set_parent_color(c.h, c.sibling, parent, Red)
             inner == c.h.n[c.sibling][side]
             h3 == IF IsRed(c.h, c.h.n[c.sibling][far]) THEN c.h
                   ELSE Rotate(c.h, c.sibling, inner, side, Red, Black)
             top == h3.n[parent][far]
             tmp == h3.n[top][side]
             d == IF IsRed(h3, tmp) THEN Red ELSE Black
             h4 == Rotate(h3, parent, top, far, Black, d)
  <1>1. c.h \in Heap /\ c.sibling \in Pointer BY SiblingTyped
  <1>2. side \in Sides /\ far \in Sides /\ parent \in Pointer BY SideIs DEF Pointer
  <1>3. Crash(c.h) \in Heap BY <1>1, CrashTyped
  <1>4. flipped \in Heap BY <1>1, <1>2, ParentColorTyped
  <1>5. Set(flipped, parent, "color", Black) \in Heap BY <1>4, ColorTyped
  <1>6. ASSUME c.sibling # NULL, ~BlackChildren(c.h, c.sibling)
        PROVE  /\ Crash(h3) \in Heap
               /\ top # NULL => rb_set_parent_color(h4, h4.n[top][far], top, Black) \in Heap
    <2>1. c.sibling \in Nodes BY <1>1, <1>6 DEF Pointer
    <2>2. ~IsRed(c.h, c.h.n[c.sibling][far]) => IsRed(c.h, inner)
      BY <1>6 DEF BlackChildren, SideOf, Other
    <2>3. inner \in Pointer BY <1>1, <1>2, <2>1, Field
    <2>4. h3 \in Heap
      <3>1. CASE IsRed(c.h, c.h.n[c.sibling][far]) BY <1>1, <3>1
      <3>2. CASE ~IsRed(c.h, c.h.n[c.sibling][far])
        <4>1. inner \in Nodes BY <2>2, <2>3, <3>2, RedIsNode
        <4> HIDE DEF c, side, inner
        <4> QED BY <1>1, <1>2, <2>1, <3>2, <4>1, RotateTyped
      <3> QED BY <3>1, <3>2
    <2> HIDE DEF h3, c, side, far
    <2>5. top \in Pointer BY <1>2, <2>4, Field
    <2> HIDE DEF top
    <2>6. d \in {Red, Black} OBVIOUS
    <2> HIDE DEF d
    <2>7. top # NULL => h4 \in Heap BY <1>2, <2>4, <2>5, <2>6, RotateTyped DEF Pointer
    <2> HIDE DEF h4
    <2> QED BY <2>4, <2>5, <2>7, CrashTyped, ParentColorTyped
  <1>7. EraseEnd(h, node, parent)
          = IF c.sibling = NULL THEN Crash(c.h)
            ELSE IF BlackChildren(c.h, c.sibling)
              THEN IF IsRed(c.h, parent) THEN Set(flipped, parent, "color", Black) ELSE flipped
            ELSE IF top = NULL THEN Crash(h3)
            ELSE rb_set_parent_color(h4, h4.n[top][far], top, Black)
    BY DEF EraseEnd
  <1> HIDE DEF c, side, far, flipped, inner, h3, top, tmp, d, h4
  <1> QED BY <1>3, <1>4, <1>5, <1>6, <1>7

LEMMA EraseColorTyped ==
  ASSUME NEW h \in Heap, NEW parent \in Nodes
  PROVE  ____rb_erase_color(h, parent) \in Heap
  <1> DEFINE S == [h : Heap, node : Pointer, parent : Nodes]
             f == [s \in S |-> EraseTurn(s.h, s.node, s.parent)]
             s0 == [h |-> h, node |-> NULL, parent |-> parent]
             end == Loop(f, s0)
  <1>1. f \in [S -> S \cup {NULL}] BY EraseTurnTyped
  <1>2. s0 \in S BY DEF Pointer
  <1>3. end \in S
    <2> HIDE DEF S, f, s0
    <2> QED BY <1>1, <1>2, LoopTyped
  <1>4. ____rb_erase_color(h, parent) = EraseEnd(end.h, end.node, end.parent) BY DEF ____rb_erase_color
  <1> HIDE DEF end
  <1> QED BY <1>3, <1>4, EraseEndTyped

LEMMA OuterTyped ==
  ASSUME NEW h \in Heap, NEW node \in Nodes
  PROVE  EraseOuter(h, node) \in [h : Heap, rebalance : Pointer]
  <1> DEFINE child == IF h.n[node].left = NULL THEN h.n[node].right ELSE h.n[node].left
             parent == h.n[node].parent
             h1 == __rb_change_child(h, node, child, parent)
  <1>1. child \in Pointer /\ parent \in Pointer /\ NULL \in Pointer BY Field DEF Sides, Pointer
  <1> HIDE DEF child, parent
  <1>2. h1 \in Heap BY <1>1, ChangeChildTyped
  <1> HIDE DEF h1
  <1>3. CopyParentColor(h1, node, child) \in Heap BY <1>2, CopyTyped
  <1> QED BY <1>1, <1>2, <1>3 DEF EraseOuter, h1, child, parent

LEMMA AboveTyped ==
  ASSUME NEW h \in Heap, NEW p \in Nodes, h.n[p].left # NULL
  PROVE  AboveLeftmost(h, p) \in Nodes /\ h.n[AboveLeftmost(h, p)].left \in Nodes
  <1> DEFINE S == {y \in Nodes : h.n[y].left # NULL}
             f == [x \in S |-> IF h.n[h.n[x].left].left = NULL THEN NULL ELSE h.n[x].left]
  <1>1. \A y \in S : h.n[y].left \in Nodes BY Field DEF Pointer, Sides
  <1>2. f \in [S -> S \cup {NULL}] BY <1>1
  <1>3. p \in S OBVIOUS
  <1>4. Loop(f, p) \in S
    <2> HIDE DEF S, f
    <2> QED BY <1>2, <1>3, LoopTyped
  <1> QED BY <1>1, <1>4 DEF AboveLeftmost

LEMMA InnerTyped ==
  ASSUME NEW h \in Heap, NEW node \in Nodes, h.n[node].left # NULL, h.n[node].right # NULL
  PROVE  EraseInner(h, node) \in [h : Heap, rebalance : Pointer]
  <1> DEFINE child == h.n[node].right
             left == h.n[node].left
             direct == h.n[child].left = NULL
             above == AboveLeftmost(h, child)
             successor == IF direct THEN child ELSE h.n[above].left
             parent == IF direct THEN successor ELSE above
             child2 == h.n[successor].right
             h1 == IF direct THEN h
                   ELSE Set(Set(Set(h, parent, "left", child2), successor, "right", child),
                            child, "parent", successor)
             h2 == Set(Set(h1, successor, "left", left), left, "parent", successor)
             h3 == __rb_change_child(h2, node, successor, h.n[node].parent)
             h4 == IF child2 = NULL THEN h3 ELSE rb_set_parent_color(h3, child2, parent, Black)
             h5 == CopyParentColor(h4, node, successor)
             r == IF child2 = NULL /\ ~IsRed(h, successor) THEN parent ELSE NULL
  <1>1. child \in Nodes /\ left \in Nodes BY Field DEF Sides, Pointer
  <1>2. successor \in Nodes /\ parent \in Nodes
    <2>1. CASE direct BY <1>1, <2>1
    <2>2. CASE ~direct
      <3>1. above \in Nodes /\ h.n[above].left \in Nodes BY <1>1, <2>2, AboveTyped
      <3> QED BY <2>2, <3>1
    <2> QED BY <2>1, <2>2
  <1>0. EraseInner(h, node) = [h |-> h5, rebalance |-> r] BY DEF EraseInner
  <1> HIDE DEF successor, parent
  <1>3. child2 \in Pointer BY <1>2, Field DEF Sides
  <1>4. {child, left, successor, parent} \subseteq Pointer /\ NULL \in Pointer BY <1>1, <1>2 DEF Pointer
  <1> HIDE DEF child2, child, left
  <1>5. Set(h, parent, "left", child2) \in Heap BY <1>3, SetTyped
  <1>6. Set(Set(h, parent, "left", child2), successor, "right", child) \in Heap BY <1>4, <1>5, SetTyped
  <1>7. h1 \in Heap BY <1>4, <1>6, SetTyped
  <1> HIDE DEF h1
  <1>8. Set(h1, successor, "left", left) \in Heap BY <1>4, <1>7, SetTyped
  <1>9. h2 \in Heap BY <1>4, <1>8, SetTyped
  <1> HIDE DEF h2
  <1>10. h3 \in Heap BY <1>4, <1>9, ChangeChildTyped
  <1> HIDE DEF h3
  <1>11. h4 \in Heap BY <1>4, <1>10, ParentColorTyped
  <1> HIDE DEF h4
  <1>12. h5 \in Heap BY <1>11, CopyTyped
  <1>13. r \in Pointer BY <1>4
  <1> HIDE DEF h5, r
  <1> QED BY <1>0, <1>12, <1>13

LEMMA EraseTyped ==
  ASSUME NEW h \in Heap, NEW node \in Nodes
  PROVE  rb_erase(h, node) \in Heap
  <1> DEFINE e == __rb_erase_augmented(h, node)
  <1>1. e \in [h : Heap, rebalance : Pointer] BY OuterTyped, InnerTyped DEF __rb_erase_augmented
  <1> HIDE DEF e
  <1>2. e.h \in Heap /\ (e.rebalance # NULL => e.rebalance \in Nodes) BY <1>1 DEF Pointer
  <1> QED BY <1>2, EraseColorTyped DEF rb_erase, e

LEMMA NeighbourTyped ==
  ASSUME NEW h \in Heap, NEW x \in Nodes
  PROVE  rb_next(h, x) \in Pointer
  <1>1. ASSUME h.n[x].right # NULL PROVE Descend(h, h.n[x].right, "left") \in Pointer
    <2> DEFINE f == [y \in Nodes |-> h.n[y].left]
    <2>1. f \in [Nodes -> Nodes \cup {NULL}] BY Field DEF Sides, Pointer
    <2>2. h.n[x].right \in Nodes BY <1>1, Field DEF Sides, Pointer
    <2> HIDE DEF f
    <2>3. Loop(f, h.n[x].right) \in Nodes BY <2>1, <2>2, LoopTyped
    <2> QED BY <2>3 DEF Descend, Pointer, f
  <1>2. Ascend(h, x, "right") \in Pointer
    <2> DEFINE Up(y) == IF h.n[y].parent # NULL /\ y = h.n[h.n[y].parent].right THEN h.n[y].parent ELSE NULL
               f == [y \in Nodes |-> Up(y)]
    <2>1. f \in [Nodes -> Nodes \cup {NULL}] BY Field DEF Sides, Pointer
    <2>2. Ascend(h, x, "right") = h.n[Loop(f, x)].parent BY DEF Ascend
    <2> HIDE DEF f
    <2>3. Loop(f, x) \in Nodes BY <2>1, LoopTyped
    <2> QED BY <2>2, <2>3, Field DEF Sides
  <1> QED BY <1>1, <1>2 DEF rb_next, Neighbour, Other

-----------------------------------------------------------------------------
(* The run queue *)

QueueType == [heap : Heap, leftmost : Pointer, num_threads : Nat]

LEMMA PlaceTyped ==
  ASSUME NEW r \in QueueType, NEW t, NEW vr
  PROVE  FindPlace(r, t, vr) \in [parent : Pointer, side : Sides]
  <1>1. r.heap \in Heap /\ r.heap.root \in Pointer BY DEF QueueType, Heap
  <1> DEFINE Side(x) == IF vr[t] < vr[x] THEN "left" ELSE "right"
             f == [x \in Nodes |-> r.heap.n[x][Side(x)]]
             parent == Loop(f, r.heap.root)
  <1>2. CASE r.heap.root = NULL BY <1>2 DEF FindPlace, Pointer, Sides
  <1>3. CASE r.heap.root # NULL
    <2>1. \A x \in Nodes : Side(x) \in Sides BY DEF Sides
    <2>2. f \in [Nodes -> Nodes \cup {NULL}]
      <3> HIDE DEF Side
      <3> QED BY <1>1, <2>1, Field DEF Pointer
    <2>3. r.heap.root \in Nodes BY <1>1, <1>3 DEF Pointer
    <2>4. parent \in Nodes
      <3> HIDE DEF f
      <3> QED BY <2>2, <2>3, LoopTyped
    <2>5. FindPlace(r, t, vr) = [parent |-> parent, side |-> Side(parent)]
      BY <1>3 DEF FindPlace, Place
    <2>6. Side(parent) \in Sides BY DEF Sides
    <2> HIDE DEF parent, Side
    <2> QED BY <2>4, <2>5, <2>6 DEF Pointer
  <1> QED BY <1>2, <1>3

LEMMA CacheTyped ==
  ASSUME NEW r \in QueueType, NEW t \in Nodes, NEW vr
  PROVE  UpdateCache(r, t, vr) \in QueueType
  <1>1. r.num_threads \in Nat /\ r.leftmost \in Pointer /\ t \in Pointer BY DEF QueueType, Pointer
  <1>2. (r.num_threads + 1) % WORD \in Nat
    <2>1. WORD \in Nat \ {0} BY DEF WORD
    <2> HIDE DEF WORD
    <2> QED BY <1>1, <2>1
  <1>3. PICK k \in Nat : k = (r.num_threads + 1) % WORD BY <1>2
  <1>4. PICK p \in Pointer : p = IF r.leftmost = NULL \/ vr[t] < vr[r.leftmost] THEN t ELSE r.leftmost BY <1>1
  <1>5. UpdateCache(r, t, vr) = [r EXCEPT !.leftmost = p, !.num_threads = k] BY <1>3, <1>4 DEF UpdateCache
  <1> QED BY <1>5 DEF QueueType

LEMMA HeapInQueue ==
  ASSUME NEW r \in QueueType, NEW h \in Heap
  PROVE  [r EXCEPT !.heap = h] \in QueueType /\ r.heap \in Heap /\ r.leftmost \in Pointer
  BY DEF QueueType

LEMMA TreeInsertTyped ==
  ASSUME NEW r \in QueueType, NEW t \in Nodes, NEW vr
  PROVE  tree_insert(r, t, vr) \in QueueType
  <1>1. PICK place \in [parent : Pointer, side : Sides] : place = FindPlace(r, t, vr) BY PlaceTyped
  <1>2. r.heap \in Heap BY DEF QueueType
  <1>3. PICK linked \in Heap : linked = rb_link_node(r.heap, t, place.parent, place.side)
    BY <1>2, LinkTyped
  <1>4. PICK h \in Heap : h = rb_insert_color(linked, t) BY InsertTyped
  <1>5. [r EXCEPT !.heap = h] \in QueueType BY HeapInQueue
  <1>6. tree_insert(r, t, vr) = UpdateCache([r EXCEPT !.heap = h], t, vr)
    BY <1>1, <1>3, <1>4 DEF tree_insert
  <1> QED BY <1>5, <1>6, CacheTyped

LEMMA TreeRemoveTyped ==
  ASSUME NEW r \in QueueType, NEW t \in Nodes
  PROVE  tree_remove(r, t) \in QueueType
  <1>1. r.heap \in Heap /\ r.num_threads \in Nat /\ r.leftmost \in Pointer BY DEF QueueType
  <1>2. rb_erase(r.heap, t) \in Heap BY <1>1, EraseTyped
  <1>3. rb_next(r.heap, t) \in Pointer BY <1>1, NeighbourTyped
  <1>4. (r.num_threads + WORD - 1) % WORD \in Nat
    <2>1. WORD \in Nat \ {0} BY DEF WORD
    <2> HIDE DEF WORD
    <2> QED BY <1>1, <2>1
  <1> HIDE DEF WORD
  <1> QED BY <1>1, <1>2, <1>3, <1>4 DEF tree_remove, QueueType

-----------------------------------------------------------------------------
(* The shape of a tree: its members M are numbered 1 .. n in order by p,   *)
(* and below each member are those of an interval.  Rotations keep it.     *)

\* The members of a tree, numbered 1 .. n in order by p.
Numbered(M, n, p) ==
  /\ n \in Nat /\ M \in SUBSET Nodes /\ p \in [M -> 1 .. n]
  /\ \A x, y \in M : p[x] = p[y] => x = y
  /\ \A i \in 1 .. n : \E x \in M : p[x] = i

\* The nodes below x are those with the numbers lo[x] .. hi[x].
Below(h, M, p, lo, hi, x) ==
  LET l == h.n[x].left
      r == h.n[x].right
  IN /\ lo[x] <= p[x] /\ p[x] <= hi[x]
     /\ l = NULL => lo[x] = p[x]
     /\ l # NULL => l \in M /\ h.n[l].parent = x /\ lo[l] = lo[x] /\ hi[l] = p[x] - 1
     /\ r = NULL => hi[x] = p[x]
     /\ r # NULL => r \in M /\ h.n[r].parent = x /\ hi[r] = hi[x] /\ lo[r] = p[x] + 1

Hangs(h, M, x) ==
  LET q == h.n[x].parent
  IN /\ q = NULL => x = h.root
     /\ q # NULL => q \in M /\ x \in {h.n[q].left, h.n[q].right}

Rooted(h, M, n, lo, hi) ==
  /\ h.root = NULL => M = {} /\ n = 0
  /\ h.root # NULL => h.root \in M /\ h.n[h.root].parent = NULL /\ lo[h.root] = 1 /\ hi[h.root] = n

Tree(h, M, n, p, lo, hi) ==
  /\ h \in Heap /\ lo \in [M -> 1 .. n] /\ hi \in [M -> 1 .. n]
  /\ Rooted(h, M, n, lo, hi)
  /\ \A x \in M : Below(h, M, p, lo, hi, x) /\ Hangs(h, M, x)

-----------------------------------------------------------------------------
\* What writing a field changes.
LEMMA SetIs ==
  ASSUME NEW h \in Heap, NEW x \in Nodes, NEW v
  PROVE  /\ \A field \in {"left", "right", "parent", "color"} :
              /\ Set(h, x, field, v).root = h.root /\ Set(h, x, field, v).ok = h.ok
              /\ Set(h, x, field, v).n[x][field] = v
              /\ \A y \in Nodes : \A g \in {"left", "right", "parent", "color"} :
                   y # x \/ g # field => Set(h, x, field, v).n[y][g] = h.n[y][g]
  BY DEF Set, Heap, rb_node

\* The effect of a rotation: new, a child of old, takes the place of old; tmp
\* is what moves from one to the other.
Rotated(h, g, old, new, side, c, d) ==
  LET tmp == h.n[new][Other(side)]
      q == h.n[old].parent
  IN /\ g \in Heap /\ g.ok = h.ok
     /\ g.root = IF q = NULL THEN new ELSE h.root
     /\ \A y \in Nodes :
          /\ g.n[y].parent = IF y = old THEN new ELSE IF y = new THEN q
                             ELSE IF y = tmp THEN old ELSE h.n[y].parent
          /\ g.n[y].color = IF y = old THEN c ELSE IF y = new THEN h.n[old].color
                            ELSE IF y = tmp THEN d ELSE h.n[y].color
     /\ \A y \in Nodes : \A s \in Sides :
          g.n[y][s] = IF y = old /\ s = side THEN tmp
                      ELSE IF y = new /\ s = Other(side) THEN old
                      ELSE IF y = q /\ h.n[y][s] = old THEN new
                      ELSE h.n[y][s]

\* The effect of writing parent and colour of x
PcSet(h, g, x, v, c) ==
  /\ g \in Heap /\ g.root = h.root /\ g.ok = h.ok
  /\ \A y \in Nodes : /\ g.n[y].parent = IF y = x THEN v ELSE h.n[y].parent
                      /\ g.n[y].color = IF y = x THEN c ELSE h.n[y].color
  /\ \A y \in Nodes : \A s \in Sides : g.n[y][s] = h.n[y][s]

LEMMA PcIs ==
  ASSUME NEW h \in Heap, NEW x \in Nodes, NEW v \in Pointer, NEW c \in {Red, Black}
  PROVE  PcSet(h, rb_set_parent_color(h, x, v, c), x, v, c)
  <1> DEFINE a == Set(h, x, "parent", v)
             b == Set(a, x, "color", c)
  <1>1. a \in Heap /\ b \in Heap BY SetTyped, ColorTyped
  <1>2. /\ a.root = h.root /\ a.ok = h.ok
        /\ \A y \in Nodes : a.n[y].parent = (IF y = x THEN v ELSE h.n[y].parent) /\ a.n[y].color = h.n[y].color
        /\ \A y \in Nodes : \A s \in Sides : a.n[y][s] = h.n[y][s]
    BY DEF Set, Heap, rb_node, Sides
  <1> HIDE DEF a
  <1>3. /\ b.root = a.root /\ b.ok = a.ok
        /\ \A y \in Nodes : b.n[y].color = (IF y = x THEN c ELSE a.n[y].color) /\ b.n[y].parent = a.n[y].parent
        /\ \A y \in Nodes : \A s \in Sides : b.n[y][s] = a.n[y][s]
    BY <1>1 DEF Set, Heap, rb_node, Sides
  <1>4. rb_set_parent_color(h, x, v, c) = b BY DEF rb_set_parent_color, a
  <1> HIDE DEF b
  <1> QED BY <1>1, <1>2, <1>3, <1>4 DEF PcSet

LEMMA ChangeChildIs ==
  ASSUME NEW h \in Heap, NEW old \in Nodes, NEW new \in Pointer, NEW q \in Pointer,
         q # NULL => (h.n[q].left = old <=> h.n[q].right # old)
  PROVE  LET g == __rb_change_child(h, old, new, q)
         IN /\ g \in Heap /\ g.ok = h.ok
            /\ g.root = IF q = NULL THEN new ELSE h.root
            /\ \A y \in Nodes : /\ g.n[y].parent = h.n[y].parent
                                /\ g.n[y].color = h.n[y].color
            /\ \A y \in Nodes : \A s \in Sides :
                 g.n[y][s] = IF y = q /\ h.n[y][s] = old THEN new ELSE h.n[y][s]
  <1>1. CASE q = NULL BY <1>1, TreeAssumption DEF __rb_change_child, Heap, Sides
  <1>2. CASE q # NULL
    <2>1. q \in Nodes BY <1>2 DEF Pointer
    <2>2. CASE h.n[q].left = old BY <1>2, <2>1, <2>2 DEF __rb_change_child, Heap, Set, rb_node, Sides
    <2>3. CASE h.n[q].left # old BY <1>2, <2>1, <2>3 DEF __rb_change_child, Heap, Set, rb_node, Sides
    <2> QED BY <2>2, <2>3
  <1> QED BY <1>1, <1>2

LEMMA RotateIs ==
  ASSUME NEW h \in Heap, NEW old \in Nodes, NEW new \in Nodes, NEW side \in Sides,
         NEW c \in {Red, Black}, NEW d \in {Red, Black},
         old # new, h.n[old].parent \notin {old, new}, h.n[new][Other(side)] \notin {old, new},
         LET q == h.n[old].parent IN q # NULL => (h.n[q].left = old <=> h.n[q].right # old)
  PROVE  Rotated(h, Rotate(h, old, new, side, c, d), old, new, side, c, d)
  <1> DEFINE tmp == h.n[new][Other(side)]
             q == h.n[old].parent
             a == Set(h, old, side, tmp)
             h1 == Set(a, new, Other(side), old)
             h2 == IF tmp = NULL THEN h1 ELSE rb_set_parent_color(h1, tmp, old, d)
             h3 == rb_set_parent_color(h2, new, q, h.n[old].color)
             h4 == rb_set_parent_color(h3, old, new, c)
             h5 == __rb_change_child(h4, old, new, q)
  <1>1. Other(side) \in Sides /\ Other(side) # side BY DEF Other, Sides
  <1>2. tmp \in Pointer /\ q \in Pointer /\ h.n[old].color \in {Red, Black} BY <1>1, Field
  <1>3. old \in Pointer /\ new \in Pointer BY DEF Pointer
  <1>4. a \in Heap /\ h1 \in Heap BY <1>1, <1>2, <1>3, SetSide
  <1>5. /\ h1.root = h.root /\ h1.ok = h.ok
        /\ \A y \in Nodes : h1.n[y].parent = h.n[y].parent /\ h1.n[y].color = h.n[y].color
        /\ \A y \in Nodes : \A s \in Sides :
             h1.n[y][s] = IF y = old /\ s = side THEN tmp
                          ELSE IF y = new /\ s = Other(side) THEN old ELSE h.n[y][s]
    <2> HIDE DEF tmp
    <2>1. /\ a.root = h.root /\ a.ok = h.ok
          /\ \A y \in Nodes : a.n[y].parent = h.n[y].parent /\ a.n[y].color = h.n[y].color
          /\ \A y \in Nodes : \A s \in Sides : a.n[y][s] = IF y = old /\ s = side THEN tmp ELSE h.n[y][s]
      BY DEF Set, Heap, rb_node, Sides
    <2> HIDE DEF a
    <2>2. /\ h1.root = a.root /\ h1.ok = a.ok
          /\ \A y \in Nodes : h1.n[y].parent = a.n[y].parent /\ h1.n[y].color = a.n[y].color
          /\ \A y \in Nodes : \A s \in Sides : h1.n[y][s] = IF y = new /\ s = Other(side) THEN old ELSE a.n[y][s]
      BY <1>1, <1>4 DEF Set, Heap, rb_node, Sides
    <2> QED BY <2>1, <2>2
  <1> HIDE DEF h1, a
  <1>6. /\ h2 \in Heap /\ h2.root = h.root /\ h2.ok = h.ok
        /\ \A y \in Nodes : /\ h2.n[y].parent = IF y = tmp THEN old ELSE h.n[y].parent
                            /\ h2.n[y].color = IF y = tmp THEN d ELSE h.n[y].color
        /\ \A y \in Nodes : \A s \in Sides : h2.n[y][s] = h1.n[y][s]
    <2>1. CASE tmp = NULL BY <2>1, <1>4, <1>5, TreeAssumption
    <2>2. CASE tmp # NULL
      <3>1. tmp \in Nodes BY <2>2, <1>2 DEF Pointer
      <3> HIDE DEF tmp
      <3>2. PcSet(h1, rb_set_parent_color(h1, tmp, old, d), tmp, old, d) BY <3>1, <1>3, <1>4, PcIs
      <3>3. PcSet(h1, h2, tmp, old, d) BY <2>2, <3>2
      <3> HIDE DEF h2
      <3> QED BY <3>3, <1>5 DEF PcSet
    <2> QED BY <2>1, <2>2
  <1> HIDE DEF h2
  <1>7. h2.n[old].parent = q /\ h2.n[old].color = h.n[old].color BY <1>6
  <1>8. CopyParentColor(h2, old, new) = h3 BY <1>7 DEF CopyParentColor
  <1>9. Rotate(h, old, new, side, c, d) = h5
    <2>1. Rotate(h, old, new, side, c, d) = __rb_rotate_set_parents(h2, old, new, c) BY DEF Rotate, h2, h1, a
    <2> QED BY <2>1, <1>7, <1>8 DEF __rb_rotate_set_parents
  <1> HIDE DEF tmp
  <1>10. /\ h3 \in Heap /\ h3.root = h.root /\ h3.ok = h.ok
         /\ \A y \in Nodes : /\ h3.n[y].parent = IF y = new THEN q ELSE h2.n[y].parent
                             /\ h3.n[y].color = IF y = new THEN h.n[old].color ELSE h2.n[y].color
         /\ \A y \in Nodes : \A s \in Sides : h3.n[y][s] = h2.n[y][s]
    <2>0. h2 \in Heap BY <1>6
    <2>1. PcSet(h2, h3, new, q, h.n[old].color) BY <1>2, <2>0, PcIs
    <2> HIDE DEF h3, q
    <2> QED BY <2>1, <1>6 DEF PcSet
  <1> HIDE DEF h3
  <1>11. /\ h4 \in Heap /\ h4.root = h.root /\ h4.ok = h.ok
         /\ \A y \in Nodes : /\ h4.n[y].parent = IF y = old THEN new ELSE h3.n[y].parent
                             /\ h4.n[y].color = IF y = old THEN c ELSE h3.n[y].color
         /\ \A y \in Nodes : \A s \in Sides : h4.n[y][s] = h3.n[y][s]
    <2>0. h3 \in Heap BY <1>10
    <2>1. PcSet(h3, h4, old, new, c) BY <1>3, <2>0, PcIs
    <2> HIDE DEF h4
    <2> QED BY <2>1, <1>10 DEF PcSet
  <1> HIDE DEF h4
  <1>12. \A y \in Nodes : \A s \in Sides :
             h4.n[y][s] = IF y = old /\ s = side THEN tmp
                          ELSE IF y = new /\ s = Other(side) THEN old ELSE h.n[y][s]
    BY <1>5, <1>6, <1>10, <1>11
  <1>13. q # NULL => (h4.n[q].left = old <=> h4.n[q].right # old)
    <2> SUFFICES ASSUME q # NULL PROVE h4.n[q].left = old <=> h4.n[q].right # old OBVIOUS
    <2>1. q \in Nodes /\ q # old /\ q # new BY <1>2 DEF Pointer
    <2>2. h4.n[q]["left"] = h.n[q]["left"] /\ h4.n[q]["right"] = h.n[q]["right"]
      BY <2>1, <1>12 DEF Sides
    <2> QED BY <2>2
  <1>14. /\ h5 \in Heap /\ h5.ok = h4.ok
         /\ h5.root = IF q = NULL THEN new ELSE h4.root
         /\ \A y \in Nodes : /\ h5.n[y].parent = h4.n[y].parent
                             /\ h5.n[y].color = h4.n[y].color
         /\ \A y \in Nodes : \A s \in Sides :
              h5.n[y][s] = IF y = q /\ h4.n[y][s] = old THEN new ELSE h4.n[y][s]
    <2> HIDE DEF q
    <2> QED BY <1>2, <1>3, <1>11, <1>13, ChangeChildIs
  <1> HIDE DEF h5
  <1>15. ASSUME NEW y \in Nodes
         PROVE  /\ h5.n[y].parent = IF y = old THEN new ELSE IF y = new THEN q
                                    ELSE IF y = tmp THEN old ELSE h.n[y].parent
                /\ h5.n[y].color = IF y = old THEN c ELSE IF y = new THEN h.n[old].color
                                   ELSE IF y = tmp THEN d ELSE h.n[y].color
    BY <1>6, <1>10, <1>11, <1>14
  <1>16. ASSUME NEW y \in Nodes, NEW s \in Sides
         PROVE  h5.n[y][s] = IF y = old /\ s = side THEN tmp
                             ELSE IF y = new /\ s = Other(side) THEN old
                             ELSE IF y = q /\ h.n[y][s] = old THEN new
                             ELSE h.n[y][s]
    <2>1. h5.n[y][s] = IF y = q /\ h4.n[y][s] = old THEN new ELSE h4.n[y][s] BY <1>14
    <2>2. q # old /\ q # new OBVIOUS
    <2> QED BY <1>12, <2>1, <2>2
  <1>17. h5.root = IF q = NULL THEN new ELSE h.root BY <1>11, <1>14
  <1> QED BY <1>9, <1>11, <1>14, <1>15, <1>16, <1>17 DEF Rotated, tmp

LEMMA Numbers ==
  ASSUME NEW M, NEW n, NEW p, NEW lo, NEW hi, NEW h, Numbered(M, n, p), Tree(h, M, n, p, lo, hi), NEW x \in M
  PROVE  /\ x \in Nodes /\ n \in Nat /\ lo[x] \in Int /\ hi[x] \in Int /\ p[x] \in Int
         /\ 1 <= lo[x] /\ lo[x] <= p[x] /\ p[x] <= hi[x] /\ hi[x] <= n
         /\ h \in Heap /\ Below(h, M, p, lo, hi, x) /\ Hangs(h, M, x)
  <1>1. lo[x] \in 1 .. n /\ hi[x] \in 1 .. n /\ p[x] \in 1 .. n /\ n \in Nat BY DEF Numbered, Tree
  <1>2. x \in Nodes /\ h \in Heap BY DEF Numbered, Tree
  <1>3. Below(h, M, p, lo, hi, x) /\ Hangs(h, M, x) BY DEF Tree
  <1>4. lo[x] <= p[x] /\ p[x] <= hi[x] BY <1>3 DEF Below
  <1> QED BY <1>1, <1>2, <1>3, <1>4

LEMMA Apart ==
  ASSUME NEW M, NEW n, NEW p, NEW lo, NEW hi, NEW h, Numbered(M, n, p), Tree(h, M, n, p, lo, hi),
         NEW old \in M, NEW side \in Sides, h.n[old][side] # NULL
  PROVE  LET new == h.n[old][side]
             q == h.n[old].parent
         IN /\ new \in M /\ h.n[new].parent = old
            /\ old # new /\ q \notin {old, new} /\ h.n[new][Other(side)] \notin {old, new}
            /\ q # NULL => (h.n[q].left = old <=> h.n[q].right # old)
  <1> DEFINE new == h.n[old][side]
             q == h.n[old].parent
  <1>1. new \in M /\ h.n[new].parent = old /\ old # new
    BY Numbers DEF Below, Sides
  <1>2. q # NULL => q \in M BY Numbers DEF Hangs
  <1>3. q # NULL => old \in {h.n[q].left, h.n[q].right} BY Numbers DEF Hangs
  <1>4. ASSUME q \in M PROVE q # old /\ q # new /\ (h.n[q].left = old <=> h.n[q].right # old)
    <2>1. Below(h, M, p, lo, hi, q) /\ Below(h, M, p, lo, hi, old) /\ Below(h, M, p, lo, hi, new)
      BY <1>1, <1>4, Numbers
    <2>2. /\ lo[q] \in Int /\ hi[q] \in Int /\ p[q] \in Int /\ lo[old] \in Int /\ hi[old] \in Int /\ p[old] \in Int
          /\ lo[new] \in Int /\ hi[new] \in Int /\ p[new] \in Int
      BY <1>1, <1>4, Numbers
    <2>3. q # NULL BY <1>4, TreeAssumption, Numbers
    <2>4. old # NULL /\ new # NULL BY <1>1, TreeAssumption, Numbers
    <2> QED BY <2>1, <2>2, <1>3, <1>1, <2>3, <2>4 DEF Below, Sides
  <1>5. NULL \notin M /\ NULL \notin {old, new} BY <1>1, TreeAssumption DEF Numbered
  <1>6. h.n[new][Other(side)] \notin {old, new}
    <2>1. Below(h, M, p, lo, hi, old) /\ Below(h, M, p, lo, hi, new) BY <1>1, Numbers
    <2>2. /\ lo[old] \in Int /\ hi[old] \in Int /\ p[old] \in Int
          /\ lo[new] \in Int /\ hi[new] \in Int /\ p[new] \in Int BY <1>1, Numbers
    <2>3. CASE side = "left"
      <3>1. h.n[old].left = new /\ Other(side) = "right" BY <2>3 DEF Other
      <3> HIDE DEF new
      <3> QED BY <2>1, <2>2, <3>1, <1>5 DEF Below
    <2>4. CASE side = "right"
      <3>1. h.n[old].right = new /\ Other(side) = "left" BY <2>4 DEF Other
      <3> HIDE DEF new
      <3> QED BY <2>1, <2>2, <3>1, <1>5 DEF Below
    <2> QED BY <2>3, <2>4 DEF Sides
  <1> HIDE DEF new, q
  <1>7. q \notin {old, new} BY <1>2, <1>4, <1>5
  <1>8. q # NULL => (h.n[q].left = old <=> h.n[q].right # old) BY <1>2, <1>4
  <1> QED BY <1>1, <1>6, <1>7, <1>8 DEF new, q

LEMMA RotateLeft ==
  ASSUME NEW M, NEW n, NEW p, NEW lo, NEW hi, NEW h, Numbered(M, n, p), Tree(h, M, n, p, lo, hi),
         NEW old \in M, NEW new, new = h.n[old].left, new # NULL, NEW c, NEW d, NEW g,
         Rotated(h, g, old, new, "left", c, d)
  PROVE  Tree(g, M, n, p, [lo EXCEPT ![old] = p[new] + 1], [hi EXCEPT ![new] = hi[old]])
  <1> DEFINE q == h.n[old].parent
             tmp == h.n[new].right
             lo2 == [lo EXCEPT ![old] = p[new] + 1]
             hi2 == [hi EXCEPT ![new] = hi[old]]
  <1>1. /\ new \in M /\ h.n[new].parent = old /\ old # new /\ q \notin {old, new} /\ tmp \notin {old, new}
        /\ q # NULL => (h.n[q].left = old <=> h.n[q].right # old)
    <2>1. "left" \in Sides /\ Other("left") = "right" /\ h.n[old]["left"] = new BY DEF Sides, Other
    <2> QED BY <2>1, Apart
  <1>2. M \in SUBSET Nodes /\ NULL \notin M /\ n \in Nat /\ NULL # new /\ NULL # old BY <1>1, TreeAssumption DEF Numbered
  <1>3. /\ g \in Heap /\ g.root = IF q = NULL THEN new ELSE h.root
        /\ \A y \in M : /\ g.n[y].parent = IF y = old THEN new ELSE IF y = new THEN q
                                           ELSE IF y = tmp THEN old ELSE h.n[y].parent
                        /\ g.n[y].left = IF y = old THEN tmp ELSE IF y = q /\ h.n[y].left = old THEN new
                                         ELSE h.n[y].left
                        /\ g.n[y].right = IF y = new THEN old ELSE IF y = q /\ h.n[y].right = old THEN new
                                          ELSE h.n[y].right
    <2>1. Other("left") = "right" BY DEF Other
    <2>2. \A y \in M : \A s \in Sides :
            g.n[y][s] = IF y = old /\ s = "left" THEN tmp ELSE IF y = new /\ s = "right" THEN old
                        ELSE IF y = q /\ h.n[y][s] = old THEN new ELSE h.n[y][s]
      BY <1>2, <2>1 DEF Rotated
    <2>3. \A y \in M : /\ g.n[y].left = IF y = old THEN tmp ELSE IF y = q /\ h.n[y].left = old THEN new
                                         ELSE h.n[y].left
                       /\ g.n[y].right = IF y = new THEN old ELSE IF y = q /\ h.n[y].right = old THEN new
                                          ELSE h.n[y].right
      BY <2>2 DEF Sides
    <2> QED BY <1>2, <2>1, <2>3 DEF Rotated
  <1>4. /\ \A x \in M : /\ lo[x] \in 1 .. n /\ hi[x] \in 1 .. n /\ p[x] \in 1 .. n
                        /\ Below(h, M, p, lo, hi, x) /\ Hangs(h, M, x)
        /\ lo \in [M -> 1 .. n] /\ hi \in [M -> 1 .. n]
    BY DEF Tree, Numbered
  <1>5. Below(h, M, p, lo, hi, old) /\ Below(h, M, p, lo, hi, new) BY <1>1, <1>4
  <1>6. /\ lo2 \in [M -> 1 .. n] /\ hi2 \in [M -> 1 .. n]
        /\ \A x \in M : /\ lo2[x] = IF x = old THEN p[new] + 1 ELSE lo[x]
                        /\ hi2[x] = IF x = new THEN hi[old] ELSE hi[x]
    <2>1. p[new] + 1 \in 1 .. n /\ hi[old] \in 1 .. n BY <1>1, <1>2, <1>4, <1>5 DEF Below
    <2> QED BY <1>4, <2>1
  <1> HIDE DEF lo2, hi2
  <1>7. ASSUME NEW x \in M PROVE Below(g, M, p, lo2, hi2, x)
    <2> DEFINE far == h.n[old].right
               out == h.n[new].left
    <2>0. /\ tmp # NULL => tmp \in M /\ h.n[tmp].parent = new /\ lo[tmp] = p[new] + 1 /\ hi[tmp] = p[old] - 1
          /\ tmp = NULL => p[new] + 1 = p[old]
          /\ far # NULL => far \in M /\ h.n[far].parent = old
          /\ out # NULL => out \in M /\ h.n[out].parent = new
          /\ h.n[new].parent = old /\ new \in M /\ old \in M
      <3>1. /\ lo[new] \in Int /\ hi[new] \in Int /\ lo[old] \in Int /\ hi[old] \in Int /\ p[old] \in Int /\ p[new] \in Int
        BY <1>1, <1>4
      <3> QED BY <1>1, <1>5, <3>1 DEF Below
    <2>5. far # NULL => far \notin {old, new, tmp}
      <3>1. far # NULL => far # old BY <2>0, <1>1
      <3>2. far # NULL => far # tmp BY <2>0, <1>1
      <3>3. ASSUME far # NULL, far = new PROVE FALSE
        <4>1. lo[new] \in Int /\ hi[new] \in Int /\ p[new] \in Int /\ p[old] \in Int /\ Below(h, M, p, lo, hi, new) BY <1>1, <1>4
        <4>2. h.n[old].left = new /\ h.n[old].right = new BY <3>3
        <4>3. hi[new] = p[old] - 1 /\ lo[new] = p[old] + 1 BY <1>5, <4>2 DEF Below
        <4>4. lo[new] <= p[new] /\ p[new] <= hi[new] BY <4>1 DEF Below
        <4> QED BY <4>1, <4>3, <4>4
      <3> QED BY <3>1, <3>2, <3>3
    <2>6. out # NULL => out \notin {old, new, tmp}
      <3>1. out # NULL => out # old BY <2>0, <1>1
      <3>2. out # NULL => out # new BY <2>0, <1>1
      <3>3. out # NULL => out # tmp
        <4>1. ASSUME out # NULL, out = tmp PROVE FALSE
          <5>1. lo[tmp] \in Int /\ hi[tmp] \in Int /\ p[tmp] \in Int /\ p[new] \in Int /\ Below(h, M, p, lo, hi, tmp) BY <4>1, <2>0, <1>4
          <5>2. h.n[new].left # NULL /\ h.n[new].right # NULL /\ h.n[new].left = h.n[new].right BY <4>1
          <5>0. Below(h, M, p, lo, hi, new) BY <1>5
          <5>3. hi[h.n[new].left] = p[new] - 1 /\ lo[h.n[new].right] = p[new] + 1 BY <5>0, <5>2 DEF Below
          <5>4. lo[tmp] <= p[tmp] /\ p[tmp] <= hi[tmp] BY <5>1, Zenon DEF Below
          <5>5. hi[tmp] = p[new] - 1 /\ lo[tmp] = p[new] + 1 BY <4>1, <5>2, <5>3
          <5> QED BY <5>1, <5>4, <5>5
        <4> QED BY <4>1
      <3> QED BY <3>1, <3>2, <3>3
    <2>7. ASSUME NEW y \in M, y \notin {old, new, tmp}
          PROVE  g.n[y].parent = h.n[y].parent /\ lo2[y] = lo[y] /\ hi2[y] = hi[y]
      BY <1>3, <1>6, <2>7
    <2>8. /\ far # NULL => g.n[far].parent = old /\ lo2[far] = lo[far] /\ hi2[far] = hi[far]
          /\ out # NULL => g.n[out].parent = new /\ lo2[out] = lo[out] /\ hi2[out] = hi[out]
      <3> HIDE DEF far, out, q, tmp
      <3> QED BY <2>0, <2>5, <2>6, <2>7
    <2>9. tmp # NULL => g.n[tmp].parent = old /\ lo2[tmp] = lo[tmp] /\ hi2[tmp] = hi[tmp]
      <3> HIDE DEF far, out, q, tmp
      <3> QED BY <1>1, <1>3, <1>6, <2>0
    <2>10. /\ lo2[old] = p[new] + 1 /\ lo2[new] = lo[new] /\ hi2[new] = hi[old] /\ hi2[old] = hi[old]
           /\ g.n[new].parent = q /\ g.n[old].parent = new
      BY <1>1, <1>3, <1>6
    <2>11. /\ g.n[old].left = tmp /\ g.n[old].right = far /\ g.n[new].left = out /\ g.n[new].right = old
      <3> HIDE DEF tmp, q
      <3> QED BY <1>1, <1>3 DEF tmp
    <2>12. /\ lo[new] \in Int /\ hi[new] \in Int /\ lo[old] \in Int /\ hi[old] \in Int /\ p[old] \in Int /\ p[new] \in Int
           /\ lo[old] <= p[old] /\ p[old] <= hi[old] /\ lo[new] <= p[new] /\ p[new] <= hi[new]
           /\ tmp # NULL => lo[tmp] \in Int /\ hi[tmp] \in Int /\ p[tmp] \in Int /\ lo[tmp] <= p[tmp] /\ p[tmp] <= hi[tmp]
      <3>1. tmp # NULL => Below(h, M, p, lo, hi, tmp) BY <1>4, <2>0
      <3>2. tmp # NULL => lo[tmp] \in Int /\ hi[tmp] \in Int /\ p[tmp] \in Int BY <1>4, <2>0
      <3>3. tmp # NULL => lo[tmp] <= p[tmp] /\ p[tmp] <= hi[tmp] BY <3>1, Zenon DEF Below
      <3>4. lo[new] \in Int /\ hi[new] \in Int /\ lo[old] \in Int /\ hi[old] \in Int /\ p[old] \in Int /\ p[new] \in Int
        BY <1>1, <1>4
      <3>5. lo[old] <= p[old] /\ p[old] <= hi[old] /\ lo[new] <= p[new] /\ p[new] <= hi[new] BY <1>5 DEF Below
      <3> QED BY <3>2, <3>3, <3>4, <3>5
    <2>1. CASE x = old
      <3>1. /\ h.n[old].right = far /\ h.n[old].left = new /\ new # NULL /\ h.n[new].right = tmp OBVIOUS
      <3> HIDE DEF tmp, q, far, out
      <3> QED BY <1>5, <2>0, <2>1, <2>8, <2>9, <2>10, <2>11, <2>12, <3>1, <1>1 DEF Below
    <2>2. CASE x = new
      <3>1. /\ h.n[new].right = tmp /\ h.n[new].left = out /\ h.n[old].left = new /\ new # NULL /\ old # NULL BY <1>2
      <3> HIDE DEF tmp, q, far, out
      <3> QED BY <1>5, <2>0, <2>2, <2>8, <2>10, <2>11, <2>12, <3>1, <1>1 DEF Below
    <2>3. CASE x = q
      <3>1. Below(h, M, p, lo, hi, q) /\ Hangs(h, M, old) BY <1>4, <2>3
      <3>2. q \in M /\ q # NULL /\ old \in {h.n[q].left, h.n[q].right} BY <1>2, <2>3, <3>1 DEF Hangs
      <3>3. lo[q] \in Int /\ hi[q] \in Int /\ p[q] \in Int BY <1>4, <3>2
      <3>4. lo2[q] = lo[q] /\ hi2[q] = hi[q] BY <1>1, <1>6, <3>2
      <3>5. lo2[new] = lo[old] /\ hi2[new] = hi[old] BY <1>5, <2>10, <2>12, <2>0 DEF Below
      <3>6. ASSUME NEW y \in M, h.n[y].parent = q, y # old
            PROVE  g.n[y].parent = q /\ lo2[y] = lo[y] /\ hi2[y] = hi[y]
        <4>1. y # new BY <3>6, <2>0, <1>1
        <4>2. y # tmp BY <3>6, <2>0, <1>1, <1>2
        <4> QED BY <3>6, <4>1, <4>2, <2>7
      <3>7. CASE h.n[q].left = old
        <4>1. g.n[q].left = new /\ g.n[q].right = h.n[q].right /\ h.n[q].right # old
          <5> HIDE DEF q, tmp
          <5> QED BY <1>1, <1>3, <3>2, <3>7
        <4> HIDE DEF q, tmp
        <4> QED BY <3>1, <3>2, <3>3, <3>4, <3>5, <3>6, <4>1, <3>7, <2>3, <1>1, <1>2, <2>10, <2>0 DEF Below
      <3>8. CASE h.n[q].right = old
        <4>1. g.n[q].right = new /\ g.n[q].left = h.n[q].left /\ h.n[q].left # old
          <5> HIDE DEF q, tmp
          <5> QED BY <1>1, <1>3, <3>2, <3>8
        <4> HIDE DEF q, tmp
        <4> QED BY <3>1, <3>2, <3>3, <3>4, <3>5, <3>6, <4>1, <3>8, <2>3, <1>1, <1>2, <2>10, <2>0 DEF Below
      <3> QED BY <3>2, <3>7, <3>8
    <2>4. CASE x \notin {old, new, q}
      <3>1. Below(h, M, p, lo, hi, x) BY <1>4
      <3>2. g.n[x].left = h.n[x].left /\ g.n[x].right = h.n[x].right BY <1>3, <2>4
      <3>3. tmp # NULL => h.n[tmp].parent = new BY <1>5 DEF Below
      <3>4. ASSUME NEW y \in M, h.n[y].parent = x
            PROVE  g.n[y].parent = x /\ lo2[y] = lo[y] /\ hi2[y] = hi[y]
        <4> HIDE DEF tmp, q
        <4>1. y # old /\ y # new /\ (y = tmp => tmp # NULL) BY <2>4, <3>4, <1>1, <1>2 DEF q
        <4>2. y # tmp BY <2>4, <3>3, <3>4, <4>1
        <4> QED BY <1>3, <1>6, <3>4, <4>1, <4>2
      <3>5. lo2[x] = lo[x] /\ hi2[x] = hi[x] BY <1>6, <2>4
      <3> QED BY <3>1, <3>2, <3>4, <3>5 DEF Below
    <2> QED BY <2>1, <2>2, <2>3, <2>4
  <1>8. ASSUME NEW x \in M PROVE Hangs(g, M, x)
    <2>0. Hangs(h, M, x) /\ Hangs(h, M, old) BY <1>4
    <2>1. CASE x = old
      BY <1>1, <1>2, <1>3, <2>1 DEF Hangs
    <2>2. CASE x = new
      <3>1. g.n[x].parent = q BY <1>1, <1>3, <2>2
      <3>2. CASE q = NULL BY <3>1, <3>2, <1>3, <2>2 DEF Hangs
      <3>3. CASE q # NULL
        <4>1. q \in M /\ old \in {h.n[q].left, h.n[q].right} BY <2>0, <3>3 DEF Hangs
        <4> HIDE DEF q, tmp
        <4>2. new \in {g.n[q].left, g.n[q].right} BY <4>1, <1>1, <1>3
        <4> QED BY <3>1, <3>3, <4>1, <4>2, <2>2 DEF Hangs
      <3> QED BY <3>2, <3>3
    <2>3. CASE x = tmp
      <3>1. g.n[x].parent = old BY <1>1, <1>3, <2>3
      <3>2. g.n[old].left = x BY <1>3, <2>3
      <3> QED BY <3>1, <3>2, <1>2 DEF Hangs
    <2>4. CASE x \notin {old, new, tmp}
      <3>1. g.n[x].parent = h.n[x].parent BY <1>3, <2>4
      <3>2. CASE h.n[x].parent = NULL
        <4>1. x = h.root BY <2>0, <3>2 DEF Hangs
        <4>2. q # NULL
          <5>1. q = NULL => old = h.root BY <2>0 DEF Hangs
          <5> QED BY <5>1, <4>1, <2>4
        <4> QED BY <3>1, <3>2, <4>1, <4>2, <1>3 DEF Hangs
      <3>3. CASE h.n[x].parent # NULL
        <4> DEFINE u == h.n[x].parent
        <4>1. u \in M /\ x \in {h.n[u].left, h.n[u].right} BY <2>0, <3>3 DEF Hangs
        <4>2. h.n[old].left # x /\ h.n[new].right # x BY <2>4
        <4> HIDE DEF u, q, tmp
        <4>3. x \in {g.n[u].left, g.n[u].right} BY <4>1, <4>2, <1>1, <1>3, <2>4
        <4> QED BY <3>1, <3>3, <4>1, <4>3 DEF Hangs, u
      <3> QED BY <3>2, <3>3
    <2> QED BY <2>1, <2>2, <2>3, <2>4
  <1>9. Rooted(g, M, n, lo2, hi2)
    <2>0. Rooted(h, M, n, lo, hi) /\ Hangs(h, M, old) /\ old \in M BY <1>4 DEF Tree
    <2>1. h.root # NULL /\ h.root \in M BY <2>0 DEF Rooted
    <2>2. CASE q = NULL
      <3>1. old = h.root /\ g.root = new BY <1>3, <2>0, <2>2 DEF Hangs
      <3>2. g.n[new].parent = NULL BY <1>1, <1>3, <2>2
      <3>3. lo[old] = 1 /\ hi[old] = n BY <2>0, <2>1, <3>1 DEF Rooted
      <3>4. lo2[new] = lo[old] /\ hi2[new] = hi[old] BY <1>1, <1>5, <1>6, <1>2 DEF Below
      <3> QED BY <3>1, <3>2, <3>3, <3>4, <1>1, <1>2 DEF Rooted
    <2>3. CASE q # NULL
      <3>1. g.root = h.root /\ h.n[h.root].parent = NULL BY <1>3, <2>0, <2>1, <2>3 DEF Rooted
      <3>2. h.root # old BY <3>1, <2>3
      <3>3. h.root # new BY <3>1, <1>1, <1>2
      <3>4. tmp # NULL => h.n[tmp].parent = new BY <1>5 DEF Below
      <3>5. h.root # tmp BY <3>1, <3>4, <1>2, <2>1
      <3>6. g.n[h.root].parent = NULL /\ lo2[h.root] = lo[h.root] /\ hi2[h.root] = hi[h.root]
        BY <1>3, <1>6, <2>1, <3>1, <3>2, <3>3, <3>5
      <3> QED BY <2>0, <2>1, <3>1, <3>6 DEF Rooted
    <2> QED BY <2>2, <2>3
  <1>10. Tree(g, M, n, p, lo2, hi2) BY <1>3, <1>6, <1>7, <1>8, <1>9 DEF Tree
  <1> QED BY <1>10 DEF lo2, hi2

LEMMA RotateRight ==
  ASSUME NEW M, NEW n, NEW p, NEW lo, NEW hi, NEW h, Numbered(M, n, p), Tree(h, M, n, p, lo, hi),
         NEW old \in M, NEW new, new = h.n[old].right, new # NULL, NEW c, NEW d, NEW g,
         Rotated(h, g, old, new, "right", c, d)
  PROVE  Tree(g, M, n, p, [lo EXCEPT ![new] = lo[old]], [hi EXCEPT ![old] = p[new] - 1])
  <1> DEFINE q == h.n[old].parent
             tmp == h.n[new].left
             lo2 == [lo EXCEPT ![new] = lo[old]]
             hi2 == [hi EXCEPT ![old] = p[new] - 1]
  <1>1. /\ new \in M /\ h.n[new].parent = old /\ old # new /\ q \notin {old, new} /\ tmp \notin {old, new}
        /\ q # NULL => (h.n[q].left = old <=> h.n[q].right # old)
    <2>1. "right" \in Sides /\ Other("right") = "left" /\ h.n[old]["right"] = new BY DEF Sides, Other
    <2> QED BY <2>1, Apart
  <1>2. M \in SUBSET Nodes /\ NULL \notin M /\ n \in Nat /\ NULL # new /\ NULL # old BY <1>1, TreeAssumption DEF Numbered
  <1>3. /\ g \in Heap /\ g.root = IF q = NULL THEN new ELSE h.root
        /\ \A y \in M : /\ g.n[y].parent = IF y = old THEN new ELSE IF y = new THEN q
                                           ELSE IF y = tmp THEN old ELSE h.n[y].parent
                        /\ g.n[y].right = IF y = old THEN tmp ELSE IF y = q /\ h.n[y].right = old THEN new
                                         ELSE h.n[y].right
                        /\ g.n[y].left = IF y = new THEN old ELSE IF y = q /\ h.n[y].left = old THEN new
                                          ELSE h.n[y].left
    <2>1. Other("right") = "left" BY DEF Other
    <2>2. \A y \in M : \A s \in Sides :
            g.n[y][s] = IF y = old /\ s = "right" THEN tmp ELSE IF y = new /\ s = "left" THEN old
                        ELSE IF y = q /\ h.n[y][s] = old THEN new ELSE h.n[y][s]
      BY <1>2, <2>1 DEF Rotated
    <2>3. \A y \in M : /\ g.n[y].right = IF y = old THEN tmp ELSE IF y = q /\ h.n[y].right = old THEN new
                                         ELSE h.n[y].right
                       /\ g.n[y].left = IF y = new THEN old ELSE IF y = q /\ h.n[y].left = old THEN new
                                          ELSE h.n[y].left
      BY <2>2 DEF Sides
    <2> QED BY <1>2, <2>1, <2>3 DEF Rotated
  <1>4. /\ \A x \in M : /\ lo[x] \in 1 .. n /\ hi[x] \in 1 .. n /\ p[x] \in 1 .. n
                        /\ Below(h, M, p, lo, hi, x) /\ Hangs(h, M, x)
        /\ lo \in [M -> 1 .. n] /\ hi \in [M -> 1 .. n]
    BY DEF Tree, Numbered
  <1>5. Below(h, M, p, lo, hi, old) /\ Below(h, M, p, lo, hi, new) BY <1>1, <1>4
  <1>6. /\ lo2 \in [M -> 1 .. n] /\ hi2 \in [M -> 1 .. n]
        /\ \A x \in M : /\ lo2[x] = IF x = new THEN lo[old] ELSE lo[x]
                        /\ hi2[x] = IF x = old THEN p[new] - 1 ELSE hi[x]
    <2>1. lo[old] \in 1 .. n /\ p[new] - 1 \in 1 .. n BY <1>1, <1>2, <1>4, <1>5 DEF Below
    <2> QED BY <1>4, <2>1
  <1> HIDE DEF lo2, hi2
  <1>7. ASSUME NEW x \in M PROVE Below(g, M, p, lo2, hi2, x)
    <2> DEFINE far == h.n[old].left
               out == h.n[new].right
    <2>0. /\ tmp # NULL => tmp \in M /\ h.n[tmp].parent = new /\ hi[tmp] = p[new] - 1 /\ lo[tmp] = p[old] + 1
          /\ tmp = NULL => p[new] - 1 = p[old]
          /\ far # NULL => far \in M /\ h.n[far].parent = old
          /\ out # NULL => out \in M /\ h.n[out].parent = new
          /\ h.n[new].parent = old /\ new \in M /\ old \in M
      <3>1. /\ lo[new] \in Int /\ hi[new] \in Int /\ lo[old] \in Int /\ hi[old] \in Int /\ p[old] \in Int /\ p[new] \in Int
        BY <1>1, <1>4
      <3> QED BY <1>1, <1>5, <3>1 DEF Below
    <2>5. far # NULL => far \notin {old, new, tmp}
      <3>1. far # NULL => far # old BY <2>0, <1>1
      <3>2. far # NULL => far # tmp BY <2>0, <1>1
      <3>3. ASSUME far # NULL, far = new PROVE FALSE
        <4>1. lo[new] \in Int /\ hi[new] \in Int /\ p[new] \in Int /\ p[old] \in Int /\ Below(h, M, p, lo, hi, new) BY <1>1, <1>4
        <4>2. h.n[old].left = new /\ h.n[old].right = new BY <3>3
        <4>3. hi[new] = p[old] - 1 /\ lo[new] = p[old] + 1 BY <1>5, <4>2 DEF Below
        <4>4. lo[new] <= p[new] /\ p[new] <= hi[new] BY <4>1 DEF Below
        <4> QED BY <4>1, <4>3, <4>4
      <3> QED BY <3>1, <3>2, <3>3
    <2>6. out # NULL => out \notin {old, new, tmp}
      <3>1. out # NULL => out # old BY <2>0, <1>1
      <3>2. out # NULL => out # new BY <2>0, <1>1
      <3>3. out # NULL => out # tmp
        <4>1. ASSUME out # NULL, out = tmp PROVE FALSE
          <5>1. lo[tmp] \in Int /\ hi[tmp] \in Int /\ p[tmp] \in Int /\ p[new] \in Int /\ Below(h, M, p, lo, hi, tmp) BY <4>1, <2>0, <1>4
          <5>2. h.n[new].left # NULL /\ h.n[new].right # NULL /\ h.n[new].left = h.n[new].right BY <4>1
          <5>0. Below(h, M, p, lo, hi, new) BY <1>5
          <5>3. hi[h.n[new].left] = p[new] - 1 /\ lo[h.n[new].right] = p[new] + 1 BY <5>0, <5>2 DEF Below
          <5>4. lo[tmp] <= p[tmp] /\ p[tmp] <= hi[tmp] BY <5>1, Zenon DEF Below
          <5>5. hi[tmp] = p[new] - 1 /\ lo[tmp] = p[new] + 1 BY <4>1, <5>2, <5>3
          <5> QED BY <5>1, <5>4, <5>5
        <4> QED BY <4>1
      <3> QED BY <3>1, <3>2, <3>3
    <2>7. ASSUME NEW y \in M, y \notin {old, new, tmp}
          PROVE  g.n[y].parent = h.n[y].parent /\ lo2[y] = lo[y] /\ hi2[y] = hi[y]
      BY <1>3, <1>6, <2>7
    <2>8. /\ far # NULL => g.n[far].parent = old /\ lo2[far] = lo[far] /\ hi2[far] = hi[far]
          /\ out # NULL => g.n[out].parent = new /\ lo2[out] = lo[out] /\ hi2[out] = hi[out]
      <3> HIDE DEF far, out, q, tmp
      <3> QED BY <2>0, <2>5, <2>6, <2>7
    <2>9. tmp # NULL => g.n[tmp].parent = old /\ lo2[tmp] = lo[tmp] /\ hi2[tmp] = hi[tmp]
      <3> HIDE DEF far, out, q, tmp
      <3> QED BY <1>1, <1>3, <1>6, <2>0
    <2>10. /\ lo2[new] = lo[old] /\ lo2[old] = lo[old] /\ hi2[old] = p[new] - 1 /\ hi2[new] = hi[new]
           /\ g.n[new].parent = q /\ g.n[old].parent = new
      BY <1>1, <1>3, <1>6
    <2>11. /\ g.n[old].right = tmp /\ g.n[old].left = far /\ g.n[new].right = out /\ g.n[new].left = old
      <3> HIDE DEF tmp, q
      <3> QED BY <1>1, <1>3 DEF tmp
    <2>12. /\ lo[new] \in Int /\ hi[new] \in Int /\ lo[old] \in Int /\ hi[old] \in Int /\ p[old] \in Int /\ p[new] \in Int
           /\ lo[old] <= p[old] /\ p[old] <= hi[old] /\ lo[new] <= p[new] /\ p[new] <= hi[new]
           /\ tmp # NULL => lo[tmp] \in Int /\ hi[tmp] \in Int /\ p[tmp] \in Int /\ lo[tmp] <= p[tmp] /\ p[tmp] <= hi[tmp]
      <3>1. tmp # NULL => Below(h, M, p, lo, hi, tmp) BY <1>4, <2>0
      <3>2. tmp # NULL => lo[tmp] \in Int /\ hi[tmp] \in Int /\ p[tmp] \in Int BY <1>4, <2>0
      <3>3. tmp # NULL => lo[tmp] <= p[tmp] /\ p[tmp] <= hi[tmp] BY <3>1, Zenon DEF Below
      <3>4. lo[new] \in Int /\ hi[new] \in Int /\ lo[old] \in Int /\ hi[old] \in Int /\ p[old] \in Int /\ p[new] \in Int
        BY <1>1, <1>4
      <3>5. lo[old] <= p[old] /\ p[old] <= hi[old] /\ lo[new] <= p[new] /\ p[new] <= hi[new] BY <1>5 DEF Below
      <3> QED BY <3>2, <3>3, <3>4, <3>5
    <2>1. CASE x = old
      <3>1. /\ h.n[old].left = far /\ h.n[old].right = new /\ new # NULL /\ h.n[new].left = tmp OBVIOUS
      <3> HIDE DEF tmp, q, far, out
      <3> QED BY <1>5, <2>0, <2>1, <2>8, <2>9, <2>10, <2>11, <2>12, <3>1, <1>1 DEF Below
    <2>2. CASE x = new
      <3>1. /\ h.n[new].left = tmp /\ h.n[new].right = out /\ h.n[old].right = new /\ new # NULL /\ old # NULL BY <1>2
      <3> HIDE DEF tmp, q, far, out
      <3> QED BY <1>5, <2>0, <2>2, <2>8, <2>10, <2>11, <2>12, <3>1, <1>1 DEF Below
    <2>3. CASE x = q
      <3>1. Below(h, M, p, lo, hi, q) /\ Hangs(h, M, old) BY <1>4, <2>3
      <3>2. q \in M /\ q # NULL /\ old \in {h.n[q].left, h.n[q].right} BY <1>2, <2>3, <3>1 DEF Hangs
      <3>3. lo[q] \in Int /\ hi[q] \in Int /\ p[q] \in Int BY <1>4, <3>2
      <3>4. lo2[q] = lo[q] /\ hi2[q] = hi[q] BY <1>1, <1>6, <3>2
      <3>5. lo2[new] = lo[old] /\ hi2[new] = hi[old] BY <1>5, <2>10, <2>12, <2>0 DEF Below
      <3>6. ASSUME NEW y \in M, h.n[y].parent = q, y # old
            PROVE  g.n[y].parent = q /\ lo2[y] = lo[y] /\ hi2[y] = hi[y]
        <4>1. y # new BY <3>6, <2>0, <1>1
        <4>2. y # tmp BY <3>6, <2>0, <1>1, <1>2
        <4> QED BY <3>6, <4>1, <4>2, <2>7
      <3>7. CASE h.n[q].right = old
        <4>1. g.n[q].right = new /\ g.n[q].left = h.n[q].left /\ h.n[q].left # old
          <5> HIDE DEF q, tmp
          <5> QED BY <1>1, <1>3, <3>2, <3>7
        <4> HIDE DEF q, tmp
        <4> QED BY <3>1, <3>2, <3>3, <3>4, <3>5, <3>6, <4>1, <3>7, <2>3, <1>1, <1>2, <2>10, <2>0 DEF Below
      <3>8. CASE h.n[q].left = old
        <4>1. g.n[q].left = new /\ g.n[q].right = h.n[q].right /\ h.n[q].right # old
          <5> HIDE DEF q, tmp
          <5> QED BY <1>1, <1>3, <3>2, <3>8
        <4> HIDE DEF q, tmp
        <4> QED BY <3>1, <3>2, <3>3, <3>4, <3>5, <3>6, <4>1, <3>8, <2>3, <1>1, <1>2, <2>10, <2>0 DEF Below
      <3> QED BY <3>2, <3>7, <3>8
    <2>4. CASE x \notin {old, new, q}
      <3>1. Below(h, M, p, lo, hi, x) BY <1>4
      <3>2. g.n[x].left = h.n[x].left /\ g.n[x].right = h.n[x].right BY <1>3, <2>4
      <3>3. tmp # NULL => h.n[tmp].parent = new BY <1>5 DEF Below
      <3>4. ASSUME NEW y \in M, h.n[y].parent = x
            PROVE  g.n[y].parent = x /\ lo2[y] = lo[y] /\ hi2[y] = hi[y]
        <4> HIDE DEF tmp, q
        <4>1. y # old /\ y # new /\ (y = tmp => tmp # NULL) BY <2>4, <3>4, <1>1, <1>2 DEF q
        <4>2. y # tmp BY <2>4, <3>3, <3>4, <4>1
        <4> QED BY <1>3, <1>6, <3>4, <4>1, <4>2
      <3>5. lo2[x] = lo[x] /\ hi2[x] = hi[x] BY <1>6, <2>4
      <3> QED BY <3>1, <3>2, <3>4, <3>5 DEF Below
    <2> QED BY <2>1, <2>2, <2>3, <2>4
  <1>8. ASSUME NEW x \in M PROVE Hangs(g, M, x)
    <2>0. Hangs(h, M, x) /\ Hangs(h, M, old) BY <1>4
    <2>1. CASE x = old
      BY <1>1, <1>2, <1>3, <2>1 DEF Hangs
    <2>2. CASE x = new
      <3>1. g.n[x].parent = q BY <1>1, <1>3, <2>2
      <3>2. CASE q = NULL BY <3>1, <3>2, <1>3, <2>2 DEF Hangs
      <3>3. CASE q # NULL
        <4>1. q \in M /\ old \in {h.n[q].left, h.n[q].right} BY <2>0, <3>3 DEF Hangs
        <4> HIDE DEF q, tmp
        <4>2. new \in {g.n[q].left, g.n[q].right} BY <4>1, <1>1, <1>3
        <4> QED BY <3>1, <3>3, <4>1, <4>2, <2>2 DEF Hangs
      <3> QED BY <3>2, <3>3
    <2>3. CASE x = tmp
      <3>1. g.n[x].parent = old BY <1>1, <1>3, <2>3
      <3>2. g.n[old].right = x BY <1>3, <2>3
      <3> QED BY <3>1, <3>2, <1>2 DEF Hangs
    <2>4. CASE x \notin {old, new, tmp}
      <3>1. g.n[x].parent = h.n[x].parent BY <1>3, <2>4
      <3>2. CASE h.n[x].parent = NULL
        <4>1. x = h.root BY <2>0, <3>2 DEF Hangs
        <4>2. q # NULL
          <5>1. q = NULL => old = h.root BY <2>0 DEF Hangs
          <5> QED BY <5>1, <4>1, <2>4
        <4> QED BY <3>1, <3>2, <4>1, <4>2, <1>3 DEF Hangs
      <3>3. CASE h.n[x].parent # NULL
        <4> DEFINE u == h.n[x].parent
        <4>1. u \in M /\ x \in {h.n[u].left, h.n[u].right} BY <2>0, <3>3 DEF Hangs
        <4>2. h.n[old].right # x /\ h.n[new].left # x BY <2>4
        <4> HIDE DEF u, q, tmp
        <4>3. x \in {g.n[u].left, g.n[u].right} BY <4>1, <4>2, <1>1, <1>3, <2>4
        <4> QED BY <3>1, <3>3, <4>1, <4>3 DEF Hangs, u
      <3> QED BY <3>2, <3>3
    <2> QED BY <2>1, <2>2, <2>3, <2>4
  <1>9. Rooted(g, M, n, lo2, hi2)
    <2>0. Rooted(h, M, n, lo, hi) /\ Hangs(h, M, old) /\ old \in M BY <1>4 DEF Tree
    <2>1. h.root # NULL /\ h.root \in M BY <2>0 DEF Rooted
    <2>2. CASE q = NULL
      <3>1. old = h.root /\ g.root = new BY <1>3, <2>0, <2>2 DEF Hangs
      <3>2. g.n[new].parent = NULL BY <1>1, <1>3, <2>2
      <3>3. lo[old] = 1 /\ hi[old] = n BY <2>0, <2>1, <3>1 DEF Rooted
      <3>4. lo2[new] = lo[old] /\ hi2[new] = hi[old] BY <1>1, <1>5, <1>6, <1>2 DEF Below
      <3> QED BY <3>1, <3>2, <3>3, <3>4, <1>1, <1>2 DEF Rooted
    <2>3. CASE q # NULL
      <3>1. g.root = h.root /\ h.n[h.root].parent = NULL BY <1>3, <2>0, <2>1, <2>3 DEF Rooted
      <3>2. h.root # old BY <3>1, <2>3
      <3>3. h.root # new BY <3>1, <1>1, <1>2
      <3>4. tmp # NULL => h.n[tmp].parent = new BY <1>5 DEF Below
      <3>5. h.root # tmp BY <3>1, <3>4, <1>2, <2>1
      <3>6. g.n[h.root].parent = NULL /\ lo2[h.root] = lo[h.root] /\ hi2[h.root] = hi[h.root]
        BY <1>3, <1>6, <2>1, <3>1, <3>2, <3>3, <3>5
      <3> QED BY <2>0, <2>1, <3>1, <3>6 DEF Rooted
    <2> QED BY <2>2, <2>3
  <1>10. Tree(g, M, n, p, lo2, hi2) BY <1>3, <1>6, <1>7, <1>8, <1>9 DEF Tree
  <1> QED BY <1>10 DEF lo2, hi2

-----------------------------------------------------------------------------
(* Recolouring and rotating: the rebalancing of an insertion and of an     *)
(* erasure keeps the members and their order, whatever the colours are.    *)

IsTree(h, M, n, p) == \E lo, hi : Tree(h, M, n, p, lo, hi)

LEMMA ChildIn ==
  ASSUME NEW M, NEW n, NEW p, NEW h, Numbered(M, n, p), IsTree(h, M, n, p),
         NEW x \in M, NEW side \in Sides, h.n[x][side] # NULL
  PROVE  h.n[x][side] \in M /\ h.n[h.n[x][side]].parent = x /\ h.n[x][side] # x
  BY Apart DEF IsTree

LEMMA InTree ==
  ASSUME NEW M, NEW n, NEW p, NEW h, Numbered(M, n, p), IsTree(h, M, n, p)
  PROVE  /\ h \in Heap /\ M \in SUBSET Nodes /\ NULL \notin M
         /\ \A x \in M : h.n[x].parent # NULL => h.n[x].parent \in M
  BY TreeAssumption DEF IsTree, Tree, Numbered, Hangs

LEMMA ParentSide ==
  ASSUME NEW M, NEW n, NEW p, NEW h, Numbered(M, n, p), IsTree(h, M, n, p),
         NEW x \in M, NEW q, h.n[x].parent = q, q # NULL
  PROVE  /\ q \in M /\ q # x /\ SideOf(h, x, q) \in Sides
         /\ h.n[q][SideOf(h, x, q)] = x /\ h.n[q][Other(SideOf(h, x, q))] # x
  <1>1. PICK lo, hi : Tree(h, M, n, p, lo, hi) BY DEF IsTree
  <1>2. q \in M /\ x \in {h.n[q].left, h.n[q].right} BY <1>1, Numbers DEF Hangs
  <1>3. x # NULL /\ h.n[q]["left"] = h.n[q].left /\ h.n[q]["right"] = h.n[q].right BY InTree
  <1>4. PICK s \in Sides : h.n[q][s] = x BY <1>2, <1>3 DEF Sides
  <1>5. q # x BY <1>1, <1>2, <1>3, <1>4, Apart
  <1>6. ~(h.n[q].left = x /\ h.n[q].right = x)
    <2>1. SUFFICES ASSUME h.n[q].left = x, h.n[q].right = x PROVE FALSE OBVIOUS
    <2>2. Below(h, M, p, lo, hi, q) /\ Below(h, M, p, lo, hi, x) BY <1>1, <1>2, Numbers
    <2>3. hi[x] = p[q] - 1 /\ lo[x] = p[q] + 1 /\ lo[x] <= p[x] /\ p[x] <= hi[x] BY <1>3, <2>1, <2>2 DEF Below
    <2>4. p[x] \in Int /\ p[q] \in Int BY <1>1, <1>2, Numbers
    <2> QED BY <2>3, <2>4
  <1> QED BY <1>2, <1>3, <1>5, <1>6 DEF SideOf, Sides, Other

LEMMA RotateTree ==
  ASSUME NEW M, NEW n, NEW p, NEW h, Numbered(M, n, p), IsTree(h, M, n, p),
         NEW old \in M, NEW side \in Sides, NEW new, new = h.n[old][side], new # NULL,
         NEW c \in {Red, Black}, NEW d \in {Red, Black}
  PROVE  /\ IsTree(Rotate(h, old, new, side, c, d), M, n, p)
         /\ Rotated(h, Rotate(h, old, new, side, c, d), old, new, side, c, d)
  <1>1. PICK lo, hi : Tree(h, M, n, p, lo, hi) BY DEF IsTree
  <1> DEFINE g == Rotate(h, old, new, side, c, d)
  <1>2. h \in Heap /\ M \in SUBSET Nodes /\ new \in M BY <1>1, InTree, Apart
  <1>3. Rotated(h, g, old, new, side, c, d)
    <2>1. /\ old # new /\ h.n[old].parent \notin {old, new} /\ h.n[new][Other(side)] \notin {old, new}
          /\ LET q == h.n[old].parent IN q # NULL => (h.n[q].left = old <=> h.n[q].right # old)
      BY <1>1, Apart
    <2> QED BY <1>2, <2>1, RotateIs
  <1> HIDE DEF g
  <1>4. CASE side = "left"
    <2>1. new = h.n[old].left BY <1>4
    <2>2. Tree(g, M, n, p, [lo EXCEPT ![old] = p[new] + 1], [hi EXCEPT ![new] = hi[old]])
      BY <1>1, <1>3, <1>4, <2>1, RotateLeft
    <2> QED BY <1>3, <2>2 DEF IsTree, g
  <1>5. CASE side = "right"
    <2>1. new = h.n[old].right BY <1>5
    <2>2. Tree(g, M, n, p, [lo EXCEPT ![new] = lo[old]], [hi EXCEPT ![old] = p[new] - 1])
      BY <1>1, <1>3, <1>5, <2>1, RotateRight
    <2> QED BY <1>3, <2>2 DEF IsTree, g
  <1> QED BY <1>4, <1>5 DEF Sides

\* Only colours differ.
SameLinks(h, g) ==
  /\ g \in Heap /\ g.root = h.root
  /\ \A y \in Nodes : g.n[y].parent = h.n[y].parent /\ \A s \in Sides : g.n[y][s] = h.n[y][s]

LEMMA SameTree ==
  ASSUME NEW M, NEW n, NEW p, NEW lo, NEW hi, NEW h, Numbered(M, n, p), Tree(h, M, n, p, lo, hi), NEW g, SameLinks(h, g)
  PROVE  Tree(g, M, n, p, lo, hi)
  <1>2. \A y \in Nodes : g.n[y].parent = h.n[y].parent /\ g.n[y].left = h.n[y].left /\ g.n[y].right = h.n[y].right
    <2>1. \A y \in Nodes : g.n[y]["left"] = h.n[y]["left"] /\ g.n[y]["right"] = h.n[y]["right"] BY DEF SameLinks, Sides
    <2> QED BY <2>1 DEF SameLinks
  <1>3. M \in SUBSET Nodes BY DEF Numbered
  <1>4. \A x \in M : Below(h, M, p, lo, hi, x) /\ Hangs(h, M, x) BY DEF Tree
  <1>5. ASSUME NEW x \in M PROVE Below(g, M, p, lo, hi, x) /\ Hangs(g, M, x)
    <2>1. Below(g, M, p, lo, hi, x) BY <1>2, <1>3, <1>4 DEF Below
    <2>2. Hangs(g, M, x) BY <1>2, <1>3, <1>4 DEF Hangs, SameLinks
    <2> QED BY <2>1, <2>2
  <1>6. Rooted(g, M, n, lo, hi) BY <1>2, <1>3 DEF Tree, Rooted, SameLinks
  <1>7. g \in Heap BY DEF SameLinks
  <1> QED BY <1>5, <1>6, <1>7 DEF Tree

LEMMA Recoloured ==
  ASSUME NEW M, NEW n, NEW p, NEW h, Numbered(M, n, p), IsTree(h, M, n, p), NEW g, SameLinks(h, g)
  PROVE  IsTree(g, M, n, p)
  <1>1. PICK lo, hi : Tree(h, M, n, p, lo, hi) BY DEF IsTree
  <1>2. Tree(g, M, n, p, lo, hi) BY <1>1, SameTree
  <1> QED BY <1>2 DEF IsTree

LEMMA ColorLinks ==
  ASSUME NEW h \in Heap, NEW x, NEW c \in {Red, Black}
  PROVE  SameLinks(h, Set(h, x, "color", c))
  <1>1. Set(h, x, "color", c) \in Heap BY ColorTyped
  <1> QED BY <1>1 DEF SameLinks, Set, Heap, rb_node, Sides

LEMMA PcLinks ==
  ASSUME NEW h \in Heap, NEW x \in Pointer, NEW v \in Pointer, NEW c \in {Red, Black}, x # NULL => h.n[x].parent = v
  PROVE  SameLinks(h, rb_set_parent_color(h, x, v, c))
  <1> DEFINE g == rb_set_parent_color(h, x, v, c)
  <1>1. CASE x = NULL
    <2>1. x \notin Nodes BY <1>1, TreeAssumption
    <2>2. g \in Heap BY ParentColorTyped
    <2> QED BY <2>1, <2>2 DEF SameLinks, rb_set_parent_color, Set, Heap, rb_node, Sides
  <1>2. CASE x # NULL
    <2>1. x \in Nodes BY <1>2 DEF Pointer
    <2>2. PcSet(h, g, x, v, c) BY <2>1, PcIs
    <2> HIDE DEF g
    <2> QED BY <1>2, <2>1, <2>2 DEF PcSet, SameLinks, g
  <1> QED BY <1>1, <1>2

LEMMA CrashTree ==
  ASSUME NEW M, NEW n, NEW p, NEW h, Numbered(M, n, p), IsTree(h, M, n, p)
  PROVE  IsTree(Crash(h), M, n, p)
  <1>1. h \in Heap BY InTree
  <1>2. SameLinks(h, Crash(h))
    <2>1. Crash(h) \in Heap BY <1>1, CrashTyped
    <2> QED BY <1>1, <2>1 DEF SameLinks, Crash, Heap
  <1> QED BY <1>2, Recoloured

-----------------------------------------------------------------------------
(* Rebalancing after an insertion *)

LEMMA InsertTurnTree ==
  ASSUME NEW M, NEW n, NEW p, NEW h, Numbered(M, n, p), IsTree(h, M, n, p), NEW node \in M,
         InsertTurn(h, node) # NULL
  PROVE  /\ InsertTurn(h, node).node \in M
         /\ IsTree(InsertTurn(h, node).h, M, n, p)
  <1> DEFINE parent == h.n[node].parent
             gparent == h.n[parent].parent
             uncle == Uncle(h, parent, gparent)
             h1 == rb_set_parent_color(h, uncle, gparent, Black)
             h2 == rb_set_parent_color(h1, parent, gparent, Black)
             h3 == Set(h2, gparent, "color", Red)
  <1>0. InsertTurn(h, node) = IF IsRed(h, parent) /\ gparent # NULL /\ IsRed(h, uncle)
                              THEN [h |-> h3, node |-> gparent] ELSE NULL
    BY DEF InsertTurn
  <1>1. IsRed(h, parent) /\ gparent # NULL /\ IsRed(h, uncle) BY <1>0
  <1>2. parent # NULL /\ uncle # NULL BY <1>1 DEF IsRed
  <1>3. parent \in M BY <1>2, InTree
  <1>4. gparent \in M BY <1>1, <1>3, InTree
  <1>5. uncle \in M /\ h.n[uncle].parent = gparent
    <2>1. Other(SideOf(h, parent, gparent)) \in Sides BY SideIs
    <2> HIDE DEF parent, gparent
    <2> QED BY <1>2, <1>4, <2>1, ChildIn DEF Uncle
  <1>6. h \in Heap /\ M \in SUBSET Nodes BY InTree
  <1>8. parent \in Pointer /\ gparent \in Pointer /\ uncle \in Pointer /\ gparent \in Nodes BY <1>3, <1>4, <1>5, <1>6 DEF Pointer
  <1>12. h.n[parent].parent = gparent OBVIOUS
  <1> HIDE DEF parent, gparent, uncle
  <1>7. SameLinks(h, h1) BY <1>5, <1>6, <1>8, PcLinks
  <1>9. h1 \in Heap /\ h1.n[parent].parent = gparent BY <1>3, <1>6, <1>7, <1>12 DEF SameLinks
  <1> HIDE DEF h1
  <1>10. SameLinks(h1, h2) BY <1>8, <1>9, PcLinks
  <1>11. h2 \in Heap BY <1>10 DEF SameLinks
  <1> HIDE DEF h2
  <1>13. SameLinks(h2, h3) BY <1>11, ColorLinks
  <1> HIDE DEF h3
  <1>14. IsTree(h3, M, n, p) BY <1>7, <1>10, <1>13, Recoloured
  <1> QED BY <1>0, <1>1, <1>4, <1>14

LEMMA InsertEndTree ==
  ASSUME NEW M, NEW n, NEW p, NEW h, Numbered(M, n, p), IsTree(h, M, n, p), NEW node \in M
  PROVE  IsTree(InsertEnd(h, node), M, n, p)
  <1> DEFINE parent == h.n[node].parent
             gparent == h.n[parent].parent
             side == SideOf(h, parent, gparent)
             twice == Rotate(h, parent, node, Other(side), Red, Black)
  <1>1. h \in Heap /\ M \in SUBSET Nodes /\ NULL \notin M BY InTree
  <1>2. CASE parent = NULL
    <2>1. node \in Pointer /\ NULL \in Pointer BY <1>1 DEF Pointer
    <2>2. SameLinks(h, rb_set_parent_color(h, node, NULL, Black)) BY <1>1, <1>2, <2>1, PcLinks
    <2> QED BY <1>2, <2>2, Recoloured DEF InsertEnd
  <1>3. CASE parent # NULL /\ (~IsRed(h, parent) \/ gparent = NULL)
    BY <1>3, CrashTree DEF InsertEnd
  <1>4. CASE parent # NULL /\ IsRed(h, parent) /\ gparent # NULL
    <2>1. parent \in M BY <1>4, InTree
    <2>2. gparent \in M /\ gparent # parent /\ side \in Sides /\ h.n[gparent][side] = parent /\ Other(side) \in Sides
      BY <1>4, <2>1, ParentSide, SideIs
    <2>3. InsertEnd(h, node) = IF node = h.n[parent][Other(side)]
                               THEN Rotate(twice, gparent, node, side, Red, Black)
                               ELSE Rotate(h, gparent, parent, side, Red, Black)
      BY <1>4 DEF InsertEnd
    <2>4. CASE node = h.n[parent][Other(side)]
      <3>0. node # parent BY <2>1, <2>2, <2>4, <1>1, ChildIn
      <3>1. IsTree(twice, M, n, p) /\ Rotated(h, twice, parent, node, Other(side), Red, Black)
        <4> HIDE DEF parent, gparent, side
        <4> QED BY <1>1, <2>1, <2>2, <2>4, RotateTree
      <3>2. twice.n[gparent][side] = node
        <4>1. gparent # node
          <5>1. PICK lo, hi : Tree(h, M, n, p, lo, hi) BY DEF IsTree
          <5>2. h.n[parent][Other(side)] # NULL BY <2>4, <1>1
          <5>3. h.n[parent].parent = gparent OBVIOUS
          <5> HIDE DEF parent, gparent, side, twice
          <5> QED BY <5>1, <5>2, <5>3, <2>1, <2>2, <2>4, Apart
        <4>2. Other(Other(side)) = side /\ Other(side) # side BY <2>2 DEF Other, Sides
        <4>3. gparent \in Nodes BY <1>1, <2>2
        <4>4. h.n[parent].parent = gparent OBVIOUS
        <4> HIDE DEF twice, parent, gparent, side
        <4> QED BY <2>2, <3>1, <4>1, <4>2, <4>3, <4>4 DEF Rotated
      <3> HIDE DEF twice, parent, gparent, side
      <3>3. IsTree(Rotate(twice, gparent, node, side, Red, Black), M, n, p)
        BY <1>1, <2>2, <3>1, <3>2, RotateTree
      <3> QED BY <2>3, <2>4, <3>3
    <2>5. CASE node # h.n[parent][Other(side)]
      <3>1. IsTree(Rotate(h, gparent, parent, side, Red, Black), M, n, p)
        <4> HIDE DEF parent, gparent, side
        <4> QED BY <1>4, <2>2, RotateTree
      <3> QED BY <2>3, <2>5, <3>1
    <2> QED BY <2>4, <2>5
  <1> QED BY <1>2, <1>3, <1>4

LEMMA InsertTree ==
  ASSUME NEW M, NEW n, NEW p, NEW h, Numbered(M, n, p), IsTree(h, M, n, p), NEW node \in M
  PROVE  IsTree(rb_insert_color(h, node), M, n, p)
  <1> DEFINE D == [h : Heap, node : Nodes]
             f == [s \in D |-> InsertTurn(s.h, s.node)]
             S == {s \in D : s.node \in M /\ IsTree(s.h, M, n, p)}
             s0 == [h |-> h, node |-> node]
             end == Loop(f, s0)
  <1>1. f \in [D -> D \cup {NULL}] BY InsertTurnTyped
  <1>2. s0 \in S BY InTree
  <1>3. ASSUME NEW s \in S PROVE f[s] = NULL \/ f[s] \in S
    <2>1. s \in D /\ s.node \in M /\ IsTree(s.h, M, n, p) /\ f[s] = InsertTurn(s.h, s.node) OBVIOUS
    <2>2. f[s] # NULL => f[s].node \in M /\ IsTree(f[s].h, M, n, p) BY <2>1, InsertTurnTree
    <2> HIDE DEF f, D
    <2> QED BY <1>1, <2>1, <2>2
  <1>4. end \in S
    <2> HIDE DEF D, S, f, s0
    <2>1. S \in SUBSET D BY DEF S
    <2> QED BY <1>1, <1>2, <1>3, <2>1, LoopStays
  <1>5. rb_insert_color(h, node) = InsertEnd(end.h, end.node) BY DEF rb_insert_color
  <1> HIDE DEF end
  <1> QED BY <1>4, <1>5, InsertEndTree

LEMMA SiblingTree ==
  ASSUME NEW M, NEW n, NEW p, NEW h, Numbered(M, n, p), IsTree(h, M, n, p), NEW parent \in M, NEW node
  PROVE  LET c == Sibling(h, node, parent)
         IN /\ IsTree(c.h, M, n, p) /\ (c.sibling # NULL => c.sibling \in M)
            /\ c.h.n[parent][Other(SideOf(h, node, parent))] = c.sibling
  <1> DEFINE side == SideOf(h, node, parent)
             sibling == h.n[parent][Other(side)]
             g == Rotate(h, parent, sibling, Other(side), Red, Black)
  <1>1. side \in Sides /\ Other(side) \in Sides /\ Other(Other(side)) = side BY SideIs DEF Other, Sides
  <1>2. sibling # NULL => sibling \in M BY <1>1, ChildIn
  <1>3. Sibling(h, node, parent) = IF IsRed(h, sibling) THEN [h |-> g, sibling |-> h.n[sibling][side]]
                                   ELSE [h |-> h, sibling |-> sibling] BY DEF Sibling
  <1>4. CASE IsRed(h, sibling)
    <2>1. sibling \in M /\ sibling # NULL BY <1>2, <1>4 DEF IsRed
    <2>2. IsTree(g, M, n, p) /\ Rotated(h, g, parent, sibling, Other(side), Red, Black)
      <3> HIDE DEF side
      <3> QED BY <1>1, <2>1, RotateTree
    <2>3. g.n[parent][Other(side)] = h.n[sibling][side]
      <3>1. parent \in Nodes BY InTree
      <3> HIDE DEF side, sibling, g
      <3> QED BY <1>1, <2>2, <3>1 DEF Rotated
    <2>4. h.n[sibling][side] # NULL => h.n[sibling][side] \in M BY <1>1, <2>1, ChildIn
    <2> HIDE DEF g, sibling, side
    <2> QED BY <1>3, <1>4, <2>2, <2>3, <2>4 DEF side
  <1>5. CASE ~IsRed(h, sibling) BY <1>2, <1>3, <1>5
  <1> QED BY <1>4, <1>5

LEMMA EraseTurnTree ==
  ASSUME NEW M, NEW n, NEW p, NEW h, Numbered(M, n, p), IsTree(h, M, n, p), NEW parent \in M, NEW node,
         EraseTurn(h, node, parent) # NULL
  PROVE  EraseTurn(h, node, parent).parent \in M /\ IsTree(EraseTurn(h, node, parent).h, M, n, p)
  <1> DEFINE c == Sibling(h, node, parent)
             up == c.h.n[parent].parent
             g == rb_set_parent_color(c.h, c.sibling, parent, Red)
  <1>1. IsTree(c.h, M, n, p) /\ (c.sibling # NULL => c.sibling \in M)
        /\ c.h.n[parent][Other(SideOf(h, node, parent))] = c.sibling BY SiblingTree
  <1>2. EraseTurn(h, node, parent) # NULL => /\ EraseTurn(h, node, parent) = [h |-> g, node |-> parent, parent |-> up]
                                             /\ up # NULL /\ c.sibling # NULL
    BY DEF EraseTurn
  <1>3. c.h.n[c.sibling].parent = parent
    <2>1. Other(SideOf(h, node, parent)) \in Sides BY SideIs
    <2> HIDE DEF c
    <2> QED BY <1>1, <1>2, <2>1, ChildIn
  <1>4. up \in M BY <1>1, <1>2, InTree
  <1>5. IsTree(g, M, n, p)
    <2>1. c.sibling \in Pointer /\ parent \in Pointer /\ c.h \in Heap BY <1>1, <1>2, InTree DEF Pointer
    <2> HIDE DEF c
    <2>2. SameLinks(c.h, g) BY <1>3, <2>1, PcLinks
    <2> HIDE DEF g
    <2> QED BY <1>1, <2>2, Recoloured
  <1> HIDE DEF g, up
  <1> QED BY <1>2, <1>4, <1>5

LEMMA EraseEndTree ==
  ASSUME NEW M, NEW n, NEW p, NEW h, Numbered(M, n, p), IsTree(h, M, n, p), NEW parent \in M, NEW node
  PROVE  IsTree(EraseEnd(h, node, parent), M, n, p)
  <1> DEFINE c == Sibling(h, node, parent)
             side == SideOf(h, node, parent)
             far == Other(side)
             flipped == rb_set_parent_color(c.h, c.sibling, parent, Red)
             inner == c.h.n[c.sibling][side]
             h3 == IF IsRed(c.h, c.h.n[c.sibling][far]) THEN c.h
                   ELSE Rotate(c.h, c.sibling, inner, side, Red, Black)
             top == h3.n[parent][far]
             tmp == h3.n[top][side]
             d == IF IsRed(h3, tmp) THEN Red ELSE Black
             h4 == Rotate(h3, parent, top, far, Black, d)
             last == rb_set_parent_color(h4, h4.n[top][far], top, Black)
  <1>1. IsTree(c.h, M, n, p) /\ (c.sibling # NULL => c.sibling \in M) /\ c.h.n[parent][far] = c.sibling
    BY SiblingTree
  <1>2. side \in Sides /\ far \in Sides BY SideIs
  <1>3. EraseEnd(h, node, parent)
          = IF c.sibling = NULL THEN Crash(c.h)
            ELSE IF BlackChildren(c.h, c.sibling)
              THEN IF IsRed(c.h, parent) THEN Set(flipped, parent, "color", Black) ELSE flipped
            ELSE IF top = NULL THEN Crash(h3) ELSE last
    BY DEF EraseEnd
  <1>4. IsTree(Crash(c.h), M, n, p) BY <1>1, CrashTree
  <1>5. ASSUME c.sibling # NULL
        PROVE  IsTree(flipped, M, n, p) /\ IsTree(Set(flipped, parent, "color", Black), M, n, p)
    <2>1. c.h.n[c.sibling].parent = parent
      <3> HIDE DEF c, far
      <3> QED BY <1>1, <1>2, <1>5, ChildIn
    <2>2. c.sibling \in Pointer /\ parent \in Pointer /\ c.h \in Heap BY <1>1, <1>5, InTree DEF Pointer
    <2> HIDE DEF c
    <2>3. SameLinks(c.h, flipped) BY <2>1, <2>2, PcLinks
    <2> HIDE DEF flipped
    <2>4. IsTree(flipped, M, n, p) BY <1>1, <2>3, Recoloured
    <2>5. SameLinks(flipped, Set(flipped, parent, "color", Black)) BY <2>4, InTree, ColorLinks
    <2> QED BY <2>4, <2>5, Recoloured
  <1>6. ASSUME c.sibling # NULL, ~BlackChildren(c.h, c.sibling)
        PROVE  IsTree(Crash(h3), M, n, p) /\ (top # NULL => IsTree(last, M, n, p))
    <2>2. ~IsRed(c.h, c.h.n[c.sibling][far]) => IsRed(c.h, inner)
      BY <1>6 DEF BlackChildren, SideOf, Other
    <2>4. IsTree(h3, M, n, p)
      <3>1. CASE IsRed(c.h, c.h.n[c.sibling][far]) BY <1>1, <3>1
      <3>2. CASE ~IsRed(c.h, c.h.n[c.sibling][far])
        <4>1. inner # NULL BY <2>2, <3>2 DEF IsRed
        <4>2. c.sibling \in M BY <1>1, <1>6
        <4>3. h3 = Rotate(c.h, c.sibling, inner, side, Red, Black) BY <3>2
        <4> HIDE DEF c, side, h3
        <4> QED BY <1>1, <1>2, <4>1, <4>2, <4>3, RotateTree
      <3> QED BY <3>1, <3>2
    <2> HIDE DEF h3, c, side, far
    <2>5. ASSUME top # NULL PROVE IsTree(last, M, n, p)
      <3>1. top \in M BY <1>2, <2>4, <2>5, ChildIn
      <3>2. d \in {Red, Black} OBVIOUS
      <3> HIDE DEF d
      <3>3. IsTree(h4, M, n, p) BY <1>2, <2>4, <2>5, <3>2, RotateTree
      <3> HIDE DEF h4, top
      <3>4. h4.n[top][far] # NULL => h4.n[top][far] \in M /\ h4.n[h4.n[top][far]].parent = top BY <1>2, <3>1, <3>3, ChildIn
      <3>5. h4 \in Heap /\ h4.n[top][far] \in Pointer /\ top \in Pointer BY <3>1, <3>3, <3>4, InTree DEF Pointer
      <3>6. SameLinks(h4, last) BY <3>4, <3>5, PcLinks
      <3> HIDE DEF last
      <3> QED BY <3>3, <3>6, Recoloured
    <2> HIDE DEF top, last
    <2> QED BY <2>4, <2>5, CrashTree
  <1> HIDE DEF c, side, far, flipped, inner, h3, top, tmp, d, h4, last
  <1> QED BY <1>3, <1>4, <1>5, <1>6

LEMMA EraseColorTree ==
  ASSUME NEW M, NEW n, NEW p, NEW h, Numbered(M, n, p), IsTree(h, M, n, p), NEW parent \in M
  PROVE  IsTree(____rb_erase_color(h, parent), M, n, p)
  <1> DEFINE D == [h : Heap, node : Pointer, parent : Nodes]
             f == [s \in D |-> EraseTurn(s.h, s.node, s.parent)]
             S == {s \in D : s.parent \in M /\ IsTree(s.h, M, n, p)}
             s0 == [h |-> h, node |-> NULL, parent |-> parent]
             end == Loop(f, s0)
  <1>1. f \in [D -> D \cup {NULL}] BY EraseTurnTyped
  <1>2. s0 \in S BY InTree DEF Pointer
  <1>3. ASSUME NEW s \in S PROVE f[s] = NULL \/ f[s] \in S
    <2>1. s \in D /\ s.parent \in M /\ IsTree(s.h, M, n, p) /\ f[s] = EraseTurn(s.h, s.node, s.parent) OBVIOUS
    <2>2. f[s] # NULL => f[s].parent \in M /\ IsTree(f[s].h, M, n, p) BY <2>1, EraseTurnTree
    <2> HIDE DEF f, D
    <2> QED BY <1>1, <2>1, <2>2
  <1>4. end \in S
    <2> HIDE DEF D, S, f, s0
    <2>1. S \in SUBSET D BY DEF S
    <2> QED BY <1>1, <1>2, <1>3, <2>1, LoopStays
  <1>5. ____rb_erase_color(h, parent) = EraseEnd(end.h, end.node, end.parent) BY DEF ____rb_erase_color
  <1> HIDE DEF end
  <1> QED BY <1>4, <1>5, EraseEndTree

-----------------------------------------------------------------------------
(* Linking a new member                                                    *)

\* The place of x when a new member is numbered k + 1
Shifted(M, p, t, k) == [x \in M \cup {t} |-> IF x = t THEN k + 1 ELSE IF p[x] > k THEN p[x] + 1 ELSE p[x]]

LEMMA ShiftedNumbers ==
  ASSUME NEW M, NEW n, NEW p, Numbered(M, n, p), NEW t \in Nodes, t \notin M, NEW k \in 0 .. n
  PROVE  Numbered(M \cup {t}, n + 1, Shifted(M, p, t, k))
  <1> DEFINE p2 == Shifted(M, p, t, k)
  <1>1. n \in Nat /\ M \in SUBSET Nodes /\ \A x \in M : p[x] \in 1 .. n BY DEF Numbered
  <1>2. \A x \in M : p2[x] = IF p[x] > k THEN p[x] + 1 ELSE p[x] BY DEF Shifted
  <1>3. p2[t] = k + 1 BY DEF Shifted
  <1>4. p2 \in [M \cup {t} -> 1 .. n + 1] BY <1>1 DEF Shifted
  <1> HIDE DEF p2
  <1>5. ASSUME NEW x \in M \cup {t}, NEW y \in M \cup {t}, p2[x] = p2[y] PROVE x = y
    <2>1. CASE x = t /\ y \in M BY <2>1, <1>1, <1>2, <1>3, <1>5
    <2>2. CASE y = t /\ x \in M BY <2>2, <1>1, <1>2, <1>3, <1>5
    <2>3. CASE x \in M /\ y \in M
      <3>1. p[x] \in Int /\ p[y] \in Int /\ k \in Int BY <1>1, <2>3
      <3>2. p[x] = p[y] BY <1>2, <1>5, <2>3, <3>1
      <3> QED BY <2>3, <3>2 DEF Numbered
    <2> QED BY <2>1, <2>2, <2>3
  <1>6. ASSUME NEW i \in 1 .. n + 1 PROVE \E x \in M \cup {t} : p2[x] = i
    <2>1. CASE i = k + 1 BY <1>3, <2>1
    <2>2. CASE i > k + 1
      <3>1. i - 1 \in 1 .. n BY <1>1, <2>2
      <3>2. PICK x \in M : p[x] = i - 1 BY <3>1 DEF Numbered
      <3> QED BY <1>1, <1>2, <2>2, <3>2
    <2>3. CASE i < k + 1
      <3>1. i \in 1 .. n BY <1>1, <2>3
      <3>2. PICK x \in M : p[x] = i BY <3>1 DEF Numbered
      <3> QED BY <1>1, <1>2, <2>3, <3>2
    <2> QED BY <1>1, <2>1, <2>2, <2>3
  <1>7. M \cup {t} \in SUBSET Nodes BY <1>1
  <1> QED BY <1>1, <1>4, <1>5, <1>6, <1>7 DEF Numbered, p2

\* The effect of linking t
Linking(h, g, t, parent, side) ==
  /\ g \in Heap /\ g.ok = h.ok
  /\ g.root = IF parent = NULL THEN t ELSE h.root
  /\ g.n[t].parent = parent /\ g.n[t].left = NULL /\ g.n[t].right = NULL /\ g.n[t].color = Red
  /\ \A y \in Nodes \ {t} : /\ g.n[y].parent = h.n[y].parent /\ g.n[y].color = h.n[y].color
                            /\ \A s \in Sides : g.n[y][s] = IF y = parent /\ s = side THEN t ELSE h.n[y][s]

LEMMA LinkIs ==
  ASSUME NEW h \in Heap, NEW t \in Nodes, NEW parent \in Pointer, parent # t, NEW side \in Sides
  PROVE  Linking(h, rb_link_node(h, t, parent, side), t, parent, side)
  <1> DEFINE g == rb_link_node(h, t, parent, side)
             z == [ZeroNode EXCEPT !.parent = parent]
             h1 == [h EXCEPT !.n[t] = z]
  <1>1. g \in Heap BY LinkTyped
  <1>2. z.parent = parent /\ z.left = NULL /\ z.right = NULL /\ z.color = Red /\ z \in rb_node
    BY DEF ZeroNode, rb_node, Pointer
  <1> HIDE DEF z
  <1>3. /\ h1 \in Heap /\ h1.ok = h.ok /\ h1.root = h.root /\ h1.n[t] = z
        /\ \A y \in Nodes \ {t} : h1.n[y] = h.n[y]
    BY <1>2 DEF Heap
  <1>4. g = IF parent = NULL THEN [h1 EXCEPT !.root = t] ELSE Set(h1, parent, side, t)
    BY DEF rb_link_node, z
  <1> HIDE DEF h1
  <1>5. CASE parent = NULL
    <2>1. g.root = t /\ g.n = h1.n /\ g.ok = h1.ok BY <1>3, <1>4, <1>5 DEF Heap
    <2>2. NULL \notin Nodes BY TreeAssumption
    <2> HIDE DEF g
    <2> QED BY <1>1, <1>2, <1>3, <1>5, <2>1, <2>2 DEF Linking, g
  <1>6. CASE parent # NULL
    <2>1. parent \in Nodes BY <1>6 DEF Pointer
    <2>2. /\ g.root = h1.root /\ g.ok = h1.ok
          /\ \A y \in Nodes : g.n[y].parent = h1.n[y].parent /\ g.n[y].color = h1.n[y].color
          /\ \A y \in Nodes : \A s \in Sides : g.n[y][s] = IF y = parent /\ s = side THEN t ELSE h1.n[y][s]
      BY <1>3, <1>4, <1>6, <2>1 DEF Set, Heap, rb_node, Sides
    <2>3. g.n[t]["left"] = h1.n[t]["left"] /\ g.n[t]["right"] = h1.n[t]["right"] BY <2>2 DEF Sides
    <2> HIDE DEF g
    <2>4. g.n[t].parent = parent /\ g.n[t].left = NULL /\ g.n[t].right = NULL /\ g.n[t].color = Red
      BY <1>2, <1>3, <2>2, <2>3
    <2>5. g.root = h.root /\ g.ok = h.ok BY <1>3, <2>2
    <2> QED BY <1>1, <1>3, <1>6, <2>2, <2>4, <2>5 DEF Linking, g
  <1> QED BY <1>5, <1>6

\* Where a new member goes: below parent, where nothing is
FreePlace(h, M, n, p, k, parent, side) ==
  /\ side \in Sides
  /\ parent = NULL => M = {}
  /\ parent # NULL => parent \in M /\ h.n[parent][side] = NULL /\ p[parent] = IF side = "left" THEN k + 1 ELSE k

LEMMA LinkTree ==
  ASSUME NEW M, NEW n, NEW p, NEW h, Numbered(M, n, p), IsTree(h, M, n, p), NEW t \in Nodes, t \notin M,
         NEW k \in 0 .. n, NEW parent, NEW side, FreePlace(h, M, n, p, k, parent, side)
  PROVE  IsTree(rb_link_node(h, t, parent, side), M \cup {t}, n + 1, Shifted(M, p, t, k))
  <1> DEFINE M2 == M \cup {t}
             p2 == Shifted(M, p, t, k)
             a == IF side = "left" THEN k + 1 ELSE k
  <1>1. PICK lo, hi : Tree(h, M, n, p, lo, hi) BY DEF IsTree
  <1> DEFINE lo2 == [x \in M2 |-> IF x = t THEN k + 1 ELSE IF lo[x] > a THEN lo[x] + 1 ELSE lo[x]]
             hi2 == [x \in M2 |-> IF x = t THEN k + 1 ELSE IF hi[x] >= a THEN hi[x] + 1 ELSE hi[x]]
  <1>2. PICK g : g = rb_link_node(h, t, parent, side) OBVIOUS
  <1>3. n \in Nat /\ k \in Int /\ a \in Int /\ (a = k \/ a = k + 1) BY DEF Numbered
  <1>4. M \in SUBSET Nodes /\ NULL \notin M /\ h \in Heap /\ t # NULL BY InTree, TreeAssumption
  <1>5. parent \in Pointer /\ parent # t BY <1>4 DEF FreePlace, Pointer
  <1>6. Linking(h, g, t, parent, side) BY <1>2, <1>4, <1>5, LinkIs DEF FreePlace
  <1>7. /\ \A x \in M : p2[x] = (IF p[x] > k THEN p[x] + 1 ELSE p[x])
        /\ p2[t] = k + 1
    BY DEF Shifted
  <1>8. \A x \in M : /\ lo[x] \in 1 .. n /\ hi[x] \in 1 .. n /\ p[x] \in 1 .. n
                     /\ Below(h, M, p, lo, hi, x) /\ Hangs(h, M, x)
    BY <1>1 DEF Tree, Numbered
  <1>9. /\ lo2 \in [M2 -> 1 .. n + 1] /\ hi2 \in [M2 -> 1 .. n + 1]
        /\ \A x \in M : /\ lo2[x] = IF lo[x] > a THEN lo[x] + 1 ELSE lo[x]
                        /\ hi2[x] = IF hi[x] >= a THEN hi[x] + 1 ELSE hi[x]
        /\ lo2[t] = k + 1 /\ hi2[t] = k + 1
    <2>1. \A x \in M : /\ (IF lo[x] > a THEN lo[x] + 1 ELSE lo[x]) \in 1 .. n + 1
                       /\ (IF hi[x] >= a THEN hi[x] + 1 ELSE hi[x]) \in 1 .. n + 1
      BY <1>3, <1>8
    <2>2. k + 1 \in 1 .. n + 1 BY <1>3
    <2> QED BY <2>1, <2>2
  <1> HIDE DEF lo2, hi2, p2
  <1>10. \A x \in M : /\ g.n[x].parent = h.n[x].parent
                      /\ g.n[x].left = IF x = parent /\ side = "left" THEN t ELSE h.n[x].left
                      /\ g.n[x].right = IF x = parent /\ side = "right" THEN t ELSE h.n[x].right
    <2>1. \A x \in M : /\ g.n[x]["left"] = IF x = parent /\ "left" = side THEN t ELSE h.n[x]["left"]
                       /\ g.n[x]["right"] = IF x = parent /\ "right" = side THEN t ELSE h.n[x]["right"]
      BY <1>4, <1>6 DEF Linking, Sides
    <2> QED BY <2>1, <1>4, <1>6 DEF Linking
  <1>11. ASSUME parent # NULL
         PROVE  parent \in M /\ p[parent] = a /\ side \in Sides
                /\ (side = "left" => h.n[parent].left = NULL) /\ (side = "right" => h.n[parent].right = NULL)
    BY <1>11 DEF FreePlace
  <1>12. \A x \in M : p[x] = a => x = parent
    <2>1. ASSUME NEW x \in M, p[x] = a PROVE x = parent
      <3>1. parent # NULL BY DEF FreePlace
      <3> QED BY <2>1, <3>1, <1>11 DEF Numbered
    <2> QED BY <2>1
  <1> HIDE DEF a
  <1>13. ASSUME NEW x \in M PROVE Below(g, M2, p2, lo2, hi2, x)
    <2>1. Below(h, M, p, lo, hi, x) BY <1>8
    <2>2. /\ lo[x] \in Int /\ hi[x] \in Int /\ p[x] \in Int /\ lo[x] <= p[x] /\ p[x] <= hi[x] BY <1>8, <2>1 DEF Below
    <2>3. lo2[x] <= p2[x] /\ p2[x] <= hi2[x]
      BY <1>3, <1>7, <1>9, <2>2
    <2>4. ASSUME g.n[x].left = NULL PROVE lo2[x] = p2[x]
      <3>1. h.n[x].left = NULL /\ ~(x = parent /\ side = "left") BY <1>4, <1>10, <2>4
      <3>2. lo[x] = p[x] BY <2>1, <3>1 DEF Below
      <3>3. side = "left" => p[x] # a BY <1>12, <3>1
      <3>4. side # "left" => a = k BY DEF a
      <3>5. side = "left" => a = k + 1 BY DEF a
      <3> QED BY <1>3, <1>7, <1>9, <2>2, <3>2, <3>3, <3>4, <3>5
    <2>5. ASSUME g.n[x].right = NULL PROVE hi2[x] = p2[x]
      <3>1. h.n[x].right = NULL /\ ~(x = parent /\ side = "right") BY <1>4, <1>10, <2>5
      <3>2. hi[x] = p[x] BY <2>1, <3>1 DEF Below
      <3>3. side # "left" => p[x] # a BY <1>12, <3>1 DEF FreePlace, Sides
      <3>4. side # "left" => a = k BY DEF a
      <3>5. side = "left" => a = k + 1 BY DEF a
      <3> QED BY <1>3, <1>7, <1>9, <2>2, <3>2, <3>3, <3>4, <3>5
    <2>6. ASSUME g.n[x].left # NULL
          PROVE  LET l == g.n[x].left IN l \in M2 /\ g.n[l].parent = x /\ lo2[l] = lo2[x] /\ hi2[l] = p2[x] - 1
      <3>1. CASE x = parent /\ side = "left"
        <4>1. g.n[x].left = t /\ g.n[t].parent = x BY <1>6, <1>10, <3>1 DEF Linking
        <4>2. a = k + 1 /\ p[x] = a BY <1>4, <1>11, <3>1 DEF a
        <4>3. lo[x] = p[x] BY <1>4, <1>11, <2>1, <3>1 DEF Below
        <4> QED BY <1>3, <1>7, <1>9, <2>2, <4>1, <4>2, <4>3
      <3>2. CASE ~(x = parent /\ side = "left")
        <4> DEFINE l == h.n[x].left
        <4>1. g.n[x].left = l /\ l # NULL BY <1>10, <2>6, <3>2
        <4>2. l \in M /\ h.n[l].parent = x /\ lo[l] = lo[x] /\ hi[l] = p[x] - 1 BY <2>1, <4>1 DEF Below
        <4>3. p[x] # a \/ side # "left" BY <1>12, <3>2
        <4>4. (side # "left" => a = k) /\ (side = "left" => a = k + 1) BY DEF a
        <4> HIDE DEF l
        <4>5. lo2[l] = lo2[x] /\ hi2[l] = p2[x] - 1 BY <1>3, <1>7, <1>9, <2>2, <4>2, <4>3, <4>4
        <4> QED BY <4>1, <4>2, <4>5, <1>10
      <3> QED BY <3>1, <3>2
    <2>7. ASSUME g.n[x].right # NULL
          PROVE  LET r == g.n[x].right IN r \in M2 /\ g.n[r].parent = x /\ hi2[r] = hi2[x] /\ lo2[r] = p2[x] + 1
      <3>1. CASE x = parent /\ side = "right"
        <4>1. g.n[x].right = t /\ g.n[t].parent = x BY <1>6, <1>10, <3>1 DEF Linking
        <4>2. a = k /\ p[x] = a BY <1>4, <1>11, <3>1 DEF a
        <4>3. hi[x] = p[x] BY <1>4, <1>11, <2>1, <3>1 DEF Below
        <4> QED BY <1>3, <1>7, <1>9, <2>2, <4>1, <4>2, <4>3
      <3>2. CASE ~(x = parent /\ side = "right")
        <4> DEFINE r == h.n[x].right
        <4>1. g.n[x].right = r /\ r # NULL BY <1>10, <2>7, <3>2
        <4>2. r \in M /\ h.n[r].parent = x /\ hi[r] = hi[x] /\ lo[r] = p[x] + 1 BY <2>1, <4>1 DEF Below
        <4>3. p[x] # a \/ side = "left" BY <1>12, <3>2 DEF FreePlace, Sides
        <4>4. (side # "left" => a = k) /\ (side = "left" => a = k + 1) BY DEF a
        <4> HIDE DEF r
        <4>5. hi2[r] = hi2[x] /\ lo2[r] = p2[x] + 1 BY <1>3, <1>7, <1>9, <2>2, <4>2, <4>3, <4>4
        <4> QED BY <4>1, <4>2, <4>5, <1>10
      <3> QED BY <3>1, <3>2
    <2> QED BY <2>3, <2>4, <2>5, <2>6, <2>7 DEF Below
  <1>14. Below(g, M2, p2, lo2, hi2, t)
    <2>1. g.n[t].left = NULL /\ g.n[t].right = NULL BY <1>6 DEF Linking
    <2> QED BY <2>1, <1>3, <1>7, <1>9 DEF Below
  <1>15. ASSUME NEW x \in M2 PROVE Hangs(g, M2, x)
    <2>1. CASE x = t
      <3>1. g.n[t].parent = parent BY <1>6 DEF Linking
      <3>2. parent = NULL => g.root = t BY <1>6 DEF Linking
      <3>3. parent # NULL => parent \in M /\ t \in {g.n[parent].left, g.n[parent].right}
        BY <1>10, <1>11 DEF Sides
      <3> QED BY <2>1, <3>1, <3>2, <3>3 DEF Hangs
    <2>2. CASE x \in M
      <3>1. Hangs(h, M, x) /\ g.n[x].parent = h.n[x].parent BY <1>8, <1>10, <2>2
      <3>2. parent # NULL /\ g.root = h.root BY <1>6, <2>2 DEF FreePlace, Linking
      <3>3. CASE h.n[x].parent = NULL BY <3>1, <3>2, <3>3 DEF Hangs
      <3>4. CASE h.n[x].parent # NULL
        <4> DEFINE q == h.n[x].parent
        <4>1. q \in M /\ x \in {h.n[q].left, h.n[q].right} /\ x # NULL BY <1>4, <2>2, <3>1, <3>4 DEF Hangs
        <4> HIDE DEF q
        <4>2. x \in {g.n[q].left, g.n[q].right} BY <4>1, <1>10, <1>11, <3>2
        <4> QED BY <3>1, <3>4, <4>1, <4>2 DEF Hangs, q
      <3> QED BY <3>3, <3>4
    <2> QED BY <2>1, <2>2
  <1>16. Rooted(g, M2, n + 1, lo2, hi2)
    <2>1. CASE parent = NULL
      <3>1. M = {} BY <2>1 DEF FreePlace
      <3>2. n = 0
        <4>1. Rooted(h, M, n, lo, hi) BY <1>1 DEF Tree
        <4> QED BY <3>1, <4>1 DEF Rooted
      <3>3. g.root = t /\ g.n[t].parent = NULL BY <1>6, <2>1 DEF Linking
      <3>4. k = 0 BY <3>2
      <3> QED BY <1>4, <1>9, <3>2, <3>3, <3>4 DEF Rooted
    <2>2. CASE parent # NULL
      <3>1. g.root = h.root /\ parent \in M BY <1>6, <1>11, <2>2 DEF Linking
      <3>2. Rooted(h, M, n, lo, hi) BY <1>1 DEF Tree
      <3>3. h.root # NULL /\ h.root \in M /\ h.n[h.root].parent = NULL /\ lo[h.root] = 1 /\ hi[h.root] = n
        BY <3>1, <3>2 DEF Rooted
      <3>4. a \in 1 .. n BY <1>8, <1>11, <2>2
      <3>5. lo2[h.root] = 1 /\ hi2[h.root] = n + 1 BY <1>3, <1>9, <3>3, <3>4
      <3> QED BY <1>10, <3>1, <3>3, <3>5 DEF Rooted
    <2> QED BY <2>1, <2>2
  <1>17. Tree(g, M2, n + 1, p2, lo2, hi2) BY <1>6, <1>9, <1>13, <1>14, <1>15, <1>16 DEF Tree, Linking
  <1> QED BY <1>2, <1>17 DEF IsTree, p2

-----------------------------------------------------------------------------
(* Looking for a member or for a place                                     *)

LEMMA Bounded ==
  ASSUME NEW M, NEW n, NEW p, Numbered(M, n, p)
  PROVE  n <= Cardinality(Nodes) /\ Cardinality(Nodes) \in Nat /\ n \in Nat
  <1>1. IsFiniteSet(M) /\ Cardinality(M) <= Cardinality(Nodes) /\ Cardinality(M) \in Nat /\ Cardinality(Nodes) \in Nat
    BY TreeAssumption, FS_Subset, FS_CardinalityType DEF Numbered
  <1>2. p \in Surjection(M, 1 .. n) BY DEF Numbered, Surjection
  <1>3. Cardinality(1 .. n) <= Cardinality(M) BY <1>1, <1>2, FS_Surjection
  <1>4. n \in Nat BY DEF Numbered
  <1>5. Cardinality(1 .. n) = n BY <1>4, FS_Interval
  <1> QED BY <1>1, <1>3, <1>4, <1>5

\* The way down on one side ends at the last node of the subtree there.
LEMMA DescendleftIs ==
  ASSUME NEW M, NEW n, NEW p, NEW lo, NEW hi, NEW h, Numbered(M, n, p), Tree(h, M, n, p, lo, hi), NEW x \in M
  PROVE  Descend(h, x, "left") \in M /\ p[Descend(h, x, "left")] = lo[x]
  <1> DEFINE f == [y \in Nodes |-> h.n[y].left]
             S == {y \in M : lo[y] = lo[x]}
             m == [y \in S |-> hi[y] - lo[y]]
             z == Loop(f, x)
  <1>1. h \in Heap /\ M \in SUBSET Nodes /\ n <= Cardinality(Nodes) /\ Cardinality(Nodes) \in Nat
    BY Bounded DEF Numbered, Tree
  <1>2. f \in [Nodes -> Nodes \cup {NULL}] BY <1>1, Field DEF Pointer, Sides
  <1>3. \A y \in M : /\ lo[y] \in Int /\ hi[y] \in Int /\ p[y] \in Int /\ n \in Nat /\ Below(h, M, p, lo, hi, y)
                     /\ 1 <= lo[y] /\ lo[y] <= p[y] /\ p[y] <= hi[y] /\ hi[y] <= n /\ f[y] = h.n[y].left
    BY <1>1, Numbers
  <1> HIDE DEF f
  <1>4. S \in SUBSET Nodes /\ x \in S BY <1>1
  <1>5. m \in [S -> Nat] /\ m[x] <= Cardinality(Nodes)
    <2>1. \A y \in S : hi[y] - lo[y] \in Nat /\ hi[y] - lo[y] <= n BY <1>3
    <2>2. m \in [S -> Nat] /\ m[x] = hi[x] - lo[x] BY <1>4, <2>1
    <2>3. m[x] <= n BY <1>4, <2>1, <2>2
    <2> HIDE DEF m
    <2> QED BY <1>1, <1>3, <1>4, <2>2, <2>3
  <1>6. ASSUME NEW y \in S, f[y] # NULL PROVE f[y] \in S /\ m[f[y]] < m[y]
    <2>1. f[y] \in M /\ lo[f[y]] \in Int /\ hi[f[y]] \in Int BY <1>3, <1>6 DEF Below
    <2>2. lo[f[y]] = lo[y] /\ hi[f[y]] - lo[f[y]] < hi[y] - lo[y] BY <1>3, <1>6, <2>1 DEF Below
    <2> QED BY <2>1, <2>2, <1>6
  <1>7. z \in S /\ f[z] = NULL
    <2> HIDE DEF S, m
    <2> QED BY <1>2, <1>4, <1>5, <1>6, LoopStays, LoopEnds
  <1>8. Descend(h, x, "left") = z BY DEF Descend, f
  <1> HIDE DEF z
  <1>9. z \in M /\ h.n[z].left = NULL /\ lo[z] = lo[x] BY <1>3, <1>7
  <1>10. lo[z] = p[z] BY <1>3, <1>9 DEF Below
  <1> QED BY <1>8, <1>9, <1>10

\* The nearest ancestor of which x is not on that side follows the subtree.
LEMMA AscendleftIs ==
  ASSUME NEW M, NEW n, NEW p, NEW lo, NEW hi, NEW h, Numbered(M, n, p), Tree(h, M, n, p, lo, hi), NEW x \in M
  PROVE  LET u == Ascend(h, x, "left")
         IN IF lo[x] = 1 THEN u = NULL ELSE u \in M /\ p[u] = lo[x] - 1
  <1> DEFINE Up(y) == IF h.n[y].parent # NULL /\ y = h.n[h.n[y].parent].left THEN h.n[y].parent ELSE NULL
             f == [y \in Nodes |-> Up(y)]
             S == {y \in M : lo[y] = lo[x]}
             m == [y \in S |-> n - hi[y]]
             z == Loop(f, x)
             u == h.n[z].parent
  <1>1. h \in Heap /\ M \in SUBSET Nodes /\ n <= Cardinality(Nodes) /\ Cardinality(Nodes) \in Nat
    BY Bounded DEF Numbered, Tree
  <1>2. f \in [Nodes -> Nodes \cup {NULL}] BY <1>1, Field DEF Pointer, Sides
  <1>3. \A y \in M : /\ lo[y] \in Int /\ hi[y] \in Int /\ p[y] \in Int /\ n \in Nat /\ Below(h, M, p, lo, hi, y) /\ Hangs(h, M, y)
                     /\ 1 <= lo[y] /\ lo[y] <= p[y] /\ p[y] <= hi[y] /\ hi[y] <= n /\ f[y] = Up(y)
    BY <1>1, Numbers
  <1> HIDE DEF f
  <1>4. S \in SUBSET Nodes /\ x \in S BY <1>1
  <1>5. m \in [S -> Nat] /\ m[x] <= Cardinality(Nodes)
    <2>1. \A y \in S : n - hi[y] \in Nat /\ n - hi[y] <= n BY <1>3
    <2>2. m \in [S -> Nat] /\ m[x] <= n BY <1>4, <2>1
    <2> HIDE DEF m
    <2> QED BY <1>1, <1>3, <1>4, <2>2
  <1>6. ASSUME NEW y \in S, f[y] # NULL PROVE f[y] \in S /\ m[f[y]] < m[y]
    <2>1. f[y] = h.n[y].parent /\ f[y] # NULL /\ y = h.n[f[y]].left BY <1>3, <1>6
    <2>2. f[y] \in M BY <1>3, <1>6, <2>1 DEF Hangs
    <2>3. y # NULL BY <1>1, TreeAssumption
    <2>4. /\ lo[f[y]] = lo[y] /\ hi[f[y]] \in Int /\ hi[y] \in Int
          /\ IF "left" = "right" THEN lo[f[y]] < lo[y] ELSE hi[f[y]] > hi[y]
      BY <1>3, <1>6, <2>1, <2>2, <2>3 DEF Below
    <2> QED BY <2>2, <2>4, <1>3, <1>6
  <1>7. z \in S /\ f[z] = NULL
    <2> HIDE DEF S, m
    <2> QED BY <1>2, <1>4, <1>5, <1>6, LoopStays, LoopEnds
  <1>8. Ascend(h, x, "left") = u BY DEF Ascend, f
  <1> HIDE DEF z
  <1>9. z \in M /\ lo[z] = lo[x] /\ (u # NULL => z # h.n[u].left) BY <1>3, <1>7
  <1>10. CASE u = NULL
    <2>1. z = h.root BY <1>3, <1>9, <1>10 DEF Hangs
    <2>2. z # NULL BY <1>1, <1>9, TreeAssumption
    <2>3. lo[z] = 1 BY <2>1, <2>2 DEF Tree, Rooted
    <2> QED BY <1>8, <1>9, <1>10, <2>3
  <1>11. CASE u # NULL
    <2>1. u \in M /\ z \in {h.n[u].left, h.n[u].right} BY <1>3, <1>9, <1>11 DEF Hangs
    <2>2. z = h.n[u].right /\ z # NULL BY <1>1, <1>9, <1>11, <2>1, TreeAssumption
    <2> HIDE DEF u
    <2>3. lo[z] = p[u] + 1 BY <1>3, <1>9, <2>1, <2>2 DEF Below
    <2>4. p[u] = lo[x] - 1 /\ lo[x] # 1 BY <1>3, <1>9, <2>1, <2>3
    <2> QED BY <1>8, <2>1, <2>4 DEF u
  <1> QED BY <1>10, <1>11

\* The way down on one side ends at the last node of the subtree there.
LEMMA DescendrightIs ==
  ASSUME NEW M, NEW n, NEW p, NEW lo, NEW hi, NEW h, Numbered(M, n, p), Tree(h, M, n, p, lo, hi), NEW x \in M
  PROVE  Descend(h, x, "right") \in M /\ p[Descend(h, x, "right")] = hi[x]
  <1> DEFINE f == [y \in Nodes |-> h.n[y].right]
             S == {y \in M : hi[y] = hi[x]}
             m == [y \in S |-> hi[y] - lo[y]]
             z == Loop(f, x)
  <1>1. h \in Heap /\ M \in SUBSET Nodes /\ n <= Cardinality(Nodes) /\ Cardinality(Nodes) \in Nat
    BY Bounded DEF Numbered, Tree
  <1>2. f \in [Nodes -> Nodes \cup {NULL}] BY <1>1, Field DEF Pointer, Sides
  <1>3. \A y \in M : /\ lo[y] \in Int /\ hi[y] \in Int /\ p[y] \in Int /\ n \in Nat /\ Below(h, M, p, lo, hi, y)
                     /\ 1 <= lo[y] /\ lo[y] <= p[y] /\ p[y] <= hi[y] /\ hi[y] <= n /\ f[y] = h.n[y].right
    BY <1>1, Numbers
  <1> HIDE DEF f
  <1>4. S \in SUBSET Nodes /\ x \in S BY <1>1
  <1>5. m \in [S -> Nat] /\ m[x] <= Cardinality(Nodes)
    <2>1. \A y \in S : hi[y] - lo[y] \in Nat /\ hi[y] - lo[y] <= n BY <1>3
    <2>2. m \in [S -> Nat] /\ m[x] = hi[x] - lo[x] BY <1>4, <2>1
    <2>3. m[x] <= n BY <1>4, <2>1, <2>2
    <2> HIDE DEF m
    <2> QED BY <1>1, <1>3, <1>4, <2>2, <2>3
  <1>6. ASSUME NEW y \in S, f[y] # NULL PROVE f[y] \in S /\ m[f[y]] < m[y]
    <2>1. f[y] \in M /\ lo[f[y]] \in Int /\ hi[f[y]] \in Int BY <1>3, <1>6 DEF Below
    <2>2. hi[f[y]] = hi[y] /\ hi[f[y]] - lo[f[y]] < hi[y] - lo[y] BY <1>3, <1>6, <2>1 DEF Below
    <2> QED BY <2>1, <2>2, <1>6
  <1>7. z \in S /\ f[z] = NULL
    <2> HIDE DEF S, m
    <2> QED BY <1>2, <1>4, <1>5, <1>6, LoopStays, LoopEnds
  <1>8. Descend(h, x, "right") = z BY DEF Descend, f
  <1> HIDE DEF z
  <1>9. z \in M /\ h.n[z].right = NULL /\ hi[z] = hi[x] BY <1>3, <1>7
  <1>10. hi[z] = p[z] BY <1>3, <1>9 DEF Below
  <1> QED BY <1>8, <1>9, <1>10

\* The nearest ancestor of which x is not on that side follows the subtree.
LEMMA AscendrightIs ==
  ASSUME NEW M, NEW n, NEW p, NEW lo, NEW hi, NEW h, Numbered(M, n, p), Tree(h, M, n, p, lo, hi), NEW x \in M
  PROVE  LET u == Ascend(h, x, "right")
         IN IF hi[x] = n THEN u = NULL ELSE u \in M /\ p[u] = hi[x] + 1
  <1> DEFINE Up(y) == IF h.n[y].parent # NULL /\ y = h.n[h.n[y].parent].right THEN h.n[y].parent ELSE NULL
             f == [y \in Nodes |-> Up(y)]
             S == {y \in M : hi[y] = hi[x]}
             m == [y \in S |-> lo[y]]
             z == Loop(f, x)
             u == h.n[z].parent
  <1>1. h \in Heap /\ M \in SUBSET Nodes /\ n <= Cardinality(Nodes) /\ Cardinality(Nodes) \in Nat
    BY Bounded DEF Numbered, Tree
  <1>2. f \in [Nodes -> Nodes \cup {NULL}] BY <1>1, Field DEF Pointer, Sides
  <1>3. \A y \in M : /\ lo[y] \in Int /\ hi[y] \in Int /\ p[y] \in Int /\ n \in Nat /\ Below(h, M, p, lo, hi, y) /\ Hangs(h, M, y)
                     /\ 1 <= lo[y] /\ lo[y] <= p[y] /\ p[y] <= hi[y] /\ hi[y] <= n /\ f[y] = Up(y)
    BY <1>1, Numbers
  <1> HIDE DEF f
  <1>4. S \in SUBSET Nodes /\ x \in S BY <1>1
  <1>5. m \in [S -> Nat] /\ m[x] <= Cardinality(Nodes)
    <2>1. \A y \in S : lo[y] \in Nat /\ lo[y] <= n BY <1>3
    <2>2. m \in [S -> Nat] /\ m[x] <= n BY <1>4, <2>1
    <2> HIDE DEF m
    <2> QED BY <1>1, <1>3, <1>4, <2>2
  <1>6. ASSUME NEW y \in S, f[y] # NULL PROVE f[y] \in S /\ m[f[y]] < m[y]
    <2>1. f[y] = h.n[y].parent /\ f[y] # NULL /\ y = h.n[f[y]].right BY <1>3, <1>6
    <2>2. f[y] \in M BY <1>3, <1>6, <2>1 DEF Hangs
    <2>3. y # NULL BY <1>1, TreeAssumption
    <2>4. /\ hi[f[y]] = hi[y] /\ lo[f[y]] \in Int /\ lo[y] \in Int
          /\ IF "right" = "right" THEN lo[f[y]] < lo[y] ELSE hi[f[y]] > hi[y]
      BY <1>3, <1>6, <2>1, <2>2, <2>3 DEF Below
    <2> QED BY <2>2, <2>4, <1>3, <1>6
  <1>7. z \in S /\ f[z] = NULL
    <2> HIDE DEF S, m
    <2> QED BY <1>2, <1>4, <1>5, <1>6, LoopStays, LoopEnds
  <1>8. Ascend(h, x, "right") = u BY DEF Ascend, f
  <1> HIDE DEF z
  <1>9. z \in M /\ hi[z] = hi[x] /\ (u # NULL => z # h.n[u].right) BY <1>3, <1>7
  <1>10. CASE u = NULL
    <2>1. z = h.root BY <1>3, <1>9, <1>10 DEF Hangs
    <2>2. z # NULL BY <1>1, <1>9, TreeAssumption
    <2>3. hi[z] = n BY <2>1, <2>2 DEF Tree, Rooted
    <2> QED BY <1>8, <1>9, <1>10, <2>3
  <1>11. CASE u # NULL
    <2>1. u \in M /\ z \in {h.n[u].left, h.n[u].right} BY <1>3, <1>9, <1>11 DEF Hangs
    <2>2. z = h.n[u].left /\ z # NULL BY <1>1, <1>9, <1>11, <2>1, TreeAssumption
    <2> HIDE DEF u
    <2>3. hi[z] = p[u] - 1 BY <1>3, <1>9, <2>1, <2>2 DEF Below
    <2>4. p[u] = hi[x] + 1 /\ hi[x] # n BY <1>3, <1>9, <2>1, <2>3
    <2> QED BY <1>8, <2>1, <2>4 DEF u
  <1> QED BY <1>10, <1>11

LEMMA NeighbourleftIs ==
  ASSUME NEW M, NEW n, NEW p, NEW h, Numbered(M, n, p), IsTree(h, M, n, p), NEW x \in M
  PROVE  LET u == rb_prev(h, x) IN IF p[x] = 1 THEN u = NULL ELSE u \in M /\ p[u] = p[x] - 1
  <1>1. PICK lo, hi : Tree(h, M, n, p, lo, hi) BY DEF IsTree
  <1>2. /\ Below(h, M, p, lo, hi, x) /\ p[x] \in Int /\ lo[x] \in Int /\ hi[x] \in Int BY <1>1, Numbers
  <1>3. rb_prev(h, x) = IF h.n[x].left # NULL THEN Descend(h, h.n[x].left, "right") ELSE Ascend(h, x, "left")
    BY DEF rb_prev, Neighbour, Other
  <1>4. CASE h.n[x].left = NULL
    <2>1. lo[x] = p[x] BY <1>2, <1>4 DEF Below
    <2>2. rb_prev(h, x) = Ascend(h, x, "left") BY <1>3, <1>4
    <2>3. LET u == Ascend(h, x, "left") IN IF lo[x] = 1 THEN u = NULL ELSE u \in M /\ p[u] = lo[x] - 1
      BY <1>1, AscendleftIs
    <2> QED BY <2>1, <2>2, <2>3
  <1>5. CASE h.n[x].left # NULL
    <2> DEFINE r == h.n[x].left
    <2>1. r \in M /\ hi[r] = p[x] - 1 BY <1>2, <1>5 DEF Below
    <2>2. hi[r] \in Int /\ hi[r] \in 1 .. n BY <1>1, <2>1 DEF Tree
    <2>3. Descend(h, r, "right") \in M /\ p[Descend(h, r, "right")] = hi[r] BY <1>1, <2>1, DescendrightIs
    <2>4. p[x] # 1 BY <1>2, <2>1, <2>2
    <2> QED BY <1>3, <1>5, <2>1, <2>3, <2>4
  <1> QED BY <1>4, <1>5

LEMMA NeighbourrightIs ==
  ASSUME NEW M, NEW n, NEW p, NEW h, Numbered(M, n, p), IsTree(h, M, n, p), NEW x \in M
  PROVE  LET u == rb_next(h, x) IN IF p[x] = n THEN u = NULL ELSE u \in M /\ p[u] = p[x] + 1
  <1>1. PICK lo, hi : Tree(h, M, n, p, lo, hi) BY DEF IsTree
  <1>2. /\ Below(h, M, p, lo, hi, x) /\ p[x] \in Int /\ lo[x] \in Int /\ hi[x] \in Int BY <1>1, Numbers
  <1>3. rb_next(h, x) = IF h.n[x].right # NULL THEN Descend(h, h.n[x].right, "left") ELSE Ascend(h, x, "right")
    BY DEF rb_next, Neighbour, Other
  <1>4. CASE h.n[x].right = NULL
    <2>1. hi[x] = p[x] BY <1>2, <1>4 DEF Below
    <2>2. rb_next(h, x) = Ascend(h, x, "right") BY <1>3, <1>4
    <2>3. LET u == Ascend(h, x, "right") IN IF hi[x] = n THEN u = NULL ELSE u \in M /\ p[u] = hi[x] + 1
      BY <1>1, AscendrightIs
    <2> QED BY <2>1, <2>2, <2>3
  <1>5. CASE h.n[x].right # NULL
    <2> DEFINE r == h.n[x].right
    <2>1. r \in M /\ lo[r] = p[x] + 1 BY <1>2, <1>5 DEF Below
    <2>2. lo[r] \in Int /\ lo[r] \in 1 .. n BY <1>1, <2>1 DEF Tree
    <2>3. Descend(h, r, "left") \in M /\ p[Descend(h, r, "left")] = lo[r] BY <1>1, <2>1, DescendleftIs
    <2>4. p[x] # n BY <1>2, <2>1, <2>2
    <2> QED BY <1>3, <1>5, <2>1, <2>3, <2>4
  <1> QED BY <1>4, <1>5

\* The descent for a key ends where the key belongs.
LEMMA PlaceIs ==
  ASSUME NEW M, NEW n, NEW p, NEW h, Numbered(M, n, p), IsTree(h, M, n, p), h.root # NULL,
         NEW vr, NEW key, NEW k \in 0 .. n, \A x \in M : key < vr[x] <=> p[x] > k
  PROVE  LET place == Place(h, key, vr) IN FreePlace(h, M, n, p, k, place.parent, place.side)
  <1> DEFINE Side(x) == IF key < vr[x] THEN "left" ELSE "right"
             f == [x \in Nodes |-> h.n[x][Side(x)]]
             z == Loop(f, h.root)
  <1>1. PICK lo, hi : Tree(h, M, n, p, lo, hi) BY DEF IsTree
  <1> DEFINE S == {y \in M : lo[y] - 1 <= k /\ k <= hi[y]}
             m == [y \in S |-> hi[y] - lo[y]]
  <1>2. h \in Heap /\ M \in SUBSET Nodes /\ n <= Cardinality(Nodes) /\ Cardinality(Nodes) \in Nat /\ n \in Nat /\ k \in Int
    BY <1>1, Bounded DEF Numbered, Tree
  <1>3. f \in [Nodes -> Nodes \cup {NULL}] BY <1>2, Field DEF Pointer, Sides
  <1>4. \A y \in M : /\ lo[y] \in Int /\ hi[y] \in Int /\ p[y] \in Int /\ Below(h, M, p, lo, hi, y)
                     /\ 1 <= lo[y] /\ lo[y] <= p[y] /\ p[y] <= hi[y] /\ hi[y] <= n
                     /\ Side(y) = (IF p[y] > k THEN "left" ELSE "right")
                     /\ f[y] = IF p[y] > k THEN h.n[y].left ELSE h.n[y].right
    BY <1>1, <1>2, Numbers
  <1>5. h.root \in S
    <2>1. h.root \in M /\ lo[h.root] = 1 /\ hi[h.root] = n BY <1>1 DEF Tree, Rooted
    <2> QED BY <2>1, <1>2
  <1>6. Place(h, key, vr) = [parent |-> z, side |-> Side(z)] BY DEF Place
  <1> HIDE DEF f, Side
  <1>7. m \in [S -> Nat] /\ m[h.root] <= Cardinality(Nodes)
    <2>1. \A y \in S : hi[y] - lo[y] \in Nat /\ hi[y] - lo[y] <= n BY <1>2, <1>4
    <2>2. m \in [S -> Nat] /\ m[h.root] = hi[h.root] - lo[h.root] BY <1>5, <2>1
    <2>3. m[h.root] <= n BY <1>5, <2>1, <2>2
    <2> HIDE DEF m
    <2> QED BY <1>2, <1>5, <2>2, <2>3
  <1>8. ASSUME NEW y \in S, f[y] # NULL PROVE f[y] \in S /\ m[f[y]] < m[y]
    <2>1. f[y] \in M /\ lo[f[y]] \in Int /\ hi[f[y]] \in Int BY <1>4, <1>8 DEF Below
    <2>2. /\ lo[f[y]] - 1 <= k /\ k <= hi[f[y]]
          /\ hi[f[y]] - lo[f[y]] < hi[y] - lo[y]
      BY <1>2, <1>4, <1>8, <2>1 DEF Below
    <2> QED BY <2>1, <2>2, <1>8
  <1>9. z \in S /\ f[z] = NULL
    <2>1. S \in SUBSET Nodes BY <1>2
    <2> HIDE DEF S, m
    <2> QED BY <1>3, <1>5, <1>7, <1>8, <2>1, LoopStays, LoopEnds
  <1> HIDE DEF z
  <1>10. z \in M /\ z # NULL BY <1>2, <1>9, TreeAssumption
  <1>11. CASE p[z] > k
    <2>1. Side(z) = "left" /\ h.n[z].left = NULL BY <1>4, <1>9, <1>10, <1>11
    <2>2. lo[z] = p[z] BY <1>4, <1>10, <2>1 DEF Below
    <2>3. p[z] = k + 1 BY <1>2, <1>4, <1>9, <1>10, <1>11, <2>2
    <2> QED BY <1>6, <1>10, <2>1, <2>3 DEF FreePlace, Sides
  <1>12. CASE ~(p[z] > k)
    <2>1. Side(z) = "right" /\ h.n[z].right = NULL BY <1>4, <1>9, <1>10, <1>12
    <2>2. hi[z] = p[z] BY <1>4, <1>10, <2>1 DEF Below
    <2>3. p[z] = k BY <1>2, <1>4, <1>9, <1>10, <1>12, <2>2
    <2> QED BY <1>6, <1>10, <2>1, <2>3 DEF FreePlace, Sides
  <1> QED BY <1>11, <1>12

-----------------------------------------------------------------------------
(* Unlinking a member with at most one child                               *)

\* The places of the members that stay when t goes
Closed(M, p, t) == [x \in M \ {t} |-> IF p[x] > p[t] THEN p[x] - 1 ELSE p[x]]

LEMMA ClosedNumbers ==
  ASSUME NEW M, NEW n, NEW p, Numbered(M, n, p), NEW t \in M
  PROVE  Numbered(M \ {t}, n - 1, Closed(M, p, t))
  <1> DEFINE p2 == Closed(M, p, t)
             k == p[t]
  <1>1. n \in Nat /\ M \in SUBSET Nodes /\ \A x \in M : p[x] \in 1 .. n BY DEF Numbered
  <1>2. k \in 1 .. n /\ k \in Int /\ n - 1 \in Nat BY <1>1
  <1>3. \A x \in M \ {t} : p2[x] = IF p[x] > k THEN p[x] - 1 ELSE p[x] BY DEF Closed
  <1>4. \A x \in M : p[x] = k => x = t BY DEF Numbered
  <1> HIDE DEF k
  <1>5. \A x \in M \ {t} : (IF p[x] > k THEN p[x] - 1 ELSE p[x]) \in 1 .. n - 1 BY <1>1, <1>2, <1>4
  <1>6. p2 \in [M \ {t} -> 1 .. n - 1] BY <1>5 DEF Closed, k
  <1> HIDE DEF p2
  <1>7. ASSUME NEW x \in M \ {t}, NEW y \in M \ {t}, p2[x] = p2[y] PROVE x = y
    <2>1. p[x] \in Int /\ p[y] \in Int /\ p[x] # k /\ p[y] # k BY <1>1, <1>4
    <2>2. p[x] = p[y] BY <1>2, <1>3, <1>7, <2>1
    <2> QED BY <2>2 DEF Numbered
  <1>8. ASSUME NEW i \in 1 .. n - 1 PROVE \E x \in M \ {t} : p2[x] = i
    <2>1. CASE i < k
      <3>1. i \in 1 .. n BY <1>1, <1>2
      <3>2. PICK x \in M : p[x] = i BY <3>1 DEF Numbered
      <3>3. x # t BY <2>1, <3>2 DEF k
      <3> QED BY <1>1, <1>2, <1>3, <2>1, <3>2, <3>3
    <2>2. CASE i >= k
      <3>1. i + 1 \in 1 .. n BY <1>1, <1>2
      <3>2. PICK x \in M : p[x] = i + 1 BY <3>1 DEF Numbered
      <3>3. x # t BY <1>2, <2>2, <3>2 DEF k
      <3> QED BY <1>1, <1>2, <1>3, <2>2, <3>2, <3>3
    <2> QED BY <1>2, <2>1, <2>2
  <1> QED BY <1>1, <1>2, <1>6, <1>7, <1>8 DEF Numbered, p2

-----------------------------------------------------------------------------
(* A node with at most one child *)

\* The effect: child takes the place of t.
Replaced(h, g, t, child) ==
  LET q == h.n[t].parent
  IN /\ g \in Heap /\ g.ok = h.ok
     /\ g.root = IF q = NULL THEN child ELSE h.root
     /\ \A y \in Nodes :
          /\ g.n[y].parent = IF y = child THEN q ELSE h.n[y].parent
          /\ g.n[y].color = IF y = child THEN h.n[t].color ELSE h.n[y].color
     /\ \A y \in Nodes : \A s \in Sides :
          g.n[y][s] = IF y = q /\ h.n[y][s] = t THEN child ELSE h.n[y][s]

LEMMA OuterIs ==
  ASSUME NEW h \in Heap, NEW t \in Nodes, NEW child \in Pointer,
         child = IF h.n[t].left = NULL THEN h.n[t].right ELSE h.n[t].left,
         child # t, h.n[t].parent # t,
         LET q == h.n[t].parent IN q # NULL => (h.n[q].left = t <=> h.n[q].right # t)
  PROVE  Replaced(h, EraseOuter(h, t).h, t, child)
  <1> DEFINE q == h.n[t].parent
             h1 == __rb_change_child(h, t, child, q)
             h2 == CopyParentColor(h1, t, child)
  <1>1. EraseOuter(h, t).h = IF child = NULL THEN h1 ELSE h2 BY DEF EraseOuter
  <1>2. q \in Pointer /\ q # t BY Field DEF Sides
  <1>3. /\ h1 \in Heap /\ h1.ok = h.ok /\ h1.root = IF q = NULL THEN child ELSE h.root
        /\ \A y \in Nodes : h1.n[y].parent = h.n[y].parent /\ h1.n[y].color = h.n[y].color
        /\ \A y \in Nodes : \A s \in Sides : h1.n[y][s] = IF y = q /\ h.n[y][s] = t THEN child ELSE h.n[y][s]
    <2>1. q # NULL => (h.n[q].left = t <=> h.n[q].right # t) OBVIOUS
    <2> HIDE DEF q
    <2> QED BY <1>2, <2>1, ChangeChildIs
  <1>4. CASE child = NULL
    <2>1. \A y \in Nodes : y # child BY <1>4, TreeAssumption
    <2> HIDE DEF h1
    <2> QED BY <1>1, <1>3, <1>4, <2>1 DEF Replaced
  <1>5. CASE child # NULL
    <2> HIDE DEF h1
    <2>1. child \in Nodes BY <1>5 DEF Pointer
    <2>2. h2 = rb_set_parent_color(h1, child, q, h.n[t].color) BY <1>3 DEF CopyParentColor
    <2>3. h.n[t].color \in {Red, Black} BY Field DEF Sides
    <2>4. PcSet(h1, h2, child, q, h.n[t].color) BY <1>2, <1>3, <2>1, <2>2, <2>3, PcIs
    <2> HIDE DEF h2
    <2> QED BY <1>1, <1>3, <1>5, <2>4 DEF PcSet, Replaced
  <1> QED BY <1>4, <1>5

LEMMA OuterTree ==
  ASSUME NEW M, NEW n, NEW p, NEW h, Numbered(M, n, p), IsTree(h, M, n, p), NEW t \in M,
         h.n[t].left = NULL \/ h.n[t].right = NULL
  PROVE  /\ IsTree(EraseOuter(h, t).h, M \ {t}, n - 1, Closed(M, p, t))
         /\ EraseOuter(h, t).rebalance # NULL => EraseOuter(h, t).rebalance \in M \ {t}
         /\ LET child == IF h.n[t].left = NULL THEN h.n[t].right ELSE h.n[t].left
            IN /\ Replaced(h, EraseOuter(h, t).h, t, child)
               /\ EraseOuter(h, t).rebalance = IF child = NULL /\ ~IsRed(h, t) THEN h.n[t].parent ELSE NULL
  <1> DEFINE child == IF h.n[t].left = NULL THEN h.n[t].right ELSE h.n[t].left
             q == h.n[t].parent
             k == p[t]
             M2 == M \ {t}
             p2 == Closed(M, p, t)
             g == EraseOuter(h, t).h
  <1>1. PICK lo, hi : Tree(h, M, n, p, lo, hi) BY DEF IsTree
  <1> DEFINE lo2 == [x \in M2 |-> IF lo[x] > k THEN lo[x] - 1 ELSE lo[x]]
             hi2 == [x \in M2 |-> IF hi[x] >= k THEN hi[x] - 1 ELSE hi[x]]
  <1>2. M \in SUBSET Nodes /\ NULL \notin M /\ h \in Heap /\ t \in Nodes /\ t # NULL BY InTree
  <1>3. /\ n \in Nat /\ k \in Int
        /\ \A x \in M : /\ x \in Nodes /\ lo[x] \in Int /\ hi[x] \in Int /\ p[x] \in Int
                        /\ 1 <= lo[x] /\ lo[x] <= p[x] /\ p[x] <= hi[x] /\ hi[x] <= n
                        /\ Below(h, M, p, lo, hi, x) /\ Hangs(h, M, x)
                        /\ p[x] = k => x = t
    <2>1. n \in Nat /\ \A x \in M : p[x] = k => x = t BY DEF Numbered
    <2>2. \A x \in M : /\ x \in Nodes /\ lo[x] \in Int /\ hi[x] \in Int /\ p[x] \in Int
                       /\ 1 <= lo[x] /\ lo[x] <= p[x] /\ p[x] <= hi[x] /\ hi[x] <= n
                       /\ Below(h, M, p, lo, hi, x) /\ Hangs(h, M, x)
      BY <1>1, Numbers
    <2> QED BY <2>1, <2>2
  <1>4. /\ q # t /\ (q # NULL => q \in M /\ t \in {h.n[q].left, h.n[q].right})
        /\ q = NULL => t = h.root
        /\ q # NULL => (h.n[q].left = t <=> h.n[q].right # t)
    <2>1. q # NULL => q \in M /\ t \in {h.n[q].left, h.n[q].right} BY <1>3 DEF Hangs
    <2>2. q = NULL => t = h.root BY <1>3 DEF Hangs
    <2>3. ASSUME q # NULL PROVE q # t /\ (h.n[q].left = t <=> h.n[q].right # t)
      <3>1. q # t /\ SideOf(h, t, q) \in Sides /\ h.n[q][SideOf(h, t, q)] = t /\ h.n[q][Other(SideOf(h, t, q))] # t
        BY <2>3, ParentSide
      <3> QED BY <3>1 DEF Sides, Other
    <2> QED BY <1>2, <2>1, <2>2, <2>3
  <1>5. /\ child = NULL => lo[t] = k /\ hi[t] = k
        /\ child # NULL => /\ child \in M2 /\ h.n[child].parent = t
                           /\ (lo[child] = lo[t] /\ hi[child] = k - 1 /\ hi[t] = k)
                              \/ (lo[t] = k /\ lo[child] = k + 1 /\ hi[child] = hi[t])
    <2>1. Below(h, M, p, lo, hi, t) BY <1>3
    <2>2. child # NULL => child # t BY <1>1, Apart DEF Sides
    <2> QED BY <2>1, <2>2 DEF Below
  <1>6. child \in Pointer /\ child # t BY <1>2, <1>5 DEF Pointer
  <1>7. Replaced(h, g, t, child) BY <1>2, <1>4, <1>6, OuterIs
  <1>8. EraseOuter(h, t).rebalance = IF child = NULL /\ ~IsRed(h, t) THEN q ELSE NULL BY DEF EraseOuter
  <1> HIDE DEF g
  <1>9. \A y \in M : /\ g.n[y].parent = IF y = child THEN q ELSE h.n[y].parent
                     /\ g.n[y].left = IF h.n[y].left = t THEN child ELSE h.n[y].left
                     /\ g.n[y].right = IF h.n[y].right = t THEN child ELSE h.n[y].right
    <2>1. \A y \in M : /\ g.n[y]["left"] = IF y = q /\ h.n[y]["left"] = t THEN child ELSE h.n[y]["left"]
                       /\ g.n[y]["right"] = IF y = q /\ h.n[y]["right"] = t THEN child ELSE h.n[y]["right"]
      BY <1>3, <1>7 DEF Replaced, Sides
    <2>2. \A y \in M : h.n[y].left = t \/ h.n[y].right = t => y = q BY <1>2, <1>3 DEF Below
    <2>3. \A y \in M : g.n[y].parent = IF y = child THEN q ELSE h.n[y].parent BY <1>3, <1>7 DEF Replaced
    <2> HIDE DEF child, q
    <2> QED BY <2>1, <2>2, <2>3
  <1>10. /\ lo2 \in [M2 -> 1 .. n - 1] /\ hi2 \in [M2 -> 1 .. n - 1]
         /\ \A x \in M2 : /\ lo2[x] = IF lo[x] > k THEN lo[x] - 1 ELSE lo[x]
                          /\ hi2[x] = IF hi[x] >= k THEN hi[x] - 1 ELSE hi[x]
    <2>1. k <= n /\ 1 <= k BY <1>3
    <2>2. \A x \in M2 : p[x] # k BY <1>3
    <2> HIDE DEF k
    <2>3. \A x \in M2 : /\ (IF lo[x] > k THEN lo[x] - 1 ELSE lo[x]) \in 1 .. n - 1
                        /\ (IF hi[x] >= k THEN hi[x] - 1 ELSE hi[x]) \in 1 .. n - 1
      BY <1>3, <2>1, <2>2
    <2> QED BY <2>3 DEF k
  <1>11. \A x \in M2 : p2[x] = IF p[x] > k THEN p[x] - 1 ELSE p[x] BY DEF Closed
  <1>12. \A x \in M2 : p[x] # k BY <1>3
  <1>13. child # NULL => lo2[child] = lo[t] /\ hi2[child] = hi[t] - 1
    <2>1. lo[t] <= k /\ k <= hi[t] /\ lo[t] \in Int /\ hi[t] \in Int BY <1>3
    <2> HIDE DEF lo2, hi2, k, child
    <2> QED BY <1>3, <1>5, <1>10, <2>1
  <1> HIDE DEF lo2, hi2, p2, k
  <1>14. ASSUME NEW x \in M2 PROVE Below(g, M2, p2, lo2, hi2, x)
    <2>1. Below(h, M, p, lo, hi, x) /\ x \in M BY <1>3
    <2>2. /\ lo[x] \in Int /\ hi[x] \in Int /\ p[x] \in Int /\ lo[x] <= p[x] /\ p[x] <= hi[x] /\ p[x] # k
          /\ lo[t] \in Int /\ hi[t] \in Int /\ lo[t] <= k /\ k <= hi[t]
      BY <1>3, <1>12 DEF k
    <2>3. lo2[x] <= p2[x] /\ p2[x] <= hi2[x] BY <1>3, <1>10, <1>11, <2>2
    <2>4. /\ h.n[x].left = t => h.n[t].parent = x /\ lo[t] = lo[x] /\ hi[t] = p[x] - 1
          /\ h.n[x].right = t => h.n[t].parent = x /\ hi[t] = hi[x] /\ lo[t] = p[x] + 1
      BY <1>2, <2>1 DEF Below
    <2> HIDE DEF child
    <2>5. ASSUME g.n[x].left = NULL PROVE lo2[x] = p2[x]
      <3>1. CASE h.n[x].left = t
        <4>1. child = NULL BY <1>9, <2>1, <2>5, <3>1
        <4> QED BY <1>3, <1>5, <1>10, <1>11, <2>2, <2>4, <3>1, <4>1
      <3>2. CASE h.n[x].left # t
        <4>1. lo[x] = p[x] BY <1>9, <2>1, <2>5, <3>2 DEF Below
        <4> QED BY <1>3, <1>10, <1>11, <2>2, <4>1
      <3> QED BY <3>1, <3>2
    <2>6. ASSUME g.n[x].right = NULL PROVE hi2[x] = p2[x]
      <3>1. CASE h.n[x].right = t
        <4>1. child = NULL BY <1>9, <2>1, <2>6, <3>1
        <4> QED BY <1>3, <1>5, <1>10, <1>11, <2>2, <2>4, <3>1, <4>1
      <3>2. CASE h.n[x].right # t
        <4>1. hi[x] = p[x] BY <1>9, <2>1, <2>6, <3>2 DEF Below
        <4> QED BY <1>3, <1>10, <1>11, <2>2, <4>1
      <3> QED BY <3>1, <3>2
    <2>7. ASSUME g.n[x].left # NULL
          PROVE  LET l == g.n[x].left IN l \in M2 /\ g.n[l].parent = x /\ lo2[l] = lo2[x] /\ hi2[l] = p2[x] - 1
      <3>1. CASE h.n[x].left = t
        <4>1. g.n[x].left = child /\ child # NULL /\ child \in M2 BY <1>5, <1>9, <2>1, <2>7, <3>1
        <4>2. g.n[child].parent = x BY <1>9, <2>4, <3>1, <4>1
        <4>3. lo2[child] = lo2[x] /\ hi2[child] = p2[x] - 1
          BY <1>3, <1>10, <1>11, <1>13, <2>2, <2>4, <3>1, <4>1
        <4> QED BY <4>1, <4>2, <4>3
      <3>2. CASE h.n[x].left # t
        <4> DEFINE l == h.n[x].left
        <4>1. g.n[x].left = l /\ l # NULL BY <1>9, <2>1, <2>7, <3>2
        <4>2. l \in M2 /\ h.n[l].parent = x /\ lo[l] = lo[x] /\ hi[l] = p[x] - 1 BY <2>1, <3>2, <4>1 DEF Below
        <4> HIDE DEF l
        <4>3. l # child BY <1>5, <4>1, <4>2
        <4>4. lo2[l] = lo2[x] /\ hi2[l] = p2[x] - 1 BY <1>3, <1>10, <1>11, <2>2, <4>2
        <4> QED BY <1>9, <4>1, <4>2, <4>3, <4>4
      <3> QED BY <3>1, <3>2
    <2>8. ASSUME g.n[x].right # NULL
          PROVE  LET r == g.n[x].right IN r \in M2 /\ g.n[r].parent = x /\ hi2[r] = hi2[x] /\ lo2[r] = p2[x] + 1
      <3>1. CASE h.n[x].right = t
        <4>1. g.n[x].right = child /\ child # NULL /\ child \in M2 BY <1>5, <1>9, <2>1, <2>8, <3>1
        <4>2. g.n[child].parent = x BY <1>9, <2>4, <3>1, <4>1
        <4>3. hi2[child] = hi2[x] /\ lo2[child] = p2[x] + 1
          BY <1>3, <1>10, <1>11, <1>13, <2>2, <2>4, <3>1, <4>1
        <4> QED BY <4>1, <4>2, <4>3
      <3>2. CASE h.n[x].right # t
        <4> DEFINE r == h.n[x].right
        <4>1. g.n[x].right = r /\ r # NULL BY <1>9, <2>1, <2>8, <3>2
        <4>2. r \in M2 /\ h.n[r].parent = x /\ hi[r] = hi[x] /\ lo[r] = p[x] + 1 BY <2>1, <3>2, <4>1 DEF Below
        <4> HIDE DEF r
        <4>3. r # child BY <1>5, <4>1, <4>2
        <4>4. hi2[r] = hi2[x] /\ lo2[r] = p2[x] + 1 BY <1>3, <1>10, <1>11, <2>2, <4>2
        <4> QED BY <1>9, <4>1, <4>2, <4>3, <4>4
      <3> QED BY <3>1, <3>2
    <2> QED BY <2>3, <2>5, <2>6, <2>7, <2>8 DEF Below
  <1>15. ASSUME NEW x \in M2 PROVE Hangs(g, M2, x)
    <2>1. Hangs(h, M, x) /\ x # NULL BY <1>2, <1>3
    <2>2. CASE x = child
      <3>1. g.n[x].parent = q BY <1>9, <2>2
      <3>2. q = NULL => g.root = x BY <1>7, <2>2 DEF Replaced
      <3>3. q # NULL => q \in M2 /\ x \in {g.n[q].left, g.n[q].right}
        <4> HIDE DEF child, q
        <4> QED BY <1>4, <1>9, <2>2
      <3> QED BY <3>1, <3>2, <3>3 DEF Hangs
    <2>3. CASE x # child
      <3> DEFINE u == h.n[x].parent
      <3>1. g.n[x].parent = u BY <1>9, <2>3
      <3>2. CASE u = NULL
        <4>1. x = h.root /\ q # NULL BY <1>4, <2>1, <3>2 DEF Hangs
        <4> QED BY <1>7, <3>1, <3>2, <4>1 DEF Hangs, Replaced
      <3>3. CASE u # NULL
        <4>1. u \in M /\ x \in {h.n[u].left, h.n[u].right} BY <2>1, <3>3 DEF Hangs
        <4>2. u # t BY <2>1, <2>3, <4>1
        <4> HIDE DEF u, child, q
        <4>3. x \in {g.n[u].left, g.n[u].right} BY <1>9, <4>1
        <4> QED BY <3>1, <3>3, <4>1, <4>2, <4>3 DEF Hangs, u
      <3> QED BY <3>2, <3>3
    <2> QED BY <2>2, <2>3
  <1>16. Rooted(g, M2, n - 1, lo2, hi2)
    <2>0. Rooted(h, M, n, lo, hi) BY <1>1 DEF Tree
    <2>1. h.root # NULL /\ h.root \in M /\ h.n[h.root].parent = NULL /\ lo[h.root] = 1 /\ hi[h.root] = n
      BY <2>0 DEF Rooted
    <2>2. CASE q = NULL
      <3>1. t = h.root /\ g.root = child BY <1>4, <1>7, <2>2 DEF Replaced
      <3>2. lo[t] = 1 /\ hi[t] = n BY <2>1, <3>1
      <3>3. CASE child = NULL
        <4>1. k = 1 /\ n = 1 BY <1>5, <3>2, <3>3
        <4>2. \A x \in M : p[x] = 1 BY <1>3, <4>1
        <4>3. M2 = {} BY <1>12, <4>1, <4>2
        <4> QED BY <3>1, <3>3, <4>1, <4>3 DEF Rooted
      <3>4. CASE child # NULL
        <4>1. g.n[child].parent = NULL BY <1>5, <1>9, <2>2, <3>4
        <4> QED BY <1>5, <1>13, <3>1, <3>2, <3>4, <4>1 DEF Rooted
      <3> QED BY <3>3, <3>4
    <2>3. CASE q # NULL
      <3>1. g.root = h.root /\ h.root # t BY <1>7, <2>1, <2>3 DEF Replaced
      <3>2. h.root # child BY <1>2, <1>5, <2>1
      <3>3. g.n[h.root].parent = NULL BY <1>9, <2>1, <3>2
      <3>4. 1 <= k /\ k <= n BY <1>3 DEF k
      <3>5. lo2[h.root] = 1 /\ hi2[h.root] = n - 1 BY <1>3, <1>10, <2>1, <3>1, <3>4
      <3> QED BY <2>1, <3>1, <3>3, <3>5 DEF Rooted
    <2> QED BY <2>2, <2>3
  <1>17. g \in Heap BY <1>7 DEF Replaced
  <1>18. Tree(g, M2, n - 1, p2, lo2, hi2) BY <1>10, <1>14, <1>15, <1>16, <1>17 DEF Tree
  <1>19. EraseOuter(h, t).rebalance # NULL => EraseOuter(h, t).rebalance \in M2 BY <1>4, <1>8
  <1> QED BY <1>7, <1>8, <1>18, <1>19 DEF IsTree, g, p2

-----------------------------------------------------------------------------
(* Unlinking a member with two children: the next one takes its place      *)

LEMMA AboveIs ==
  ASSUME NEW M, NEW n, NEW p, NEW lo, NEW hi, NEW h, Numbered(M, n, p), Tree(h, M, n, p, lo, hi),
         NEW x \in M, h.n[x].left # NULL
  PROVE  LET a == AboveLeftmost(h, x)
         IN /\ a \in M /\ h.n[a].left # NULL /\ h.n[h.n[a].left].left = NULL
            /\ lo[a] = lo[x] /\ hi[a] <= hi[x]
  <1> DEFINE D == {y \in Nodes : h.n[y].left # NULL}
             f == [y \in D |-> IF h.n[h.n[y].left].left = NULL THEN NULL ELSE h.n[y].left]
             S == {y \in M : h.n[y].left # NULL /\ lo[y] = lo[x] /\ hi[y] <= hi[x]}
             m == [y \in S |-> hi[y] - lo[y]]
             z == Loop(f, x)
  <1>1. h \in Heap /\ M \in SUBSET Nodes /\ n <= Cardinality(Nodes) /\ Cardinality(Nodes) \in Nat
    BY Bounded DEF Numbered, Tree
  <1>2. f \in [D -> D \cup {NULL}]
    <2>1. \A y \in Nodes : h.n[y].left # NULL => h.n[y].left \in Nodes BY <1>1, Field DEF Pointer, Sides
    <2> QED BY <2>1
  <1>3. \A y \in M : /\ lo[y] \in Int /\ hi[y] \in Int /\ p[y] \in Int /\ n \in Nat /\ Below(h, M, p, lo, hi, y)
                     /\ 1 <= lo[y] /\ lo[y] <= p[y] /\ p[y] <= hi[y] /\ hi[y] <= n
    BY <1>1, Numbers
  <1>4. S \in SUBSET D /\ x \in S BY <1>1, <1>3
  <1>5. m \in [S -> Nat] /\ m[x] <= Cardinality(Nodes)
    <2>1. \A y \in S : hi[y] - lo[y] \in Nat /\ hi[y] - lo[y] <= n BY <1>3
    <2>2. m \in [S -> Nat] /\ m[x] = hi[x] - lo[x] BY <1>4, <2>1
    <2>3. m[x] <= n BY <1>4, <2>1, <2>2
    <2> HIDE DEF m
    <2> QED BY <1>1, <1>3, <1>4, <2>2, <2>3
  <1>6. \A y \in S : f[y] = IF h.n[h.n[y].left].left = NULL THEN NULL ELSE h.n[y].left BY <1>4
  <1> HIDE DEF f
  <1>7. ASSUME NEW y \in S, f[y] # NULL PROVE f[y] \in S /\ m[f[y]] < m[y]
    <2>1. y \in M /\ h.n[y].left # NULL /\ lo[y] = lo[x] /\ hi[y] <= hi[x] OBVIOUS
    <2>2. PICK l : l = h.n[y].left OBVIOUS
    <2>3. f[y] = l /\ h.n[l].left # NULL BY <1>6, <1>7, <2>2
    <2>4. l \in M /\ lo[l] = lo[y] /\ hi[l] = p[y] - 1 BY <1>3, <2>1, <2>2 DEF Below
    <2>5. l \in S BY <1>3, <2>1, <2>3, <2>4
    <2>6. hi[l] - lo[l] < hi[y] - lo[y] BY <1>3, <2>1, <2>4
    <2> QED BY <2>3, <2>5, <2>6
  <1>8. z \in S /\ f[z] = NULL
    <2> HIDE DEF S, m, D
    <2> QED BY <1>2, <1>4, <1>5, <1>7, LoopStays, LoopEnds
  <1>9. AboveLeftmost(h, x) = z BY DEF AboveLeftmost, f
  <1>10. h.n[h.n[z].left].left = NULL
    <2>1. h.n[z].left # NULL BY <1>8
    <2> HIDE DEF z, S
    <2> QED BY <1>6, <1>8, <2>1
  <1> HIDE DEF z
  <1> QED BY <1>8, <1>9, <1>10

-----------------------------------------------------------------------------
(* What single writes change *)

SideSet(h, g, x, side, v) ==
  /\ g \in Heap /\ g.root = h.root /\ g.ok = h.ok
  /\ \A y \in Nodes : g.n[y].parent = h.n[y].parent /\ g.n[y].color = h.n[y].color
  /\ \A y \in Nodes : \A s \in Sides : g.n[y][s] = IF y = x /\ s = side THEN v ELSE h.n[y][s]

LEMMA SideSetIs ==
  ASSUME NEW h \in Heap, NEW x \in Nodes, NEW side \in Sides, NEW v \in Pointer
  PROVE  SideSet(h, Set(h, x, side, v), x, side, v)
  <1>1. Set(h, x, side, v) \in Heap BY SetSide
  <1> QED BY <1>1 DEF SideSet, Set, Heap, rb_node, Sides

ParentSet(h, g, x, v) ==
  /\ g \in Heap /\ g.root = h.root /\ g.ok = h.ok
  /\ \A y \in Nodes : /\ g.n[y].parent = IF y = x THEN v ELSE h.n[y].parent
                      /\ g.n[y].color = h.n[y].color
  /\ \A y \in Nodes : \A s \in Sides : g.n[y][s] = h.n[y][s]

LEMMA ParentSetIs ==
  ASSUME NEW h \in Heap, NEW x \in Nodes, NEW v \in Pointer
  PROVE  ParentSet(h, Set(h, x, "parent", v), x, v)
  <1>1. Set(h, x, "parent", v) \in Heap BY SetTyped
  <1> QED BY <1>1 DEF ParentSet, Set, Heap, rb_node, Sides

ChildChanged(h, g, old, new, q) ==
  /\ g \in Heap /\ g.ok = h.ok
  /\ g.root = IF q = NULL THEN new ELSE h.root
  /\ \A y \in Nodes : /\ g.n[y].parent = h.n[y].parent
                      /\ g.n[y].color = h.n[y].color
  /\ \A y \in Nodes : \A s \in Sides :
       g.n[y][s] = IF y = q /\ h.n[y][s] = old THEN new ELSE h.n[y][s]

LEMMA ChildChangedIs ==
  ASSUME NEW h \in Heap, NEW old \in Nodes, NEW new \in Pointer, NEW q \in Pointer,
         q # NULL => (h.n[q].left = old <=> h.n[q].right # old)
  PROVE  ChildChanged(h, __rb_change_child(h, old, new, q), old, new, q)
  BY ChangeChildIs DEF ChildChanged

-----------------------------------------------------------------------------
(* A node with two children *)

\* s is the node after t; above is the node it is the left child of, or NULL
\* when it is t's own right child.
Successor(h, M, p, lo, hi, t, s, above) ==
  /\ s \in M /\ s # t /\ p[s] = p[t] + 1 /\ h.n[s].left = NULL /\ hi[s] <= hi[t]
  /\ above = NULL => s = h.n[t].right
  /\ above # NULL => /\ above \in M /\ h.n[above].left = s /\ lo[above] = p[t] + 1 /\ hi[above] <= hi[t]
                     /\ s # h.n[t].right

\* The effect: s takes the place of t.
Succeeded(h, g, t, s, above) ==
  LET q == h.n[t].parent
      left == h.n[t].left
      child2 == h.n[s].right
      right == IF above = NULL THEN child2 ELSE h.n[t].right
  IN /\ g \in Heap /\ g.ok = h.ok
     /\ g.root = IF q = NULL THEN s ELSE h.root
     /\ \A y \in Nodes \ {t} :
          /\ g.n[y].parent = IF y = s THEN q ELSE IF y = left \/ y = right THEN s
                             ELSE IF y = child2 THEN above ELSE h.n[y].parent
          /\ g.n[y].color = IF y = s THEN h.n[t].color ELSE IF y = child2 THEN Black ELSE h.n[y].color
     /\ \A y \in Nodes \ {t} : \A d \in Sides :
          g.n[y][d] = IF y = s THEN (IF d = "left" THEN left ELSE right)
                      ELSE IF y = above /\ d = "left" THEN child2
                      ELSE IF y = q /\ h.n[y][d] = t THEN s ELSE h.n[y][d]

LEMMA InnerIs ==
  ASSUME NEW h \in Heap, NEW t \in Nodes, NEW s \in Nodes, NEW above \in Pointer,
         NEW left \in Nodes, NEW right \in Nodes, NEW child2 \in Pointer, NEW q \in Pointer,
         left = h.n[t].left, right = h.n[t].right, child2 = h.n[s].right, q = h.n[t].parent,
         IF h.n[right].left = NULL THEN above = NULL /\ s = right
         ELSE above # NULL /\ above = AboveLeftmost(h, right) /\ s = h.n[above].left /\ s # right,
         t \notin {s, left, right, child2, above, q}, s \notin {left, child2, above, q},
         left \notin {right, child2}, above # NULL => right # child2,
         child2 # NULL => h.n[child2].parent = s,
         q # NULL => (h.n[q].left = t <=> h.n[q].right # t)
  PROVE  /\ Succeeded(h, EraseInner(h, t).h, t, s, above)
         /\ EraseInner(h, t).rebalance
              = IF child2 = NULL /\ ~IsRed(h, s) THEN (IF above = NULL THEN s ELSE above) ELSE NULL
  <1> DEFINE right2 == IF above = NULL THEN child2 ELSE right
             parent == IF above = NULL THEN s ELSE above
             a1 == Set(h, parent, "left", child2)
             a2 == Set(a1, s, "right", right)
             a3 == Set(a2, right, "parent", s)
             h1 == IF above = NULL THEN h ELSE a3
             b1 == Set(h1, s, "left", left)
             h2 == Set(b1, left, "parent", s)
             h3 == __rb_change_child(h2, t, s, q)
             h4 == IF child2 = NULL THEN h3 ELSE rb_set_parent_color(h3, child2, parent, Black)
             h5 == CopyParentColor(h4, t, s)
             r == IF child2 = NULL /\ ~IsRed(h, s) THEN parent ELSE NULL
  <1>1. EraseInner(h, t) = [h |-> h5, rebalance |-> r]
    <2>1. CASE h.n[right].left = NULL
      BY <2>1 DEF EraseInner
    <2>2. CASE h.n[right].left # NULL
      BY <2>2 DEF EraseInner
    <2> QED BY <2>1, <2>2
  <1>2. r = IF child2 = NULL /\ ~IsRed(h, s) THEN (IF above = NULL THEN s ELSE above) ELSE NULL OBVIOUS
  <1> HIDE DEF r
  <1>3. parent \in Nodes /\ NULL \notin Nodes /\ s \in Pointer /\ right \in Pointer /\ left \in Pointer
    BY TreeAssumption DEF Pointer
  <1>4. /\ h1 \in Heap /\ h1.root = h.root /\ h1.ok = h.ok
        /\ \A y \in Nodes : /\ h1.n[y].parent = IF y = right2 THEN s ELSE h.n[y].parent
                            /\ h1.n[y].color = h.n[y].color
        /\ \A y \in Nodes : \A d \in Sides :
             h1.n[y][d] = IF y = s /\ d = "right" THEN right2
                          ELSE IF y = above /\ d = "left" THEN child2 ELSE h.n[y][d]
    <2>1. CASE above = NULL
      <3>1. h1 = h /\ right2 = child2 BY <2>1
      <3>2. \A y \in Nodes : y = child2 => h.n[y].parent = s BY <1>3
      <3>3. h.n[s]["right"] = child2 OBVIOUS
      <3> HIDE DEF h1, right2
      <3> QED BY <1>3, <2>1, <3>1, <3>2, <3>3
    <2>2. CASE above # NULL
      <3>1. parent = above /\ right2 = right /\ h1 = a3 BY <2>2
      <3>2. SideSet(h, a1, parent, "left", child2) BY <1>3, SideSetIs DEF Sides
      <3>3. a1 \in Heap BY <3>2 DEF SideSet
      <3> HIDE DEF h1, right2, parent
      <3> HIDE DEF a1
      <3>4. SideSet(a1, a2, s, "right", right) BY <1>3, <3>3, SideSetIs DEF Sides
      <3>5. a2 \in Heap BY <3>4 DEF SideSet
      <3> HIDE DEF a2
      <3>6. ParentSet(a2, a3, right, s) BY <1>3, <3>5, ParentSetIs
      <3> HIDE DEF a3
      <3>7. /\ a3 \in Heap /\ a3.root = h.root /\ a3.ok = h.ok
            /\ \A y \in Nodes : /\ a3.n[y].parent = IF y = right THEN s ELSE h.n[y].parent
                                /\ a3.n[y].color = h.n[y].color
        BY <3>2, <3>4, <3>6 DEF SideSet, ParentSet
      <3>8. ASSUME NEW y \in Nodes, NEW d \in Sides
            PROVE  a3.n[y][d] = IF y = s /\ d = "right" THEN right
                                ELSE IF y = parent /\ d = "left" THEN child2 ELSE h.n[y][d]
        <4>1. a3.n[y][d] = a2.n[y][d] BY <3>6 DEF ParentSet
        <4>2. a2.n[y][d] = IF y = s /\ d = "right" THEN right ELSE a1.n[y][d] BY <3>4 DEF SideSet
        <4>3. a1.n[y][d] = IF y = parent /\ d = "left" THEN child2 ELSE h.n[y][d] BY <3>2 DEF SideSet
        <4> QED BY <4>1, <4>2, <4>3
      <3> QED BY <3>1, <3>7, <3>8
    <2> QED BY <2>1, <2>2
  <1>5. t # right2 /\ s # right2 /\ left # right2 /\ right2 \in Pointer BY <1>3
  <1> HIDE DEF h1
  <1>6. SideSet(h1, b1, s, "left", left) BY <1>3, <1>4, SideSetIs DEF Sides
  <1>7. b1 \in Heap BY <1>6 DEF SideSet
  <1> HIDE DEF b1
  <1>8. ParentSet(b1, h2, left, s) BY <1>3, <1>7, ParentSetIs
  <1> HIDE DEF h2
  <1>9. /\ h2 \in Heap /\ h2.root = h.root /\ h2.ok = h.ok
        /\ \A y \in Nodes : /\ h2.n[y].parent = IF y = left \/ y = right2 THEN s ELSE h.n[y].parent
                            /\ h2.n[y].color = h.n[y].color
    <2> HIDE DEF right2
    <2> QED BY <1>4, <1>6, <1>8 DEF SideSet, ParentSet
  <1>10. ASSUME NEW y \in Nodes, NEW d \in Sides
         PROVE  h2.n[y][d] = IF y = s THEN (IF d = "left" THEN left ELSE right2)
                             ELSE IF y = above /\ d = "left" THEN child2 ELSE h.n[y][d]
    <2>1. h2.n[y][d] = b1.n[y][d] BY <1>8 DEF ParentSet
    <2>2. b1.n[y][d] = IF y = s /\ d = "left" THEN left ELSE h1.n[y][d] BY <1>6 DEF SideSet
    <2>3. h1.n[y][d] = IF y = s /\ d = "right" THEN right2
                       ELSE IF y = above /\ d = "left" THEN child2 ELSE h.n[y][d] BY <1>4
    <2>4. d = "left" \/ d = "right" BY DEF Sides
    <2> HIDE DEF right2
    <2> QED BY <2>1, <2>2, <2>3, <2>4
  <1> HIDE DEF right2, parent
  <1>11. ASSUME q # NULL PROVE h2.n[q].left = t <=> h2.n[q].right # t
    <2>1. q \in Nodes BY <1>11 DEF Pointer
    <2>2. /\ h2.n[q]["left"] = IF q = above THEN child2 ELSE h.n[q]["left"]
          /\ h2.n[q]["right"] = h.n[q]["right"]
      BY <1>10, <2>1 DEF Sides
    <2>3. q = above => h.n[q].left = s BY <1>11
    <2> QED BY <1>11, <2>2, <2>3
  <1>12. /\ h3 \in Heap /\ h3.ok = h2.ok
         /\ h3.root = IF q = NULL THEN s ELSE h2.root
         /\ \A y \in Nodes : /\ h3.n[y].parent = h2.n[y].parent
                             /\ h3.n[y].color = h2.n[y].color
         /\ \A y \in Nodes : \A d \in Sides :
              h3.n[y][d] = IF y = q /\ h2.n[y][d] = t THEN s ELSE h2.n[y][d]
    <2>1. q # NULL => (h2.n[q].left = t <=> h2.n[q].right # t) BY <1>11
    <2>2. h2 \in Heap BY <1>9
    <2>3. ChildChanged(h2, h3, t, s, q) BY <1>3, <2>1, <2>2, ChildChangedIs
    <2> HIDE DEF h3
    <2> QED BY <2>3 DEF ChildChanged
  <1> HIDE DEF h3
  <1>13. /\ h4 \in Heap /\ h4.ok = h3.ok /\ h4.root = h3.root
         /\ \A y \in Nodes : /\ h4.n[y].parent = IF y = child2 THEN parent ELSE h3.n[y].parent
                             /\ h4.n[y].color = IF y = child2 THEN Black ELSE h3.n[y].color
         /\ \A y \in Nodes : \A d \in Sides : h4.n[y][d] = h3.n[y][d]
    <2>1. CASE child2 = NULL BY <1>3, <1>12, <2>1
    <2>2. CASE child2 # NULL
      <3>1. child2 \in Nodes /\ parent \in Pointer /\ Black \in {Red, Black} BY <1>3, <2>2 DEF Pointer
      <3>2. PcSet(h3, rb_set_parent_color(h3, child2, parent, Black), child2, parent, Black)
        BY <1>12, <3>1, PcIs
      <3>3. PcSet(h3, h4, child2, parent, Black) BY <2>2, <3>2
      <3> HIDE DEF h4
      <3> QED BY <3>3 DEF PcSet
    <2> QED BY <2>1, <2>2
  <1> HIDE DEF h4
  <1>14. h4.n[t].parent = q /\ h4.n[t].color = h.n[t].color
    BY <1>5, <1>9, <1>12, <1>13
  <1>15. PcSet(h4, h5, s, q, h.n[t].color)
    <2>1. h.n[t].color \in {Red, Black} BY Field DEF Sides
    <2>2. h5 = rb_set_parent_color(h4, s, q, h.n[t].color) BY <1>14 DEF CopyParentColor
    <2> HIDE DEF h5
    <2> QED BY <1>13, <2>1, <2>2, PcIs
  <1> HIDE DEF h5
  <1>16. ASSUME NEW y \in Nodes \ {t}
         PROVE  /\ h5.n[y].parent = IF y = s THEN q ELSE IF y = left \/ y = right2 THEN s
                                    ELSE IF y = child2 THEN above ELSE h.n[y].parent
                /\ h5.n[y].color = IF y = s THEN h.n[t].color ELSE IF y = child2 THEN Black ELSE h.n[y].color
    <2>1. /\ h5.n[y].parent = IF y = s THEN q ELSE h4.n[y].parent
          /\ h5.n[y].color = IF y = s THEN h.n[t].color ELSE h4.n[y].color
      BY <1>15 DEF PcSet
    <2>2. /\ h4.n[y].parent = IF y = child2 THEN parent ELSE h3.n[y].parent
          /\ h4.n[y].color = IF y = child2 THEN Black ELSE h3.n[y].color
      BY <1>13
    <2>3. /\ h3.n[y].parent = IF y = left \/ y = right2 THEN s ELSE h.n[y].parent
          /\ h3.n[y].color = h.n[y].color
      BY <1>9, <1>12
    <2>4. child2 = right2 => parent = s BY DEF right2, parent
    <2>5. child2 # right2 => parent = above BY DEF right2, parent
    <2> QED BY <2>1, <2>2, <2>3, <2>4, <2>5
  <1>17. ASSUME NEW y \in Nodes \ {t}, NEW d \in Sides
         PROVE  h5.n[y][d] = IF y = s THEN (IF d = "left" THEN left ELSE right2)
                             ELSE IF y = above /\ d = "left" THEN child2
                             ELSE IF y = q /\ h.n[y][d] = t THEN s ELSE h.n[y][d]
    <2>1. h5.n[y][d] = h3.n[y][d] BY <1>13, <1>15 DEF PcSet
    <2>2. h3.n[y][d] = IF y = q /\ h2.n[y][d] = t THEN s ELSE h2.n[y][d] BY <1>12
    <2> QED BY <1>10, <2>1, <2>2
  <1>18. h5 \in Heap /\ h5.ok = h.ok /\ h5.root = IF q = NULL THEN s ELSE h.root
    BY <1>9, <1>12, <1>13, <1>15 DEF PcSet
  <1>19. Succeeded(h, h5, t, s, above) BY <1>16, <1>17, <1>18 DEF Succeeded, right2
  <1> QED BY <1>1, <1>2, <1>19

\* Where the nodes around t and the one after it are
LEMMA SuccessorPlaces ==
  ASSUME NEW M, NEW n, NEW p, NEW lo, NEW hi, NEW h, Numbered(M, n, p), Tree(h, M, n, p, lo, hi), NEW t \in M,
         NEW left, NEW right, NEW child2, NEW q, NEW s, NEW above,
         left = h.n[t].left, right = h.n[t].right, child2 = h.n[s].right, q = h.n[t].parent,
         left # NULL, right # NULL, Successor(h, M, p, lo, hi, t, s, above)
  PROVE  /\ left \in M /\ h.n[left].parent = t /\ lo[left] = lo[t] /\ hi[left] = p[t] - 1
         /\ right \in M /\ h.n[right].parent = t /\ lo[right] = p[t] + 1 /\ hi[right] = hi[t]
         /\ child2 # NULL => child2 \in M /\ h.n[child2].parent = s /\ lo[child2] = p[t] + 2 /\ hi[child2] = hi[s]
         /\ child2 = NULL => hi[s] = p[t] + 1
         /\ lo[s] = p[t] + 1
         /\ above = NULL => h.n[s].parent = t /\ hi[s] = hi[t]
         /\ above # NULL => h.n[s].parent = above /\ hi[s] = p[above] - 1 /\ p[above] > p[t] + 1
         /\ q = NULL => t = h.root
         /\ q # NULL => q \in M /\ t \in {h.n[q].left, h.n[q].right}
         /\ t \notin {s, left, right, child2, above, q} /\ s \notin {left, child2, above, q}
         /\ left \notin {right, child2} /\ (above # NULL => right # child2)
         /\ q # NULL => (h.n[q].left = t <=> h.n[q].right # t)
  <1>1. \A x \in M : /\ lo[x] \in Int /\ hi[x] \in Int /\ p[x] \in Int
                     /\ lo[x] <= p[x] /\ p[x] <= hi[x] /\ Below(h, M, p, lo, hi, x) /\ Hangs(h, M, x)
    BY Numbers
  <1>2. NULL \notin M /\ s \in M /\ s # t /\ p[s] = p[t] + 1 /\ h.n[s].left = NULL /\ s # NULL
    BY Numbers, TreeAssumption DEF Successor
  <1>3. left \in M /\ h.n[left].parent = t /\ lo[left] = lo[t] /\ hi[left] = p[t] - 1 BY <1>1 DEF Below
  <1>4. right \in M /\ h.n[right].parent = t /\ lo[right] = p[t] + 1 /\ hi[right] = hi[t] BY <1>1 DEF Below
  <1>5. lo[s] = p[t] + 1 BY <1>1, <1>2 DEF Below
  <1>6. /\ child2 # NULL => child2 \in M /\ h.n[child2].parent = s /\ lo[child2] = p[t] + 2 /\ hi[child2] = hi[s]
        /\ child2 = NULL => hi[s] = p[t] + 1
    BY <1>1, <1>2 DEF Below
  <1>7. above = NULL => h.n[s].parent = t /\ hi[s] = hi[t]
    BY <1>4 DEF Successor
  <1>8. ASSUME above # NULL
        PROVE  /\ above \in M /\ h.n[s].parent = above /\ hi[s] = p[above] - 1 /\ p[above] > p[t] + 1
               /\ above # t /\ above # s /\ s # right
    <2>1. above \in M /\ h.n[above].left = s /\ lo[above] = p[t] + 1 /\ s # right BY <1>8 DEF Successor
    <2>2. h.n[s].parent = above /\ hi[s] = p[above] - 1 BY <1>1, <1>2, <2>1 DEF Below
    <2>3. p[s] < p[above] BY <1>1, <1>2, <2>1, <2>2
    <2> QED BY <1>1, <1>2, <2>1, <2>2, <2>3
  <1>9. q = NULL => t = h.root BY <1>1 DEF Hangs
  <1>10. q # NULL => q \in M /\ t \in {h.n[q].left, h.n[q].right} BY <1>1 DEF Hangs
  <1>11. q # NULL => q # t /\ (h.n[q].left = t <=> h.n[q].right # t)
    <2>1. SUFFICES ASSUME q # NULL PROVE q # t /\ (h.n[q].left = t <=> h.n[q].right # t) OBVIOUS
    <2>2. q # t /\ SideOf(h, t, q) \in Sides /\ h.n[q][SideOf(h, t, q)] = t /\ h.n[q][Other(SideOf(h, t, q))] # t
      <3>1. IsTree(h, M, n, p) BY DEF IsTree
      <3>2. h.n[t].parent = q OBVIOUS
      <3> QED BY <2>1, <3>1, <3>2, ParentSide
    <2> QED BY <2>2 DEF Sides, Other
  <1>12. q # s
    <2>1. SUFFICES ASSUME q = s PROVE FALSE OBVIOUS
    <2>2. t = child2 BY <1>2, <1>10, <2>1, Numbers, TreeAssumption
    <2> QED BY <1>1, <1>2, <1>6, <2>2, Numbers
  <1>13. t # left /\ t # right /\ t # child2 /\ s # left /\ s # child2 /\ left # right
    BY <1>1, <1>2, <1>3, <1>4, <1>6
  <1>14. left # child2 BY <1>2, <1>3, <1>6
  <1>15. above # NULL => right # child2
    <2>1. SUFFICES ASSUME above # NULL, right = child2 PROVE FALSE OBVIOUS
    <2> QED BY <1>1, <1>4, <1>6, <2>1
  <1> QED BY <1>2, <1>3, <1>4, <1>5, <1>6, <1>7, <1>8, <1>9, <1>10, <1>11, <1>12, <1>13, <1>14, <1>15

\* The node after one that has a right child
LEMMA SuccessorIs ==
  ASSUME NEW M, NEW n, NEW p, NEW lo, NEW hi, NEW h, Numbered(M, n, p), Tree(h, M, n, p, lo, hi), NEW t \in M,
         NEW right, right = h.n[t].right, right # NULL
  PROVE  \E s, above :
           /\ Successor(h, M, p, lo, hi, t, s, above)
           /\ IF h.n[right].left = NULL THEN above = NULL /\ s = right
              ELSE above # NULL /\ above = AboveLeftmost(h, right) /\ s = h.n[above].left /\ s # right
  <1>1. \A x \in M : /\ lo[x] \in Int /\ hi[x] \in Int /\ p[x] \in Int /\ x # NULL
                     /\ lo[x] <= p[x] /\ p[x] <= hi[x] /\ Below(h, M, p, lo, hi, x) /\ Hangs(h, M, x)
    BY Numbers, TreeAssumption
  <1>2. right \in M /\ lo[right] = p[t] + 1 /\ hi[right] = hi[t] /\ right # t BY <1>1 DEF Below
  <1>3. CASE h.n[right].left = NULL
    <2>1. p[right] = p[t] + 1 BY <1>1, <1>2, <1>3 DEF Below
    <2>2. Successor(h, M, p, lo, hi, t, right, NULL) BY <1>1, <1>2, <1>3, <2>1 DEF Successor
    <2> QED BY <1>3, <2>2
  <1>4. CASE h.n[right].left # NULL
    <2>1. PICK a : a = AboveLeftmost(h, right) OBVIOUS
    <2>2. /\ a \in M /\ h.n[a].left # NULL /\ h.n[h.n[a].left].left = NULL
          /\ lo[a] = lo[right] /\ hi[a] <= hi[right]
      BY <1>2, <1>4, <2>1, AboveIs
    <2>3. PICK s : s = h.n[a].left OBVIOUS
    <2>4. s \in M /\ lo[s] = lo[a] /\ hi[s] = p[a] - 1 /\ h.n[s].left = NULL BY <1>1, <2>2, <2>3 DEF Below
    <2>5. p[s] = p[t] + 1 BY <1>1, <1>2, <2>2, <2>4 DEF Below
    <2>6. hi[s] <= hi[t] /\ s # right BY <1>1, <1>2, <1>4, <2>2, <2>4
    <2>7. Successor(h, M, p, lo, hi, t, s, a) BY <1>1, <1>2, <2>2, <2>3, <2>4, <2>5, <2>6 DEF Successor
    <2>8. a # NULL BY <1>1, <2>2
    <2> QED BY <1>4, <2>1, <2>3, <2>6, <2>7, <2>8
  <1> QED BY <1>3, <1>4

LEMMA SucceededTree ==
  ASSUME NEW M, NEW n, NEW p, NEW lo, NEW hi, NEW h, Numbered(M, n, p), Tree(h, M, n, p, lo, hi), NEW t \in M,
         h.n[t].left # NULL, h.n[t].right # NULL, NEW s, NEW above,
         Successor(h, M, p, lo, hi, t, s, above), NEW g, Succeeded(h, g, t, s, above)
  PROVE  IsTree(g, M \ {t}, n - 1, Closed(M, p, t))
  <1>1. PICK left : left = h.n[t].left OBVIOUS
  <1>2. PICK right : right = h.n[t].right OBVIOUS
  <1>3. PICK child2 : child2 = h.n[s].right OBVIOUS
  <1>4. PICK q : q = h.n[t].parent OBVIOUS
  <1>5. PICK right2 : right2 = IF above = NULL THEN child2 ELSE right OBVIOUS
  <1>6. PICK k : k = p[t] OBVIOUS
  <1> DEFINE M2 == M \ {t}
             p2 == Closed(M, p, t)
             lo2 == [x \in M2 |-> IF x = s THEN lo[t] ELSE IF lo[x] > k + 1 THEN lo[x] - 1 ELSE lo[x]]
             hi2 == [x \in M2 |-> IF x = s THEN hi[t] - 1 ELSE IF hi[x] >= k + 1 THEN hi[x] - 1 ELSE hi[x]]
  <1>7. M \in SUBSET Nodes /\ NULL \notin M /\ n \in Nat /\ k \in Int /\ s \in M2
    BY <1>6, Numbers, TreeAssumption DEF Numbered, Successor
  <1>8. \A x \in M : /\ x \in Nodes /\ x # NULL /\ lo[x] \in Int /\ hi[x] \in Int /\ p[x] \in Int
                     /\ 1 <= lo[x] /\ lo[x] <= p[x] /\ p[x] <= hi[x] /\ hi[x] <= n
                     /\ Below(h, M, p, lo, hi, x) /\ Hangs(h, M, x)
                     /\ (p[x] = k => x = t) /\ (p[x] = k + 1 => x = s)
    <2>1. p[s] = k + 1 BY <1>6 DEF Successor
    <2>2. \A x \in M : (p[x] = k => x = t) /\ (p[x] = k + 1 => x = s) BY <1>6, <1>7, <2>1 DEF Numbered
    <2>3. \A x \in M : /\ x \in Nodes /\ lo[x] \in Int /\ hi[x] \in Int /\ p[x] \in Int
                       /\ 1 <= lo[x] /\ lo[x] <= p[x] /\ p[x] <= hi[x] /\ hi[x] <= n
                       /\ Below(h, M, p, lo, hi, x) /\ Hangs(h, M, x)
      BY Numbers
    <2> QED BY <1>7, <2>2, <2>3
  <1>9. /\ left \in M /\ h.n[left].parent = t /\ lo[left] = lo[t] /\ hi[left] = k - 1
        /\ right \in M /\ h.n[right].parent = t /\ lo[right] = k + 1 /\ hi[right] = hi[t]
        /\ child2 # NULL => child2 \in M /\ h.n[child2].parent = s /\ lo[child2] = k + 2 /\ hi[child2] = hi[s]
        /\ child2 = NULL => hi[s] = k + 1
        /\ lo[s] = k + 1
        /\ above = NULL => h.n[s].parent = t /\ hi[s] = hi[t]
        /\ above # NULL => h.n[s].parent = above /\ hi[s] = p[above] - 1 /\ p[above] > k + 1
        /\ q = NULL => t = h.root
        /\ q # NULL => q \in M /\ t \in {h.n[q].left, h.n[q].right}
        /\ t \notin {s, left, right, child2, above, q} /\ s \notin {left, child2, above, q}
        /\ left \notin {right, child2} /\ (above # NULL => right # child2)
        /\ q # NULL => (h.n[q].left = t <=> h.n[q].right # t)
    BY <1>1, <1>2, <1>3, <1>4, <1>6, SuccessorPlaces
  <1>10. /\ above = NULL => s = right
         /\ above # NULL => above \in M2 /\ h.n[above].left = s /\ lo[above] = k + 1 /\ s # right
         /\ p[s] = k + 1 /\ h.n[s].left = NULL
    BY <1>2, <1>6, <1>9 DEF Successor
  <1>11. \A y \in M2 : /\ g.n[y].parent = IF y = s THEN q ELSE IF y = left \/ y = right2 THEN s
                                          ELSE IF y = child2 THEN above ELSE h.n[y].parent
                       /\ g.n[y].left = IF y = s THEN left ELSE IF y = above THEN child2
                                        ELSE IF h.n[y].left = t THEN s ELSE h.n[y].left
                       /\ g.n[y].right = IF y = s THEN right2
                                         ELSE IF h.n[y].right = t THEN s ELSE h.n[y].right
    <2>1. \A y \in M2 : g.n[y].parent = IF y = s THEN q ELSE IF y = left \/ y = right2 THEN s
                                        ELSE IF y = child2 THEN above ELSE h.n[y].parent
      BY <1>1, <1>2, <1>3, <1>4, <1>5, <1>7 DEF Succeeded
    <2>2. \A y \in M2 : \A d \in Sides :
            g.n[y][d] = IF y = s THEN (IF d = "left" THEN left ELSE right2)
                        ELSE IF y = above /\ d = "left" THEN child2
                        ELSE IF y = q /\ h.n[y][d] = t THEN s ELSE h.n[y][d]
      BY <1>1, <1>2, <1>3, <1>4, <1>5, <1>7 DEF Succeeded
    <2>3. \A y \in M2 : /\ g.n[y]["left"] = IF y = s THEN left ELSE IF y = above THEN child2
                                            ELSE IF y = q /\ h.n[y]["left"] = t THEN s ELSE h.n[y]["left"]
                        /\ g.n[y]["right"] = IF y = s THEN right2
                                             ELSE IF y = q /\ h.n[y]["right"] = t THEN s ELSE h.n[y]["right"]
      BY <2>2 DEF Sides
    <2>4. \A y \in M : h.n[y].left = t \/ h.n[y].right = t => y = q BY <1>4, <1>7, <1>8 DEF Below
    <2> QED BY <2>1, <2>3, <2>4
  <1>12. /\ lo2 \in [M2 -> 1 .. n - 1] /\ hi2 \in [M2 -> 1 .. n - 1]
         /\ lo2[s] = lo[t] /\ hi2[s] = hi[t] - 1
         /\ \A x \in M2 \ {s} : /\ lo2[x] = IF lo[x] > k + 1 THEN lo[x] - 1 ELSE lo[x]
                                /\ hi2[x] = IF hi[x] >= k + 1 THEN hi[x] - 1 ELSE hi[x]
    <2>1. k + 1 <= n /\ 1 <= k /\ t \in M BY <1>6, <1>7, <1>8, <1>10
    <2>2. lo[t] <= k /\ hi[t] >= k + 1 /\ lo[t] \in Int /\ hi[t] \in Int /\ hi[t] <= n /\ 1 <= lo[t]
      BY <1>6, <1>7, <1>8, <1>9
    <2>3. \A x \in M2 \ {s} : /\ (IF lo[x] > k + 1 THEN lo[x] - 1 ELSE lo[x]) \in 1 .. n - 1
                              /\ (IF hi[x] >= k + 1 THEN hi[x] - 1 ELSE hi[x]) \in 1 .. n - 1
      BY <1>7, <1>8, <2>1
    <2>4. lo[t] \in 1 .. n - 1 /\ hi[t] - 1 \in 1 .. n - 1 BY <1>7, <2>1, <2>2
    <2> QED BY <1>7, <2>3, <2>4
  <1>13. p2[s] = k /\ \A x \in M2 : p2[x] = IF p[x] > k THEN p[x] - 1 ELSE p[x]
    <2>1. \A x \in M2 : p2[x] = IF p[x] > k THEN p[x] - 1 ELSE p[x] BY <1>6 DEF Closed
    <2> HIDE DEF p2
    <2> QED BY <1>7, <1>10, <2>1
  <1>14. lo[t] \in Int /\ hi[t] \in Int /\ lo[t] <= k /\ k <= hi[t] /\ k + 1 <= hi[t] /\ 1 <= lo[t] /\ hi[t] <= n
    BY <1>6, <1>8, <1>7, <1>9
  <1> HIDE DEF lo2, hi2, p2
  <1>15. ASSUME NEW x \in M2 PROVE Below(g, M2, p2, lo2, hi2, x)
    <2>1. Below(h, M, p, lo, hi, x) /\ x \in M BY <1>8
    <2>2. /\ lo[x] \in Int /\ hi[x] \in Int /\ p[x] \in Int /\ lo[x] <= p[x] /\ p[x] <= hi[x] /\ p[x] # k
          /\ (x # s => p[x] # k + 1)
      BY <1>6, <1>8
    <2>3. CASE x = s
      <3>1. g.n[x].left = left /\ g.n[x].right = right2 BY <1>11, <2>3
      <3>2. /\ left \in M2 /\ left # NULL /\ g.n[left].parent = s /\ lo2[left] = lo2[s] /\ hi2[left] = p2[s] - 1
        BY <1>7, <1>8, <1>9, <1>11, <1>12, <1>13, <1>14
      <3>3. right2 = NULL => hi2[s] = p2[s]
        BY <1>5, <1>7, <1>8, <1>9, <1>12, <1>13
      <3>4. ASSUME right2 # NULL
            PROVE  right2 \in M2 /\ right2 # s /\ g.n[right2].parent = s /\ hi2[right2] = hi2[s] /\ lo2[right2] = p2[s] + 1
        <4>1. right2 \in M2 /\ right2 # s BY <1>5, <1>9, <1>10, <3>4
        <4>2. g.n[right2].parent = s BY <1>11, <4>1
        <4>3. (lo[right2] = k + 1 \/ lo[right2] = k + 2) /\ hi[right2] = hi[t] BY <1>5, <1>9, <3>4
        <4> QED BY <1>7, <1>12, <1>13, <1>14, <4>1, <4>2, <4>3
      <3>5. lo2[s] <= p2[s] /\ p2[s] <= hi2[s] BY <1>7, <1>12, <1>13, <1>14
      <3> QED BY <2>3, <3>1, <3>2, <3>3, <3>4, <3>5 DEF Below
    <2>4. CASE x # s
      <3>1. /\ lo2[x] = IF lo[x] > k + 1 THEN lo[x] - 1 ELSE lo[x]
            /\ hi2[x] = IF hi[x] >= k + 1 THEN hi[x] - 1 ELSE hi[x]
            /\ p2[x] = IF p[x] > k THEN p[x] - 1 ELSE p[x]
        BY <1>12, <1>13, <2>4
      <3>2. lo2[x] <= p2[x] /\ p2[x] <= hi2[x] BY <1>7, <2>2, <2>4, <3>1
      <3>3. /\ h.n[x].left = t => h.n[t].parent = x /\ lo[t] = lo[x] /\ hi[t] = p[x] - 1
            /\ h.n[x].right = t => h.n[t].parent = x /\ hi[t] = hi[x] /\ lo[t] = p[x] + 1
        BY <1>8, <2>1 DEF Below
      <3>4. (g.n[x].left = NULL => lo2[x] = p2[x])
            /\ (g.n[x].left # NULL =>
                  LET l == g.n[x].left IN l \in M2 /\ g.n[l].parent = x /\ lo2[l] = lo2[x] /\ hi2[l] = p2[x] - 1)
        <4>1. CASE x = above
          <5>1. g.n[x].left = child2 /\ above # NULL BY <1>8, <1>11, <2>1, <2>4, <4>1
          <5>2. lo[x] = k + 1 /\ hi[s] = p[x] - 1 /\ right2 = right BY <1>5, <1>9, <1>10, <4>1, <5>1
          <5>3. child2 = NULL => lo2[x] = p2[x] BY <1>7, <1>9, <2>2, <3>1, <5>2
          <5>4. ASSUME child2 # NULL
                PROVE  child2 \in M2 /\ g.n[child2].parent = x /\ lo2[child2] = lo2[x] /\ hi2[child2] = p2[x] - 1
            <6>1. child2 \in M2 /\ child2 # s /\ child2 # left /\ child2 # right2 BY <1>9, <5>1, <5>2, <5>4
            <6>2. g.n[child2].parent = x BY <1>11, <4>1, <6>1
            <6>3. lo[child2] = k + 2 /\ hi[child2] = p[x] - 1 BY <1>9, <5>2, <5>4
            <6>4. lo2[child2] = lo2[x] /\ hi2[child2] = p2[x] - 1 BY <1>7, <1>8, <1>12, <2>2, <3>1, <5>2, <6>1, <6>3
            <6> QED BY <6>1, <6>2, <6>4
          <5> QED BY <5>1, <5>3, <5>4
        <4>2. CASE x # above /\ h.n[x].left = t
          <5>1. g.n[x].left = s BY <1>11, <2>4, <4>2
          <5>2. g.n[s].parent = x BY <1>4, <1>7, <1>11, <3>3, <4>2
          <5>3. lo2[s] = lo2[x] /\ hi2[s] = p2[x] - 1 BY <1>7, <1>12, <1>14, <2>2, <3>1, <3>3, <4>2
          <5> QED BY <1>7, <1>8, <5>1, <5>2, <5>3
        <4>3. CASE x # above /\ h.n[x].left # t
          <5>1. PICK l : l = h.n[x].left OBVIOUS
          <5>2. g.n[x].left = l BY <1>11, <2>4, <4>3, <5>1
          <5>3. l = NULL => lo2[x] = p2[x]
            <6>1. l = NULL => lo[x] = p[x] BY <2>1, <5>1 DEF Below
            <6> QED BY <1>7, <2>2, <2>4, <3>1, <6>1
          <5>4. ASSUME l # NULL PROVE l \in M2 /\ g.n[l].parent = x /\ lo2[l] = lo2[x] /\ hi2[l] = p2[x] - 1
            <6>1. l \in M2 /\ h.n[l].parent = x /\ lo[l] = lo[x] /\ hi[l] = p[x] - 1 BY <2>1, <4>3, <5>1, <5>4 DEF Below
            <6>2. l # s /\ l # left /\ l # right2 /\ l # child2 BY <1>5, <1>9, <2>4, <4>3, <5>4, <6>1
            <6>3. g.n[l].parent = x BY <1>11, <6>1, <6>2
            <6>4. lo2[l] = lo2[x] /\ hi2[l] = p2[x] - 1 BY <1>7, <1>12, <2>2, <2>4, <3>1, <6>1, <6>2
            <6> QED BY <6>1, <6>3, <6>4
          <5> QED BY <5>2, <5>3, <5>4
        <4> QED BY <4>1, <4>2, <4>3
      <3>5. (g.n[x].right = NULL => hi2[x] = p2[x])
            /\ (g.n[x].right # NULL =>
                  LET r == g.n[x].right IN r \in M2 /\ g.n[r].parent = x /\ hi2[r] = hi2[x] /\ lo2[r] = p2[x] + 1)
        <4>2. CASE h.n[x].right = t
          <5>1. g.n[x].right = s BY <1>11, <2>4, <4>2
          <5>2. g.n[s].parent = x BY <1>4, <1>7, <1>11, <3>3, <4>2
          <5>3. hi2[s] = hi2[x] /\ lo2[s] = p2[x] + 1 BY <1>7, <1>12, <1>14, <2>2, <3>1, <3>3, <4>2
          <5> QED BY <1>7, <1>8, <5>1, <5>2, <5>3
        <4>3. CASE h.n[x].right # t
          <5>1. PICK r : r = h.n[x].right OBVIOUS
          <5>2. g.n[x].right = r BY <1>11, <2>4, <4>3, <5>1
          <5>3. r = NULL => hi2[x] = p2[x]
            <6>1. r = NULL => hi[x] = p[x] BY <2>1, <5>1 DEF Below
            <6> QED BY <1>7, <2>2, <2>4, <3>1, <6>1
          <5>4. ASSUME r # NULL PROVE r \in M2 /\ g.n[r].parent = x /\ hi2[r] = hi2[x] /\ lo2[r] = p2[x] + 1
            <6>1. r \in M2 /\ h.n[r].parent = x /\ hi[r] = hi[x] /\ lo[r] = p[x] + 1 BY <2>1, <4>3, <5>1, <5>4 DEF Below
            <6>2. r # s
              <7>1. SUFFICES ASSUME r = s PROVE FALSE OBVIOUS
              <7>2. above # NULL /\ x = above BY <1>9, <6>1, <7>1
              <7> QED BY <1>9, <1>10, <2>2, <6>1, <7>1, <7>2
            <6>3. r # left /\ r # right2 /\ r # child2 BY <1>5, <1>9, <2>4, <5>4, <6>1
            <6>4. g.n[r].parent = x BY <1>11, <6>1, <6>2, <6>3
            <6>5. hi2[r] = hi2[x] /\ lo2[r] = p2[x] + 1 BY <1>7, <1>12, <2>2, <2>4, <3>1, <6>1, <6>2
            <6> QED BY <6>1, <6>4, <6>5
          <5> QED BY <5>2, <5>3, <5>4
        <4> QED BY <4>2, <4>3
      <3> QED BY <3>2, <3>4, <3>5 DEF Below
    <2> QED BY <2>3, <2>4
  <1>16. ASSUME NEW x \in M2 PROVE Hangs(g, M2, x)
    <2>1. Hangs(h, M, x) /\ x # NULL /\ x \in M BY <1>8
    <2>2. CASE x = s
      <3>1. g.n[x].parent = q BY <1>11, <2>2
      <3>2. q = NULL => g.root = x BY <1>4, <2>2 DEF Succeeded
      <3>3. ASSUME q # NULL PROVE q \in M2 /\ x \in {g.n[q].left, g.n[q].right}
        <4>1. q \in M2 /\ q # s /\ t \in {h.n[q].left, h.n[q].right} BY <1>9, <3>3
        <4>2. q = above => h.n[q].left # t BY <1>9, <1>10, <3>3
        <4> QED BY <1>11, <2>2, <4>1, <4>2
      <3> QED BY <3>1, <3>2, <3>3 DEF Hangs
    <2>3. CASE x # s /\ (x = left \/ x = right2)
      <3>1. g.n[x].parent = s BY <1>11, <2>3
      <3>2. x \in {g.n[s].left, g.n[s].right} BY <1>7, <1>11, <2>3
      <3> QED BY <1>7, <1>8, <3>1, <3>2 DEF Hangs
    <2>4. CASE x = child2 /\ x # left /\ x # right2
      <3>1. above # NULL /\ x # s BY <1>5, <1>9, <2>4
      <3>2. g.n[x].parent = above BY <1>11, <2>4, <3>1
      <3>3. above \in M2 /\ above # s BY <1>9, <1>10, <3>1
      <3>4. g.n[above].left = x BY <1>11, <2>4, <3>3
      <3> QED BY <3>1, <3>2, <3>3, <3>4 DEF Hangs
    <2>5. CASE x \notin {s, left, right2, child2}
      <3>1. PICK u : u = h.n[x].parent OBVIOUS
      <3>2. g.n[x].parent = u BY <1>11, <2>5, <3>1
      <3>3. CASE u = NULL
        <4>1. x = h.root /\ q # NULL BY <1>9, <2>1, <3>1, <3>3 DEF Hangs
        <4>2. g.root = h.root BY <1>4, <4>1 DEF Succeeded
        <4> QED BY <3>2, <3>3, <4>1, <4>2 DEF Hangs
      <3>4. CASE u # NULL
        <4>1. u \in M /\ x \in {h.n[u].left, h.n[u].right} BY <2>1, <3>1, <3>4 DEF Hangs
        <4>2. u # t BY <1>1, <1>2, <1>5, <1>10, <2>5, <4>1
        <4>3. u # s BY <1>3, <1>10, <2>1, <2>5, <4>1
        <4>4. u = above => x = h.n[u].right BY <1>10, <2>5, <3>4, <4>1
        <4>5. x \in {g.n[u].left, g.n[u].right} BY <1>11, <4>1, <4>2, <4>3, <4>4
        <4> QED BY <3>2, <3>4, <4>1, <4>2, <4>5 DEF Hangs
      <3> QED BY <3>3, <3>4
    <2> QED BY <2>2, <2>3, <2>4, <2>5
  <1>17. Rooted(g, M2, n - 1, lo2, hi2)
    <2>0. Rooted(h, M, n, lo, hi) BY DEF Tree
    <2>1. h.root # NULL /\ h.root \in M /\ h.n[h.root].parent = NULL /\ lo[h.root] = 1 /\ hi[h.root] = n
      BY <2>0 DEF Rooted
    <2>2. CASE q = NULL
      <3>1. t = h.root /\ g.root = s BY <1>4, <1>9, <2>2 DEF Succeeded
      <3>2. g.n[s].parent = NULL BY <1>7, <1>11, <2>2
      <3>3. lo2[s] = 1 /\ hi2[s] = n - 1 BY <1>12, <2>1, <3>1
      <3> QED BY <1>7, <1>8, <3>1, <3>2, <3>3 DEF Rooted
    <2>3. CASE q # NULL
      <3>1. g.root = h.root /\ h.root # t BY <1>4, <2>1, <2>3 DEF Succeeded
      <3>2. h.root \in M2 /\ h.root \notin {s, left, right2, child2} BY <1>5, <1>7, <1>8, <1>9, <2>1, <3>1
      <3>3. g.n[h.root].parent = NULL BY <1>11, <2>1, <3>2
      <3>4. lo2[h.root] = 1 /\ hi2[h.root] = n - 1 BY <1>7, <1>12, <1>14, <2>1, <3>2
      <3> QED BY <2>1, <3>1, <3>2, <3>3, <3>4 DEF Rooted
    <2> QED BY <2>2, <2>3
  <1>18. g \in Heap BY DEF Succeeded
  <1>19. Tree(g, M2, n - 1, p2, lo2, hi2) BY <1>12, <1>15, <1>16, <1>17, <1>18 DEF Tree
  <1> QED BY <1>19 DEF IsTree, p2

-----------------------------------------------------------------------------
(* Whole operations                                                        *)

LEMMA InnerTree ==
  ASSUME NEW M, NEW n, NEW p, NEW h, Numbered(M, n, p), IsTree(h, M, n, p), NEW t \in M,
         h.n[t].left # NULL, h.n[t].right # NULL
  PROVE  /\ IsTree(EraseInner(h, t).h, M \ {t}, n - 1, Closed(M, p, t))
         /\ EraseInner(h, t).rebalance # NULL => EraseInner(h, t).rebalance \in M \ {t}
         /\ \E lo, hi, s, above :
              /\ Tree(h, M, n, p, lo, hi) /\ Successor(h, M, p, lo, hi, t, s, above)
              /\ Succeeded(h, EraseInner(h, t).h, t, s, above)
              /\ EraseInner(h, t).rebalance
                   = IF h.n[s].right = NULL /\ ~IsRed(h, s) THEN (IF above = NULL THEN s ELSE above) ELSE NULL
  <1>1. PICK lo, hi : Tree(h, M, n, p, lo, hi) BY DEF IsTree
  <1>2. PICK left : left = h.n[t].left OBVIOUS
  <1>3. PICK right : right = h.n[t].right OBVIOUS
  <1>4. PICK q : q = h.n[t].parent OBVIOUS
  <1>5. PICK s, above :
          /\ Successor(h, M, p, lo, hi, t, s, above)
          /\ IF h.n[right].left = NULL THEN above = NULL /\ s = right
             ELSE above # NULL /\ above = AboveLeftmost(h, right) /\ s = h.n[above].left /\ s # right
    BY <1>1, <1>3, SuccessorIs
  <1>6. PICK child2 : child2 = h.n[s].right OBVIOUS
  <1>7. /\ left \in M /\ right \in M
        /\ child2 # NULL => child2 \in M /\ h.n[child2].parent = s
        /\ q # NULL => q \in M
        /\ t \notin {s, left, right, child2, above, q} /\ s \notin {left, child2, above, q}
        /\ left \notin {right, child2} /\ (above # NULL => right # child2)
        /\ q # NULL => (h.n[q].left = t <=> h.n[q].right # t)
    BY <1>1, <1>2, <1>3, <1>4, <1>5, <1>6, SuccessorPlaces
  <1>8. s \in M /\ (above # NULL => above \in M) BY <1>5 DEF Successor
  <1>9. M \in SUBSET Nodes /\ h \in Heap /\ NULL \notin M BY InTree
  <1>10. /\ s \in Nodes /\ t \in Nodes /\ left \in Nodes /\ right \in Nodes
         /\ above \in Pointer /\ child2 \in Pointer /\ q \in Pointer
    BY <1>7, <1>8, <1>9 DEF Pointer
  <1>11. /\ Succeeded(h, EraseInner(h, t).h, t, s, above)
         /\ EraseInner(h, t).rebalance
              = IF child2 = NULL /\ ~IsRed(h, s) THEN (IF above = NULL THEN s ELSE above) ELSE NULL
    BY <1>2, <1>3, <1>4, <1>5, <1>6, <1>7, <1>9, <1>10, InnerIs
  <1>12. IsTree(EraseInner(h, t).h, M \ {t}, n - 1, Closed(M, p, t))
    BY <1>1, <1>5, <1>11, SucceededTree
  <1>13. EraseInner(h, t).rebalance # NULL => EraseInner(h, t).rebalance \in M \ {t} BY <1>7, <1>8, <1>11
  <1> QED BY <1>1, <1>5, <1>6, <1>11, <1>12, <1>13

\* rb_erase takes out the node and leaves the order of the others.
LEMMA EraseTree ==
  ASSUME NEW M, NEW n, NEW p, NEW h, Numbered(M, n, p), IsTree(h, M, n, p), NEW t \in M
  PROVE  IsTree(rb_erase(h, t), M \ {t}, n - 1, Closed(M, p, t))
  <1> DEFINE e == __rb_erase_augmented(h, t)
             M2 == M \ {t}
             p2 == Closed(M, p, t)
  <1>1. IsTree(e.h, M2, n - 1, p2) /\ (e.rebalance # NULL => e.rebalance \in M2)
    BY OuterTree, InnerTree DEF __rb_erase_augmented
  <1>2. Numbered(M2, n - 1, p2) BY ClosedNumbers
  <1>3. rb_erase(h, t) = IF e.rebalance = NULL THEN e.h ELSE ____rb_erase_color(e.h, e.rebalance) BY DEF rb_erase
  <1> HIDE DEF e, M2, p2
  <1>4. IsTree(rb_erase(h, t), M2, n - 1, p2) BY <1>1, <1>2, <1>3, EraseColorTree
  <1> QED BY <1>4 DEF M2, p2

\* Linking a node and rebalancing puts it in its place and leaves the order of the others.
LEMMA InsertedTree ==
  ASSUME NEW M, NEW n, NEW p, NEW h, Numbered(M, n, p), IsTree(h, M, n, p), NEW t \in Nodes, t \notin M,
         NEW k \in 0 .. n, NEW parent, NEW side, FreePlace(h, M, n, p, k, parent, side)
  PROVE  IsTree(rb_insert_color(rb_link_node(h, t, parent, side), t), M \cup {t}, n + 1, Shifted(M, p, t, k))
  <1> DEFINE g == rb_link_node(h, t, parent, side)
             M2 == M \cup {t}
             p2 == Shifted(M, p, t, k)
  <1>1. IsTree(g, M2, n + 1, p2) BY LinkTree
  <1>2. Numbered(M2, n + 1, p2) BY ShiftedNumbers
  <1>3. t \in M2 OBVIOUS
  <1> HIDE DEF g, M2, p2
  <1>4. IsTree(rb_insert_color(g, t), M2, n + 1, p2) BY <1>1, <1>2, <1>3, InsertTree
  <1> QED BY <1>4 DEF g, M2, p2

-----------------------------------------------------------------------------
(* Walking the tree                                                        *)

\* walk[k][y] is the part of the subtree of y that lies at most k levels down.
Walks(walk, h, fuel) ==
  /\ walk \in [0 .. fuel -> [Pointer -> Seq(Nodes)]]
  /\ \A y \in Pointer : walk[0][y] = << >>
  /\ \A k \in 1 .. fuel : walk[k][NULL] = << >>
  /\ \A k \in 1 .. fuel : \A y \in Nodes :
       walk[k][y] = walk[k - 1][h.n[y].left] \o <<y>> \o walk[k - 1][h.n[y].right]

LEMMA WalkGoes ==
  ASSUME NEW h \in Heap, NEW fuel \in Nat
  PROVE  \E walk : Walks(walk, h, fuel) /\ \A x \in Pointer : Walk(h, x, fuel) = walk[fuel][x]
  <1> DEFINE T == [Pointer -> Seq(Nodes)]
             turn(k, w) == [y \in Pointer |->
                              IF y = NULL \/ k = 0 THEN << >>
                              ELSE w[k - 1][h.n[y].left] \o <<y>> \o w[k - 1][h.n[y].right]]
             step == [w \in T |-> [y \in Pointer |-> IF y = NULL THEN << >>
                                                     ELSE w[h.n[y].left] \o <<y>> \o w[h.n[y].right]]]
             none == [y \in Pointer |-> << >>]
             w0 == CHOOSE w : w = [k \in 0 .. fuel |-> turn(k, w)]
  <1>1. none \in T
    <2>1. << >> \in Seq(Nodes) BY EmptySeq
    <2> QED BY <2>1
  <1>2. step \in [T -> T]
    <2>1. ASSUME NEW w \in T, NEW y \in Pointer
          PROVE  (IF y = NULL THEN << >> ELSE w[h.n[y].left] \o <<y>> \o w[h.n[y].right]) \in Seq(Nodes)
      <3>1. CASE y = NULL BY <3>1, EmptySeq
      <3>2. CASE y # NULL
        <4>1. y \in Nodes BY <3>2 DEF Pointer
        <4>2. h.n[y].left \in Pointer /\ h.n[y].right \in Pointer BY <4>1, Field DEF Sides
        <4>3. w[h.n[y].left] \in Seq(Nodes) /\ w[h.n[y].right] \in Seq(Nodes) BY <4>2
        <4>4. <<y>> \in Seq(Nodes) BY <4>1
        <4>5. w[h.n[y].left] \o <<y>> \in Seq(Nodes) BY <4>3, <4>4, ConcatProperties
        <4> QED BY <3>2, <4>3, <4>5, ConcatProperties
      <3> QED BY <3>1, <3>2
    <2>2. ASSUME NEW w \in T
          PROVE  [y \in Pointer |-> IF y = NULL THEN << >> ELSE w[h.n[y].left] \o <<y>> \o w[h.n[y].right]] \in T
      BY <2>1, Zenon
    <2> QED BY <2>2, Zenon
  <1>3. PICK walk \in [0 .. fuel -> T] : Follows(walk, fuel, none, [i \in 1 .. fuel |-> step])
    <2> HIDE DEF T, none, step
    <2>1. [i \in 1 .. fuel |-> step] \in [1 .. fuel -> [T -> T]] BY <1>2
    <2> QED BY <1>1, <2>1, Recursion
  <1>4. ASSUME NEW k \in 0 .. fuel PROVE walk[k] = turn(k, walk)
    <2>1. CASE k = 0
      <3>1. walk[0] = none BY <1>3 DEF Follows
      <3>2. turn(0, walk) = none OBVIOUS
      <3> QED BY <2>1, <3>1, <3>2
    <2>2. CASE k # 0
      <3>1. k \in 1 .. fuel /\ k - 1 \in 0 .. fuel BY <2>2
      <3>2. walk[k] = step[walk[k - 1]] /\ walk[k - 1] \in T BY <1>3, <3>1 DEF Follows
      <3>3. step[walk[k - 1]] = [y \in Pointer |-> IF y = NULL THEN << >>
                                   ELSE walk[k - 1][h.n[y].left] \o <<y>> \o walk[k - 1][h.n[y].right]] BY <3>2
      <3>4. turn(k, walk) = [y \in Pointer |-> IF y = NULL THEN << >>
                               ELSE walk[k - 1][h.n[y].left] \o <<y>> \o walk[k - 1][h.n[y].right]] BY <2>2
      <3> QED BY <3>2, <3>3, <3>4
    <2> QED BY <2>1, <2>2
  <1>5. walk = [k \in 0 .. fuel |-> turn(k, walk)]
    <2> HIDE DEF T, turn
    <2> QED BY <1>3, <1>4
  <1>6. w0 = [k \in 0 .. fuel |-> turn(k, w0)]
    <2> HIDE DEF turn
    <2> QED BY <1>5
  <1>7. \A x \in Pointer : Walk(h, x, fuel) = w0[fuel][x] BY DEF Walk
  <1>8. ASSUME NEW k \in 0 .. fuel PROVE w0[k] = turn(k, w0)
    <2> HIDE DEF turn, w0
    <2> QED BY <1>6
  <1> HIDE DEF w0
  <1> DEFINE I == {k \in 0 .. fuel : w0[k] = walk[k]}
  <1>9. 0 .. fuel \subseteq I
    <2>1. 0 \in I
      <3>1. turn(0, w0) = turn(0, walk) OBVIOUS
      <3> HIDE DEF turn
      <3> QED BY <1>4, <1>8, <3>1
    <2>2. ASSUME NEW k \in 0 .. fuel - 1, k \in I PROVE k + 1 \in I
      <3>1. k + 1 \in 0 .. fuel /\ (k + 1) - 1 = k /\ k + 1 # 0 OBVIOUS
      <3>2. w0[k] = walk[k] BY <2>2
      <3>3. turn(k + 1, w0) = turn(k + 1, walk) BY <3>1, <3>2, Zenon
      <3> HIDE DEF turn
      <3> QED BY <1>4, <1>8, <3>1, <3>3
    <2> HIDE DEF I
    <2> QED BY <2>1, <2>2, InductionUpTo
  <1>10. w0[fuel] = walk[fuel] BY <1>9
  <1>11. Walks(walk, h, fuel)
    <2>1. NULL \in Pointer /\ NULL \notin Nodes /\ Nodes \subseteq Pointer BY TreeAssumption DEF Pointer
    <2>2. \A y \in Pointer : walk[0][y] = << >>
      <3>1. walk[0] = turn(0, walk)
        <4>1. 0 \in 0 .. fuel OBVIOUS
        <4> HIDE DEF turn
        <4> QED BY <1>4, <4>1
      <3> QED BY <3>1
    <2>3. ASSUME NEW k \in 1 .. fuel
          PROVE  /\ walk[k][NULL] = << >>
                 /\ \A y \in Nodes : walk[k][y] = walk[k - 1][h.n[y].left] \o <<y>> \o walk[k - 1][h.n[y].right]
      <3>1. walk[k] = turn(k, walk) /\ k # 0
        <4>1. k \in 0 .. fuel /\ k # 0 OBVIOUS
        <4> HIDE DEF turn
        <4> QED BY <1>4, <4>1
      <3> QED BY <2>1, <3>1
    <2> QED BY <1>3, <2>2, <2>3 DEF Walks
  <1> QED BY <1>7, <1>10, <1>11

\* The members in order
OrderOf(M, n, p) == [i \in 1 .. n |-> CHOOSE x \in M : p[x] = i]

LEMMA OrderIs ==
  ASSUME NEW M, NEW n, NEW p, Numbered(M, n, p)
  PROVE  /\ OrderOf(M, n, p) \in Seq(M) /\ Len(OrderOf(M, n, p)) = n
         /\ \A x \in M : OrderOf(M, n, p)[p[x]] = x
         /\ \A i \in 1 .. n : p[OrderOf(M, n, p)[i]] = i
  <1> DEFINE c(i) == CHOOSE x \in M : p[x] = i
  <1>1. \A i \in 1 .. n : c(i) \in M /\ p[c(i)] = i BY DEF Numbered
  <1>2. n \in Nat /\ \A x \in M : p[x] \in 1 .. n BY DEF Numbered
  <1>3. OrderOf(M, n, p) = [i \in 1 .. n |-> c(i)] BY DEF OrderOf
  <1>4. \A x \in M : c(p[x]) = x BY <1>1, <1>2 DEF Numbered
  <1> HIDE DEF c
  <1>5. [i \in 1 .. n |-> c(i)] \in [1 .. n -> M] BY <1>1
  <1> QED BY <1>1, <1>2, <1>3, <1>4, <1>5

\* A walk of a tree meets its members in order.
LEMMA WalkIs ==
  ASSUME NEW M, NEW n, NEW p, NEW lo, NEW hi, NEW h, Numbered(M, n, p), Tree(h, M, n, p, lo, hi),
         NEW fuel \in Nat, NEW x \in M, hi[x] - lo[x] < fuel
  PROVE  Walk(h, x, fuel) = SubSeq(OrderOf(M, n, p), lo[x], hi[x])
  <1> DEFINE O == OrderOf(M, n, p)
  <1>1. h \in Heap /\ M \in SUBSET Nodes /\ NULL \notin M BY Numbers, TreeAssumption DEF Tree, Numbered
  <1>2. PICK walk : Walks(walk, h, fuel) /\ \A y \in Pointer : Walk(h, y, fuel) = walk[fuel][y] BY <1>1, WalkGoes
  <1>3. \A y \in M : /\ lo[y] \in Int /\ hi[y] \in Int /\ p[y] \in Int /\ n \in Nat /\ Below(h, M, p, lo, hi, y)
                     /\ 1 <= lo[y] /\ lo[y] <= p[y] /\ p[y] <= hi[y] /\ hi[y] <= n
    BY Numbers
  <1>4. O \in Seq(M) /\ Len(O) = n /\ \A y \in M : O[p[y]] = y BY OrderIs
  <1> DEFINE I == {k \in 0 .. fuel : \A y \in M : hi[y] - lo[y] < k => walk[k][y] = SubSeq(O, lo[y], hi[y])}
  <1> HIDE DEF O
  <1>5. 0 \in I BY <1>3
  <1>6. ASSUME NEW k \in 0 .. fuel - 1, k \in I PROVE k + 1 \in I
    <2>1. k + 1 \in 1 .. fuel /\ (k + 1) - 1 = k /\ k + 1 \in 0 .. fuel OBVIOUS
    <2>2. ASSUME NEW y \in M, hi[y] - lo[y] < k + 1 PROVE walk[k + 1][y] = SubSeq(O, lo[y], hi[y])
      <3>0. PICK l, r, a, b, q : l = h.n[y].left /\ r = h.n[y].right /\ a = lo[y] /\ b = hi[y] /\ q = p[y] OBVIOUS
      <3>1. walk[k + 1][y] = walk[k][l] \o <<y>> \o walk[k][r] BY <1>1, <1>2, <2>1, <3>0 DEF Walks
      <3>2. /\ a \in Int /\ b \in Int /\ q \in Int /\ n \in Nat /\ 1 <= a /\ a <= q /\ q <= b /\ b <= n /\ b - a < k + 1
        BY <1>3, <2>2, <3>0
      <3>3. walk[k][NULL] = << >>
        <4>1. k \in 1 .. fuel \/ k = 0 OBVIOUS
        <4>2. NULL \in Pointer BY DEF Pointer
        <4> QED BY <1>2, <4>1, <4>2 DEF Walks
      <3>4. walk[k][l] = SubSeq(O, a, q - 1)
        <4>1. CASE l = NULL
          <5>1. Below(h, M, p, lo, hi, y) BY <1>3
          <5>2. a = q BY <3>0, <4>1, <5>1 DEF Below
          <5>3. a \in Int /\ q - 1 \in Int /\ q - 1 < a BY <3>2, <5>2
          <5>4. SubSeq(O, a, q - 1) = << >> BY <5>3, SubSeqEmpty
          <5> QED BY <3>3, <4>1, <5>4
        <4>2. CASE l # NULL
          <5>1. l \in M /\ lo[l] = a /\ hi[l] = q - 1 BY <1>3, <3>0, <4>2 DEF Below
          <5>2. hi[l] - lo[l] < k BY <3>2, <5>1
          <5> QED BY <1>6, <5>1, <5>2
        <4> QED BY <4>1, <4>2
      <3>5. walk[k][r] = SubSeq(O, q + 1, b)
        <4>1. CASE r = NULL
          <5>1. Below(h, M, p, lo, hi, y) BY <1>3
          <5>2. b = q BY <3>0, <4>1, <5>1 DEF Below
          <5>3. q + 1 \in Int /\ b \in Int /\ b < q + 1 BY <3>2, <5>2
          <5>4. SubSeq(O, q + 1, b) = << >> BY <5>3, SubSeqEmpty
          <5> QED BY <3>3, <4>1, <5>4
        <4>2. CASE r # NULL
          <5>1. r \in M /\ lo[r] = q + 1 /\ hi[r] = b BY <1>3, <3>0, <4>2 DEF Below
          <5>2. hi[r] - lo[r] < k BY <3>2, <5>1
          <5> QED BY <1>6, <5>1, <5>2
        <4> QED BY <4>1, <4>2
      <3>6. SubSeq(O, a, q) = SubSeq(O, a, q - 1) \o <<y>>
        <4>1. a \in 1 .. Len(O) /\ q \in a .. Len(O) /\ O[q] = y BY <1>4, <3>0, <3>2
        <4> QED BY <1>4, <4>1, SubSeqRecursiveSecond
      <3>7. SubSeq(O, a, q) \o SubSeq(O, q + 1, b) = SubSeq(O, a, b)
        <4>1. a \in 1 .. Len(O) + 1 /\ q \in a - 1 .. Len(O) /\ b \in q .. Len(O) BY <1>4, <3>2
        <4> QED BY <1>4, <4>1, ConcatAdjacentSubSeq
      <3> QED BY <3>0, <3>1, <3>4, <3>5, <3>6, <3>7
    <2> QED BY <2>1, <2>2
  <1>7. 0 .. fuel \subseteq I
    <2> HIDE DEF I
    <2> QED BY <1>5, <1>6, InductionUpTo
  <1>8. fuel \in I BY <1>7
  <1>9. walk[fuel][x] = SubSeq(O, lo[x], hi[x]) BY <1>8
  <1>10. x \in Pointer BY <1>1 DEF Pointer
  <1> QED BY <1>2, <1>9, <1>10 DEF O

LEMMA WalkAll ==
  ASSUME NEW M, NEW n, NEW p, NEW h, Numbered(M, n, p), IsTree(h, M, n, p), NEW fuel \in Nat, n <= fuel
  PROVE  Walk(h, h.root, fuel) = OrderOf(M, n, p)
  <1>1. PICK lo, hi : Tree(h, M, n, p, lo, hi) BY DEF IsTree
  <1>2. h \in Heap /\ n \in Nat /\ Rooted(h, M, n, lo, hi) BY <1>1 DEF Tree, Numbered
  <1>3. OrderOf(M, n, p) \in Seq(M) /\ Len(OrderOf(M, n, p)) = n BY OrderIs
  <1>4. CASE h.root = NULL
    <2>1. n = 0 BY <1>2, <1>4 DEF Rooted
    <2>2. OrderOf(M, n, p) = << >> BY <1>3, <2>1
    <2>3. PICK walk : Walks(walk, h, fuel) /\ \A y \in Pointer : Walk(h, y, fuel) = walk[fuel][y] BY <1>2, WalkGoes
    <2>4. NULL \in Pointer BY DEF Pointer
    <2>5. fuel = 0 \/ fuel \in 1 .. fuel OBVIOUS
    <2>6. walk[fuel][NULL] = << >> BY <2>3, <2>4, <2>5 DEF Walks
    <2> QED BY <1>4, <2>2, <2>3, <2>4, <2>6
  <1>5. CASE h.root # NULL
    <2>1. h.root \in M /\ lo[h.root] = 1 /\ hi[h.root] = n BY <1>2, <1>5 DEF Rooted
    <2>2. hi[h.root] - lo[h.root] < fuel BY <1>2, <2>1
    <2>3. Walk(h, h.root, fuel) = SubSeq(OrderOf(M, n, p), 1, n) BY <1>1, <2>1, <2>2, WalkIs
    <2> QED BY <1>3, <2>3, SubSeqFull
  <1> QED BY <1>4, <1>5
=============================================================================
