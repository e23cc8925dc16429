------------------------------- MODULE RBTree -------------------------------
(***************************************************************************)
(* The red-black tree of kernel/lib/rbtree.c, rbtree.h and                 *)
(* rbtree_augmented.h, at the level of its pointers.                       *)
(*                                                                         *)
(* A heap h is [root, n, ok]: n gives every node its parent, colour, left  *)
(* and right; a node that was erased keeps what it pointed at, as in the   *)
(* code.  ok becomes FALSE when the code would follow a NULL pointer.      *)
(* The code writes each case twice, mirrored; here the side is a           *)
(* parameter ("left" or "right" names the field, as in n[x][side]).        *)
(***************************************************************************)
EXTENDS Naturals, Sequences, FiniteSets

CONSTANTS Nodes, NULL

ASSUME TreeAssumption == IsFiniteSet(Nodes) /\ NULL \notin Nodes

Red == "red"
Black == "black"

Pointer == Nodes \cup {NULL}
rb_node == [parent : Pointer, color : {Red, Black}, left : Pointer, right : Pointer]
Heap == [root : Pointer, n : [Nodes -> rb_node], ok : BOOLEAN]

\* NULL, which also ends a loop, is no state of a loop.
ASSUME LoopAssumption ==
  NULL \notin [h : Heap, node : Nodes] \cup [h : Heap, node : Pointer, parent : Nodes]

\* A loop of the code: x becomes f[x] until that is NULL.  In a tree, which has
\* no cycles, no loop makes more turns than there are nodes.
Loop(f, x) ==
  LET go[k \in 0 .. Cardinality(Nodes)] ==
        [y \in DOMAIN f |-> LET z == f[y] IN IF k = 0 \/ z = NULL THEN y ELSE go[k - 1][z]]
  IN go[Cardinality(Nodes)][x]

Other(side) == IF side = "left" THEN "right" ELSE "left"

\* On which side of parent x is
SideOf(h, x, parent) == IF x # h.n[parent].right THEN "left" ELSE "right"

IsRed(h, x) == x # NULL /\ h.n[x].color = Red

Crash(h) == [h EXCEPT !.ok = FALSE]

\* A node that was zeroed by memset and never linked.
ZeroNode == [parent |-> NULL, color |-> Red, left |-> NULL, right |-> NULL]

EmptyHeap == [root |-> NULL, n |-> [x \in Nodes |-> ZeroNode], ok |-> TRUE]

Set(h, x, field, v) == [h EXCEPT !.n[x][field] = v]

rb_set_parent_color(h, x, p, c) == Set(Set(h, x, "parent", p), x, "color", c)

\* rb->__rb_parent_color is one word: copying it copies parent and colour.
CopyParentColor(h, from, x) ==
  rb_set_parent_color(h, x, h.n[from].parent, h.n[from].color)

__rb_change_child(h, old, new, parent) ==
  IF parent = NULL THEN [h EXCEPT !.root = new]
  ELSE Set(h, parent, IF h.n[parent].left = old THEN "left" ELSE "right", new)

__rb_rotate_set_parents(h, old, new, color) ==
  LET parent == h.n[old].parent
  IN __rb_change_child(rb_set_parent_color(CopyParentColor(h, old, new), old, new, color),
                       old, new, parent)

\* One rotation: new, old's child on the given side, takes old's place; new's
\* inner subtree tmp moves under old and gets colour tmpcolor; old gets color.
\* (Where the code rotates twice it leaves out the links of the first rotation
\* that the second one overwrites.)
Rotate(h, old, new, side, color, tmpcolor) ==
  LET tmp == h.n[new][Other(side)]
      h1 == Set(Set(h, old, side, tmp), new, Other(side), old)
      h2 == IF tmp = NULL THEN h1 ELSE rb_set_parent_color(h1, tmp, old, tmpcolor)
  IN __rb_rotate_set_parents(h2, old, new, color)

-----------------------------------------------------------------------------
(* Insertion *)

\* Links node under parent on the given side (both NULL-like for the root).
rb_link_node(h, node, parent, side) ==
  LET h1 == [h EXCEPT !.n[node] = [ZeroNode EXCEPT !.parent = parent]]
  IN IF parent = NULL THEN [h1 EXCEPT !.root = node] ELSE Set(h1, parent, side, node)

\* Case 1 does not continue at the grandparent.
rb_insert_color_NoRepeat(h, node) ==
  LET parent == h.n[node].parent
      gparent == h.n[parent].parent
      side == IF parent # h.n[gparent].right THEN "left" ELSE "right"
      uncle == h.n[gparent][Other(side)]
  IN IF parent = NULL THEN rb_set_parent_color(h, node, NULL, Black)
     ELSE IF ~IsRed(h, parent) THEN h
     ELSE IF IsRed(h, uncle)
       THEN LET h1 == rb_set_parent_color(h, uncle, gparent, Black)
                h2 == rb_set_parent_color(h1, parent, gparent, Black)
            IN IF h.n[gparent].parent = NULL THEN h2 ELSE Set(h2, gparent, "color", Red)
     ELSE IF node = h.n[parent][Other(side)]
       THEN Rotate(Rotate(h, parent, node, Other(side), Red, Black),
                   gparent, node, side, Red, Black)
     ELSE Rotate(h, gparent, parent, side, Red, Black)

Uncle(h, parent, gparent) == h.n[gparent][Other(SideOf(h, parent, gparent))]

\* Case 1, parent and uncle are red: they become black, and the loop goes on at
\* the grandparent.
InsertTurn(h, node) ==
  LET parent == h.n[node].parent
      gparent == h.n[parent].parent
      uncle == Uncle(h, parent, gparent)
      h1 == rb_set_parent_color(h, uncle, gparent, Black)
      h2 == rb_set_parent_color(h1, parent, gparent, Black)
  IN IF IsRed(h, parent) /\ gparent # NULL /\ IsRed(h, uncle)
     THEN [h |-> Set(h2, gparent, "color", Red), node |-> gparent]
     ELSE NULL

\* The other cases: the last turn
InsertEnd(h, node) ==
  LET parent == h.n[node].parent
      gparent == h.n[parent].parent
      side == SideOf(h, parent, gparent)
  IN IF parent = NULL THEN rb_set_parent_color(h, node, NULL, Black)
     ELSE IF ~IsRed(h, parent) THEN h
     ELSE IF gparent = NULL THEN Crash(h)
     ELSE IF node = h.n[parent][Other(side)]
       THEN Rotate(Rotate(h, parent, node, Other(side), Red, Black),            \* case 2
                   gparent, node, side, Red, Black)
     ELSE Rotate(h, gparent, parent, side, Red, Black)                          \* case 3

rb_insert_color(h, node) ==
  LET end == Loop([s \in [h : Heap, node : Nodes] |-> InsertTurn(s.h, s.node)],
                  [h |-> h, node |-> node])
  IN InsertEnd(end.h, end.node)

-----------------------------------------------------------------------------
(* Erasure *)

\* Case 1, a red sibling: it is rotated up, and its inner child is the sibling.
Sibling(h, node, parent) ==
  LET side == SideOf(h, node, parent)
      sibling == h.n[parent][Other(side)]
  IN IF IsRed(h, sibling)
     THEN [h |-> Rotate(h, parent, sibling, Other(side), Red, Black), sibling |-> h.n[sibling][side]]
     ELSE [h |-> h, sibling |-> sibling]

BlackChildren(h, x) == ~IsRed(h, h.n[x].left) /\ ~IsRed(h, h.n[x].right)

\* Case 2, the sibling's children are black: it becomes red, and if parent is
\* black the loop goes on one level up.
EraseTurn(h, node, parent) ==
  LET c == Sibling(h, node, parent)
      up == c.h.n[parent].parent
  IN IF c.sibling # NULL /\ BlackChildren(c.h, c.sibling) /\ ~IsRed(c.h, parent) /\ up # NULL
     THEN [h |-> rb_set_parent_color(c.h, c.sibling, parent, Red), node |-> parent, parent |-> up]
     ELSE NULL

\* The last turn
EraseEnd(h, node, parent) ==
  LET c == Sibling(h, node, parent)
      side == SideOf(h, node, parent)
      far == Other(side)
      flipped == rb_set_parent_color(c.h, c.sibling, parent, Red)               \* case 2
      inner == c.h.n[c.sibling][side]
      h3 == IF IsRed(c.h, c.h.n[c.sibling][far]) THEN c.h                       \* case 3
            ELSE Rotate(c.h, c.sibling, inner, side, Red, Black)
      top == h3.n[parent][far]
      tmp == h3.n[top][side]
      h4 == Rotate(h3, parent, top, far, Black,                                 \* case 4
                   IF IsRed(h3, tmp) THEN Red ELSE Black)
  IN IF c.sibling = NULL THEN Crash(c.h)
     ELSE IF BlackChildren(c.h, c.sibling)
       THEN IF IsRed(c.h, parent) THEN Set(flipped, parent, "color", Black) ELSE flipped
     ELSE IF top = NULL THEN Crash(h3)
     ELSE rb_set_parent_color(h4, h4.n[top][far], top, Black)

\* Rebalances after a black node below parent went away.  node, the short side,
\* is NULL at first.
____rb_erase_color(h, parent) ==
  LET end == Loop([s \in [h : Heap, node : Pointer, parent : Nodes] |-> EraseTurn(s.h, s.node, s.parent)],
                  [h |-> h, node |-> NULL, parent |-> parent])
  IN EraseEnd(end.h, end.node, end.parent)

\* The last node with a left child on the way down and left from p.
AboveLeftmost(h, p) ==
  Loop([x \in {y \in Nodes : h.n[y].left # NULL} |->
          IF h.n[h.n[x].left].left = NULL THEN NULL ELSE h.n[x].left], p)

\* Unlinks a node with two children: its successor takes its place.
EraseInner(h, node) ==
  LET child == h.n[node].right
      left == h.n[node].left
      direct == h.n[child].left = NULL
      above == AboveLeftmost(h, child)
      successor == IF direct THEN child ELSE h.n[above].left
      parent == IF direct THEN successor ELSE above
      child2 == h.n[successor].right
      h1 == IF direct THEN h
            ELSE Set(Set(Set(h, parent, "left", child2), successor, "right", child),
                     child, "parent", successor)
      h2 == Set(Set(h1, successor, "left", left), left, "parent", successor)
      h3 == __rb_change_child(h2, node, successor, h.n[node].parent)
      h4 == IF child2 = NULL THEN h3 ELSE rb_set_parent_color(h3, child2, parent, Black)
  IN [h |-> CopyParentColor(h4, node, successor),
      rebalance |-> IF child2 = NULL /\ ~IsRed(h, successor) THEN parent ELSE NULL]

\* Unlinks a node with at most one child.
EraseOuter(h, node) ==
  LET child == IF h.n[node].left = NULL THEN h.n[node].right ELSE h.n[node].left
      parent == h.n[node].parent
      h1 == __rb_change_child(h, node, child, parent)
  IN [h |-> IF child = NULL THEN h1 ELSE CopyParentColor(h1, node, child),
      rebalance |-> IF child = NULL /\ ~IsRed(h, node) THEN parent ELSE NULL]

__rb_erase_augmented(h, node) ==
  IF h.n[node].left = NULL \/ h.n[node].right = NULL THEN EraseOuter(h, node)
  ELSE EraseInner(h, node)

rb_erase(h, node) ==
  LET e == __rb_erase_augmented(h, node)
  IN IF e.rebalance = NULL THEN e.h ELSE ____rb_erase_color(e.h, e.rebalance)

-----------------------------------------------------------------------------
(* Traversal *)

Descend(h, x, side) == Loop([y \in Nodes |-> h.n[y][side]], x)

\* The nearest ancestor of which x is not on the given side.
Ascend(h, x, side) ==
  LET Up(y) == IF h.n[y].parent # NULL /\ y = h.n[h.n[y].parent][side] THEN h.n[y].parent ELSE NULL
  IN h.n[Loop([y \in Nodes |-> Up(y)], x)].parent

\* The child itself, not the end of its subtree.
Neighbour_NoDescent(h, x, side) ==
  IF h.n[x][side] # NULL THEN h.n[x][side] ELSE Ascend(h, x, side)

Neighbour(h, x, side) ==
  IF h.n[x][side] # NULL THEN Descend(h, h.n[x][side], Other(side)) ELSE Ascend(h, x, side)

rb_next(h, x) == Neighbour(h, x, "right")
rb_prev(h, x) == Neighbour(h, x, "left")
rb_first(h) == IF h.root = NULL THEN NULL ELSE Descend(h, h.root, "left")
rb_last(h) == IF h.root = NULL THEN NULL ELSE Descend(h, h.root, "right")

rb_left_deepest_node(h, x) ==
  Loop([y \in Nodes |-> IF h.n[y].left # NULL THEN h.n[y].left ELSE h.n[y].right], x)

rb_first_postorder(h) == IF h.root = NULL THEN NULL ELSE rb_left_deepest_node(h, h.root)

rb_next_postorder(h, x) ==
  LET parent == h.n[x].parent
  IN IF parent # NULL /\ x = h.n[parent].left /\ h.n[parent].right # NULL
     THEN rb_left_deepest_node(h, h.n[parent].right) ELSE parent

-----------------------------------------------------------------------------
(* What a well-formed tree is *)

\* The nodes below x in order.  fuel bounds the walk of a damaged tree.
Walk(h, x, fuel) ==
  LET walk[k \in 0 .. fuel] ==
        [y \in Pointer |->
           IF y = NULL \/ k = 0 THEN << >>
           ELSE walk[k - 1][h.n[y].left] \o <<y>> \o walk[k - 1][h.n[y].right]]
  IN walk[fuel][x]

\* Children first.
PostWalk(h, x, fuel) ==
  LET walk[k \in 0 .. fuel] ==
        [y \in Pointer |->
           IF y = NULL \/ k = 0 THEN << >>
           ELSE walk[k - 1][h.n[y].left] \o walk[k - 1][h.n[y].right] \o <<y>>]
  IN walk[fuel][x]

\* The black nodes on the way down and left from x
BlackHeight(h, x) ==
  LET height[k \in 0 .. Cardinality(Nodes)] ==
        [y \in Pointer |->
           IF y = NULL \/ k = 0 THEN 1
           ELSE height[k - 1][h.n[y].left] + IF IsRed(h, y) THEN 0 ELSE 1]
  IN height[Cardinality(Nodes)][x]

Linked(h, members) ==
  /\ h.root # NULL => h.n[h.root].parent = NULL
  /\ \A x \in members : \A side \in {"left", "right"} :
       h.n[x][side] # NULL => h.n[h.n[x][side]].parent = x

Balanced(h, members) ==
  /\ ~IsRed(h, h.root)
  /\ \A x \in members :
       /\ IsRed(h, x) => ~IsRed(h, h.n[x].left) /\ ~IsRed(h, h.n[x].right)
       /\ BlackHeight(h, h.n[x].left) = BlackHeight(h, h.n[x].right)
=============================================================================
