------------------------------ MODULE RunQueue ------------------------------
(***************************************************************************)
(* The run queue's operations (sched/runq.c) as operators.  A run queue rq *)
(* is [heap, leftmost, num_threads]; vr is the vruntime of every task.     *)
(* num_threads is a uint64_t and wraps.                                    *)
(***************************************************************************)
EXTENDS RBTree

WORD == 2^16  \* stands for 2^64: far above any number of threads

EmptyQueue == [heap |-> EmptyHeap, leftmost |-> NULL, num_threads |-> 0]

min_vruntime(rq, vr) == IF rq.leftmost = NULL THEN 0 ELSE vr[rq.leftmost]

\* Equal keys go left.
Place_EqualLeft(h, key, vr) ==
  LET Side(x) == IF key <= vr[x] THEN "left" ELSE "right"
      parent == Loop([x \in Nodes |-> h.n[x][Side(x)]], h.root)
  IN [parent |-> parent, side |-> Side(parent)]

\* The place where the descent from the root ends: equal keys go right.
Place(h, key, vr) ==
  LET Side(x) == IF key < vr[x] THEN "left" ELSE "right"
      parent == Loop([x \in Nodes |-> h.n[x][Side(x)]], h.root)
  IN [parent |-> parent, side |-> Side(parent)]

FindPlace(rq, t, vr) ==
  IF rq.heap.root = NULL THEN [parent |-> NULL, side |-> "left"]
  ELSE Place(rq.heap, vr[t], vr)

\* The cached leftmost node is also replaced by an equal one.
UpdateCache_EqualIsLess(rq, t, vr) ==
  [rq EXCEPT !.leftmost = IF @ = NULL \/ vr[t] <= vr[@] THEN t ELSE @,
             !.num_threads = (@ + 1) % WORD]

UpdateCache(rq, t, vr) ==
  [rq EXCEPT !.leftmost = IF @ = NULL \/ vr[t] < vr[@] THEN t ELSE @,
             !.num_threads = (@ + 1) % WORD]

tree_insert(rq, t, vr) ==
  LET place == FindPlace(rq, t, vr)
      linked == rb_link_node(rq.heap, t, place.parent, place.side)
  IN UpdateCache([rq EXCEPT !.heap = rb_insert_color(linked, t)], t, vr)

tree_remove(rq, t) ==
  [heap |-> rb_erase(rq.heap, t),
   leftmost |-> IF rq.leftmost = t THEN rb_next(rq.heap, t) ELSE rq.leftmost,
   num_threads |-> (rq.num_threads + WORD - 1) % WORD]

\* The queue in the order in which next_runq would empty it.
Order(rq) == Walk(rq.heap, rq.heap.root, Cardinality(Nodes))
=============================================================================
