---------------------------- MODULE RunQueueSpec ----------------------------
(***************************************************************************)
(* The run queue as a component: every sequence of add_runq, remove_runq   *)
(* and next_runq with any vruntimes, and so every red-black tree they can  *)
(* build.  (The scheduler uses few of these sequences: see Scheduler.)     *)
(*                                                                         *)
(* The queue should be ordered by vruntime, equal ones by arrival.  Queued *)
(* tasks are numbered by the place they should have in that order and are  *)
(* renumbered after every operation, so that trees that differ only in the *)
(* names of their nodes are one state.                                     *)
(***************************************************************************)
EXTENDS RunQueue, SequencesExt

CONSTANTS
  MaxSize,  \* bound: the number of queued tasks
  Keys      \* bound: the vruntimes a task may arrive with

\* The code's counter of tasks is wide enough for all of them.
ASSUME NodesAssumption == MaxSize \in Nat /\ MaxSize < WORD /\ 1 .. MaxSize \subseteq Nodes
ASSUME KeysAssumption == Keys \subseteq Nat

VARIABLES
  system_runq,  \* system_runq: the tree, rb_leftmost and num_threads
  vruntimes,    \* sched.vruntime of every task
  queued        \* ghost: tasks 1 .. queued are in the queue

runq_vars == <<system_runq, vruntimes, queued>>

Count(n) == [i \in 1 .. n |-> i]

\* Task seq[i] becomes task i; tasks outside seq are unused.  (Removal leaves
\* a task's own pointers and vruntime as they are; both are overwritten before
\* it is queued again.)
Renumber(r, seq) ==
  LET New(x) == IF x \in Range(seq) THEN CHOOSE i \in DOMAIN seq : seq[i] = x ELSE NULL
      Node(c) == [parent |-> New(c.parent), color |-> c.color,
                  left |-> New(c.left), right |-> New(c.right)]
      h == r.heap
  IN [r EXCEPT !.leftmost = New(@),
               !.heap = [root |-> New(h.root), ok |-> h.ok,
                         n |-> [i \in Nodes |-> IF i \in DOMAIN seq THEN Node(h.n[seq[i]])
                                                ELSE ZeroNode]]]

\* The operation left r and the vruntimes vr; the order should be seq.
Settle(r, vr, seq) ==
  /\ system_runq' = Renumber(r, seq)
  /\ vruntimes' = [i \in Nodes |-> IF i \in DOMAIN seq THEN vr[seq[i]] ELSE 0]
  /\ queued' = Len(seq)

\* init_runq; tasks are zeroed when they are spawned
RunqInit == system_runq = EmptyQueue /\ vruntimes = [t \in Nodes |-> 0] /\ queued = 0

\* A task in state S_TASK_INIT keeps the vruntime it has (any key), every
\* other one gets the smallest in the queue.
add_with_key(key) ==
  LET x == queued + 1
      vr == [vruntimes EXCEPT ![x] = key]
      ahead == {i \in 1 .. queued : vruntimes[i] <= key}
  IN /\ queued < MaxSize
     /\ Settle(tree_insert(system_runq, x, vr), vr,
               InsertAt(Count(queued), Cardinality(ahead) + 1, x))

remove_runq(t) == Settle(tree_remove(system_runq, t), vruntimes, RemoveAt(Count(queued), t))

\* With an empty queue next_runq returns the idle task and changes nothing;
\* otherwise the task it takes out should be the first.
next_runq ==
  IF system_runq.leftmost = NULL THEN UNCHANGED runq_vars
  ELSE Settle(tree_remove(system_runq, system_runq.leftmost), vruntimes, Tail(Count(queued)))

RunqNext ==
  \/ \E key \in Keys \cup {min_vruntime(system_runq, vruntimes)} : add_with_key(key)
  \/ \E t \in 1 .. queued : remove_runq(t)
  \/ next_runq

RunqSpec == RunqInit /\ [][RunqNext]_runq_vars

-----------------------------------------------------------------------------
(* Properties *)

\* The tree holds exactly the queued tasks, by vruntime and then by arrival:
\* an insertion goes behind its equals, an erasure takes out that task and no
\* other whatever its place in the tree, and next_runq takes the first.
InOrder ==
  /\ Walk(system_runq.heap, system_runq.heap.root, MaxSize) = Count(queued)
  /\ \A i, j \in 1 .. queued : i < j => vruntimes[i] <= vruntimes[j]

\* The separately cached rb_leftmost is the first node of the tree, and
\* num_threads is the number of queued tasks.
CacheExact ==
  system_runq.leftmost = rb_first(system_runq.heap) /\ system_runq.num_threads = queued

\* The rebalancing of rb_insert_color and rb_erase keeps the red-black shape:
\* the root is black, no red node has a red child, every path has the same
\* number of black nodes, parent pointers match child pointers, and no NULL
\* pointer is followed.
RedBlack ==
  /\ system_runq.heap.ok
  /\ Linked(system_runq.heap, 1 .. queued)
  /\ Balanced(system_runq.heap, 1 .. queued)

\* rb_first, rb_last, rb_next and rb_prev walk the tree in order both ways, and
\* rb_first_postorder and rb_next_postorder visit children before parents.
Traversal ==
  LET h == system_runq.heap
      post == PostWalk(h, h.root, MaxSize)
      At(i) == IF i \in 1 .. queued THEN i ELSE NULL
      Post(i) == IF i \in 1 .. queued THEN post[i] ELSE NULL
  IN /\ rb_first(h) = At(1) /\ rb_last(h) = At(queued)
     /\ \A i \in 1 .. queued : rb_next(h, i) = At(i + 1) /\ rb_prev(h, i) = At(i - 1)
     /\ rb_first_postorder(h) = Post(1)
     /\ \A i \in 1 .. queued : rb_next_postorder(h, post[i]) = Post(i + 1)
=============================================================================
