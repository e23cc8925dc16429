----------------------------- MODULE RoundRobin -----------------------------
(***************************************************************************)
(* What the scheduler promises: tasks that can run take turns.  A woken    *)
(* task goes to the end of a queue; when the running task's turn is over   *)
(* it goes to the end as well and the task at the front runs; a task that  *)
(* ends leaves for good.  Idle runs when nobody else can.                  *)
(***************************************************************************)
EXTENDS Sequences, Naturals

CONSTANTS Threads, Idle

\* The idle task is not one of them.
IdleApart == Idle \notin Threads

VARIABLES
  running,   \* the task on the CPU
  queue,     \* the tasks waiting for it, first one first
  ready      \* the tasks that have been woken and have not ended

vars == <<running, queue, ready>>

Queued == {queue[i] : i \in DOMAIN queue}

Init == running = Idle /\ queue = << >> /\ ready = {}

\* The CPU goes to the front of q.
Dispatch(q) ==
  IF q = << >> THEN running' = Idle /\ queue' = q
  ELSE running' = Head(q) /\ queue' = Tail(q)

Wake(t) ==
  /\ t \notin ready
  /\ ready' = ready \cup {t}
  /\ queue' = Append(queue, t)
  /\ UNCHANGED running

\* The first task is woken by the boot code, which then gives up the CPU.
Start(t) ==
  /\ running = Idle /\ queue = << >> /\ t \notin ready
  /\ ready' = ready \cup {t}
  /\ running' = t
  /\ UNCHANGED queue

Turn ==
  /\ UNCHANGED ready
  /\ Dispatch(IF running = Idle THEN queue ELSE Append(queue, running))

End ==
  /\ running # Idle
  /\ ready' = ready \ {running}
  /\ Dispatch(queue)

Next == (\E t \in Threads : Wake(t) \/ Start(t)) \/ Turn \/ End

Spec == Init /\ [][Next]_vars

-----------------------------------------------------------------------------
\* Types; in particular the idle task is never queued.
TypeOK ==
  /\ running \in Threads \cup {Idle}
  /\ queue \in Seq(Threads)
  /\ ready \subseteq Threads

\* Every task that can run is in exactly one place: on the CPU or at one
\* position of the queue.
OnePlace ==
  /\ ready = Queued \cup ({running} \ {Idle})
  /\ running \notin Queued
  /\ \A i, j \in DOMAIN queue : queue[i] = queue[j] => i = j

\* A waiting task is never overtaken: each step leaves it at its position or
\* moves it towards the front, and from the front it goes to the CPU.  With n
\* tasks ahead it runs after at most n + 1 turns.
NoOvertaking ==
  [][\A i \in DOMAIN queue :
       \/ \E j \in DOMAIN queue' : j <= i /\ queue'[j] = queue[i]
       \/ i = 1 /\ running' = queue[i]]_vars
=============================================================================
