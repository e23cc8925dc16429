----------------------------- MODULE Scheduler -----------------------------
(***************************************************************************)
(* Tasks, the timer interrupt and the context switch: sched/scheduler.c,   *)
(* sched/task.c, arch/x86_64/sched, lapic_timer_handler, and bsp() of      *)
(* kmain.c, on one CPU.                                                    *)
(*                                                                         *)
(* A step is what one task does between two points where the timer may     *)
(* interrupt it, or one whole interrupt (interrupt gates clear IF).        *)
(* task_wake and the boot context's sched_yield run with interrupts on.    *)
(* The first is cut at its accesses to the run queue, the second also at   *)
(* its accesses to the flags, the saved stacks and current_task.  The      *)
(* rebalancing of the tree, ktask_execve, and task_exit of a kernel thread *)
(* are taken to be atomic.                                                 *)
(***************************************************************************)
EXTENDS RunQueue, FiniteSets

CONSTANTS
  IDLE,         \* the idle task: tid 0, state S_TASK_INIT for ever
  Bsp,          \* the task sched_run_bsp starts; it spawns the others
  Casts,        \* what may run: [tasks, faulting, returning], the tasks there are,
                \* those whose program ends in a segmentation fault, and the
                \* kernel threads whose function returns
  MAX_SLICES    \* ticks in a time slice

Tasks == Nodes

ASSUME SchedAssumption ==
  /\ IDLE \notin Tasks \cup {NULL} /\ Bsp \in Tasks
  /\ \A c \in Casts : c.tasks \subseteq Tasks /\ c.faulting \cup c.returning \subseteq c.tasks
  /\ MAX_SLICES \in Nat \ {0}

VARIABLES
  current,        \* current_task
  state,          \* task->state; "none" before ktask_spawn
  runflag,        \* is TASK_RUNNING set in task->flags?
  mode,           \* "kernel" until ktask_execve, then "user"
  rq,             \* system_runq
  vruntime,       \* sched.vruntime (the idle task's is never read)
  time_slice,     \* sched.time_slice
  need_resched,
  preempt_count,  \* uint64_t
  boot,           \* how far the boot context, which is the idle task's, has come
                  \* in sched_run_bsp: "spawn", "timer", "yield" and, in its
                  \* schedule(), "remove", "flags", "switch", "stacks", and "done"
  picked,         \* next in its call of schedule()
  stale,          \* what a tick in the last two of these has left: "nothing",
                  \* TASK_RUNNING ("flag") or the idle task's stack pointer
                  \* ("stack") where it does not belong
  IF_idle,        \* its interrupt flag
  wake,           \* how far bsp has come in task_wake, and its local variables
  cast,           \* the member of Casts
  hit             \* ghost: schedule() ran while task_wake was changing the queue,
                  \* or between the boot context's choice and its removal

context == <<boot, picked, wake, stale>>
sched_vars == <<current, state, runflag, mode, rq, vruntime, time_slice, need_resched,
          preempt_count, IF_idle, context, cast, hit>>

NoWake == [pc |-> "none"]

All == Tasks \cup {IDLE}

SchedInit ==
  /\ current = IDLE
  /\ state = [t \in All |-> IF t = IDLE THEN "S_TASK_INIT" ELSE "none"]
  /\ runflag = [t \in All |-> FALSE]
  /\ mode = [t \in Tasks |-> "kernel"]
  /\ rq = EmptyQueue
  /\ vruntime = [t \in Tasks |-> 0]
  /\ time_slice = [t \in All |-> 0]
  /\ need_resched = FALSE
  /\ preempt_count = 0
  /\ boot = "spawn" /\ picked = NULL
  /\ IF_idle = TRUE
  /\ wake = NoWake /\ stale = "nothing"
  /\ cast \in Casts
  /\ hit = FALSE

-----------------------------------------------------------------------------
(* Operators on the run queue and the vruntimes *)

\* add_runq of a task that is not in state S_TASK_INIT.
add_runq(q, t) ==
  LET vr == [q.vr EXCEPT ![t] = min_vruntime(q.rq, q.vr)]
  IN [rq |-> tree_insert(q.rq, t, vr), vr |-> vr]

\* next_runq: the leftmost task, or idle.
NextTask(r) == IF r.leftmost = NULL THEN IDLE ELSE r.leftmost

\* What schedule() does once prev has been dealt with, with the flags flags.
\* The boot context, when a tick took the CPU from it, comes back by iretq with
\* its interrupts on; from its own sched_yield with the flag of who switched.
Switch(q2, next, flags, flag) ==
  /\ need_resched' = FALSE
  /\ rq' = IF next = IDLE THEN q2.rq ELSE tree_remove(q2.rq, next)
  /\ vruntime' = q2.vr
  /\ runflag' = flags
  /\ current' = next
  /\ IF_idle' = IF next = IDLE /\ current # IDLE THEN boot # "done" \/ flag ELSE IF_idle

\* The CPU's time is charged to the task that had it.
Charge(q) == IF current = IDLE THEN q ELSE [q EXCEPT !.vr[current] = @ + 1]

\* The preempted task is not queued again.
schedule_Forget(q, st, flag) ==
  \E q2 \in {Charge(q)} : \E next \in {NextTask(q2.rq)} :
    Switch(q2, next, [runflag EXCEPT ![current] = FALSE, ![next] = TRUE], flag)

\* TASK_RUNNING is set before it is cleared.
schedule_SetThenClear(q, st, flag) ==
  \E q2 \in {IF st[current] = "S_TASK_RUNNABLE" THEN add_runq(Charge(q), current)
             ELSE Charge(q)} :
  \E next \in {NextTask(q2.rq)} :
    Switch(q2, next, [runflag EXCEPT ![next] = TRUE, ![current] = FALSE], flag)

\* schedule(), from the queue q (with the caller's own changes), the states st
\* and the interrupt flag of the caller.  The increment of preempt_count is
\* undone by the decrement in __switch_to.
schedule(q, st, flag) ==
  \E q2 \in {IF st[current] = "S_TASK_RUNNABLE" THEN add_runq(Charge(q), current)
             ELSE Charge(q)} :
  \E next \in {NextTask(q2.rq)} :
    Switch(q2, next, [runflag EXCEPT ![current] = FALSE, ![next] = TRUE], flag)

Queue == [rq |-> rq, vr |-> vruntime]

\* What runs after a NULL pointer was followed, a zombie was switched to, or the
\* idle task got the CPU back with a stack pointer that is not its own is not
\* modelled.
Alive ==
  /\ rq.heap.ok /\ state[current] # "S_TASK_ZOMBIE"
  /\ ~(current = IDLE /\ boot = "done" /\ stale = "stack")

-----------------------------------------------------------------------------
(* Boot and kernel threads *)

\* sched_run_bsp: ktask_spawn(bsp) and task_wake, with the timer off
sched_run_bsp ==
  /\ boot = "spawn" /\ boot' = "timer"
  /\ state' = [state EXCEPT ![Bsp] = "S_TASK_RUNNABLE"]
  /\ \E q \in {add_runq(Queue, Bsp)} : rq' = q.rq /\ vruntime' = q.vr
  /\ UNCHANGED <<current, runflag, mode, time_slice, need_resched, preempt_count, IF_idle,
                 picked, wake, stale, cast, hit>>

BootStep(from, to) ==
  /\ Alive /\ boot = from /\ current = IDLE /\ boot' = to
  /\ UNCHANGED <<state, mode, vruntime, time_slice, preempt_count, IF_idle, wake, stale, cast>>

local_timer_start ==
  /\ BootStep("timer", "yield")
  /\ UNCHANGED <<current, runflag, rq, need_resched, picked, hit>>

\* sched_yield in the boot context: schedule() up to next_runq's reading of the
\* leftmost task ...
sched_yield ==
  /\ BootStep("yield", "remove")
  /\ picked' = NextTask(rq) /\ need_resched' = FALSE
  /\ UNCHANGED <<current, runflag, rq, hit>>

\* ... which it then removes, also when a tick has given it the CPU meanwhile.
\* (A tick inside tree_remove meets the leftmost task from before it or after it.)
next_runq_removes ==
  /\ BootStep("remove", "flags")
  /\ rq' = IF picked = IDLE THEN rq ELSE tree_remove(rq, picked)
  /\ hit' = (hit \/ picked # NextTask(rq))
  /\ UNCHANGED <<current, runflag, need_resched, picked>>

\* TASK_RUNNING moves; a tick between the two writes leaves what one after them does.
schedule_flags ==
  /\ BootStep("flags", "switch")
  /\ runflag' = [runflag EXCEPT ![current] = FALSE, ![picked] = TRUE]
  /\ UNCHANGED <<current, rq, need_resched, picked, hit>>

\* prev's stack pointer is saved and next's loaded, ...
switch_stacks ==
  /\ BootStep("switch", "stacks")
  /\ UNCHANGED <<current, runflag, rq, need_resched, picked, hit>>

\* ... and current_task becomes next, which may be idle again.
__switch_to ==
  /\ BootStep("stacks", "done")
  /\ current' = picked /\ picked' = NULL
  /\ UNCHANGED <<runflag, rq, need_resched, hit>>

\* The new task is zeroed and in state S_TASK_INIT.
ktask_spawn(t) ==
  /\ state[t] = "none"
  /\ state' = [state EXCEPT ![t] = "S_TASK_INIT"]
  /\ UNCHANGED <<current, runflag, mode, rq, vruntime, time_slice, need_resched,
                 preempt_count, IF_idle, context, cast, hit>>

InBsp == Alive /\ current = Bsp /\ mode[Bsp] = "kernel"

\* The bsp task spawns t, a kernel thread that will become a user program.
utask_spawn(t) == InBsp /\ wake = NoWake /\ t \in cast.tasks /\ ktask_spawn(t)

\* task_wake, in four steps.  The state is set, the vruntime taken from the
\* leftmost task, and the place looked for ...
task_wake(t) ==
  /\ InBsp /\ wake = NoWake /\ state[t] = "S_TASK_INIT"
  /\ state' = [state EXCEPT ![t] = "S_TASK_RUNNABLE"]
  /\ vruntime' = [vruntime EXCEPT ![t] = min_vruntime(rq, vruntime)]
  /\ wake' = [pc |-> "link", task |-> t, place |-> FindPlace(rq, t, vruntime')]
  /\ UNCHANGED <<current, runflag, mode, rq, time_slice, need_resched, preempt_count,
                 IF_idle, boot, picked, stale, cast, hit>>

WakeStep(from, to) ==
  /\ InBsp /\ wake.pc = from /\ wake' = IF to = "none" THEN NoWake ELSE [wake EXCEPT !.pc = to]
  /\ UNCHANGED <<current, state, runflag, mode, vruntime, time_slice, need_resched, preempt_count,
                 IF_idle, boot, picked, stale, cast, hit>>

\* ... rb_link_node, rb_insert_color, and the cached leftmost node and count.
wake_link ==
  /\ WakeStep("link", "color")
  /\ rq' = [rq EXCEPT !.heap = rb_link_node(@, wake.task, wake.place.parent, wake.place.side)]

wake_color ==
  /\ WakeStep("color", "cache")
  /\ rq' = [rq EXCEPT !.heap = rb_insert_color(@, wake.task)]

wake_cache ==
  /\ WakeStep("cache", "none")
  /\ rq' = UpdateCache(rq, wake.task, vruntime)

\* The task becomes a user program.  The decrement has no matching increment:
\* the first one wraps the counter, which nothing reads.
ktask_execve ==
  /\ Alive /\ current \in Tasks \ cast.returning /\ mode[current] = "kernel" /\ wake = NoWake
  /\ mode' = [mode EXCEPT ![current] = "user"]
  /\ preempt_count' = (preempt_count + WORD - 1) % WORD
  /\ UNCHANGED <<current, state, runflag, rq, vruntime, time_slice, need_resched,
                 IF_idle, context, cast, hit>>

\* The first thing a spawned thread does, and the last thing bsp does.
utask_trampoline == current # Bsp /\ ktask_execve
bsp_execve == current = Bsp /\ ktask_execve

-----------------------------------------------------------------------------
(* Interrupts and exits *)

InterruptsOn == current \in Tasks \/ IF_idle

TickEnabled == Alive /\ boot \notin {"spawn", "timer"} /\ InterruptsOn

\* A walk that has not linked yet is in danger only if there is a tree.
Changing == wake.pc \in {"color", "cache"} \/ (wake.pc = "link" /\ rq.heap.root # NULL)

\* What idle is left with when schedule() interrupts its switch to another task:
\* from idle to idle it sets the flag again, and saves the stack it is on.
Stale ==
  CASE current = IDLE /\ boot = "stacks" -> "stack"
    [] current = IDLE /\ boot = "switch" -> "flag"
    [] OTHER -> stale

\* A tick: the slice of the current task grows and ends as the arguments say.
Tick(ends, resched) ==
  /\ TickEnabled
  /\ time_slice' = [time_slice EXCEPT ![current] = IF ends THEN 0 ELSE @ + 1]
  /\ IF resched
       THEN schedule(Queue, state, FALSE) /\ hit' = (hit \/ Changing) /\ stale' = Stale
       ELSE UNCHANGED <<need_resched, rq, vruntime, runflag, current, IF_idle, hit, stale>>
  /\ UNCHANGED <<state, mode, preempt_count, boot, picked, wake, cast>>

\* The end of a slice is not followed by schedule().
lapic_timer_handler_NoPreempt == Tick(time_slice[current] + 1 >= MAX_SLICES, need_resched)

lapic_timer_handler ==
  LET expired == time_slice[current] + 1 >= MAX_SLICES
  IN Tick(expired, expired \/ need_resched)

\* The task becomes a zombie after schedule() has looked at its state.
task_exit_ZombieLate(flag) ==
  /\ state' = [state EXCEPT ![current] = "S_TASK_ZOMBIE"]
  /\ \E q \in {IF state[current] = "S_TASK_RUNNABLE"
                THEN [Queue EXCEPT !.rq = tree_remove(rq, current)] ELSE Queue} :
        schedule(q, state, flag)
  /\ UNCHANGED <<mode, time_slice, preempt_count, context, cast, hit>>

\* task_exit: a running task is not in the tree, yet it is removed from it.
task_exit(flag) ==
  /\ state' = [state EXCEPT ![current] = "S_TASK_ZOMBIE"]
  /\ \E q \in {IF state[current] = "S_TASK_RUNNABLE"
                THEN [Queue EXCEPT !.rq = tree_remove(rq, current)] ELSE Queue} :
        IF q.rq.heap.ok THEN schedule(q, state', flag)
        ELSE rq' = q.rq /\ UNCHANGED <<need_resched, vruntime, runflag, current, IF_idle>>
  /\ UNCHANGED <<mode, time_slice, preempt_count, context, cast, hit>>

\* A user program's segmentation fault: page fault, vm_fault_handler, task_exit(1).
vm_fault_exit ==
  /\ Alive /\ current \in cast.faulting /\ mode[current] = "user"
  /\ task_exit(FALSE)

\* A kernel thread's function returns into __kfork_return.
__kfork_return ==
  /\ Alive /\ current \in cast.returning /\ mode[current] = "kernel"
  /\ current = Bsp => wake = NoWake /\ \A t \in Tasks : state[t] # "S_TASK_INIT"
  /\ task_exit(TRUE)

\* The idle task halts; and nothing is said of what is not Alive.
Hlt == ((current = IDLE /\ boot = "done") \/ ~Alive) /\ UNCHANGED sched_vars

SchedNext ==
  \/ sched_run_bsp \/ local_timer_start
  \/ sched_yield \/ next_runq_removes \/ schedule_flags \/ switch_stacks \/ __switch_to
  \/ \E t \in Tasks : utask_spawn(t)
  \/ \E t \in Tasks : task_wake(t)
  \/ wake_link \/ wake_color \/ wake_cache
  \/ utask_trampoline
  \/ bsp_execve
  \/ lapic_timer_handler
  \/ vm_fault_exit
  \/ __kfork_return
  \/ Hlt

SchedSpec == SchedInit /\ [][SchedNext]_sched_vars

\* The boot code goes on as long as it has the CPU; the timer is periodic and is
\* delivered whenever interrupts are on; and a task_wake that gets the CPU again
\* and again moves on: weak fairness of sched_run_bsp and of the steps of its
\* sched_yield and of lapic_timer_handler, and strong fairness of the steps of
\* task_wake, with what ENABLED amounts to written out.
SchedFairSpec ==
  /\ SchedSpec
  /\ boot # "done" ~> (boot = "done" \/ current # IDLE \/ ~Alive)
  /\ []<>~TickEnabled \/ []<><<lapic_timer_handler>>_sched_vars
  /\ <>[]~(InBsp /\ wake # NoWake) \/ []<><<wake_link \/ wake_color \/ wake_cache>>_sched_vars

-----------------------------------------------------------------------------
(* Properties *)

Runnable == {t \in Tasks : state[t] = "S_TASK_RUNNABLE"}

\* What next_runq can still reach: the tree below the root and the cached
\* leftmost node.
Reachable == LET q == Order(rq) IN ({q[i] : i \in DOMAIN q} \cup {rq.leftmost}) \ {NULL}

\* Woken, and not linked yet
Waking == IF wake.pc = "link" THEN {wake.task} ELSE {}

\* The task that the boot context has removed and not yet given the CPU
Taken == IF boot \in {"flags", "switch", "stacks"} THEN {picked} ELSE {}

\* A task in state S_TASK_RUNNABLE is either on the CPU or in the run queue,
\* where next_runq will find it, or in the hands of the boot context's
\* schedule() or of task_wake; nothing else is in the queue.  (Unless a tick's
\* schedule() has met a task_wake half way through its changes, or the boot
\* context has removed the task that a tick's schedule() took from under it.)
RunnableQueued ==
  ~hit =>
    /\ rq.heap.ok
    /\ Runnable = Reachable \cup Waking \cup (({current} \cup Taken) \ {IDLE})
    /\ ({current} \cup Taken) \cap Reachable = {}

\* TASK_RUNNING is set for no task but the one on the CPU and, for the time of
\* the switch, the one the boot context switches to, whatever has happened to the
\* queue and wherever the ticks come; idle keeps it only from a tick that came
\* within that switch.  And the task on the CPU has it from the first switch on,
\* also when schedule() picks the task it just put back.
RunningFlagExact ==
  /\ \A t \in All : runflag[t] =>
       t = current \/ (boot \in {"switch", "stacks"} /\ t = picked) \/ (t = IDLE /\ stale # "nothing")
  /\ current # IDLE \/ boot = "done" => runflag[current]

\* A task that has ended never runs again, and never re-enters the queue, with
\* the same exception.
ZombiesStayOut ==
  ~hit => \A t \in Tasks : state[t] = "S_TASK_ZOMBIE" => t # current /\ t \notin Reachable

\* Every runnable task gets the CPU again and again until it ends, whatever
\* the others do and wherever the ticks come, also in sched_run_bsp: there is
\* no starvation, with the same exception.
EveryoneRuns == \A t \in Tasks : t \in Runnable ~> (current = t \/ t \notin Runnable \/ hit)

\* The scheduler implements round robin: a task enters the queue when it is
\* linked, and the one that the boot context has removed is still the first.
RR == INSTANCE RoundRobin WITH
        Threads <- Tasks,
        Idle <- IDLE,
        running <- current,
        queue <- (IF Taken \subseteq Tasks /\ Taken # {} THEN <<picked>> ELSE <<>>) \o Order(rq),
        ready <- Runnable \ Waking

RoundRobinSpec == RR!Init /\ [][hit' \/ RR!Next]_(RR!vars)
=============================================================================
