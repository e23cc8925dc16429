-------------------------------- MODULE Slab --------------------------------
(***************************************************************************)
(* One object cache of the slab allocator (mm/vm/slab.c).                  *)
(*                                                                         *)
(* A slab is a page of ObjPerSlab objects; free objects are chained        *)
(* through the word they hold (fp), from cpu.freelist for the slab the CPU *)
(* allocates from and from slab.freelist for the others.  A slab with a    *)
(* free object that is not the CPU's slab is on the partial list.          *)
(*                                                                         *)
(* The allocator takes no lock and does not disable preemption.  A call is *)
(* therefore cut into steps at the places where a value read from shared   *)
(* state is used later.  With Preemptible = FALSE calls do not overlap, as *)
(* while interrupts are off; with TRUE the timer may switch threads        *)
(* between any two steps.                                                  *)
(***************************************************************************)
EXTENDS Naturals, FiniteSets

CONSTANTS
  Threads,      \* kernel threads that use the cache
  Slabs,        \* the pages pmm_alloc_page can give to this cache
  ObjPerSlab,   \* (PAGE_SIZE - header) / size
  NULL,
  Preemptible   \* may a timer tick switch threads inside a call?

ASSUME ObjPerSlabAssumption == ObjPerSlab \in Nat \ {0}
ASSUME PreemptibleAssumption == Preemptible \in BOOLEAN

Objects == Slabs \X (1 .. ObjPerSlab)

ASSUME SlabsAssumption == IsFiniteSet(Slabs) /\ NULL \notin Slabs \cup Objects

VARIABLES
  cpu,      \* s->cpu: [freelist, slab]
  partial,  \* s->partial: head of the partial list
  slab,     \* per page: [freelist, next, inuse, objects], objects = 0 before use
  fp,       \* per object: the next free object stored in it
  call,     \* per thread: the step it is at and its local variables
  live      \* ghost: objects given to a caller and not freed since

vars == <<cpu, partial, slab, fp, call, live>>

NotASlab == [freelist |-> NULL, next |-> NULL, inuse |-> 0, objects |-> 0]

Idle == [at |-> "idle", obj |-> NULL, slab |-> NULL]

\* kmem_cache_create
Init ==
  /\ cpu = [freelist |-> NULL, slab |-> NULL]
  /\ partial = NULL
  /\ slab = [p \in Slabs |-> NotASlab]
  /\ fp = [o \in Objects |-> NULL]
  /\ call = [t \in Threads |-> Idle]
  /\ live = {}

MayRun(t) == Preemptible \/ \A u \in Threads \ {t} : call[u] = Idle

Goto(t, at, o, p) == call' = [call EXCEPT ![t] = [at |-> at, obj |-> o, slab |-> p]]

\* The object o is returned to thread t's caller.
Return(t, o) == Goto(t, "idle", NULL, NULL) /\ live' = live \cup {o}

-----------------------------------------------------------------------------
(* kmem_cache_alloc *)

\* The partial list is never looked at.
kmem_cache_alloc_IgnorePartial(t) ==
  /\ MayRun(t) /\ call[t].at = "idle"
  /\ IF cpu.freelist # NULL
       THEN Goto(t, "pop", cpu.freelist, NULL)
       ELSE Goto(t, "refill", NULL, NULL)
  /\ UNCHANGED <<cpu, partial, slab, fp, live>>

\* obj = s->cpu.freelist, and the choice of path.
kmem_cache_alloc(t) ==
  /\ MayRun(t) /\ call[t].at = "idle"
  /\ IF cpu.freelist # NULL
       THEN Goto(t, "pop", cpu.freelist, NULL)
       ELSE Goto(t, "refill", NULL, partial)
  /\ UNCHANGED <<cpu, partial, slab, fp, live>>

Pop_NotCounted(t) ==
  /\ MayRun(t) /\ call[t].at = "pop"
  /\ cpu' = [cpu EXCEPT !.freelist = fp[call[t].obj]]
  /\ Return(t, call[t].obj)
  /\ UNCHANGED <<partial, slab, fp>>

\* s->cpu.freelist = get_fp(obj); s->cpu.slab->inuse++; return obj
Pop(t) ==
  /\ MayRun(t) /\ call[t].at = "pop"
  /\ cpu' = [cpu EXCEPT !.freelist = fp[call[t].obj]]
  /\ slab' = [slab EXCEPT ![cpu.slab].inuse = @ + 1]
  /\ Return(t, call[t].obj)
  /\ UNCHANGED <<partial, fp>>

\* _refill with no partial slab: a page from the manager, or NULL.
alloc_new_slab(t) ==
  /\ MayRun(t) /\ call[t].at = "refill" /\ call[t].slab = NULL
  /\ \/ \E p \in Slabs :
          /\ slab[p].objects = 0
          /\ fp' = [o \in Objects |->
                      IF o[1] # p THEN fp[o]
                      ELSE IF o[2] < ObjPerSlab THEN <<p, o[2] + 1>> ELSE NULL]
          /\ slab' = [slab EXCEPT ![p] = [freelist |-> <<p, 1>>, next |-> NULL,
                                          inuse |-> 0, objects |-> ObjPerSlab]]
          /\ Goto(t, "take", NULL, p)
     \/ Goto(t, "failed", NULL, NULL) /\ UNCHANGED <<slab, fp>>
  /\ UNCHANGED <<cpu, partial, live>>

\* _refill with the partial slab it read: unlink it.
Unlink(t) ==
  /\ MayRun(t) /\ call[t].at = "refill" /\ call[t].slab # NULL
  /\ partial' = slab[call[t].slab].next
  /\ slab' = [slab EXCEPT ![call[t].slab].next = NULL]
  /\ Goto(t, "take", NULL, call[t].slab)
  /\ UNCHANGED <<cpu, fp, live>>

\* The rest of _refill: the slab's free list moves to the CPU.
_refill(t) ==
  LET p == call[t].slab
      o == slab[p].freelist
  IN /\ MayRun(t) /\ call[t].at = "take" /\ o # NULL
     /\ cpu' = [freelist |-> fp[o], slab |-> p]
     /\ slab' = [slab EXCEPT ![p].freelist = NULL, ![p].inuse = @ + 1]
     /\ Return(t, o)
     /\ UNCHANGED <<partial, fp>>

\* The caller sees NULL.
ReturnNull(t) ==
  /\ MayRun(t) /\ call[t].at = "failed"
  /\ Goto(t, "idle", NULL, NULL)
  /\ UNCHANGED <<cpu, partial, slab, fp, live>>

-----------------------------------------------------------------------------
(* kmem_cache_free: the object's slab is the page it lies in *)

kmem_cache_free(t, o) ==
  /\ MayRun(t) /\ call[t].at = "idle" /\ o \in live
  /\ live' = live \ {o}
  /\ slab' = [slab EXCEPT ![o[1]].inuse = @ - 1]
  /\ Goto(t, IF o[1] = cpu.slab THEN "push" ELSE "give back", o, o[1])
  /\ UNCHANGED <<cpu, partial, fp>>

\* The object's own link is not written.
PushCpu_NotLinked(t) ==
  /\ MayRun(t) /\ call[t].at = "push"
  /\ cpu' = [cpu EXCEPT !.freelist = call[t].obj]
  /\ Goto(t, "idle", NULL, NULL)
  /\ UNCHANGED <<partial, slab, fp, live>>

\* The object goes to the CPU's free list.
PushCpu(t) ==
  /\ MayRun(t) /\ call[t].at = "push"
  /\ fp' = [fp EXCEPT ![call[t].obj] = cpu.freelist]
  /\ cpu' = [cpu EXCEPT !.freelist = call[t].obj]
  /\ Goto(t, "idle", NULL, NULL)
  /\ UNCHANGED <<partial, slab, live>>

\* The else branch, with the value of was_full.
PushSlabIf(t, was_full) ==
  LET p == call[t].slab
  IN /\ MayRun(t) /\ call[t].at = "give back"
     /\ fp' = [fp EXCEPT ![call[t].obj] = slab[p].freelist]
     /\ slab' = [slab EXCEPT ![p].freelist = call[t].obj,
                             ![p].next = IF was_full THEN partial ELSE @]
     /\ partial' = IF was_full THEN p ELSE partial
     /\ Goto(t, "idle", NULL, NULL)
     /\ UNCHANGED <<cpu, live>>

\* was_full is constant.
PushSlab_NeverPartial(t) == PushSlabIf(t, FALSE)

\* The object goes to its slab's free list; a slab that was full becomes partial.
PushSlab(t) == PushSlabIf(t, slab[call[t].slab].freelist = NULL)

Step(t) ==
  \/ kmem_cache_alloc(t) \/ Pop(t) \/ alloc_new_slab(t) \/ Unlink(t)
  \/ _refill(t) \/ ReturnNull(t)
  \/ \E o \in live : kmem_cache_free(t, o)
  \/ PushCpu(t) \/ PushSlab(t)

Next == \E t \in Threads : Step(t)

Spec == Init /\ [][Next]_vars

-----------------------------------------------------------------------------
(* Properties *)

Quiet == \A t \in Threads : call[t] = Idle

\* The first n cells of the chain that starts at head.
Chain(head, next) ==
  LET n == Cardinality(DOMAIN next)
      walk[i \in 0 .. n] == IF i = 0 THEN head
                            ELSE IF walk[i - 1] = NULL THEN NULL ELSE next[walk[i - 1]]
  IN [cells |-> {walk[i] : i \in 0 .. n} \ {NULL}, ends |-> walk[n] = NULL]

CpuChain == Chain(cpu.freelist, fp)
SlabChain(p) == Chain(slab[p].freelist, fp)
PartialChain == Chain(partial, [p \in Slabs |-> slab[p].next])

\* Between calls every object of every slab is in exactly one place: with a
\* caller, on the CPU's free list, or on its own slab's free list.  The lists
\* end (no cycle) and share no cell, so no object can be handed out twice and
\* none is lost, whatever the order of allocations and frees.
ObjectsConserved ==
  Quiet =>
    /\ CpuChain.ends /\ \A p \in Slabs : SlabChain(p).ends
    /\ CpuChain.cells \cap live = {}
    /\ \A p \in Slabs :
         LET here == {o \in Objects : o[1] = p}
             places == (live \cap here) \cup (CpuChain.cells \cap here)
         IN /\ SlabChain(p).cells \cap places = {}
            /\ SlabChain(p).cells \cup places = IF slab[p].objects = 0 THEN {} ELSE here

\* Between calls inuse counts the live objects of the slab, so a slab is known
\* to be empty exactly when it is.
InuseExact ==
  Quiet => \A p \in Slabs : slab[p].inuse = Cardinality({o \in live : o[1] = p})

\* Between calls the partial list holds exactly the slabs that have free
\* objects of their own; the CPU's slab, whose free list moved away, is never
\* on it.  A slab with room is therefore never forgotten.
PartialExact ==
  Quiet => /\ PartialChain.ends
           /\ PartialChain.cells = {p \in Slabs : slab[p].freelist # NULL}
           /\ cpu.slab \notin PartialChain.cells

\* A caller gets NULL only when no object is free in any slab of the cache.
FailsOnlyWhenExhausted ==
  (\E t \in Threads : call[t].at = "failed") =>
    live = {o \in Objects : slab[o[1]].objects > 0}

\* kassert(slab->freelist != NULL) in _refill: the slab it is about to take
\* objects from has one.
RefillAssert ==
  \A t \in Threads : call[t].at = "take" => slab[call[t].slab].freelist # NULL
=============================================================================
