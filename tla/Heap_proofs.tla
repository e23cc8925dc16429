---------------------------- MODULE Heap_proofs ----------------------------
(***************************************************************************)
(* The kernel heap, for every size of its parts: the object caches of the  *)
(* slab allocator while calls do not overlap (Slab), and kmalloc on top of *)
(* them (Kmalloc).  The two specifications share no variable; their proofs *)
(* are in the two halves of this module.                                   *)
(***************************************************************************)
EXTENDS Kmalloc, Slab, Induction, FiniteSetTheorems

-----------------------------------------------------------------------------
(* Linked lists.  S is the set of cells of the list that starts at head: c *)
(* enumerates it from its end, so that a push or a pop changes the last    *)
(* element only.                                                           *)

Links(next, head, S, n, c) ==
  /\ \A x \in S : \E i \in 1 .. n : c[i] = x
  /\ \A i, j \in 1 .. n : c[i] = c[j] => i = j
  /\ head = IF n = 0 THEN NULL ELSE c[n]
  /\ \A i \in 1 .. n : next[c[i]] = IF i = 1 THEN NULL ELSE c[i - 1]

IsList(next, head, S) ==
  \E n \in Nat : \E c \in [1 .. n -> S] : Links(next, head, S, n, c)

LEMMA EmptyList ==
  ASSUME NEW next
  PROVE  /\ IsList(next, NULL, {})
         /\ \A head : IsList(next, head, {}) => head = NULL
  <1>1. IsList(next, NULL, {})
    <2> DEFINE c == [i \in 1 .. 0 |-> NULL]
    <2>1. c \in [1 .. 0 -> {}] /\ Links(next, NULL, {}, 0, c) BY DEF Links
    <2> QED BY <2>1 DEF IsList
  <1>2. ASSUME NEW head, IsList(next, head, {}) PROVE head = NULL
    <2>1. PICK n \in Nat : \E c \in [1 .. n -> {}] : Links(next, head, {}, n, c)
      BY <1>2 DEF IsList
    <2>2. PICK c \in [1 .. n -> {}] : Links(next, head, {}, n, c) BY <2>1
    <2>3. n = 0
      <3> SUFFICES ASSUME n # 0 PROVE FALSE OBVIOUS
      <3>1. c[1] \in {} BY <2>2
      <3> QED BY <3>1
    <2> QED BY <2>2, <2>3 DEF Links
  <1> QED BY <1>1, <1>2

\* The list that starts at NULL is empty; any other starts at one of its cells.
LEMMA ListHead ==
  ASSUME NEW next, NEW head, NEW S, NULL \notin S, IsList(next, head, S)
  PROVE  /\ head = NULL => S = {}
         /\ head # NULL => head \in S
  <1>1. PICK n \in Nat : \E c \in [1 .. n -> S] : Links(next, head, S, n, c)
    BY DEF IsList
  <1>2. PICK c \in [1 .. n -> S] : Links(next, head, S, n, c) BY <1>1
  <1>3. CASE n = 0 BY <1>2, <1>3 DEF Links
  <1>4. CASE n # 0
    <2>1. head = c[n] /\ c[n] \in S BY <1>2, <1>4 DEF Links
    <2> QED BY <2>1
  <1> QED BY <1>3, <1>4

\* Cells outside a list may change without changing it.
LEMMA ListFrame ==
  ASSUME NEW next, NEW new, NEW head, NEW S, IsList(next, head, S),
         \A x \in S : new[x] = next[x]
  PROVE  IsList(new, head, S)
  <1>1. PICK n \in Nat : \E c \in [1 .. n -> S] : Links(next, head, S, n, c)
    BY DEF IsList
  <1>2. PICK c \in [1 .. n -> S] : Links(next, head, S, n, c) BY <1>1
  <1>3. \A i \in 1 .. n : new[c[i]] = next[c[i]] OBVIOUS
  <1>4. Links(new, head, S, n, c) BY <1>2, <1>3 DEF Links
  <1> QED BY <1>4 DEF IsList

LEMMA ListPush ==
  ASSUME NEW next, NEW new, NEW head, NEW S, NEW x, IsList(next, head, S),
         x \notin S, \A y \in S : new[y] = next[y], new[x] = head
  PROVE  IsList(new, x, S \cup {x})
  <1>1. PICK n \in Nat : \E c \in [1 .. n -> S] : Links(next, head, S, n, c)
    BY DEF IsList
  <1>2. PICK c \in [1 .. n -> S] : Links(next, head, S, n, c) BY <1>1
  <1> DEFINE d == [i \in 1 .. n + 1 |-> IF i = n + 1 THEN x ELSE c[i]]
  <1>3. d \in [1 .. n + 1 -> S \cup {x}] OBVIOUS
  <1>4. d[n + 1] = x /\ \A i \in 1 .. n : d[i] = c[i] /\ c[i] \in S /\ c[i] # x OBVIOUS
  <1>5. \A i \in 1 .. n + 1 : i = n + 1 \/ i \in 1 .. n OBVIOUS
  <1> HIDE DEF d
  <1>6. \A y \in S \cup {x} : \E i \in 1 .. n + 1 : d[i] = y
    <2> TAKE y \in S \cup {x}
    <2>1. CASE y = x BY <1>4, <2>1
    <2>2. CASE y \in S
      <3>1. PICK i \in 1 .. n : c[i] = y BY <1>2, <2>2 DEF Links
      <3> QED BY <1>4, <3>1
    <2> QED BY <2>1, <2>2
  <1>7. \A i, j \in 1 .. n + 1 : d[i] = d[j] => i = j
    <2> TAKE i, j \in 1 .. n + 1
    <2>1. CASE i \in 1 .. n /\ j \in 1 .. n BY <1>2, <1>4, <2>1 DEF Links
    <2>2. CASE i = n + 1 \/ j = n + 1 BY <1>4, <1>5, <2>2
    <2> QED BY <1>5, <2>1, <2>2
  <1>8. \A i \in 1 .. n + 1 : new[d[i]] = IF i = 1 THEN NULL ELSE d[i - 1]
    <2> TAKE i \in 1 .. n + 1
    <2>1. CASE i = n + 1
      <3>1. i # 1 => i - 1 = n /\ n \in 1 .. n BY <2>1
      <3>2. i = 1 <=> n = 0 BY <2>1
      <3> QED BY <1>2, <1>4, <2>1, <3>1, <3>2 DEF Links
    <2>2. CASE i \in 1 .. n
      <3>1. new[d[i]] = next[c[i]] BY <1>4, <2>2
      <3>2. i # 1 => i - 1 \in 1 .. n BY <2>2
      <3> QED BY <1>2, <1>4, <2>2, <3>1, <3>2 DEF Links
    <2> QED BY <1>5, <2>1, <2>2
  <1>9. Links(new, x, S \cup {x}, n + 1, d) BY <1>4, <1>6, <1>7, <1>8 DEF Links
  <1> QED BY <1>3, <1>9 DEF IsList

LEMMA ListPop ==
  ASSUME NEW next, NEW head, NEW S, NULL \notin S, IsList(next, head, S), head # NULL
  PROVE  head \in S /\ IsList(next, next[head], S \ {head})
  <1>1. PICK n \in Nat : \E c \in [1 .. n -> S] : Links(next, head, S, n, c)
    BY DEF IsList
  <1>2. PICK c \in [1 .. n -> S] : Links(next, head, S, n, c) BY <1>1
  <1>3. n # 0 /\ head = c[n] /\ n \in 1 .. n /\ head \in S BY <1>2 DEF Links
  <1> DEFINE d == [i \in 1 .. n - 1 |-> c[i]]
  <1>4. \A i \in 1 .. n - 1 : i \in 1 .. n /\ i # n /\ d[i] = c[i] /\ c[i] # head
    BY <1>2, <1>3 DEF Links
  <1>5. d \in [1 .. n - 1 -> S \ {head}] BY <1>4
  <1> HIDE DEF d
  <1>6. \A y \in S \ {head} : \E i \in 1 .. n - 1 : d[i] = y
    <2> TAKE y \in S \ {head}
    <2>1. PICK i \in 1 .. n : c[i] = y BY <1>2 DEF Links
    <2>2. i \in 1 .. n - 1 BY <1>3, <2>1
    <2> QED BY <1>4, <2>1, <2>2
  <1>7. \A i, j \in 1 .. n - 1 : d[i] = d[j] => i = j BY <1>2, <1>4 DEF Links
  <1>8. \A i \in 1 .. n - 1 : next[d[i]] = IF i = 1 THEN NULL ELSE d[i - 1]
    <2> TAKE i \in 1 .. n - 1
    <2>1. i # 1 => i - 1 \in 1 .. n - 1 OBVIOUS
    <2> QED BY <1>2, <1>4, <2>1 DEF Links
  <1>9. next[head] = IF n - 1 = 0 THEN NULL ELSE d[n - 1]
    <2>1. next[c[n]] = IF n = 1 THEN NULL ELSE c[n - 1] BY <1>2, <1>3 DEF Links
    <2>2. n # 1 => n - 1 \in 1 .. n - 1 BY <1>3
    <2> QED BY <1>3, <1>4, <2>1, <2>2
  <1>10. Links(next, next[head], S \ {head}, n - 1, d)
    BY <1>6, <1>7, <1>8, <1>9 DEF Links
  <1>11. n - 1 \in Nat BY <1>3
  <1> QED BY <1>3, <1>5, <1>10, <1>11 DEF IsList

\* Walking down a list, as the definition of Chain does, finds its cells and
\* comes to its end.
LEMMA ListChain ==
  ASSUME NEW next, NEW head, NEW S, NULL \notin S, IsFiniteSet(DOMAIN next),
         S \subseteq DOMAIN next, IsList(next, head, S)
  PROVE  Chain(head, next).cells = S /\ Chain(head, next).ends
  <1>1. PICK n \in Nat : \E c \in [1 .. n -> S] : Links(next, head, S, n, c)
    BY DEF IsList
  <1>2. PICK c \in [1 .. n -> S] : Links(next, head, S, n, c) BY <1>1
  <1> DEFINE m == Cardinality(DOMAIN next)
             Eq(f) == f = [i \in 0 .. m |-> IF i = 0 THEN head
                                            ELSE IF f[i - 1] = NULL THEN NULL ELSE next[f[i - 1]]]
             w == [i \in 0 .. m |-> IF i < n THEN c[n - i] ELSE NULL]
             walk == CHOOSE f : Eq(f)
  <1>3. m \in Nat /\ n <= m
    <2>1. c \in Injection(1 .. n, DOMAIN next) BY <1>2 DEF Links, Injection, IsInjective
    <2>2. Cardinality(1 .. n) <= m BY <2>1, FS_Injection
    <2>3. Cardinality(1 .. n) = n BY FS_Interval
    <2>4. m \in Nat BY FS_CardinalityType
    <2> QED BY <2>2, <2>3, <2>4
  <1> HIDE DEF m
  <1>4. \A i \in 0 .. m : /\ i < n => w[i] = c[n - i] /\ n - i \in 1 .. n /\ w[i] # NULL
                          /\ ~(i < n) => w[i] = NULL
    BY <1>3
  <1>5. Eq(w)
    <2> SUFFICES ASSUME NEW i \in 0 .. m
                 PROVE  w[i] = IF i = 0 THEN head
                               ELSE IF w[i - 1] = NULL THEN NULL ELSE next[w[i - 1]]
      <3>1. w \in [0 .. m -> S \cup {NULL}] BY <1>4
      <3> HIDE DEF w
      <3> QED BY <3>1
    <2>1. CASE i = 0
      <3>1. n # 0 => w[0] = c[n] BY <1>3, <1>4
      <3>2. n = 0 => w[0] = NULL BY <1>3, <1>4
      <3> QED BY <1>2, <2>1, <3>1, <3>2 DEF Links
    <2>2. CASE i # 0 /\ i - 1 < n
      <3>1. w[i - 1] = c[n - (i - 1)] /\ n - (i - 1) \in 1 .. n /\ w[i - 1] # NULL
        BY <1>3, <1>4, <2>2
      <3>2. next[w[i - 1]] = IF n - (i - 1) = 1 THEN NULL ELSE c[n - (i - 1) - 1]
        BY <1>2, <3>1 DEF Links
      <3>3. n - (i - 1) - 1 = n - i /\ (n - (i - 1) = 1 <=> ~(i < n)) BY <2>2
      <3> QED BY <1>4, <2>2, <3>1, <3>2, <3>3
    <2>3. CASE i # 0 /\ ~(i - 1 < n)
      <3>1. w[i - 1] = NULL /\ w[i] = NULL BY <1>3, <1>4, <2>3
      <3> QED BY <2>3, <3>1
    <2> QED BY <2>1, <2>2, <2>3
  <1> HIDE DEF w
  <1>6. \A i \in 0 .. m : walk[i] = IF i = 0 THEN head
                                    ELSE IF walk[i - 1] = NULL THEN NULL ELSE next[walk[i - 1]]
    <2>1. Eq(walk) BY <1>5
    <2> HIDE DEF walk
    <2> QED BY <2>1
  <1>7. \A i \in 0 .. m : walk[i] = w[i]
    <2> DEFINE I == {i \in 0 .. m : walk[i] = w[i]}
    <2>1. 0 \in I
      <3>1. 0 \in 0 .. m BY <1>3
      <3> HIDE DEF walk
      <3>2. walk[0] = head BY <1>6, <3>1
      <3>3. w[0] = head BY <1>3, <1>5, <3>1
      <3> QED BY <3>1, <3>2, <3>3
    <2>2. ASSUME NEW i \in 0 .. m - 1, i \in I PROVE i + 1 \in I
      <3>1. i + 1 \in 0 .. m /\ i + 1 # 0 /\ (i + 1) - 1 = i BY <1>3
      <3>2. walk[i + 1] = IF walk[i] = NULL THEN NULL ELSE next[walk[i]]
        <4> HIDE DEF walk
        <4> QED BY <1>6, <3>1
      <3>3. w[i + 1] = IF w[i] = NULL THEN NULL ELSE next[w[i]] BY <1>5, <3>1
      <3> QED BY <2>2, <3>1, <3>2, <3>3
    <2> HIDE DEF I
    <2>3. 0 .. m \subseteq I BY <1>3, <2>1, <2>2, InductionUpTo
    <2> QED BY <2>3 DEF I
  <1>8. Chain(head, next) = [cells |-> {walk[i] : i \in 0 .. m} \ {NULL}, ends |-> walk[m] = NULL]
    BY DEF Chain, m
  <1> HIDE DEF walk
  <1>9. walk[m] = NULL BY <1>3, <1>4, <1>7
  <1>10. {walk[i] : i \in 0 .. m} \ {NULL} = S
    <2>1. ASSUME NEW i \in 0 .. m, walk[i] # NULL PROVE walk[i] \in S
      BY <1>4, <1>7, <2>1
    <2>2. ASSUME NEW x \in S PROVE \E i \in 0 .. m : walk[i] = x /\ x # NULL
      <3>1. PICK j \in 1 .. n : c[j] = x BY <1>2 DEF Links
      <3>2. n - j \in 0 .. m /\ n - j < n /\ n - (n - j) = j BY <1>3
      <3>3. walk[n - j] = x BY <1>4, <1>7, <3>1, <3>2
      <3> QED BY <3>2, <3>3
    <2> QED BY <2>1, <2>2
  <1>11. Chain(head, next).cells = S BY <1>8, <1>10
  <1>12. Chain(head, next).ends = (walk[m] = NULL) BY <1>8
  <1> QED BY <1>9, <1>11, <1>12

-----------------------------------------------------------------------------
(* The inductive invariant.  Between the steps of a call an object that is *)
(* being freed is on no list, and a slab that _refill is about to take is  *)
(* not on the partial list.                                                *)

FlightOf(c) == {c[t].obj : t \in {u \in Threads : c[u].at \in {"push", "give back"}}}
TakingOf(c) == {c[t].slab : t \in {u \in Threads : c[u].at = "take"}}

Flight == FlightOf(call)
Taking == TakingOf(call)

\* The objects of slab p that ought to be on a free list.
Unused(p) == {o \in Objects : o[1] = p /\ o \notin live \cup Flight /\ slab[p].objects # 0}

Nexts == [p \in Slabs |-> slab[p].next]
WithFree == {p \in Slabs : slab[p].freelist # NULL}

Stages == {"idle", "pop", "refill", "take", "failed", "push", "give back"}

TypeInv ==
  /\ cpu \in [freelist : Objects \cup {NULL}, slab : Slabs \cup {NULL}]
  /\ partial \in Slabs \cup {NULL}
  /\ slab \in [Slabs -> [freelist : Objects \cup {NULL}, next : Slabs \cup {NULL},
                         inuse : Int, objects : {0, ObjPerSlab}]]
  /\ fp \in [Objects -> Objects \cup {NULL}]
  /\ call \in [Threads -> [at : Stages, obj : Objects \cup {NULL}, slab : Slabs \cup {NULL}]]
  /\ live \subseteq Objects

\* Calls do not overlap.
Alone == \A t, u \in Threads : t # u => call[t] = Idle \/ call[u] = Idle

\* What a call's locals have to do with the cache at each of its steps.
StepInv ==
  \A t \in Threads :
    LET c == call[t]
    IN /\ c.at = "idle"   => c = Idle
       /\ c.at = "pop"    => c.obj # NULL /\ c.obj = cpu.freelist
       /\ c.at = "refill" => cpu.freelist = NULL /\ c.slab = partial
       /\ c.at = "take"   => /\ cpu.freelist = NULL /\ c.slab # NULL /\ c.slab # cpu.slab
                             /\ slab[c.slab].freelist # NULL
       /\ c.at = "failed" => cpu.freelist = NULL /\ partial = NULL
       /\ c.at \in {"push", "give back"} =>
            /\ c.obj \in Objects \ live /\ c.slab = c.obj[1] /\ slab[c.slab].objects # 0
            /\ c.at = "push" <=> c.slab = cpu.slab

\* The free objects of the CPU's slab hang on its list, those of any other
\* slab on its own, and the slabs that have a list on the partial list.
CpuList == IsList(fp, cpu.freelist, Unused(cpu.slab))
SlabLists == \A p \in Slabs : IsList(fp, slab[p].freelist, IF p = cpu.slab THEN {} ELSE Unused(p))
PartialList == IsList(Nexts, partial, WithFree \ Taking)

\* Only pages that were made slabs are used.
UseInv ==
  /\ \A o \in live : slab[o[1]].objects # 0
  /\ cpu.slab # NULL => slab[cpu.slab].objects # 0

LiveIn(p) == {o \in live : o[1] = p}
CountInv == \A p \in Slabs : slab[p].inuse = Cardinality(LiveIn(p))

IInv == /\ TypeInv /\ Alone /\ StepInv
        /\ CpuList /\ SlabLists /\ PartialList
        /\ UseInv /\ CountInv

-----------------------------------------------------------------------------
(* What the steps have in common *)

\* With one thread in a call, what is in flight is that call's.
LEMMA OneCall ==
  ASSUME NEW c, NEW t \in Threads, \A u \in Threads \ {t} : c[u] = Idle
  PROVE  /\ FlightOf(c) = IF c[t].at \in {"push", "give back"} THEN {c[t].obj} ELSE {}
         /\ TakingOf(c) = IF c[t].at = "take" THEN {c[t].slab} ELSE {}
  <1>1. \A u \in Threads : u # t => c[u].at = "idle" BY DEF Idle
  <1> QED BY <1>1 DEF FlightOf, TakingOf

\* The thread that moves is the only one in a call, before and after.
Moved(t, at, o, p) ==
  /\ call' \in [Threads -> [at : Stages, obj : Objects \cup {NULL}, slab : Slabs \cup {NULL}]]
  /\ \A u \in Threads \ {t} : call'[u] = Idle
  /\ call'[t] = [at |-> at, obj |-> o, slab |-> p]
  /\ Alone'
  /\ Flight = IF call[t].at \in {"push", "give back"} THEN {call[t].obj} ELSE {}
  /\ Taking = IF call[t].at = "take" THEN {call[t].slab} ELSE {}
  /\ Flight' = IF at \in {"push", "give back"} THEN {o} ELSE {}
  /\ Taking' = IF at = "take" THEN {p} ELSE {}

LEMMA Moves ==
  ASSUME Preemptible = FALSE, IInv, NEW t \in Threads, MayRun(t),
         NEW at \in Stages, NEW o \in Objects \cup {NULL}, NEW p \in Slabs \cup {NULL},
         Goto(t, at, o, p)
  PROVE  Moved(t, at, o, p)
  <1>1. \A u \in Threads \ {t} : call[u] = Idle BY DEF MayRun
  <1>2. call' \in [Threads -> [at : Stages, obj : Objects \cup {NULL}, slab : Slabs \cup {NULL}]]
    BY DEF Goto, IInv, TypeInv
  <1>3. /\ \A u \in Threads \ {t} : call'[u] = Idle
        /\ call'[t] = [at |-> at, obj |-> o, slab |-> p]
    BY <1>1 DEF Goto, IInv, TypeInv
  <1>4. Alone' BY <1>3 DEF Alone
  <1>5. /\ Flight = IF call[t].at \in {"push", "give back"} THEN {call[t].obj} ELSE {}
        /\ Taking = IF call[t].at = "take" THEN {call[t].slab} ELSE {}
    BY <1>1, OneCall DEF Flight, Taking
  <1>6. /\ Flight' = IF call'[t].at \in {"push", "give back"} THEN {call'[t].obj} ELSE {}
        /\ Taking' = IF call'[t].at = "take" THEN {call'[t].slab} ELSE {}
    BY <1>3, OneCall DEF Flight, Taking
  <1>7. call'[t].at = at /\ call'[t].obj = o /\ call'[t].slab = p BY <1>3
  <1>8. /\ Flight' = IF at \in {"push", "give back"} THEN {o} ELSE {}
        /\ Taking' = IF at = "take" THEN {p} ELSE {}
    BY <1>6, <1>7
  <1> QED BY <1>2, <1>3, <1>4, <1>5, <1>8 DEF Moved

\* A step has to show StepInv for the thread that moves only.
LEMMA StepHolds ==
  ASSUME NEW t \in Threads, NEW at, NEW o, NEW p, Moved(t, at, o, p),
         at = "idle" => o = NULL /\ p = NULL,
         at = "pop" => o # NULL /\ o = cpu'.freelist,
         at = "refill" => cpu'.freelist = NULL /\ p = partial',
         at = "take" => /\ cpu'.freelist = NULL /\ p # NULL /\ p # cpu'.slab
                        /\ slab'[p].freelist # NULL,
         at = "failed" => cpu'.freelist = NULL /\ partial' = NULL,
         at \in {"push", "give back"} =>
           /\ o \in Objects \ live' /\ p = o[1] /\ slab'[p].objects # 0
           /\ at = "push" <=> p = cpu'.slab
  PROVE  StepInv'
  <1> SUFFICES ASSUME NEW u \in Threads PROVE StepInv!(u)'
    BY DEF StepInv
  <1>1. CASE u # t
    <2>1. call'[u] = Idle BY <1>1 DEF Moved
    <2>2. Idle.at = "idle" BY DEF Idle
    <2> QED BY <2>1, <2>2
  <1>2. CASE u = t
    <2> DEFINE c == [at |-> at, obj |-> o, slab |-> p]
    <2>1. call'[u] = c BY <1>2 DEF Moved
    <2>2. c.at = at /\ c.obj = o /\ c.slab = p OBVIOUS
    <2>3. at = "idle" => c = Idle BY DEF Idle
    <2> HIDE DEF c
    <2> QED BY <2>1, <2>2, <2>3
  <1> QED BY <1>1, <1>2

\* The lists depend on the lists' own state and on what is in flight.
LEMMA SameLists ==
  ASSUME IInv, UNCHANGED <<cpu, partial, slab, fp, live>>, Flight' = Flight, Taking' = Taking
  PROVE  CpuList' /\ SlabLists' /\ PartialList' /\ UseInv' /\ CountInv'
  <1>1. \A p : Unused(p)' = Unused(p) BY DEF Unused
  <1>2. WithFree' = WithFree /\ Nexts' = Nexts BY DEF WithFree, Nexts
  <1>3. \A p : LiveIn(p)' = LiveIn(p) BY DEF LiveIn
  <1>4. CpuList' BY <1>1 DEF CpuList, IInv
  <1>5. SlabLists' BY <1>1 DEF SlabLists, IInv
  <1>6. PartialList' BY <1>2 DEF PartialList, IInv
  <1> QED BY <1>3, <1>4, <1>5, <1>6 DEF IInv, UseInv, CountInv

\* Facts about the lists in any state of the invariant.
LEMMA Facts ==
  ASSUME IInv
  PROVE  /\ \A p : NULL \notin Unused(p) /\ Unused(p) \subseteq Objects
         /\ NULL \notin WithFree
         /\ cpu.slab # NULL => slab[cpu.slab].freelist = NULL
         /\ \A p \in Slabs : Unused(p) = {} => slab[p].freelist = NULL
         /\ \A p \in Slabs : slab[p].freelist = NULL /\ p # cpu.slab => Unused(p) = {}
         /\ \A p \in Slabs : slab[p].objects = 0 => Unused(p) = {}
         /\ cpu.freelist = NULL => Unused(cpu.slab) = {}
         /\ Unused(NULL) = {}
  <1>1. \A p : NULL \notin Unused(p) /\ Unused(p) \subseteq Objects
    BY SlabsAssumption DEF Unused
  <1>2. NULL \notin WithFree BY SlabsAssumption DEF WithFree
  <1>3. ASSUME NEW p \in Slabs, p = cpu.slab \/ Unused(p) = {} PROVE slab[p].freelist = NULL
    <2>1. IsList(fp, slab[p].freelist, {}) BY <1>3 DEF IInv, SlabLists
    <2> QED BY <2>1, EmptyList
  <1>4. ASSUME NEW p \in Slabs, slab[p].freelist = NULL, p # cpu.slab PROVE Unused(p) = {}
    <2>1. IsList(fp, slab[p].freelist, Unused(p)) BY <1>4 DEF IInv, SlabLists
    <2> QED BY <1>1, <1>4, <2>1, ListHead
  <1>5. cpu.slab \in Slabs \cup {NULL} BY DEF IInv, TypeInv
  <1>6. cpu.freelist = NULL => Unused(cpu.slab) = {}
    BY <1>1, ListHead DEF IInv, CpuList
  <1>7. Unused(NULL) = {} BY SlabsAssumption DEF Unused, Objects
  <1>8. \A p \in Slabs : slab[p].objects = 0 => Unused(p) = {} BY DEF Unused
  <1> QED BY <1>1, <1>2, <1>3, <1>4, <1>5, <1>6, <1>7, <1>8

\* Counting: live objects of a slab, with one more or one less.
LEMMA LiveFinite ==
  ASSUME IInv, NEW p
  PROVE  IsFiniteSet(LiveIn(p)) /\ Cardinality(LiveIn(p)) \in Nat
  <1>1. IsFiniteSet(Objects)
    <2>1. IsFiniteSet(1 .. ObjPerSlab) BY ObjPerSlabAssumption, FS_Interval
    <2> QED BY <2>1, SlabsAssumption, FS_Product DEF Objects
  <1>2. LiveIn(p) \in SUBSET Objects BY DEF LiveIn, IInv, TypeInv
  <1> QED BY <1>1, <1>2, FS_Subset, FS_CardinalityType

-----------------------------------------------------------------------------
(* The steps *)

LEMMA AllocStep ==
  ASSUME Preemptible = FALSE, IInv, NEW t \in Threads, kmem_cache_alloc(t)
  PROVE  IInv'
  <1>1. MayRun(t) /\ call[t].at = "idle" /\ UNCHANGED <<cpu, partial, slab, fp, live>>
    BY DEF kmem_cache_alloc
  <1>2. PICK at \in {"pop", "refill"}, o \in Objects \cup {NULL}, p \in Slabs \cup {NULL} :
          /\ Goto(t, at, o, p)
          /\ at = "pop" => o # NULL /\ o = cpu.freelist
          /\ at = "refill" => cpu.freelist = NULL /\ p = partial
    BY DEF kmem_cache_alloc, IInv, TypeInv
  <1>3. at \in Stages BY DEF Stages
  <1>4. Moved(t, at, o, p) BY <1>1, <1>2, <1>3, Moves
  <1>5. Flight' = Flight /\ Taking' = Taking BY <1>1, <1>4 DEF Moved
  <1>6. TypeInv' BY <1>1, <1>4 DEF IInv, TypeInv, Moved
  <1>7. StepInv' BY <1>1, <1>2, <1>4, StepHolds
  <1> QED BY <1>1, <1>4, <1>5, <1>6, <1>7, SameLists DEF IInv, Moved

LEMMA ReturnNullStep ==
  ASSUME Preemptible = FALSE, IInv, NEW t \in Threads, ReturnNull(t)
  PROVE  IInv'
  <1>1. /\ MayRun(t) /\ call[t].at = "failed" /\ UNCHANGED <<cpu, partial, slab, fp, live>>
        /\ Goto(t, "idle", NULL, NULL)
    BY DEF ReturnNull
  <1>2. Moved(t, "idle", NULL, NULL) BY <1>1, Moves DEF Stages
  <1>3. Flight' = Flight /\ Taking' = Taking BY <1>1, <1>2 DEF Moved
  <1>4. TypeInv' BY <1>1, <1>2 DEF IInv, TypeInv, Moved
  <1>5. StepInv' BY <1>2, StepHolds
  <1> QED BY <1>1, <1>2, <1>3, <1>4, <1>5, SameLists DEF IInv, Moved

\* One object of slab q becomes live, and is counted.
LEMMA CountUp ==
  ASSUME IInv, NEW q \in Slabs, NEW o \in Objects \ live, o[1] = q, live' = live \cup {o},
         \A p \in Slabs : slab'[p].inuse = IF p = q THEN slab[p].inuse + 1 ELSE slab[p].inuse
  PROVE  CountInv'
  <1> SUFFICES ASSUME NEW p \in Slabs PROVE slab'[p].inuse = Cardinality(LiveIn(p)')
    BY DEF CountInv
  <1>1. slab[p].inuse = Cardinality(LiveIn(p)) BY DEF IInv, CountInv
  <1>2. CASE p = q
    <2>1. LiveIn(p)' = LiveIn(p) \cup {o} /\ o \notin LiveIn(p) BY <1>2 DEF LiveIn
    <2>2. Cardinality(LiveIn(p) \cup {o}) = Cardinality(LiveIn(p)) + 1
      BY <2>1, LiveFinite, FS_AddElement
    <2> QED BY <1>1, <1>2, <2>1, <2>2
  <1>3. CASE p # q
    <2>1. LiveIn(p)' = LiveIn(p) BY <1>3 DEF LiveIn
    <2> QED BY <1>1, <1>3, <2>1
  <1> QED BY <1>2, <1>3

LEMMA PopStep ==
  ASSUME Preemptible = FALSE, IInv, NEW t \in Threads, Pop(t)
  PROVE  IInv'
  <1> DEFINE o == call[t].obj
             q == cpu.slab
  <1>1. /\ MayRun(t) /\ call[t].at = "pop" /\ Goto(t, "idle", NULL, NULL)
        /\ cpu' = [cpu EXCEPT !.freelist = fp[o]]
        /\ slab' = [slab EXCEPT ![q].inuse = @ + 1]
        /\ live' = live \cup {o} /\ UNCHANGED <<partial, fp>>
    BY DEF Pop, Return
  <1>2. Moved(t, "idle", NULL, NULL) BY <1>1, Moves DEF Stages
  <1>3. Flight = {} /\ Flight' = {} /\ Taking = {} /\ Taking' = {} BY <1>1, <1>2 DEF Moved
  <1>4. o # NULL /\ o = cpu.freelist BY <1>1 DEF IInv, StepInv
  <1>5. o \in Unused(q) /\ IsList(fp, fp[o], Unused(q) \ {o})
    BY <1>4, Facts, ListPop DEF IInv, CpuList
  <1>6. q \in Slabs /\ o \in Objects \ live /\ o[1] = q /\ slab[q].objects # 0
    BY <1>5, Facts DEF Unused, IInv, TypeInv
  <1> HIDE DEF o, q
  <1>7. /\ cpu' = [freelist |-> fp[o], slab |-> q] /\ q = cpu.slab
        /\ \A p \in Slabs : /\ slab'[p].freelist = slab[p].freelist /\ slab'[p].next = slab[p].next
                            /\ slab'[p].objects = slab[p].objects
                            /\ slab'[p].inuse = IF p = q THEN slab[p].inuse + 1 ELSE slab[p].inuse
    BY <1>1, <1>6 DEF IInv, TypeInv, q
  <1>8. TypeInv'
    <2>1. fp[o] \in Objects \cup {NULL} BY <1>6 DEF IInv, TypeInv
    <2>2. slab' \in [Slabs -> [freelist : Objects \cup {NULL}, next : Slabs \cup {NULL},
                               inuse : Int, objects : {0, ObjPerSlab}]]
      BY <1>1, <1>6 DEF IInv, TypeInv
    <2> QED BY <1>1, <1>2, <1>6, <1>7, <2>1, <2>2 DEF IInv, TypeInv, Moved
  <1>9. StepInv' BY <1>2, StepHolds
  <1>10. \A p \in Slabs : Unused(p)' = IF p = q THEN Unused(q) \ {o} ELSE Unused(p)
    BY <1>1, <1>3, <1>6, <1>7 DEF Unused
  <1>11. CpuList' BY <1>1, <1>5, <1>6, <1>7, <1>10 DEF CpuList
  <1>12. SlabLists' BY <1>1, <1>6, <1>7, <1>10 DEF IInv, SlabLists
  <1>13. PartialList'
    <2>1. Nexts' = Nexts /\ WithFree' = WithFree BY <1>7 DEF Nexts, WithFree
    <2> QED BY <1>1, <1>3, <2>1 DEF IInv, PartialList
  <1>14. UseInv' BY <1>1, <1>6, <1>7 DEF IInv, UseInv, TypeInv, Objects
  <1>15. CountInv' BY <1>1, <1>6, <1>7, CountUp
  <1> QED BY <1>2, <1>8, <1>9, <1>11, <1>12, <1>13, <1>14, <1>15 DEF IInv, Moved

\* The objects of a new slab are linked in their order.
LEMMA NewList ==
  ASSUME NEW p \in Slabs, NEW next,
         \A k \in 1 .. ObjPerSlab :
           next[<<p, k>>] = IF k < ObjPerSlab THEN <<p, k + 1>> ELSE NULL
  PROVE  IsList(next, <<p, 1>>, {o \in Objects : o[1] = p})
  <1> DEFINE n == ObjPerSlab
             S == {o \in Objects : o[1] = p}
             c == [i \in 1 .. n |-> <<p, n + 1 - i>>]
  <1>1. n \in Nat \ {0} BY ObjPerSlabAssumption
  <1>2. \A i \in 1 .. n : c[i] = <<p, n + 1 - i>> /\ n + 1 - i \in 1 .. n BY <1>1
  <1>3. c \in [1 .. n -> S] BY <1>2 DEF Objects
  <1>4. \A x \in S : \E i \in 1 .. n : c[i] = x
    <2> TAKE x \in S
    <2>1. PICK k \in 1 .. n : x = <<p, k>> BY DEF Objects
    <2>2. n + 1 - k \in 1 .. n /\ n + 1 - (n + 1 - k) = k BY <1>1
    <2> QED BY <1>2, <2>1, <2>2
  <1> HIDE DEF c
  <1>5. \A i, j \in 1 .. n : c[i] = c[j] => i = j BY <1>1, <1>2
  <1>6. c[n] = <<p, 1>> BY <1>1, <1>2
  <1>7. \A i \in 1 .. n : next[c[i]] = IF i = 1 THEN NULL ELSE c[i - 1]
    <2> TAKE i \in 1 .. n
    <2>1. next[c[i]] = IF n + 1 - i < n THEN <<p, n + 1 - i + 1>> ELSE NULL BY <1>2
    <2>2. i # 1 => i - 1 \in 1 .. n /\ c[i - 1] = <<p, n + 1 - (i - 1)>> BY <1>1, <1>2
    <2>3. (n + 1 - i < n <=> i # 1) /\ n + 1 - (i - 1) = n + 1 - i + 1 BY <1>1
    <2> QED BY <2>1, <2>2, <2>3
  <1>8. Links(next, <<p, 1>>, S, n, c) BY <1>1, <1>4, <1>5, <1>6, <1>7 DEF Links
  <1> QED BY <1>1, <1>3, <1>8 DEF IsList

LEMMA NewSlabStep ==
  ASSUME Preemptible = FALSE, IInv, NEW t \in Threads, alloc_new_slab(t)
  PROVE  IInv'
  <1>1. /\ MayRun(t) /\ call[t].at = "refill" /\ call[t].slab = NULL
        /\ UNCHANGED <<cpu, partial, live>>
    BY DEF alloc_new_slab
  <1>2. cpu.freelist = NULL /\ partial = NULL BY <1>1 DEF IInv, StepInv
  <1>3. CASE Goto(t, "failed", NULL, NULL) /\ UNCHANGED <<slab, fp>>
    <2>1. Moved(t, "failed", NULL, NULL) BY <1>1, <1>3, Moves DEF Stages
    <2>2. Flight' = Flight /\ Taking' = Taking BY <1>1, <2>1 DEF Moved
    <2>3. TypeInv' BY <1>1, <1>3, <2>1 DEF IInv, TypeInv, Moved
    <2>4. StepInv' BY <1>1, <1>2, <2>1, StepHolds
    <2> QED BY <1>1, <1>3, <2>1, <2>2, <2>3, <2>4, SameLists DEF IInv, Moved
  <1>4. ASSUME NEW p \in Slabs, slab[p].objects = 0,
               fp' = [o \in Objects |->
                        IF o[1] # p THEN fp[o]
                        ELSE IF o[2] < ObjPerSlab THEN <<p, o[2] + 1>> ELSE NULL],
               slab' = [slab EXCEPT ![p] = [freelist |-> <<p, 1>>, next |-> NULL,
                                            inuse |-> 0, objects |-> ObjPerSlab]],
               Goto(t, "take", NULL, p)
        PROVE  IInv'
    <2>1. Moved(t, "take", NULL, p) BY <1>1, <1>4, Moves DEF Stages
    <2>2. Flight = {} /\ Flight' = {} /\ Taking = {} /\ Taking' = {p}
      BY <1>1, <2>1 DEF Moved
    <2>3. <<p, 1>> \in Objects /\ <<p, 1>> # NULL /\ ObjPerSlab # 0
      BY ObjPerSlabAssumption, SlabsAssumption DEF Objects
    <2>4. /\ slab'[p] = [freelist |-> <<p, 1>>, next |-> NULL, inuse |-> 0, objects |-> ObjPerSlab]
          /\ \A q \in Slabs \ {p} : slab'[q] = slab[q]
      BY <1>4 DEF IInv, TypeInv
    <2>5. p # cpu.slab /\ \A o \in live : o[1] # p
      BY <1>4, SlabsAssumption DEF IInv, UseInv
    <2>6. TypeInv'
      <3>1. \A k \in 1 .. ObjPerSlab : k < ObjPerSlab => <<p, k + 1>> \in Objects
        BY ObjPerSlabAssumption DEF Objects
      <3>2. fp' \in [Objects -> Objects \cup {NULL}]
        <4> SUFFICES ASSUME NEW o \in Objects PROVE fp'[o] \in Objects \cup {NULL}
          BY <1>4
        <4>1. o[2] \in 1 .. ObjPerSlab BY DEF Objects
        <4> QED BY <1>4, <3>1, <4>1 DEF IInv, TypeInv
      <3>3. slab' \in [Slabs -> [freelist : Objects \cup {NULL}, next : Slabs \cup {NULL},
                                 inuse : Int, objects : {0, ObjPerSlab}]]
        BY <1>4, <2>3 DEF IInv, TypeInv
      <3> QED BY <1>1, <2>1, <3>2, <3>3 DEF IInv, TypeInv, Moved
    <2>7. StepInv'
      <3>1. slab'[p].freelist # NULL BY <2>3, <2>4
      <3>2. p # NULL BY SlabsAssumption
      <3> QED BY <1>1, <1>2, <2>1, <2>5, <3>1, <3>2, StepHolds
    <2>8. /\ \A q : q # p => Unused(q)' = Unused(q)
          /\ Unused(p)' = {o \in Objects : o[1] = p} /\ Unused(p) = {}
      <3>1. slab'[p].objects # 0 /\ \A q : q \in Slabs \ {p} => slab'[q].objects = slab[q].objects
        BY <2>3, <2>4
      <3>2. \A o \in Objects : o[1] \in Slabs BY DEF Objects
      <3> QED BY <1>1, <1>4, <2>2, <2>5, <3>1, <3>2 DEF Unused
    <2>9. \A q : q # p => \A o \in Unused(q) : fp'[o] = fp[o] BY <1>4 DEF Unused
    <2>10. CpuList' BY <1>1, <2>5, <2>8, <2>9, ListFrame DEF IInv, CpuList
    <2>11. SlabLists'
      <3> SUFFICES ASSUME NEW q \in Slabs
                   PROVE  IsList(fp', slab'[q].freelist, IF q = cpu.slab THEN {} ELSE Unused(q)')
        BY <1>1 DEF SlabLists
      <3>1. CASE q = p
        <4>1. \A k \in 1 .. ObjPerSlab :
                fp'[<<p, k>>] = IF k < ObjPerSlab THEN <<p, k + 1>> ELSE NULL
          BY <1>4 DEF Objects
        <4>2. IsList(fp', <<p, 1>>, {o \in Objects : o[1] = p}) BY <4>1, NewList
        <4>3. slab'[p].freelist = <<p, 1>> BY <2>4
        <4> QED BY <2>5, <2>8, <3>1, <4>2, <4>3
      <3>2. CASE q # p
        <4>1. IsList(fp, slab[q].freelist, IF q = cpu.slab THEN {} ELSE Unused(q))
          BY DEF IInv, SlabLists
        <4>2. slab'[q].freelist = slab[q].freelist BY <2>4, <3>2
        <4>3. IsList(fp', slab[q].freelist, IF q = cpu.slab THEN {} ELSE Unused(q))
          BY <2>9, <3>2, <4>1, ListFrame
        <4> QED BY <2>8, <3>2, <4>2, <4>3
      <3> QED BY <3>1, <3>2
    <2>12. PartialList'
      <3>1. slab[p].freelist = NULL BY <2>8, Facts
      <3>2. WithFree' \ Taking' = WithFree \ Taking
        BY <2>2, <2>4, <3>1 DEF WithFree
      <3>3. p \notin WithFree \ Taking BY <3>1 DEF WithFree
      <3>4. \A q \in WithFree \ Taking : Nexts'[q] = Nexts[q]
        BY <2>4, <3>3 DEF Nexts, WithFree
      <3> QED BY <1>1, <3>2, <3>4, ListFrame DEF IInv, PartialList
    <2>13. UseInv' BY <1>1, <2>4, <2>5 DEF IInv, UseInv, TypeInv, Objects
    <2>14. CountInv'
      <3>1. \A q : LiveIn(q)' = LiveIn(q) BY <1>1 DEF LiveIn
      <3>2. LiveIn(p) = {} BY <2>5 DEF LiveIn
      <3>3. Cardinality(LiveIn(p)) = 0 BY <3>2, FS_EmptySet
      <3>4. slab'[p].inuse = 0 BY <2>4
      <3> QED BY <2>4, <3>1, <3>3, <3>4 DEF IInv, CountInv
    <2> QED BY <2>1, <2>6, <2>7, <2>10, <2>11, <2>12, <2>13, <2>14 DEF IInv, Moved
  <1> QED BY <1>3, <1>4 DEF alloc_new_slab

LEMMA UnlinkStep ==
  ASSUME Preemptible = FALSE, IInv, NEW t \in Threads, Unlink(t)
  PROVE  IInv'
  <1> DEFINE p == call[t].slab
  <1>1. /\ MayRun(t) /\ call[t].at = "refill" /\ p # NULL /\ Goto(t, "take", NULL, p)
        /\ partial' = slab[p].next /\ slab' = [slab EXCEPT ![p].next = NULL]
        /\ UNCHANGED <<cpu, fp, live>>
    BY DEF Unlink
  <1>2. p \in Slabs /\ p = partial /\ cpu.freelist = NULL
    BY <1>1 DEF IInv, StepInv, TypeInv
  <1> HIDE DEF p
  <1>3. Moved(t, "take", NULL, p) BY <1>1, <1>2, Moves DEF Stages
  <1>4. Flight = {} /\ Flight' = {} /\ Taking = {} /\ Taking' = {p} BY <1>1, <1>3 DEF Moved
  <1>5. p \in WithFree /\ IsList(Nexts, Nexts[p], WithFree \ {p})
    BY <1>1, <1>2, <1>4, Facts, ListPop DEF IInv, PartialList
  <1>6. Nexts[p] = slab[p].next BY <1>2 DEF Nexts
  <1>7. /\ \A q \in Slabs : /\ slab'[q].freelist = slab[q].freelist
                            /\ slab'[q].objects = slab[q].objects
                            /\ slab'[q].inuse = slab[q].inuse
                            /\ q # p => slab'[q].next = slab[q].next
        /\ slab' \in [Slabs -> [freelist : Objects \cup {NULL}, next : Slabs \cup {NULL},
                                inuse : Int, objects : {0, ObjPerSlab}]]
    BY <1>1, <1>2 DEF IInv, TypeInv
  <1>8. TypeInv' BY <1>1, <1>2, <1>3, <1>7 DEF IInv, TypeInv, Moved
  <1>9. StepInv'
    <2>1. slab[p].freelist # NULL BY <1>5 DEF WithFree
    <2>2. p # cpu.slab BY <1>1, <2>1, Facts
    <2>3. slab'[p].freelist # NULL BY <1>2, <1>7, <2>1
    <2> QED BY <1>1, <1>2, <1>3, <2>2, <2>3, StepHolds
  <1>10. \A q : Unused(q)' = Unused(q)
    BY <1>1, <1>4, <1>7 DEF Unused, Objects
  <1>11. CpuList' BY <1>1, <1>10 DEF IInv, CpuList
  <1>12. SlabLists' BY <1>1, <1>7, <1>10 DEF IInv, SlabLists
  <1>13. PartialList'
    <2>1. WithFree' = WithFree BY <1>7 DEF WithFree
    <2>2. \A q \in WithFree \ {p} : Nexts'[q] = Nexts[q] BY <1>7 DEF Nexts, WithFree
    <2>3. IsList(Nexts', Nexts[p], WithFree \ {p}) BY <1>5, <2>2, ListFrame
    <2> QED BY <1>1, <1>4, <1>6, <2>1, <2>3 DEF PartialList
  <1>14. UseInv' BY <1>1, <1>7 DEF IInv, UseInv, TypeInv, Objects
  <1>15. CountInv'
    <2>1. \A q : LiveIn(q)' = LiveIn(q) BY <1>1 DEF LiveIn
    <2> QED BY <1>7, <2>1 DEF IInv, CountInv
  <1> QED BY <1>3, <1>8, <1>9, <1>11, <1>12, <1>13, <1>14, <1>15 DEF IInv, Moved

LEMMA RefillStep ==
  ASSUME Preemptible = FALSE, IInv, NEW t \in Threads, _refill(t)
  PROVE  IInv'
  <1> DEFINE p == call[t].slab
             o == slab[p].freelist
  <1>1. /\ MayRun(t) /\ call[t].at = "take" /\ o # NULL /\ Goto(t, "idle", NULL, NULL)
        /\ cpu' = [freelist |-> fp[o], slab |-> p]
        /\ slab' = [slab EXCEPT ![p].freelist = NULL, ![p].inuse = @ + 1]
        /\ live' = live \cup {o} /\ UNCHANGED <<partial, fp>>
    BY DEF _refill, Return
  <1>2. p \in Slabs /\ p # cpu.slab /\ cpu.freelist = NULL
    BY <1>1 DEF IInv, StepInv, TypeInv
  <1>3. Moved(t, "idle", NULL, NULL) BY <1>1, Moves DEF Stages
  <1>4. Flight = {} /\ Flight' = {} /\ Taking = {p} /\ Taking' = {} BY <1>1, <1>3 DEF Moved
  <1>5. o \in Unused(p) /\ IsList(fp, fp[o], Unused(p) \ {o})
    <2>1. IsList(fp, o, Unused(p)) BY <1>2 DEF IInv, SlabLists
    <2>2. NULL \notin Unused(p) /\ o # NULL BY <1>1, Facts
    <2> QED BY <2>1, <2>2, ListPop
  <1>6. o \in Objects \ live /\ o[1] = p /\ slab[p].objects # 0 BY <1>5 DEF Unused
  <1>7. /\ \A q \in Slabs : /\ slab'[q].freelist = IF q = p THEN NULL ELSE slab[q].freelist
                            /\ slab'[q].objects = slab[q].objects
                            /\ slab'[q].inuse = IF q = p THEN slab[q].inuse + 1 ELSE slab[q].inuse
                            /\ slab'[q].next = slab[q].next
        /\ slab' \in [Slabs -> [freelist : Objects \cup {NULL}, next : Slabs \cup {NULL},
                                inuse : Int, objects : {0, ObjPerSlab}]]
    BY <1>1, <1>2 DEF IInv, TypeInv
  <1>8. o = slab[p].freelist OBVIOUS
  <1> HIDE DEF p, o
  <1>9. TypeInv'
    <2>1. fp[o] \in Objects \cup {NULL} BY <1>6 DEF IInv, TypeInv
    <2> QED BY <1>1, <1>2, <1>3, <1>6, <1>7, <2>1 DEF IInv, TypeInv, Moved
  <1>10. StepInv' BY <1>3, StepHolds
  <1>11. \A q \in Slabs : Unused(q)' = IF q = p THEN Unused(p) \ {o} ELSE Unused(q)
    BY <1>1, <1>4, <1>6, <1>7 DEF Unused
  <1>12. cpu'.slab = p /\ cpu'.freelist = fp[o] BY <1>1
  <1>13. CpuList' BY <1>1, <1>2, <1>5, <1>11, <1>12 DEF CpuList
  <1>14. SlabLists'
    <2> SUFFICES ASSUME NEW q \in Slabs
                 PROVE  IsList(fp, slab'[q].freelist, IF q = p THEN {} ELSE Unused(q)')
      BY <1>1, <1>12 DEF SlabLists
    <2>1. CASE q = p BY <1>7, <2>1, EmptyList
    <2>2. CASE q # p /\ q = cpu.slab
      <3>1. Unused(q) = {} BY <1>2, <2>2, Facts
      <3> QED BY <1>7, <1>11, <2>2, <3>1 DEF IInv, SlabLists
    <2>3. CASE q # p /\ q # cpu.slab BY <1>7, <1>11, <2>3 DEF IInv, SlabLists
    <2> QED BY <2>1, <2>2, <2>3
  <1>15. PartialList'
    <2>1. WithFree' \ Taking' = WithFree \ Taking BY <1>4, <1>7 DEF WithFree
    <2>2. Nexts' = Nexts BY <1>7 DEF Nexts
    <2> QED BY <1>1, <2>1, <2>2 DEF IInv, PartialList
  <1>16. UseInv' BY <1>1, <1>2, <1>6, <1>7, <1>12 DEF IInv, UseInv, TypeInv, Objects
  <1>17. CountInv' BY <1>1, <1>2, <1>6, <1>7, CountUp
  <1> QED BY <1>3, <1>9, <1>10, <1>13, <1>14, <1>15, <1>16, <1>17 DEF IInv, Moved

LEMMA FreeStep ==
  ASSUME Preemptible = FALSE, IInv, NEW t \in Threads, NEW o \in live, kmem_cache_free(t, o)
  PROVE  IInv'
  <1> DEFINE p == o[1]
             at == IF o[1] = cpu.slab THEN "push" ELSE "give back"
  <1>1. /\ MayRun(t) /\ call[t].at = "idle" /\ Goto(t, at, o, p)
        /\ live' = live \ {o} /\ slab' = [slab EXCEPT ![p].inuse = @ - 1]
        /\ UNCHANGED <<cpu, partial, fp>>
    BY DEF kmem_cache_free
  <1>2. o \in Objects /\ p \in Slabs /\ slab[p].objects # 0
    BY DEF IInv, TypeInv, UseInv, Objects
  <1>3. at \in {"push", "give back"} /\ (at = "push" <=> p = cpu.slab) OBVIOUS
  <1> HIDE DEF p, at
  <1>4. Moved(t, at, o, p) BY <1>1, <1>2, <1>3, Moves DEF Stages
  <1>5. Flight = {} /\ Flight' = {o} /\ Taking = {} /\ Taking' = {}
    BY <1>1, <1>3, <1>4 DEF Moved
  <1>6. /\ \A q \in Slabs : /\ slab'[q].freelist = slab[q].freelist
                            /\ slab'[q].next = slab[q].next
                            /\ slab'[q].objects = slab[q].objects
                            /\ slab'[q].inuse = IF q = p THEN slab[q].inuse - 1 ELSE slab[q].inuse
        /\ slab' \in [Slabs -> [freelist : Objects \cup {NULL}, next : Slabs \cup {NULL},
                                inuse : Int, objects : {0, ObjPerSlab}]]
    BY <1>1, <1>2 DEF IInv, TypeInv
  <1>7. TypeInv' BY <1>1, <1>4, <1>6 DEF IInv, TypeInv, Moved
  <1>8. StepInv'
    <2>1. o \in Objects \ live' /\ p = o[1] /\ slab'[p].objects # 0 BY <1>1, <1>2, <1>6 DEF p
    <2> QED BY <1>1, <1>3, <1>4, <2>1, StepHolds
  <1>9. \A q : Unused(q)' = Unused(q)
    BY <1>1, <1>2, <1>5, <1>6 DEF Unused, Objects
  <1>10. CpuList' BY <1>1, <1>9 DEF IInv, CpuList
  <1>11. SlabLists' BY <1>1, <1>6, <1>9 DEF IInv, SlabLists
  <1>12. PartialList'
    <2>1. Nexts' = Nexts /\ WithFree' = WithFree BY <1>6 DEF Nexts, WithFree
    <2> QED BY <1>1, <1>5, <2>1 DEF IInv, PartialList
  <1>13. UseInv' BY <1>1, <1>6 DEF IInv, UseInv, TypeInv, Objects
  <1>14. CountInv'
    <2> SUFFICES ASSUME NEW q \in Slabs PROVE slab'[q].inuse = Cardinality(LiveIn(q)')
      BY DEF CountInv
    <2>1. slab[q].inuse = Cardinality(LiveIn(q)) BY DEF IInv, CountInv
    <2>2. CASE q = p
      <3>1. LiveIn(q)' = LiveIn(q) \ {o} /\ o \in LiveIn(q) BY <1>1, <2>2 DEF LiveIn, p
      <3>2. Cardinality(LiveIn(q) \ {o}) = Cardinality(LiveIn(q)) - 1
        BY <3>1, LiveFinite, FS_RemoveElement
      <3> QED BY <1>6, <2>1, <2>2, <3>1, <3>2
    <2>3. CASE q # p
      <3>1. LiveIn(q)' = LiveIn(q) BY <1>1, <2>3 DEF LiveIn, p
      <3> QED BY <1>6, <2>1, <2>3, <3>1
    <2> QED BY <2>2, <2>3
  <1> QED BY <1>4, <1>7, <1>8, <1>10, <1>11, <1>12, <1>13, <1>14 DEF IInv, Moved

LEMMA PushCpuStep ==
  ASSUME Preemptible = FALSE, IInv, NEW t \in Threads, PushCpu(t)
  PROVE  IInv'
  <1> DEFINE o == call[t].obj
  <1>1. /\ MayRun(t) /\ call[t].at = "push" /\ Goto(t, "idle", NULL, NULL)
        /\ fp' = [fp EXCEPT ![o] = cpu.freelist] /\ cpu' = [cpu EXCEPT !.freelist = o]
        /\ UNCHANGED <<partial, slab, live>>
    BY DEF PushCpu
  <1>2. o \in Objects \ live /\ o[1] = cpu.slab /\ slab[cpu.slab].objects # 0
    BY <1>1 DEF IInv, StepInv
  <1>3. Moved(t, "idle", NULL, NULL) BY <1>1, Moves DEF Stages
  <1>4. Flight = {o} /\ Flight' = {} /\ Taking = {} /\ Taking' = {} BY <1>1, <1>3 DEF Moved
  <1> HIDE DEF o
  <1>5. cpu' = [freelist |-> o, slab |-> cpu.slab] BY <1>1 DEF IInv, TypeInv
  <1>6. fp'[o] = cpu.freelist /\ \A x \in Objects \ {o} : fp'[x] = fp[x]
    BY <1>1, <1>2 DEF IInv, TypeInv
  <1>7. TypeInv' BY <1>1, <1>2, <1>3, <1>5 DEF IInv, TypeInv, Moved
  <1>8. StepInv' BY <1>3, StepHolds
  <1>9. \A q : o \notin Unused(q) /\ \A x \in Unused(q) : fp'[x] = fp[x]
    BY <1>4, <1>6 DEF Unused
  <1>10. /\ Unused(cpu.slab)' = Unused(cpu.slab) \cup {o}
         /\ \A q : q # cpu.slab => Unused(q)' = Unused(q)
    BY <1>1, <1>2, <1>4, <1>5 DEF Unused
  <1>11. CpuList'
    <2>1. IsList(fp', o, Unused(cpu.slab) \cup {o})
      BY <1>6, <1>9, ListPush DEF IInv, CpuList
    <2> QED BY <1>5, <1>10, <2>1 DEF CpuList
  <1>12. SlabLists'
    <2> SUFFICES ASSUME NEW q \in Slabs
                 PROVE  IsList(fp', slab[q].freelist, IF q = cpu.slab THEN {} ELSE Unused(q)')
      BY <1>1, <1>5 DEF SlabLists
    <2>1. IsList(fp, slab[q].freelist, IF q = cpu.slab THEN {} ELSE Unused(q))
      BY DEF IInv, SlabLists
    <2>2. IsList(fp', slab[q].freelist, IF q = cpu.slab THEN {} ELSE Unused(q))
      BY <1>9, <2>1, ListFrame
    <2> QED BY <1>10, <2>2
  <1>13. PartialList'
    <2>1. Nexts' = Nexts /\ WithFree' = WithFree BY <1>1 DEF Nexts, WithFree
    <2> QED BY <1>1, <1>4, <2>1 DEF IInv, PartialList
  <1>14. UseInv' BY <1>1, <1>5 DEF IInv, UseInv
  <1>15. CountInv' BY <1>1 DEF IInv, CountInv, LiveIn
  <1> QED BY <1>3, <1>7, <1>8, <1>11, <1>12, <1>13, <1>14, <1>15 DEF IInv, Moved

LEMMA PushSlabStep ==
  ASSUME Preemptible = FALSE, IInv, NEW t \in Threads, PushSlab(t)
  PROVE  IInv'
  <1>1. PICK o, p : o = call[t].obj /\ p = call[t].slab OBVIOUS
  <1> DEFINE was_full == slab[p].freelist = NULL
             nx == IF was_full THEN partial ELSE slab[p].next
  <1>2. /\ MayRun(t) /\ call[t].at = "give back" /\ Goto(t, "idle", NULL, NULL)
        /\ fp' = [fp EXCEPT ![o] = slab[p].freelist]
        /\ slab' = [slab EXCEPT ![p].freelist = o, ![p].next = nx]
        /\ partial' = IF was_full THEN p ELSE partial
        /\ UNCHANGED <<cpu, live>>
    BY <1>1 DEF PushSlab, PushSlabIf, IInv, TypeInv
  <1>3. /\ o \in Objects \ live /\ o[1] = p /\ slab[p].objects # 0 /\ p # cpu.slab
        /\ p \in Slabs /\ o # NULL
    BY <1>2, <1>1, SlabsAssumption DEF IInv, StepInv, Objects
  <1>4. nx \in Slabs \cup {NULL} BY <1>3 DEF IInv, TypeInv
  <1>5. Moved(t, "idle", NULL, NULL) BY <1>2, Moves DEF Stages
  <1>6. Flight = {o} /\ Flight' = {} /\ Taking = {} /\ Taking' = {} BY <1>2, <1>5, <1>1 DEF Moved
  <1> HIDE DEF nx
  <1>7. /\ \A q \in Slabs : /\ slab'[q].freelist = IF q = p THEN o ELSE slab[q].freelist
                            /\ slab'[q].next = IF q = p THEN nx ELSE slab[q].next
                            /\ slab'[q].objects = slab[q].objects
                            /\ slab'[q].inuse = slab[q].inuse
        /\ slab' \in [Slabs -> [freelist : Objects \cup {NULL}, next : Slabs \cup {NULL},
                                inuse : Int, objects : {0, ObjPerSlab}]]
    <2> HIDE DEF was_full
    <2>1. slab \in [Slabs -> [freelist : Objects \cup {NULL}, next : Slabs \cup {NULL},
                             inuse : Int, objects : {0, ObjPerSlab}]]
      BY DEF IInv, TypeInv
    <2> DEFINE r == [slab[p] EXCEPT !.freelist = o, !.next = nx]
    <2>2. slab' = [slab EXCEPT ![p] = r] BY <1>2
    <2>3. /\ r.freelist = o /\ r.next = nx
          /\ r.inuse = slab[p].inuse /\ r.objects = slab[p].objects
          /\ r \in [freelist : Objects \cup {NULL}, next : Slabs \cup {NULL},
                    inuse : Int, objects : {0, ObjPerSlab}]
      <3>1. slab[p] \in [freelist : Objects \cup {NULL}, next : Slabs \cup {NULL},
                         inuse : Int, objects : {0, ObjPerSlab}]
        BY <1>3, <2>1
      <3> QED BY <1>3, <1>4, <3>1
    <2> HIDE DEF r
    <2> QED BY <1>3, <1>4, <2>1, <2>2, <2>3
  <1>8. fp'[o] = slab[p].freelist /\ \A x \in Objects \ {o} : fp'[x] = fp[x]
    BY <1>2, <1>3 DEF IInv, TypeInv
  <1>9. TypeInv' BY <1>2, <1>3, <1>5, <1>7 DEF IInv, TypeInv, Moved
  <1>10. StepInv' BY <1>5, StepHolds
  <1>11. \A q : o \notin Unused(q) /\ \A x \in Unused(q) : fp'[x] = fp[x]
    BY <1>6, <1>8 DEF Unused
  <1>12. /\ Unused(p)' = Unused(p) \cup {o}
         /\ \A q : q # p => Unused(q)' = Unused(q)
    <2>1. live' = live BY <1>2
    <2>2. \A q \in Slabs : slab'[q].objects = slab[q].objects BY <1>7
    <2>3. \A x \in Objects : x[1] \in Slabs BY DEF Objects
    <2> QED BY <1>3, <1>6, <2>1, <2>2, <2>3 DEF Unused
  <1>13. CpuList'
    <2>1. IsList(fp', cpu.freelist, Unused(cpu.slab)) BY <1>11, ListFrame DEF IInv, CpuList
    <2> QED BY <1>2, <1>3, <1>12, <2>1 DEF CpuList
  <1>14. SlabLists'
    <2> SUFFICES ASSUME NEW q \in Slabs
                 PROVE  IsList(fp', slab'[q].freelist, IF q = cpu.slab THEN {} ELSE Unused(q)')
      BY <1>2 DEF SlabLists
    <2>1. IsList(fp, slab[q].freelist, IF q = cpu.slab THEN {} ELSE Unused(q))
      BY DEF IInv, SlabLists
    <2>2. CASE q = p
      <3>1. IsList(fp', o, Unused(p) \cup {o}) BY <1>3, <1>8, <1>11, <2>1, <2>2, ListPush
      <3>2. slab'[p].freelist = o BY <1>3, <1>7
      <3>3. Unused(p)' = Unused(p) \cup {o} BY <1>12
      <3> HIDE DEF was_full
      <3> QED BY <1>3, <2>2, <3>1, <3>2, <3>3
    <2>3. CASE q # p
      <3>1. IsList(fp', slab[q].freelist, IF q = cpu.slab THEN {} ELSE Unused(q))
        BY <1>11, <2>1, ListFrame
      <3> QED BY <1>7, <1>12, <2>3, <3>1
    <2> QED BY <2>2, <2>3
  <1>15. PartialList'
    <2>1. WithFree' = WithFree \cup {p} BY <1>3, <1>7 DEF WithFree
    <2>2. IsList(Nexts, partial, WithFree) BY <1>6 DEF IInv, PartialList
    <2>3. CASE was_full
      <3>1. p \notin WithFree BY <2>3 DEF WithFree
      <3>2. Nexts'[p] = partial /\ \A q \in WithFree : Nexts'[q] = Nexts[q]
        BY <1>3, <1>7, <2>3, <3>1 DEF Nexts, WithFree, nx
      <3>3. IsList(Nexts', p, WithFree \cup {p}) BY <2>2, <3>1, <3>2, ListPush
      <3> QED BY <1>2, <1>6, <2>1, <2>3, <3>3 DEF PartialList
    <2>4. CASE ~was_full
      <3>1. p \in WithFree BY <1>3, <2>4 DEF WithFree
      <3>2. Nexts' = Nexts BY <1>7, <2>4 DEF Nexts, nx
      <3> QED BY <1>2, <1>6, <2>1, <2>2, <2>4, <3>1, <3>2 DEF PartialList
    <2> QED BY <2>3, <2>4
  <1>16. UseInv'
    <2>1. \A q \in Slabs : slab'[q].objects = slab[q].objects BY <1>7
    <2>2. live' = live /\ cpu' = cpu BY <1>2
    <2>3. cpu.slab \in Slabs \cup {NULL} /\ \A x \in live : x[1] \in Slabs
      BY DEF IInv, TypeInv, Objects
    <2> QED BY <2>1, <2>2, <2>3 DEF IInv, UseInv
  <1>17. CountInv'
    <2>1. \A q : LiveIn(q)' = LiveIn(q) BY <1>2 DEF LiveIn
    <2> QED BY <1>7, <2>1 DEF IInv, CountInv
  <1> QED BY <1>5, <1>9, <1>10, <1>13, <1>14, <1>15, <1>16, <1>17 DEF IInv, Moved

-----------------------------------------------------------------------------
(* The theorems *)

LEMMA InitIInv == Init => IInv
  <1> SUFFICES ASSUME Init PROVE IInv OBVIOUS
  <1>1. TypeInv
    <2>1. Idle \in [at : Stages, obj : Objects \cup {NULL}, slab : Slabs \cup {NULL}]
      BY DEF Idle, Stages
    <2>2. NotASlab \in [freelist : Objects \cup {NULL}, next : Slabs \cup {NULL},
                        inuse : Int, objects : {0, ObjPerSlab}]
      BY DEF NotASlab
    <2> QED BY <2>1, <2>2 DEF Init, TypeInv
  <1>2. Alone /\ StepInv BY DEF Init, Alone, StepInv, Idle
  <1>3. \A p : Unused(p) = {} BY DEF Unused, Init, NotASlab, Objects
  <1>4. CpuList BY <1>3, EmptyList DEF Init, CpuList
  <1>5. \A p \in Slabs : slab[p].freelist = NULL BY DEF Init, NotASlab
  <1>6. SlabLists BY <1>3, <1>5, EmptyList DEF SlabLists
  <1>7. WithFree = {} BY <1>5 DEF WithFree
  <1>8. PartialList BY <1>7, EmptyList DEF Init, PartialList
  <1>9. UseInv BY DEF Init, UseInv
  <1>10. CountInv
    <2>1. \A p : LiveIn(p) = {} BY DEF Init, LiveIn
    <2> QED BY <2>1, FS_EmptySet DEF Init, CountInv, NotASlab
  <1> QED BY <1>1, <1>2, <1>4, <1>6, <1>8, <1>9, <1>10 DEF IInv

LEMMA NextIInv ==
  ASSUME Preemptible = FALSE, IInv, [Next]_vars
  PROVE  IInv'
  <1>1. CASE UNCHANGED vars
    <2>1. Flight' = Flight /\ Taking' = Taking BY <1>1 DEF vars, Flight, Taking
    <2>2. TypeInv' BY <1>1 DEF vars, IInv, TypeInv
    <2>3. Alone' BY <1>1 DEF vars, IInv, Alone
    <2>4. StepInv' BY <1>1 DEF vars, IInv, StepInv
    <2> QED BY <1>1, <2>1, <2>2, <2>3, <2>4, SameLists DEF vars, IInv
  <1>2. ASSUME NEW t \in Threads, Step(t) PROVE IInv'
    BY <1>2, AllocStep, PopStep, NewSlabStep, UnlinkStep, RefillStep, ReturnNullStep,
       FreeStep, PushCpuStep, PushSlabStep DEF Step
  <1> QED BY <1>1, <1>2 DEF Next

LEMMA Inductive ==
  ASSUME Preemptible = FALSE
  PROVE  Spec => []IInv
  <1>1. IInv /\ [Next]_vars => IInv' BY NextIInv
  <1> QED BY <1>1, InitIInv, PTL DEF Spec

\* The chains the properties walk are the lists of the invariant.
LEMMA Chains ==
  ASSUME IInv
  PROVE  /\ CpuChain.ends /\ CpuChain.cells = Unused(cpu.slab)
         /\ \A p \in Slabs : /\ SlabChain(p).ends
                            /\ SlabChain(p).cells = IF p = cpu.slab THEN {} ELSE Unused(p)
         /\ PartialChain.ends /\ PartialChain.cells = WithFree \ Taking
  <1>1. IsFiniteSet(Objects)
    <2>1. IsFiniteSet(1 .. ObjPerSlab) BY FS_Interval, ObjPerSlabAssumption
    <2> QED BY <2>1, FS_Product, SlabsAssumption DEF Objects
  <1>2. DOMAIN fp = Objects /\ DOMAIN Nexts = Slabs BY DEF IInv, TypeInv, Nexts
  <1>3. \A p : Unused(p) \subseteq Objects BY DEF Unused
  <1>4. CpuChain.ends /\ CpuChain.cells = Unused(cpu.slab)
    <2>1. NULL \notin Unused(cpu.slab) BY <1>3, SlabsAssumption
    <2> QED BY <1>1, <1>2, <1>3, <2>1, ListChain DEF IInv, CpuList, CpuChain
  <1>5. ASSUME NEW p \in Slabs
        PROVE  /\ SlabChain(p).ends
               /\ SlabChain(p).cells = IF p = cpu.slab THEN {} ELSE Unused(p)
    <2> DEFINE S == IF p = cpu.slab THEN {} ELSE Unused(p)
    <2>1. NULL \notin S /\ S \subseteq Objects BY <1>3, SlabsAssumption
    <2>2. IsList(fp, slab[p].freelist, S) BY DEF IInv, SlabLists
    <2> HIDE DEF S
    <2>3. SlabChain(p).ends /\ SlabChain(p).cells = S
      BY <1>1, <1>2, <2>1, <2>2, ListChain DEF SlabChain
    <2> QED BY <2>3 DEF S
  <1>6. PartialChain.ends /\ PartialChain.cells = WithFree \ Taking
    <2> DEFINE S == WithFree \ Taking
    <2>1. NULL \notin S /\ S \subseteq Slabs BY SlabsAssumption DEF WithFree
    <2>2. IsList(Nexts, partial, S) BY DEF IInv, PartialList
    <2> HIDE DEF S
    <2>3. Chain(partial, Nexts).cells = S /\ Chain(partial, Nexts).ends
      BY <1>2, <2>1, <2>2, ListChain, SlabsAssumption
    <2> QED BY <2>3 DEF S, PartialChain, Nexts
  <1> QED BY <1>4, <1>5, <1>6

LEMMA QuietFlight ==
  ASSUME Quiet
  PROVE  Flight = {} /\ Taking = {}
  <1>1. \A t \in Threads : call[t].at = "idle" BY DEF Quiet, Idle
  <1> QED BY <1>1 DEF Flight, FlightOf, Taking, TakingOf

\* kmem_cache_alloc and kmem_cache_free, in any order and on any number of
\* slabs, keep every object in one place: with a caller, on the CPU's free
\* list or on its slab's.  The lists have no cycle.
THEOREM ObjectsAreConserved ==
  ASSUME Preemptible = FALSE
  PROVE  Spec => []ObjectsConserved
  <1>1. IInv => ObjectsConserved
    <2> SUFFICES ASSUME IInv, Quiet PROVE ObjectsConserved BY DEF ObjectsConserved
    <2>1. Flight = {} BY QuietFlight
    <2>2. CpuChain.ends /\ \A p \in Slabs : SlabChain(p).ends BY Chains
    <2>3. CpuChain.cells \cap live = {} BY Chains DEF Unused
    <2>4. ASSUME NEW p \in Slabs
          PROVE  LET here == {o \in Objects : o[1] = p}
                     places == (live \cap here) \cup (CpuChain.cells \cap here)
                 IN /\ SlabChain(p).cells \cap places = {}
                    /\ SlabChain(p).cells \cup places = IF slab[p].objects = 0 THEN {} ELSE here
      <3> DEFINE here == {o \in Objects : o[1] = p}
                 used == IF slab[p].objects = 0 THEN {} ELSE here
      <3>1. live \cap here \subseteq used /\ live \subseteq Objects
        BY DEF IInv, UseInv, TypeInv
      <3>2. Unused(p) = used \ live BY <2>1 DEF Unused
      <3>3. CASE p = cpu.slab
        <4>1. SlabChain(p).cells = {} /\ CpuChain.cells = used \ live BY <3>2, <3>3, Chains
        <4> QED BY <3>1, <4>1
      <3>4. CASE p # cpu.slab
        <4>1. SlabChain(p).cells = used \ live BY <3>2, <3>4, Chains
        <4>2. CpuChain.cells \cap here = {} BY <3>4, Chains DEF Unused
        <4> QED BY <3>1, <4>1, <4>2
      <3> QED BY <3>3, <3>4
    <2> QED BY <2>2, <2>3, <2>4 DEF ObjectsConserved
  <1> QED BY <1>1, Inductive, PTL

\* slab->inuse, counted up in kmem_cache_alloc and _refill and down in
\* kmem_cache_free, is the number of live objects of the slab.
THEOREM InuseIsExact ==
  ASSUME Preemptible = FALSE
  PROVE  Spec => []InuseExact
  <1>1. IInv => InuseExact BY DEF IInv, CountInv, LiveIn, InuseExact
  <1> QED BY <1>1, Inductive, PTL

\* s->partial holds the slabs with free objects of their own, all of them, and
\* never the slab the CPU allocates from.
THEOREM PartialIsExact ==
  ASSUME Preemptible = FALSE
  PROVE  Spec => []PartialExact
  <1>1. IInv => PartialExact
    <2> SUFFICES ASSUME IInv, Quiet PROVE PartialExact BY DEF PartialExact
    <2>1. PartialChain.ends /\ PartialChain.cells = WithFree BY QuietFlight, Chains
    <2>2. cpu.slab \notin WithFree
      <3> SUFFICES ASSUME cpu.slab \in Slabs PROVE slab[cpu.slab].freelist = NULL
        BY DEF WithFree
      <3> QED BY EmptyList DEF IInv, SlabLists
    <2> QED BY <2>1, <2>2 DEF PartialExact, WithFree
  <1> QED BY <1>1, Inductive, PTL

\* kmem_cache_alloc returns NULL only when every object of every slab of the
\* cache is with a caller: _refill has looked at the CPU's list and at the
\* partial list, and nothing is free anywhere else.
THEOREM FailsOnlyExhausted ==
  ASSUME Preemptible = FALSE
  PROVE  Spec => []FailsOnlyWhenExhausted
  <1>1. IInv => FailsOnlyWhenExhausted
    <2> SUFFICES ASSUME IInv, NEW t \in Threads, call[t].at = "failed"
                 PROVE  live = {o \in Objects : slab[o[1]].objects > 0}
      BY DEF FailsOnlyWhenExhausted
    <2>1. \A u \in Threads \ {t} : call[u] = Idle
      <3>1. call[t] # Idle BY DEF Idle
      <3> QED BY <3>1 DEF IInv, Alone
    <2>2. Flight = {} /\ Taking = {} BY <2>1, OneCall DEF Flight, Taking
    <2>3. cpu.freelist = NULL /\ partial = NULL BY DEF IInv, StepInv
    <2>4. \A p : NULL \notin Unused(p) BY SlabsAssumption DEF Unused
    <2>5. Unused(cpu.slab) = {} BY <2>3, <2>4, ListHead DEF IInv, CpuList
    <2>6. WithFree = {}
      <3>1. NULL \notin WithFree BY SlabsAssumption DEF WithFree
      <3> QED BY <2>2, <2>3, <3>1, ListHead DEF IInv, PartialList
    <2>7. ASSUME NEW p \in Slabs PROVE Unused(p) = {}
      <3>1. CASE p = cpu.slab BY <2>5, <3>1
      <3>2. CASE p # cpu.slab
        <4>1. IsList(fp, slab[p].freelist, Unused(p)) BY <3>2 DEF IInv, SlabLists
        <4>2. slab[p].freelist = NULL BY <2>6 DEF WithFree
        <4> QED BY <2>4, <4>1, <4>2, ListHead
      <3> QED BY <3>1, <3>2
    <2>8. \A o \in Objects : /\ o[1] \in Slabs
                            /\ slab[o[1]].objects > 0 <=> slab[o[1]].objects # 0
      BY ObjPerSlabAssumption DEF IInv, TypeInv, Objects
    <2>9. ASSUME NEW o \in Objects PROVE o \in live <=> slab[o[1]].objects # 0
      <3>1. o \in live => slab[o[1]].objects # 0 BY DEF IInv, UseInv
      <3>2. o \notin Unused(o[1])
        <4>1. PICK p \in Slabs : p = o[1] BY DEF Objects
        <4>2. Unused(p) = {} BY <2>7
        <4> QED BY <4>1, <4>2
      <3> QED BY <2>2, <3>1, <3>2 DEF Unused
    <2> QED BY <2>8, <2>9 DEF IInv, TypeInv
  <1> QED BY <1>1, Inductive, PTL

\* kassert(slab->freelist != NULL) in _refill holds.
THEOREM RefillAssertHolds ==
  ASSUME Preemptible = FALSE
  PROVE  Spec => []RefillAssert
  <1>1. IInv => RefillAssert BY DEF IInv, StepInv, RefillAssert
  <1> QED BY <1>1, Inductive, PTL

-----------------------------------------------------------------------------
(***************************************************************************)
(* kmalloc.  The binary search of kmalloc_index is correct for every       *)
(* increasing table of size classes and every request, and the block that  *)
(* kmalloc places fits and is aligned.                                     *)
(***************************************************************************)

\* Types of the variables of the search.
LocalsOK ==
  /\ size \in Nat
  /\ left \in 0 .. NUM_SIZES /\ right \in -1 .. NUM_SIZES - 1
  /\ result \in -1 .. NUM_SIZES - 1

\* The loop invariant.  Classes before left are too small, classes behind
\* right are large enough, and result is the first of these (-1: none yet).
LoopInv ==
  pc = "search" =>
    /\ left <= right + 1
    /\ \A i \in 0 .. left - 1 : kmalloc_sizes[i] < size
    /\ \A i \in right + 1 .. NUM_SIZES - 1 : kmalloc_sizes[i] >= size
    /\ result = IF right = NUM_SIZES - 1 THEN -1 ELSE right + 1

SearchInv == LocalsOK /\ LoopInv

LEMMA InitSearch == KmallocInit => SearchInv
  BY TableAssumption DEF KmallocInit, SearchInv, LocalsOK, LoopInv

LEMMA CallStep ==
  ASSUME SearchInv, NEW s \in Requests, kmalloc(s)
  PROVE  SearchInv'
  <1>1. s \in Nat BY RequestsAssumption
  <1>2. size' \in Nat BY <1>1 DEF kmalloc, ALIGN_UP, HEADER
  <1> QED BY <1>2, TableAssumption DEF SearchInv, LocalsOK, LoopInv, kmalloc

LEMMA LoopStep ==
  ASSUME SearchInv, kmalloc_index
  PROVE  SearchInv'
  <1>1. /\ Mid \in Int /\ left <= Mid /\ Mid <= right /\ Mid \in 0 .. NUM_SIZES - 1
    BY TableAssumption DEF Mid, SearchInv, LocalsOK, kmalloc_index
  <1>2. \A i \in 0 .. NUM_SIZES - 1 : kmalloc_sizes[i] \in Nat
    BY TableAssumption
  <1>3. CASE kmalloc_sizes[Mid] >= size
    <2>1. right' = Mid - 1 /\ left' = left /\ result' = Mid /\ size' = size /\ pc' = pc
      BY <1>3 DEF kmalloc_index
    <2>2. \A i \in Mid .. NUM_SIZES - 1 : kmalloc_sizes[i] >= size
      BY <1>1, <1>2, <1>3, TableAssumption DEF SearchInv, LocalsOK
    <2> QED BY <1>1, <2>1, <2>2, TableAssumption
            DEF SearchInv, LocalsOK, LoopInv, kmalloc_index
  <1>4. CASE ~(kmalloc_sizes[Mid] >= size)
    <2>1. left' = Mid + 1 /\ right' = right /\ result' = result /\ size' = size /\ pc' = pc
      BY <1>4 DEF kmalloc_index
    <2>2. \A i \in 0 .. Mid : kmalloc_sizes[i] < size
      BY <1>1, <1>2, <1>4, TableAssumption DEF SearchInv, LocalsOK
    <2> QED BY <1>1, <2>1, <2>2, TableAssumption
            DEF SearchInv, LocalsOK, LoopInv, kmalloc_index
  <1> QED BY <1>3, <1>4

LEMMA NextSearch == SearchInv /\ [KmallocNext]_kmalloc_vars => SearchInv'
  <1> SUFFICES ASSUME SearchInv, [KmallocNext]_kmalloc_vars PROVE SearchInv' OBVIOUS
  <1>1. CASE \E s \in Requests : kmalloc(s) BY <1>1, CallStep
  <1>2. CASE kmalloc_index BY <1>2, LoopStep
  <1>3. CASE Place BY <1>3 DEF Place, SearchInv, LocalsOK, LoopInv
  <1>4. CASE OutOfMemory \/ kfree
    BY <1>4, TableAssumption DEF OutOfMemory, kfree, Done, SearchInv, LocalsOK, LoopInv
  <1>5. CASE UNCHANGED kmalloc_vars BY <1>5 DEF kmalloc_vars, SearchInv, LocalsOK, LoopInv
  <1> QED BY <1>1, <1>2, <1>3, <1>4, <1>5 DEF KmallocNext

\* For every increasing table, kmalloc_index finds the smallest class that
\* holds the request, and reports -1 exactly when there is none.
THEOREM SearchIsCorrect == KmallocSpec => []SmallestClass
  <1>1. SearchInv => SmallestClass
    BY TableAssumption DEF SearchInv, LocalsOK, LoopInv, SmallestClass
  <1> QED BY <1>1, InitSearch, NextSearch, PTL DEF KmallocSpec

-----------------------------------------------------------------------------
(* Where the block lies *)

\* The size searched for is what was asked with the header, rounded up.
SizeInv == pc = "search" => asked \in Nat \ {0} /\ size = ALIGN_UP(asked + HEADER, 16)

LEMMA RoundUp ==
  ASSUME NEW a \in Nat, NEW n \in Nat \ {0}
  PROVE  /\ ALIGN_UP(a, n) \in Nat /\ ALIGN_UP(a, n) >= a
         /\ \E k \in Nat : ALIGN_UP(a, n) = k * n
  <1> DEFINE k == (a + n - 1) \div n
  <1>1. k \in Nat /\ (a + n - 1) = n * k + ((a + n - 1) % n) /\ (a + n - 1) % n \in 0 .. n - 1
    OBVIOUS
  <1> HIDE DEF k
  <1>2. n * k \in Nat /\ n * k = k * n BY <1>1
  <1>3. n * k >= a BY <1>1, <1>2
  <1>4. ALIGN_UP(a, n) = k * n BY DEF ALIGN_UP, k
  <1> QED BY <1>1, <1>2, <1>3, <1>4

\* A slab object: the class is a multiple of 16, or no request comes to it.
LEMMA SlabBlock ==
  ASSUME SearchInv, SizeInv, SmallestClass, pc = "search", left > right, result >= 0,
         NEW i \in 0 .. obj_per_slab(result) - 1
  PROVE  LET at == SLAB_HDR + i * CacheSize(result)
         IN /\ (at + HEADER) % 16 = 0
            /\ at >= SLAB_HDR
            /\ CacheSize(result) >= HEADER + asked
            /\ at + CacheSize(result) <= PAGE_SIZE
  <1> DEFINE c == kmalloc_sizes[result]
             d == CacheSize(result)
             n == obj_per_slab(result)
  <1>1. result \in 0 .. NUM_SIZES - 1 /\ c \in Nat /\ c >= size /\ size \in Nat
    BY TableAssumption DEF SearchInv, LocalsOK, SmallestClass
  <1>2. asked \in Nat \ {0} /\ size >= asked + HEADER /\ size > 0 /\ size % 16 = 0
    <2>1. asked + HEADER \in Nat /\ size = ALIGN_UP(asked + HEADER, 16) BY DEF SizeInv, HEADER
    <2>2. size >= asked + HEADER /\ \E k \in Nat : size = k * 16 BY <2>1, RoundUp
    <2> QED BY <2>2 DEF SizeInv, HEADER
  <1>3. d \in Nat /\ d >= c /\ d > 0
    <2>1. d = ALIGN_UP(c, 8) BY <1>1, <1>2 DEF CacheSize, HEADER
    <2>2. \A a \in Nat : ALIGN_UP(a, 8) \in Nat /\ ALIGN_UP(a, 8) >= a BY DEF ALIGN_UP
    <2> QED BY <1>1, <1>2, <2>1, <2>2 DEF HEADER
  <1>4. d % 16 = 0
    <2> SUFFICES ASSUME d % 16 # 0 PROVE FALSE BY <1>3
    <2>1. \A k \in (IF result = 0 THEN 1 ELSE kmalloc_sizes[result - 1] + 1) .. c : k % 16 # 0
      BY <1>1, AlignedTable
    <2>2. size \in (IF result = 0 THEN 1 ELSE kmalloc_sizes[result - 1] + 1) .. c
      <3>1. result # 0 => kmalloc_sizes[result - 1] < size /\ kmalloc_sizes[result - 1] \in Nat
        BY <1>1, TableAssumption DEF SmallestClass
      <3> QED BY <1>1, <1>2, <3>1
    <2> QED BY <1>2, <2>1, <2>2
  <1> HIDE DEF c, d
  <1>5. i * d \in Nat /\ (i * d) % 16 = 0
    <2>1. PICK k \in Nat : d = 16 * k BY <1>3, <1>4
    <2>2. i \in Nat OBVIOUS
    <2>3. i * d = 16 * (i * k) /\ i * k \in Nat BY <2>1, <2>2
    <2> QED BY <2>3
  <1>6. i * d + d <= PAGE_SIZE - SLAB_HDR
    <2>1. n = (PAGE_SIZE - SLAB_HDR) \div d /\ PAGE_SIZE - SLAB_HDR \in Int
      BY PageAssumption DEF obj_per_slab, d, SLAB_HDR
    <2>2. n \in Int /\ d * n <= PAGE_SIZE - SLAB_HDR BY <1>3, <2>1
    <2>3. i \in Nat /\ i + 1 <= n BY <2>2
    <2>4. d * (i + 1) <= d * n BY <1>3, <2>2, <2>3
    <2>5. d * (i + 1) = i * d + d BY <1>3, <2>3
    <2> QED BY <1>3, <1>5, <2>1, <2>2, <2>4, <2>5
  <1> QED BY <1>1, <1>2, <1>3, <1>5, <1>6, PageAssumption DEF d, HEADER, SLAB_HDR

\* Whole pages: as many as are needed.
LEMMA PageBlock ==
  ASSUME SizeInv, pc = "search"
  PROVE  /\ Pages * PAGE_SIZE >= HEADER + asked
         /\ (Pages - 1) * PAGE_SIZE < ALIGN_UP(HEADER + asked, 16)
  <1>1. asked + HEADER \in Nat /\ HEADER + asked = asked + HEADER
    BY DEF SizeInv, HEADER
  <1>2. size = ALIGN_UP(HEADER + asked, 16) /\ size \in Nat /\ size >= HEADER + asked
    BY <1>1, RoundUp DEF SizeInv
  <1>3. PAGE_SIZE \in Nat \ {0} BY PageAssumption
  <1>4. /\ Pages \in Nat
        /\ size + PAGE_SIZE - 1 = PAGE_SIZE * Pages + ((size + PAGE_SIZE - 1) % PAGE_SIZE)
        /\ (size + PAGE_SIZE - 1) % PAGE_SIZE \in 0 .. PAGE_SIZE - 1
    BY <1>2, <1>3 DEF Pages
  <1>5. /\ Pages * PAGE_SIZE \in Nat /\ Pages * PAGE_SIZE = PAGE_SIZE * Pages
        /\ (Pages - 1) * PAGE_SIZE = PAGE_SIZE * Pages - PAGE_SIZE
    BY <1>3, <1>4
  <1> QED BY <1>1, <1>2, <1>3, <1>4, <1>5

BlockInv == SearchInv /\ SizeInv /\ BlockFits

LEMMA NextBlock == BlockInv /\ [KmallocNext]_kmalloc_vars => BlockInv'
  <1> SUFFICES ASSUME BlockInv, [KmallocNext]_kmalloc_vars PROVE BlockInv' OBVIOUS
  <1>1. SearchInv' BY NextSearch DEF BlockInv
  <1>2. SmallestClass
    BY TableAssumption DEF BlockInv, SearchInv, LocalsOK, LoopInv, SmallestClass
  <1>3. CASE \E s \in Requests : kmalloc(s)
    BY <1>1, <1>3, RequestsAssumption DEF BlockInv, SizeInv, BlockFits, kmalloc
  <1>4. CASE kmalloc_index
    BY <1>1, <1>4 DEF BlockInv, SizeInv, BlockFits, kmalloc_index
  <1>5. CASE Place
    <2>1. SizeInv' BY <1>5 DEF Place, SizeInv
    <2>2. pc = "search" /\ left > right /\ asked' = asked BY <1>5 DEF Place
    <2>3. CASE result >= 0
      <3>1. PICK i \in 0 .. obj_per_slab(result) - 1 :
              block' = [type |-> "SLAB_BACKED", n |-> result, at |-> SLAB_HDR + i * CacheSize(result)]
        BY <1>5, <2>3 DEF Place, BlockInv, SearchInv, LocalsOK
      <3> QED BY <1>1, <1>2, <2>1, <2>2, <2>3, <3>1, SlabBlock DEF BlockInv, BlockFits
    <2>4. CASE result < 0
      <3>1. block' = [type |-> "PAGE_BACKED", n |-> Pages, at |-> 0]
        BY <1>5, <2>4 DEF Place, BlockInv, SearchInv, LocalsOK
      <3>2. (0 + HEADER) % 16 = 0 BY DEF HEADER
      <3> QED BY <1>1, <2>1, <2>2, <3>1, <3>2, PageBlock DEF BlockInv, BlockFits
    <2> QED BY <2>3, <2>4 DEF BlockInv, SearchInv, LocalsOK
  <1>6. CASE OutOfMemory \/ kfree
    BY <1>1, <1>6 DEF BlockInv, SizeInv, BlockFits, OutOfMemory, kfree, Done
  <1>7. CASE UNCHANGED kmalloc_vars
    BY <1>1, <1>7 DEF BlockInv, SizeInv, BlockFits, kmalloc_vars
  <1> QED BY <1>3, <1>4, <1>5, <1>6, <1>7 DEF KmallocNext

\* For every page size and every table that is right for 16-byte alignment, a
\* block that kmalloc returns has room for header and request, stays inside its
\* page or pages, clear of the slab's header, and is aligned.
THEOREM BlocksFit == KmallocSpec => []BlockFits
  <1>1. KmallocInit => BlockInv
    BY InitSearch DEF KmallocInit, BlockInv, SizeInv, BlockFits
  <1>2. BlockInv => BlockFits BY DEF BlockInv
  <1> QED BY <1>1, <1>2, NextBlock, PTL DEF KmallocSpec
=============================================================================
