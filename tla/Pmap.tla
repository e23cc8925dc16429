-------------------------------- MODULE Pmap --------------------------------
(***************************************************************************)
(* Page tables (arch/x86_64/mm/pmap/pmap.c, mm/pmap/pmap.c): four levels   *)
(* of tables of F entries (512 in the machine), whose frames come from the *)
(* physical memory manager, huge pages at the two middle levels, and       *)
(* address spaces that share the upper half of the kernel's.               *)
(*                                                                         *)
(* Addresses are page numbers, except in what the boot loader hands over,  *)
(* which need not be aligned.  Access flags and the TLB are not modelled.  *)
(* Which free frame a table gets does not matter, so it is the smallest.   *)
(* Definitions named X_Y before an X are mutants of X, as in PMM.          *)
(***************************************************************************)
EXTENDS Integers, Sequences, FiniteSetsExt

CONSTANTS
  F,          \* PAGE_TABLE_ENTRIES
  PAGE_SIZE,
  NumFrames,  \* bound: frames the physical memory manager has for tables
  Memmaps,    \* what init_pmap may find: sequences of [type, base, length]
  Image,      \* the kernel's sections: a sequence of [virt, phys, length]
  Spaces,     \* bound: address spaces besides the kernel's
  LowVirt,    \* bound: where single pages are mapped, below the kernel half
  LowPhys,    \* bound: what is mapped there
  Mmio        \* device pages

KERNEL == "kernel"
All == Spaces \cup {KERNEL}
NULL == 0
Frames == 1 .. NumFrames
NumPages == F * F * F * F   \* pages of a virtual address space
Half == NumPages \div 2      \* the first kernel address, and the offset of HHDM
Virt == 0 .. NumPages - 1

ASSUME PmapAssumption ==
  /\ F \in Nat /\ F >= 2 /\ F % 2 = 0
  /\ PAGE_SIZE \in Nat \ {0} /\ NumFrames \in Nat
  /\ KERNEL \notin Spaces
  /\ LowVirt \subseteq 0 .. Half - 1 /\ LowPhys \subseteq Nat
  /\ Mmio \subseteq 0 .. Half - 1

VARIABLES
  mem,     \* frame -> table: index -> entry [kind, to]
  used,    \* frames taken from the physical memory manager
  root,    \* space -> pml4_phy, NULL when there is no such space
  todo,    \* the ranges init_pmap has still to map
  job,     \* the locals of the pmap_map_range or pmap_map_page under way
  mapped   \* what it will return: the number of pages mapped so far

vars == <<mem, used, root, todo, job, mapped>>

None == [kind |-> "none", to |-> 0]
Page(p) == [kind |-> "page", to |-> p]   \* present; with PS above level 1
Table(f) == [kind |-> "table", to |-> f]
Empty == [i \in 0 .. F - 1 |-> None]

\* Level 4 is the PML4, level 1 the page table; an entry spans Span(level) pages.
Span(level) ==
  CASE level = 1 -> 1 [] level = 2 -> F [] level = 3 -> F * F [] level = 4 -> F * F * F
Idx(va, level) == (va \div Span(level)) % F

Job(space, virt, phys, remain, huge) ==
  [space |-> space, virt |-> virt, phys |-> phys, remain |-> remain, huge |-> huge]

NoJob == Job(KERNEL, 0, 0, 0, FALSE)

\* The rounding in pmap_map_range: the pages that bytes virt to virt + length - 1
\* touch.
ToPages(virt, phys, length, huge) ==
  LET start_virt == virt \div PAGE_SIZE
      end_virt == (virt + length + PAGE_SIZE - 1) \div PAGE_SIZE
  IN Job(KERNEL, start_virt, phys \div PAGE_SIZE, end_virt - start_virt, huge)

\* init_pmap: every region at its own address and in the higher half, then the
\* kernel's sections.
BootRanges(memmap) ==
  LET regions == SelectSeq(memmap, LAMBDA e : e.type \notin {"bad", "executable"})
      both == [i \in 1 .. 2 * Len(regions) |->
                 LET e == regions[(i + 1) \div 2]
                     hhdm == IF i % 2 = 1 THEN 0 ELSE Half * PAGE_SIZE
                 IN ToPages(hhdm + e.base, e.base, e.length, TRUE)]
      sections == [i \in DOMAIN Image |->
                     ToPages(Image[i].virt, Image[i].phys, Image[i].length, FALSE)]
  IN both \o sections

Pages(r) == r.virt .. r.virt + r.remain - 1
Jobs == [space : {KERNEL}, virt : Nat, phys : Nat, remain : Nat \ {0}, huge : BOOLEAN]

\* No region is empty, and every range lies in the address space.  Where regions
\* are not aligned, a range may begin with a page that an earlier one ends with;
\* but a block that it covers whole, and may map as one huge page, holds no page
\* of an earlier range: map_2m would overwrite the entry of that page's table.
ASSUME RangesAssumption ==
  \A m \in Memmaps :
    LET ranges == BootRanges(m)
    IN /\ ranges \in Seq(Jobs)
       /\ \A i \in 1 .. Len(ranges) : Pages(ranges[i]) \subseteq Virt
       /\ \A i, j \in 1 .. Len(ranges) : i < j /\ ranges[j].huge =>
            \A p \in Pages(ranges[i]) :
              LET first == F * (p \div F)
              IN ~(first .. first + F - 1 \subseteq Pages(ranges[j]))

\* init_pmap has created the kernel's own table.
Init ==
  /\ NumFrames > 0
  /\ mem = [f \in Frames |-> Empty]
  /\ used = {1}
  /\ root = [s \in All |-> IF s = KERNEL THEN 1 ELSE NULL]
  /\ \E m \in Memmaps : todo = BootRanges(m)
  /\ job = NoJob /\ mapped = 0

-----------------------------------------------------------------------------
(* Walking and mapping.  A walk w is [mem, used, t]: t is the table it has *)
(* reached, NULL once it failed.                                           *)

get_next_level(w, i, allocate) ==
  LET e == w.mem[w.t][i]
      f == Min(Frames \ w.used)
  IN IF w.t = NULL THEN w
     ELSE IF e.kind = "table" THEN [w EXCEPT !.t = e.to]
     ELSE IF e.kind = "page" \/ ~allocate \/ w.used = Frames THEN [w EXCEPT !.t = NULL]
     ELSE [mem |-> [w.mem EXCEPT ![f] = Empty, ![w.t][i] = Table(f)],
           used |-> w.used \cup {f}, t |-> f]

\* The table of the given level (1 to 3) on the way to va.
WalkTo(space, va, level, allocate) ==
  LET w3 == get_next_level([mem |-> mem, used |-> used, t |-> root[space]],
                           Idx(va, 4), allocate)
      w2 == get_next_level(w3, Idx(va, 3), allocate)
      w1 == get_next_level(w2, Idx(va, 2), allocate)
  IN CASE level = 3 -> w3 [] level = 2 -> w2 [] OTHER -> w1

Aligned(r, level) == r.virt % Span(level) = 0 /\ r.phys % Span(level) = 0

\* The length of the rest is not looked at.
map_huge_ok_IgnoreRemain(r) ==
  CASE r.huge /\ Aligned(r, 3) -> 3
    [] r.huge /\ ~Aligned(r, 3) /\ Aligned(r, 2) -> 2
    [] OTHER -> 1

\* The level at which the next step of a range is mapped.
map_huge_ok(r) ==
  CASE r.huge /\ Aligned(r, 3) /\ r.remain >= Span(3) -> 3
    [] r.huge /\ ~(Aligned(r, 3) /\ r.remain >= Span(3))
         /\ Aligned(r, 2) /\ r.remain >= Span(2) -> 2
    [] OTHER -> 1

\* One iteration of pmap_map_range: map, map_2m or map_1g.  Tables that were
\* allocated on the way stay when the walk fails.
map ==
  LET level == map_huge_ok(job)
  IN /\ job.remain > 0
     /\ \E w \in {WalkTo(job.space, job.virt, level, TRUE)} :
          /\ used' = w.used
          /\ IF w.t = NULL
               THEN mem' = w.mem /\ job' = NoJob /\ UNCHANGED mapped
               ELSE /\ mem' = [w.mem EXCEPT ![w.t][Idx(job.virt, level)] = Page(job.phys)]
                    /\ mapped' = mapped + Span(level)
                    /\ job' = IF job.remain = Span(level) THEN NoJob
                              ELSE [job EXCEPT !.virt = @ + Span(level),
                                               !.phys = @ + Span(level),
                                               !.remain = @ - Span(level)]
     /\ UNCHANGED <<root, todo>>

pmap_map_range(r) == job = NoJob /\ job' = r /\ mapped' = 0 /\ UNCHANGED <<mem, used, root>>

init_pmap == todo # << >> /\ pmap_map_range(Head(todo)) /\ todo' = Tail(todo)

\* Device memory, always before the first user space exists.
pmap_map_mmio(phys) ==
  /\ todo = << >> /\ \A s \in Spaces : root[s] = NULL
  /\ pmap_map_range(Job(KERNEL, Half + phys, phys, 1, FALSE))
  /\ UNCHANGED todo

\* ktask_execve maps pages of a user space; vm_fault_handler and uACPI map pages
\* of the kernel's own, where the identity map is, and uACPI unmaps them.
pmap_map_page(s, va, phys) ==
  /\ todo = << >> /\ root[s] # NULL
  /\ pmap_map_range(Job(s, va, phys, 1, FALSE))
  /\ UNCHANGED todo

pmap_unmap_page(s, va) ==
  /\ job = NoJob /\ todo = << >> /\ root[s] # NULL
  /\ \E w \in {WalkTo(s, va, 1, FALSE)} :
       mem' = IF w.t = NULL THEN mem ELSE [mem EXCEPT ![w.t][Idx(va, 1)] = None]
  /\ UNCHANGED <<used, root, todo, job, mapped>>

-----------------------------------------------------------------------------
(* Creating and destroying address spaces *)

\* The kernel half is left empty.
pmap_create_table_NoCopy(s) ==
  /\ job = NoJob /\ todo = << >> /\ root[s] = NULL
  /\ \E f \in Frames \ used :
       /\ f = Min(Frames \ used)
       /\ used' = used \cup {f}
       /\ root' = [root EXCEPT ![s] = f]
       /\ mem' = [mem EXCEPT ![f] = Empty]
  /\ UNCHANGED <<todo, job, mapped>>

\* The upper half of a new top table is the kernel's.
pmap_copy_kernel_mappings(table) ==
  [i \in 0 .. F - 1 |-> IF i < F \div 2 THEN table[i] ELSE mem[root[KERNEL]][i]]

\* A creation that fails changes nothing.
pmap_create_table(s) ==
  /\ job = NoJob /\ todo = << >> /\ root[s] = NULL
  /\ \E f \in Frames \ used :
       /\ f = Min(Frames \ used)
       /\ used' = used \cup {f}
       /\ root' = [root EXCEPT ![s] = f]
       /\ mem' = [mem EXCEPT ![f] = pmap_copy_kernel_mappings(Empty)]
  /\ UNCHANGED <<todo, job, mapped>>

\* The frames the present entries of the tables T point at.
Below(T, indices) ==
  {e.to : e \in {x \in {mem[t][i] : t \in T, i \in indices} : x.kind # "none"}}

\* The page tables themselves are not freed.
TablesOf_NoPt(s) ==
  LET pdpts == Below({root[s]}, 0 .. F \div 2 - 1)
  IN {root[s]} \cup pdpts \cup Below(pdpts, 0 .. F - 1)

\* The frames pmap_destroy_table frees: the lower half of the tree.
TablesOf(s) ==
  LET pdpts == Below({root[s]}, 0 .. F \div 2 - 1)
      pds == Below(pdpts, 0 .. F - 1)
  IN {root[s]} \cup pdpts \cup pds \cup Below(pds, 0 .. F - 1)

\* What a free frame holds is never read: get_next_level clears it.
pmap_destroy_table(s) ==
  /\ job = NoJob /\ todo = << >> /\ root[s] # NULL
  /\ used' = used \ TablesOf(s)
  /\ mem' = [f \in Frames |-> IF f \in TablesOf(s) THEN Empty ELSE mem[f]]
  /\ root' = [root EXCEPT ![s] = NULL]
  /\ UNCHANGED <<todo, job, mapped>>

Next ==
  \/ init_pmap
  \/ map
  \/ \E p \in Mmio : pmap_map_mmio(p)
  \/ \E s \in All, va \in LowVirt, p \in LowPhys : pmap_map_page(s, va, p)
  \/ \E s \in All, va \in LowVirt : pmap_unmap_page(s, va)
  \/ \E s \in Spaces : pmap_create_table(s)
  \/ \E s \in Spaces : pmap_destroy_table(s)

Spec == Init /\ [][Next]_vars

-----------------------------------------------------------------------------
(* Properties *)

Live == {s \in All : root[s] # NULL}

\* What the processor finds at va: a physical page, or NumPages for a fault.
Translate(s, va) ==
  LET Look(t, level) == mem[t][Idx(va, level)]
      At(e, level) == e.to + (va % Span(level))
      e4 == Look(root[s], 4)
      e3 == Look(e4.to, 3)
      e2 == Look(e3.to, 2)
      e1 == Look(e2.to, 1)
  IN CASE e4.kind = "none" -> NumPages
       [] e4.kind = "table" /\ e3.kind # "table" ->
            IF e3.kind = "page" THEN At(e3, 3) ELSE NumPages
       [] e4.kind = "table" /\ e3.kind = "table" /\ e2.kind # "table" ->
            IF e2.kind = "page" THEN At(e2, 2) ELSE NumPages
       [] OTHER -> IF e1.kind = "page" THEN At(e1, 1) ELSE NumPages

\* The pages one step of pmap_map_range maps.
Block == LET n == Span(map_huge_ok(job)) IN job.virt .. job.virt + n - 1

\* A mapping step changes the translation of exactly the pages of its range
\* (in every space, if they are in the shared half), to the pages asked for,
\* whichever level it is made at; a step that fails changes no translation,
\* whatever tables it had already allocated.
MapsExactly ==
  [][map =>
       \A s \in Live, va \in Virt :
         Translate(s, va)' =
           IF mapped' > mapped /\ va \in Block /\ va < job.virt + job.remain
                /\ (s = job.space \/ va >= Half)
             THEN job.phys + (va - job.virt) ELSE Translate(s, va)]_vars

\* Every frame taken for tables is part of the tree of a space that exists, at
\* one place only (the spaces share the kernel's upper tables): destroying a
\* space gives all its tables back and none of the kernel's, and a mapping that
\* ran out of memory half way leaves nothing behind that is not reachable.
TablesConserved ==
  LET links == {x \in used \X (0 .. F - 1) :
                  /\ mem[x[1]][x[2]].kind = "table"
                  /\ ~(x[2] >= F \div 2 /\ \E s \in Spaces : x[1] = root[s])}
      to(x) == mem[x[1]][x[2]].to
      roots == {root[s] : s \in Live}
  IN /\ used \subseteq Frames /\ \A s, t \in Live : root[s] = root[t] => s = t
     /\ used = roots \cup {to(x) : x \in links}
     /\ \A x, y \in links : to(x) = to(y) => x = y
     /\ roots \cap {to(x) : x \in links} = {}

\* The kernel sees the same memory in every address space: what interrupt
\* handlers and the scheduler touch is mapped alike whoever runs.
KernelShared ==
  \A s \in Live : \A va \in Half .. NumPages - 1 : Translate(s, va) = Translate(KERNEL, va)
=============================================================================
