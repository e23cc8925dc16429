------------------------------- MODULE VmMap -------------------------------
(***************************************************************************)
(* One address space (mm/vm/vm_map.c): its list of areas and the pages     *)
(* that page faults map into them.                                         *)
(*                                                                         *)
(* It is kernel_vm_map, in which init_pmap has mapped every region of the  *)
(* memory map at its own physical address without an area for it, or one   *)
(* that vm_map_create made, which starts empty.  Addresses are bytes.  pt  *)
(* is the page table seen through pmap_map_page, pmap_map_range and        *)
(* pmap_unmap_page, which need a frame for a table now and then (Pmap has  *)
(* the tables themselves); free is what the physical memory manager has    *)
(* left (the promise of FrameAllocator).  The callers are the page faults  *)
(* and uACPI, which maps firmware tables for a while, over the identity    *)
(* map (firmware/acpi.c).  Calls do not overlap.  Definitions named X_Y    *)
(* before an X are mutants of X, as in PMM.                                *)
(***************************************************************************)
EXTENDS Naturals, Sequences, SequencesExt

CONSTANTS
  PAGE_SIZE,
  VM_ALLOC_BASE,   \* the lowest address handed out
  Limit,           \* bound: the end of the address space
  Sizes,           \* bound: the sizes (in bytes) callers ask for
  Frames,          \* frames of usable memory
  Firmware,        \* the frames of the firmware tables in ascending order, below
                   \* the end of the bitmap (the manager ignores those above)
  NoFrame,         \* an entry that is not present
  HugePage,        \* what a 2 MiB or 1 GiB entry shows for each of its pages
  Identity         \* page address -> what init_pmap leaves there

ASSUME VmAssumption ==
  /\ PAGE_SIZE \in Nat \ {0} /\ Limit \in Nat /\ Sizes \subseteq Nat
  /\ VM_ALLOC_BASE \in Nat \ {0} /\ VM_ALLOC_BASE % PAGE_SIZE = 0
  /\ Firmware \in Seq(Range(Firmware))
  /\ Range(Firmware) \cap Frames = {} /\ NoFrame \notin Frames \cup Range(Firmware)
  /\ HugePage \notin Frames \cup Range(Firmware) \cup {NoFrame}

VARIABLES
  space,   \* "kernel" for kernel_vm_map; "user" for another, "none" before its
           \* vm_map_create and after its vm_map_destroy; "halted"
  areas,   \* space->areas: the list, as a sequence of [start, end]
  pt,      \* page address -> frame or NoFrame
  free,    \* the frames the physical memory manager can give
  dropped, \* ghost: the pages still mapped that a split dropped for want of an area object
  lost,    \* ghost: the frames of usable memory nothing refers to any more
  ident,   \* ghost: the pages where init_pmap's entry still stands
  stray    \* ghost: the frames freed through such an entry, whoever has them

vars == <<space, areas, pt, free, dropped, lost, ident, stray>>

ALIGN_UP(a) == ((a + PAGE_SIZE - 1) \div PAGE_SIZE) * PAGE_SIZE
ALIGN_DOWN(a) == (a \div PAGE_SIZE) * PAGE_SIZE

PageAddrs == {a \in VM_ALLOC_BASE .. Limit - 1 : a % PAGE_SIZE = 0}

Area(s, e) == [start |-> s, end |-> e]

Up == space \in {"kernel", "user"}

\* kernel_vm_map after init_pmap, or no address space yet
Init ==
  /\ \/ /\ space = "kernel"
        /\ pt = [a \in PageAddrs |-> Identity[a]]
        /\ ident = {a \in PageAddrs : Identity[a] # NoFrame}
     \/ /\ space = "none"
        /\ pt = [a \in PageAddrs |-> NoFrame]
        /\ ident = {}
  /\ areas = << >>
  /\ free = Frames /\ dropped = {} /\ lost = {} /\ stray = {}

\* A creation that fails gives back what it took and changes nothing.
vm_map_create ==
  /\ space = "none"
  /\ space' = "user"
  /\ UNCHANGED <<areas, pt, free, dropped, lost, ident, stray>>

-----------------------------------------------------------------------------
(* Allocation *)

Overlap(v, start, end) == start < v.end /\ end > v.start

vma_overlaps(start, size) ==
  \E i \in DOMAIN areas : Overlap(areas[i], start, start + size)

insert_vma_AtHead(new) == <<new>> \o areas

\* new goes in front of the first area that does not start before it.
insert_vma(new) ==
  LET stops == {i \in DOMAIN areas : areas[i].start >= new.start} \cup {Len(areas) + 1}
  IN InsertAt(areas, Min(stops), new)

\* Enters [start, start + size) in the list, or refuses: the range overlaps an
\* area, or vma_alloc returned NULL.
Enter(start, size) ==
  \/ ~vma_overlaps(start, size) /\ areas' = insert_vma(Area(start, start + size))
  \/ UNCHANGED areas

\* Its callers pass whole pages and never a size of 0.
vm_map_allocate_region(start, asked) ==
  /\ Up
  /\ start + ALIGN_UP(asked) <= Limit
  /\ Enter(start, ALIGN_UP(asked))
  /\ UNCHANGED <<space, pt, free, dropped, lost, ident, stray>>

\* The candidate of vm_map_allocate: it moves behind every area until one
\* starts far enough away.
Candidate(size) ==
  LET n == Len(areas)
      behind[i \in 0 .. n] ==
        IF i = 0 THEN VM_ALLOC_BASE
        ELSE IF areas[i].end > behind[i - 1] THEN areas[i].end ELSE behind[i - 1]
      stops == {i \in 1 .. n : areas[i].start >= behind[i - 1] + size}
  IN IF stops = {} THEN behind[n]
     ELSE behind[Min(stops) - 1]

\* A size of 0 is refused.
vm_map_allocate(asked) ==
  LET size == ALIGN_UP(asked)
      candidate == Candidate(size)
  IN /\ Up /\ asked > 0
     /\ candidate + size <= Limit
     /\ Enter(candidate, size)
     /\ UNCHANGED <<space, pt, free, dropped, lost, ident, stray>>

-----------------------------------------------------------------------------
(* Release *)

InArea(a, v) == v.start <= a /\ a < v.end

\* Is addr in some area of the list?
vm_map_lookup(addr) == \E i \in DOMAIN areas : InArea(addr, areas[i])

\* The frames that pmap_unmap_page returns for the pages of S
FramesAt(S) == {pt[a] : a \in S} \ {NoFrame, HugePage}

\* It finds no table behind a huge entry, and leaves that.
Cleared(S) == {a \in PageAddrs : a \in S /\ pt[a] # HugePage}

\* The areas go, their pages stay mapped.
Unmap_Nothing(S) == UNCHANGED <<free, pt>>

\* The entries are cleared, the frames are not returned.
Unmap_KeepFrames(S) ==
  /\ free' = free
  /\ pt' = [a \in PageAddrs |-> IF a \in Cleared(S) THEN NoFrame ELSE pt[a]]

\* The pages of S are unmapped and their frames returned, whoever has them.
Unmap(S) ==
  /\ free' = free \cup FramesAt(S \cap PageAddrs)
  /\ pt' = [a \in PageAddrs |-> IF a \in Cleared(S) THEN NoFrame ELSE pt[a]]

\* The head of an area that is cut at its end is lost.
Pieces_DropHead(v, start, end, tail) ==
  CASE v.end <= start \/ v.start >= end      -> <<v>>
    [] v.start < start /\ v.end > end        -> <<Area(v.start, start), Area(end, v.end)>>
    [] start <= v.start /\ v.start < end /\ v.end > end -> <<Area(end, v.end)>>
    [] OTHER                                 -> << >>

\* What is left of area v; tail: could the second half of a split be allocated?
Pieces(v, start, end, tail) ==
  CASE v.end <= start \/ v.start >= end      -> <<v>>
    [] v.start >= start /\ v.end <= end      -> << >>
    [] v.start < start /\ v.end > end        ->
         IF tail THEN <<Area(v.start, start), Area(end, v.end)>> ELSE <<Area(v.start, start)>>
    [] v.start < start /\ start < v.end /\ v.end <= end -> <<Area(v.start, start)>>
    [] OTHER                                 -> <<Area(end, v.end)>>

vm_map_free_region(start, asked) ==
  LET end == start + ALIGN_UP(asked)
      range == start .. end - 1
      splits == \E i \in DOMAIN areas : areas[i].start < start /\ areas[i].end > end
  IN /\ Up /\ asked > 0 /\ end <= Limit
     /\ Unmap(range)
     /\ ident' = ident \ Cleared(range)
     /\ stray' = stray \cup FramesAt(range \cap ident)
     /\ \E tail \in IF splits THEN BOOLEAN ELSE {TRUE} :
          /\ areas' = FlattenSeq([i \in DOMAIN areas |-> Pieces(areas[i], start, end, tail)])
          /\ dropped' = (dropped \ range) \cup
               {a \in PageAddrs \ (range \cup ident) :
                  pt[a] # NoFrame /\ vm_map_lookup(a) /\ ~vm_map_lookup(a)'}
     /\ UNCHANGED <<space, lost>>

\* The pages of the areas are unmapped and their frames returned; the rest goes
\* with its table.  Nobody destroys kernel_vm_map.
vm_map_destroy ==
  LET kept == {a \in PageAddrs : vm_map_lookup(a)}
  IN /\ space = "user"
     /\ space' = "none" /\ areas' = << >>
     /\ free' = free \cup FramesAt(kept)
     /\ pt' = [a \in PageAddrs |-> NoFrame]
     /\ lost' = lost \cup (FramesAt(PageAddrs \ kept) \cap Frames)
     /\ dropped' = {}
     /\ UNCHANGED <<ident, stray>>

-----------------------------------------------------------------------------
(* Page faults *)

Segfault(user) ==
  /\ space' = IF user THEN space ELSE "halted"
  /\ UNCHANGED <<areas, pt, free, dropped, lost, ident, stray>>

\* A fault on a page that is not present gets a zeroed frame, if the address
\* and its page are in an area and there is a frame; it is an error otherwise.
\* Nobody looks whether pmap_map_page had a frame for the tables on the way.
vm_fault_handler(addr, user) ==
  LET va == ALIGN_DOWN(addr)
      present == pt[va] # NoFrame
  IN /\ Up
     /\ \/ /\ vm_map_lookup(addr) /\ ~present /\ vm_map_lookup(va)
           /\ \E f \in free :
                /\ free' = free \ {f}
                /\ \/ pt' = [pt EXCEPT ![va] = f] /\ UNCHANGED lost
                   \/ free' = {} /\ lost' = lost \cup ({f} \cap Frames) /\ UNCHANGED pt
           /\ UNCHANGED <<space, areas, dropped, ident, stray>>
        \/ /\ vm_map_lookup(addr) /\ present      \* a protection fault: just return
           /\ UNCHANGED vars
        \/ /\ ~vm_map_lookup(addr) \/ (~present /\ (~vm_map_lookup(va) \/ free = {}))
           /\ Segfault(user)

-----------------------------------------------------------------------------
(* uACPI: a table of the firmware, len bytes from byte off of its i-th page *)

\* The range is mapped page by page, over whatever is there, up to a huge
\* entry, or to where a table is missing and there is no frame for one.
uacpi_kernel_map(i, off, len) ==
  LET size == ALIGN_UP(off + len)
      c == Candidate(size)
      n == size \div PAGE_SIZE
      At(a) == (a - c) \div PAGE_SIZE      \* the position of page a in the range
      Stuck(a) == pt[a] = HugePage \/ (free = {} /\ pt[a] = NoFrame)
  IN /\ space = "kernel" /\ i + n - 1 <= Len(Firmware) /\ c + size <= Limit
     /\ Enter(c, size)
     /\ IF areas' = areas
          THEN UNCHANGED <<pt, lost, ident>>
          ELSE \E m \in 0 .. n :
                 LET new == {a \in PageAddrs : a >= c /\ a < c + m * PAGE_SIZE}
                 IN /\ m < n => Stuck(c + m * PAGE_SIZE)
                    /\ \A a \in new : pt[a] # HugePage
                    /\ pt' = [a \in PageAddrs |-> IF a \in new THEN Firmware[i + At(a)] ELSE pt[a]]
                    /\ lost' = lost \cup (FramesAt(new \ ident) \cap Frames)
                    /\ ident' = ident \ new
     /\ UNCHANGED <<space, free, dropped, stray>>

\* Given back as it was mapped, mapped or not.  The second pass over the pages
\* finds nothing.
uacpi_kernel_unmap(start, len) ==
  /\ space = "kernel"
  /\ \E k \in DOMAIN areas : areas[k] = Area(start, start + ALIGN_UP(len))
  /\ vm_map_free_region(start, len)

\* Stops after hcf().
Halted == space = "halted" /\ UNCHANGED vars

Next ==
  \/ vm_map_create
  \/ \E asked \in Sizes : vm_map_allocate(asked)
  \/ \E start \in PageAddrs, asked \in Sizes \ {0} : vm_map_allocate_region(start, asked)
  \/ \E start \in PageAddrs, asked \in Sizes : vm_map_free_region(start, asked)
  \/ vm_map_destroy
  \/ \E addr \in VM_ALLOC_BASE .. Limit - 1, user \in BOOLEAN : vm_fault_handler(addr, user)
  \/ \E i \in DOMAIN Firmware, off \in 0 .. PAGE_SIZE - 1, len \in Sizes \ {0} :
       uacpi_kernel_map(i, off, len)
  \/ \E start \in PageAddrs, len \in 1 .. Len(Firmware) * PAGE_SIZE : uacpi_kernel_unmap(start, len)
  \/ Halted

Spec == Init /\ [][Next]_vars

-----------------------------------------------------------------------------
(* Properties *)

\* The list is sorted, its areas are not empty and do not overlap: what
\* vm_map_allocate relies on when it walks the list once.
AreasOrdered ==
  /\ \A i \in DOMAIN areas : areas[i].start < areas[i].end
  /\ \A i \in 1 .. Len(areas) - 1 : areas[i].end <= areas[i + 1].start

\* A page is present only inside an area, so that a range that is handed out
\* again shows nobody's old frames; the exceptions are the second half of an area
\* that vm_map_free_region split and could not allocate an object for, and the
\* pages of the kernel's identity map, which still show what init_pmap put there.
MappedInAreas ==
  /\ \A a \in PageAddrs : pt[a] # NoFrame => vm_map_lookup(a) \/ a \in dropped \/ a \in ident
  /\ \A a \in ident : pt[a] = Identity[a] /\ a \notin dropped

\* The pages that the callers mapped
Own == PageAddrs \ ident

\* The frames of usable memory that were not freed through the identity map
Kept == Frames \ stray

\* Every frame of usable memory that was not freed through the identity map is
\* free, mapped by a caller at exactly one page, or lost; it is lost only where
\* a dropped half is mapped over or goes with its table, or the fault handler's
\* pmap_map_page found no frame for a table.  That uACPI maps over the identity
\* map, and gives frames of the firmware and of the identity map to the
\* manager, does not disturb the others.
FramesConserved ==
  /\ Kept \subseteq free \cup FramesAt(Own) \cup lost
  /\ \A a \in Own : pt[a] \in Kept => pt[a] \notin free \cup lost
  /\ lost \cap free \subseteq stray
  /\ \A a, b \in Own : pt[a] = pt[b] /\ a # b => pt[a] \notin Kept
  /\ space = "none" => Kept \subseteq free \cup lost

Covered == {a \in PageAddrs : vm_map_lookup(a)}

PagesOf(start, size) == {a \in PageAddrs : start <= a /\ a < start + ALIGN_UP(size)}

\* vm_map_free_region takes exactly the range out of the areas, whichever areas
\* it cuts, splits or swallows, and at most the rest of an area it cannot
\* split.  vm_map_allocate adds exactly a range of the rounded size, at the
\* first place that is large enough.
RegionsExact ==
  [][\A size \in Sizes \ {0} :
       /\ \A start \in PageAddrs : vm_map_free_region(start, size) =>
            LET range == PagesOf(start, size)
                split == {i \in DOMAIN areas :
                            areas[i].start < start /\ areas[i].end > start + ALIGN_UP(size)}
                rest == {a \in PageAddrs : a > start /\ \E i \in split : InArea(a, areas[i])}
            IN Covered' \in {Covered \ range, Covered \ (range \cup rest)}
       /\ vm_map_allocate(size) /\ areas' # areas =>
            LET fits == {c \in PageAddrs : PagesOf(c, size) \cap Covered = {}}
            IN Covered' = Covered \cup PagesOf(Min(fits), size)]_vars
=============================================================================
