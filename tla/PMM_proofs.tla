----------------------------- MODULE PMM_proofs -----------------------------
(***************************************************************************)
(* Proofs about the physical memory manager, for every page size, every    *)
(* memory map, every block length and whatever pages uACPI frees without    *)
(* holding them: its ownership invariant, the                              *)
(* completeness of single-page allocation, and that it implements          *)
(* FrameAllocator.                                                         *)
(***************************************************************************)
EXTENDS PMM, SequenceTheorems, TLAPS

\* BitmapExact and HeldDisjoint are not inductive alone: a release needs the
\* blocks to be non-empty and the bitmap needs to be unowned before boot.
BootInv ==
  /\ pc # "up" => /\ held = {} /\ stray = {} /\ ret = NoCall
                  /\ bitmap = {} /\ cached_index = 0
  /\ \A b \in held : b.count > 0

IInv == TypeOK /\ BootInv /\ BitmapExact /\ HeldDisjoint /\ SinglePageServed

-----------------------------------------------------------------------------
LEMMA DivNat ==
  ASSUME NEW a \in Nat, NEW b \in Nat \ {0}
  PROVE  a \div b \in Nat
  OBVIOUS

\* Entries of a memory map have natural bases and lengths.
LEMMA EntryType ==
  ASSUME TypeOK, NEW i \in DOMAIN memmap
  PROVE  memmap[i] \in [base : Nat, length : Nat, usable : BOOLEAN]
  <1>1. memmap \in Seq([base : Nat, length : Nat, usable : BOOLEAN])
    BY MemMapsAssumption DEF TypeOK
  <1>2. DOMAIN memmap = 1 .. Len(memmap) BY <1>1, LenProperties
  <1> QED BY <1>1, <1>2, ElementOfSeq

LEMMA TopsNat ==
  ASSUME TypeOK, NEW t \in Tops
  PROVE  t \in Nat
  BY EntryType DEF Tops, Usable

LEMMA InitIInv == Init => IInv
  BY DEF Init, IInv, TypeOK, AllPages, BootInv, BitmapExact, HeldDisjoint, HeldPages,
         SinglePageServed, NoCall, Blocks

LEMMA BootStep ==
  ASSUME IInv, init_bitmap_pmm
  PROVE  IInv'
  <1>1. total_pages' \in Nat
    <2>1. PICK top \in Tops : total_pages' = top \div PAGE_SIZE
      BY DEF init_bitmap_pmm
    <2>2. top \in Nat BY TopsNat DEF IInv
    <2> QED BY <2>1, <2>2, DivNat, PageSizeAssumption
  <1>2. bitmap_base' \in Nat
    BY EntryType DEF init_bitmap_pmm, IInv
  <1>3. /\ held' = {} /\ stray' = {} /\ ret' = NoCall /\ memmap' = memmap /\ pc' = "up"
        /\ cached_index' = 0
    BY DEF init_bitmap_pmm, IInv, BootInv
  <1>4. bitmap' = Reserved'
    BY <1>3 DEF init_bitmap_pmm, Reserved, AllPages, Clear, InUsableRam, Usable
  <1>5. TypeOK'
    BY <1>1, <1>2, <1>3, <1>4 DEF init_bitmap_pmm, IInv, TypeOK, Reserved, AllPages, NoCall
  <1>6. HeldPages' = {} BY <1>3 DEF HeldPages
  <1>7. BootInv' /\ BitmapExact' /\ HeldDisjoint'
    BY <1>3, <1>4, <1>6 DEF BootInv, BitmapExact, HeldDisjoint
  <1>8. SinglePageServed' BY <1>3 DEF SinglePageServed, NoCall
  <1> QED BY <1>5, <1>7, <1>8 DEF IInv

LEMMA HcfStep ==
  ASSUME IInv, init_bitmap_pmm_hcf
  PROVE  IInv'
  <1>1. total_pages' \in Nat
    <2>1. PICK top \in Tops : total_pages' = top \div PAGE_SIZE
      BY DEF init_bitmap_pmm_hcf
    <2>2. top \in Nat BY TopsNat DEF IInv
    <2> QED BY <2>1, <2>2, DivNat, PageSizeAssumption
  <1>2. /\ held' = {} /\ stray' = {} /\ ret' = NoCall /\ pc' = "halted"
        /\ bitmap' = {} /\ cached_index' = 0
    BY DEF init_bitmap_pmm_hcf, IInv, BootInv
  <1>3. TypeOK' BY <1>1, <1>2 DEF init_bitmap_pmm_hcf, IInv, TypeOK
  <1>4. HeldPages' = {} BY <1>2 DEF HeldPages
  <1> QED BY <1>2, <1>3, <1>4
          DEF IInv, BootInv, BitmapExact, HeldDisjoint, SinglePageServed, NoCall

-----------------------------------------------------------------------------
\* While the manager runs, what is reserved never changes.
LEMMA ReservedFixed ==
  ASSUME UNCHANGED <<memmap, total_pages, bitmap_base>>
  PROVE  Reserved' = Reserved /\ AllPages' = AllPages
  BY DEF Reserved, AllPages, Clear, InUsableRam, Usable, InBitmapStorage, BitmapBytes

\* A block that is added, or taken away, changes the held pages by its own.
LEMMA HeldPagesAdd ==
  ASSUME NEW b, held' = held \cup {b}
  PROVE  HeldPages' = HeldPages \cup Pages(b)
  <1>1. \A x : x \in HeldPages' <=> \E c \in held' : x \in Pages(c)
    BY DEF HeldPages, Pages, Run
  <1>2. \A x : x \in HeldPages <=> \E c \in held : x \in Pages(c)
    BY DEF HeldPages
  <1> QED BY <1>1, <1>2

\* Lending a run of free pages keeps the ownership invariant.
LEMMA TakeStep ==
  ASSUME IInv, AllocFrame, NEW fn \in {"pmm_alloc_page", "pmm_alloc_pages"},
         NEW s \in FreePages, NEW count \in Nat \ {0},
         Run(s, count) \subseteq FreePages, Take(fn, s, count)
  PROVE  IInv'
  <1> DEFINE b == [start |-> s, count |-> count]
  <1>1. s \in Nat /\ s # 0
    BY DEF FreePages, AllPages, IInv, TypeOK, BitmapExact, AllocFrame, Reserved
  <1>2. TypeOK'
    <2>1. s + count - 1 \in Run(s, count) BY <1>1 DEF Run
    <2>2. s + count <= total_pages
      BY <1>1, <2>1 DEF FreePages, AllPages, IInv, TypeOK
    <2>3. bitmap' \subseteq AllPages' \cup {0}
      BY DEF Take, FreePages, IInv, TypeOK, AllocFrame, AllPages
    <2>4. stray' \subseteq AllPages' \ {0}
      BY DEF Take, IInv, TypeOK, AllocFrame, AllPages
    <2> QED BY <1>1, <2>2, <2>3, <2>4 DEF IInv, TypeOK, AllocFrame, Take, Blocks
  <1>3. held' = held \cup {b} /\ stray' = stray BY DEF Take
  <1>4. HeldPages' = HeldPages \cup Run(s, count)
    <2>1. HeldPages' = HeldPages \cup Pages(b)
      <3> HIDE DEF b
      <3> QED BY <1>3, HeldPagesAdd
    <2> QED BY <2>1 DEF Pages
  <1>5. Reserved' = Reserved BY ReservedFixed DEF AllocFrame
  <1>6. Run(s, count) \cap (Reserved \cup HeldPages) \subseteq stray
        /\ 0 \notin Run(s, count)
    BY <1>1 DEF FreePages, IInv, TypeOK, BitmapExact, AllocFrame, Run, Reserved
  <1>7. BootInv' BY <1>3 DEF IInv, BootInv, AllocFrame
  <1>8. BitmapExact'
    BY <1>3, <1>4, <1>5 DEF IInv, BitmapExact, AllocFrame, Take
  <1>9. HeldDisjoint'
    <2>1. \A c \in held : Pages(c) \subseteq HeldPages
      BY DEF HeldPages
    <2>2. Pages(b) = Run(s, count) BY DEF Pages
    <2>3. \A c \in held : Pages(c) \cap Pages(b) \subseteq stray
      BY <1>6, <2>1, <2>2
    <2>4. \A c, d \in held : c # d => Pages(c) \cap Pages(d) \subseteq stray
      BY DEF IInv, HeldDisjoint
    <2> HIDE DEF b
    <2>5. \A c, d \in held' : c # d => Pages(c) \cap Pages(d) \subseteq stray
      BY <1>3, <2>3, <2>4
    <2> QED BY <1>3, <1>4, <1>5, <1>6, <2>5 DEF IInv, HeldDisjoint, Pages, Run
  <1>10. SinglePageServed' BY <1>1 DEF SinglePageServed, Take
  <1> QED BY <1>2, <1>7, <1>8, <1>9, <1>10 DEF IInv

\* A failed call changes nothing; a failed single-page call found no free page.
LEMMA FailStep ==
  ASSUME IInv, AllocFrame, NEW fn \in {"pmm_alloc_page", "pmm_alloc_pages"},
         NEW count \in Nat, Fail(fn, count),
         fn = "pmm_alloc_page" => FreePages = {}
  PROVE  IInv'
  <1>1. Reserved' = Reserved /\ AllPages' = AllPages
    BY ReservedFixed DEF AllocFrame
  <1>2. HeldPages' = HeldPages /\ stray' = stray BY DEF Fail, HeldPages, Pages, Run
  <1>3. FreePages' = FreePages BY <1>1 DEF FreePages, Fail
  <1>4. TypeOK' BY <1>1 DEF IInv, TypeOK, AllocFrame, Fail
  <1>5. BootInv' BY DEF IInv, BootInv, AllocFrame, Fail
  <1>6. BitmapExact' BY <1>1, <1>2 DEF IInv, BitmapExact, AllocFrame, Fail
  <1>7. HeldDisjoint' BY <1>1, <1>2 DEF IInv, HeldDisjoint, Fail, Pages, Run
  <1>8. SinglePageServed' BY <1>3 DEF SinglePageServed, Fail
  <1> QED BY <1>4, <1>5, <1>6, <1>7, <1>8 DEF IInv

LEMMA AllocPageStep ==
  ASSUME IInv, pmm_alloc_page
  PROVE  IInv'
  <1>1. AllocFrame BY DEF pmm_alloc_page
  <1>2. ASSUME NEW i \in FreePages, Take("pmm_alloc_page", i, 1)
        PROVE  IInv'
    <2>1. Run(i, 1) \subseteq FreePages
      BY DEF FreePages, AllPages, Run, IInv, TypeOK
    <2> QED BY <1>1, <1>2, <2>1, TakeStep
  <1>3. ASSUME FreePages = {}, Fail("pmm_alloc_page", 1)
        PROVE  IInv'
    BY <1>1, <1>3, FailStep
  <1> QED BY <1>2, <1>3 DEF pmm_alloc_page

LEMMA AllocPagesStep ==
  ASSUME IInv, NEW count \in 0 .. MaxCount, pmm_alloc_pages(count)
  PROVE  IInv'
  <1>1. AllocFrame /\ count \in Nat
    BY MaxCountAssumption DEF pmm_alloc_pages
  <1>2. ASSUME count > 0, NEW s \in Runs(count), Take("pmm_alloc_pages", s, count)
        PROVE  IInv'
    <2>1. Run(s, count) \subseteq FreePages BY DEF Runs
    <2>2. s \in Run(s, count)
      BY <1>1, <1>2 DEF Run, Runs, AllPages, IInv, TypeOK
    <2>3. s \in FreePages BY <2>1, <2>2
    <2> QED BY <1>1, <1>2, <2>1, <2>3, TakeStep
  <1>3. ASSUME Fail("pmm_alloc_pages", count)
        PROVE  IInv'
    BY <1>1, <1>3, FailStep
  <1> QED BY <1>1, <1>2, <1>3 DEF pmm_alloc_pages

\* What a release of any page by anybody keeps: types and the failure value.
LEMMA ClearTypes ==
  ASSUME IInv, AllocFrame, NEW page \in Nat, NEW count \in Nat,
         \/ ClearRange(page, count)
         \/ UNCHANGED <<bitmap, cached_index>>,
         held' \subseteq held, stray' \subseteq AllPages \ {0}, ret' = NoCall
  PROVE  TypeOK' /\ BootInv' /\ SinglePageServed'
  <1>1. AllPages' = AllPages BY ReservedFixed DEF AllocFrame
  <1>2. cached_index' \in 0 .. total_pages BY DEF IInv, TypeOK, ClearRange
  <1>3. bitmap' \subseteq AllPages \cup {0} BY DEF IInv, TypeOK, ClearRange
  <1>4. TypeOK' BY <1>1, <1>2, <1>3 DEF IInv, TypeOK, AllocFrame, NoCall
  <1>5. BootInv' BY DEF IInv, BootInv, AllocFrame
  <1> QED BY <1>4, <1>5 DEF SinglePageServed, NoCall

\* Returning a block clears exactly that block's bits, and takes no other
\* block's pages away but those of strangers.
LEMMA ReleaseStep ==
  ASSUME IInv, AllocFrame, NEW b \in held, ClearRange(b.start, b.count),
         Returned(b), ret' = NoCall
  PROVE  IInv'
  <1>1. Reserved' = Reserved /\ AllPages' = AllPages
    BY ReservedFixed DEF AllocFrame
  <1>2. stray' = stray /\ held' \subseteq held BY DEF Returned
  <1>3. HeldPages' \subseteq HeldPages /\ Pages(b) \subseteq HeldPages
    BY <1>2 DEF HeldPages, Pages, Run
  <1>4. HeldPages \ Pages(b) \subseteq HeldPages'
    BY DEF HeldPages, Pages, Run, Returned
  <1>5. HeldPages' \cap Pages(b) \subseteq stray
    <2>1. CASE held' = held \ {b}
      <3>1. \A c \in held' : Pages(c) \cap Pages(b) \subseteq stray
        BY <2>1 DEF IInv, HeldDisjoint
      <3> QED BY <3>1 DEF HeldPages, Pages, Run
    <2>2. CASE Pages(b) \subseteq stray BY <2>2
    <2> QED BY <2>1, <2>2 DEF Returned
  <1>6. b.start \in Nat /\ b.count \in Nat BY DEF IInv, TypeOK, Blocks
  <1>7. stray' \subseteq AllPages \ {0} BY <1>2 DEF IInv, TypeOK
  <1>8. TypeOK' /\ BootInv' /\ SinglePageServed' BY <1>2, <1>6, <1>7, ClearTypes
  <1>9. BitmapExact'
    <2>1. bitmap' = bitmap \ Pages(b) BY DEF ClearRange, Pages
    <2>2. bitmap \ stray = (Reserved \cup HeldPages) \ stray
      BY DEF IInv, BitmapExact, AllocFrame
    <2>3. Pages(b) \cap Reserved \subseteq stray BY <1>3 DEF IInv, HeldDisjoint
    <2> QED BY <1>1, <1>2, <1>3, <1>4, <1>5, <2>1, <2>2, <2>3 DEF BitmapExact
  <1>10. HeldDisjoint'
    BY <1>1, <1>2, <1>3 DEF IInv, HeldDisjoint, Pages, Run
  <1> QED BY <1>8, <1>9, <1>10 DEF IInv

\* A call that frees nothing.
LEMMA NothingStep ==
  ASSUME IInv, AllocFrame, UNCHANGED <<bitmap, cached_index, held, stray>>,
         ret' = NoCall
  PROVE  IInv'
  <1>1. Reserved' = Reserved /\ AllPages' = AllPages
    BY ReservedFixed DEF AllocFrame
  <1>2. HeldPages' = HeldPages BY DEF HeldPages, Pages, Run
  <1>3. TypeOK' BY <1>1 DEF IInv, TypeOK, AllocFrame, NoCall
  <1>4. BootInv' BY DEF IInv, BootInv, AllocFrame
  <1>5. BitmapExact' BY <1>1, <1>2 DEF IInv, BitmapExact, AllocFrame
  <1>6. HeldDisjoint' BY <1>1, <1>2 DEF IInv, HeldDisjoint, Pages, Run
  <1>7. SinglePageServed' BY DEF SinglePageServed, NoCall
  <1> QED BY <1>3, <1>4, <1>5, <1>6, <1>7 DEF IInv

\* Freeing a single-page block or a whole block, both non-empty, is a release.
LEMMA FreeStep ==
  ASSUME IInv, NEW b \in held, FreePage(b) \/ FreeBlock(b)
  PROVE  IInv'
  <1>1. AllocFrame /\ Returned(b) /\ ret' = NoCall BY DEF FreePage, FreeBlock
  <1>2. b.start \in Nat /\ b.count \in Nat \ {0}
    BY DEF IInv, TypeOK, BootInv, Blocks
  <1>3. b.start < total_pages
    <2>1. b.start \in HeldPages BY <1>2 DEF HeldPages, Pages, Run
    <2>2. b.start \in (bitmap \cup stray) /\ b.start # 0
      BY <1>1, <2>1 DEF IInv, BitmapExact, HeldDisjoint, AllocFrame
    <2>3. b.start \in AllPages BY <2>2 DEF IInv, TypeOK
    <2> QED BY <1>2, <2>3 DEF AllPages, IInv, TypeOK
  <1>4. ClearRange(b.start, b.count)
    <2>1. CASE FreePage(b)
      <3>1. b.count = 1 BY <2>1 DEF FreePage
      <3>2. pmm_free_page(b.start) => ClearRange(b.start, 1)
        BY <1>2, <1>3 DEF pmm_free_page, IInv, TypeOK
      <3> QED BY <2>1, <3>1, <3>2 DEF FreePage
    <2>2. CASE FreeBlock(b)
      BY <1>2, <2>2 DEF FreeBlock, pmm_free_pages
    <2> QED BY <2>1, <2>2
  <1> QED BY <1>1, <1>4, ReleaseStep

\* A page freed by a stranger is stray from then on; no other page is harmed.
LEMMA UnmapStep ==
  ASSUME IInv, NEW page \in Firmware, uacpi_kernel_unmap(page)
  PROVE  IInv'
  <1>1. AllocFrame /\ held' = held /\ ret' = NoCall
        /\ stray' = stray \cup ({page} \cap AllPages)
    BY DEF uacpi_kernel_unmap
  <1>2. Reserved' = Reserved /\ AllPages' = AllPages
    BY <1>1, ReservedFixed DEF AllocFrame
  <1>3. HeldPages' = HeldPages BY <1>1 DEF HeldPages, Pages, Run
  <1>4. page \in Nat /\ page # 0 BY FirmwareAssumption
  <1>5. TypeOK' /\ BootInv' /\ SinglePageServed'
    <2>1. stray' \subseteq AllPages \ {0} BY <1>1, <1>4 DEF IInv, TypeOK
    <2>2. ClearRange(page, 1) \/ UNCHANGED <<bitmap, cached_index>>
      BY DEF uacpi_kernel_unmap, pmm_free_page
    <2> QED BY <1>1, <1>4, <2>1, <2>2, ClearTypes
  <1>6. bitmap' \ stray' = bitmap \ stray'
    <2>1. CASE page < total_pages /\ ClearRange(page, 1)
      <3>1. page \in stray' BY <1>1, <1>4, <2>1 DEF AllPages, IInv, TypeOK
      <3>2. Run(page, 1) = {page} BY <1>4 DEF Run
      <3> QED BY <2>1, <3>1, <3>2 DEF ClearRange
    <2> QED BY <2>1 DEF uacpi_kernel_unmap, pmm_free_page
  <1>7. BitmapExact'
    BY <1>1, <1>2, <1>3, <1>6 DEF IInv, BitmapExact, AllocFrame
  <1>8. HeldDisjoint' BY <1>1, <1>2, <1>3 DEF IInv, HeldDisjoint, Pages, Run
  <1> QED BY <1>5, <1>7, <1>8 DEF IInv

LEMMA Stutter ==
  ASSUME IInv, UNCHANGED vars
  PROVE  IInv'
  <1>1. Reserved' = Reserved /\ AllPages' = AllPages BY ReservedFixed DEF vars
  <1>2. HeldPages' = HeldPages /\ stray' = stray BY DEF vars, HeldPages, Pages, Run
  <1>3. TypeOK' /\ BootInv' BY <1>1 DEF IInv, TypeOK, BootInv, vars
  <1>4. BitmapExact' BY <1>1, <1>2 DEF IInv, BitmapExact, vars
  <1>5. HeldDisjoint' BY <1>1, <1>2 DEF IInv, HeldDisjoint, vars, Pages, Run
  <1>6. SinglePageServed' BY <1>1 DEF IInv, SinglePageServed, FreePages, vars
  <1> QED BY <1>3, <1>4, <1>5, <1>6 DEF IInv

\* Every step of the manager keeps the inductive invariant.
LEMMA NextIInv == IInv /\ [Next]_vars => IInv'
  <1> SUFFICES ASSUME IInv, [Next]_vars PROVE IInv' OBVIOUS
  <1>1. CASE init_bitmap_pmm BY <1>1, BootStep
  <1>2. CASE init_bitmap_pmm_hcf BY <1>2, HcfStep
  <1>3. CASE pmm_alloc_page BY <1>3, AllocPageStep
  <1>4. CASE \E count \in 0 .. MaxCount : pmm_alloc_pages(count)
    BY <1>4, AllocPagesStep
  <1>5. CASE \E b \in held : FreePage(b) \/ FreeBlock(b) BY <1>5, FreeStep
  <1>6. CASE \E page \in AllPages : FreeNothing(page)
    BY <1>6, NothingStep DEF FreeNothing, pmm_free_pages
  <1>7. CASE \E page \in Firmware : uacpi_kernel_unmap(page) BY <1>7, UnmapStep
  <1>8. CASE Halted \/ UNCHANGED vars BY <1>8, Stutter DEF Halted
  <1> QED BY <1>1, <1>2, <1>3, <1>4, <1>5, <1>6, <1>7, <1>8 DEF Next

LEMMA Inductive == Spec => []IInv
  BY InitIInv, NextIInv, PTL DEF Spec

\* Type correctness of the manager's state.
THEOREM TypeCorrect == Spec => []TypeOK
  <1>1. IInv => TypeOK BY DEF IInv
  <1> QED BY <1>1, Inductive, PTL

\* For every memory map and page size, and whatever uACPI frees, the bitmap is
\* exactly the reserved pages together with the pages lent out, but for the
\* pages freed without being held: none of the others leaks or is lent twice.
THEOREM BitmapIsExact == Spec => []BitmapExact
  <1>1. IInv => BitmapExact BY DEF IInv
  <1> QED BY <1>1, Inductive, PTL

\* Blocks lent out never contain page 0, and neither share a page nor contain
\* the bitmap's storage or a page that is not usable RAM, but for the pages
\* freed without being held.
THEOREM BlocksAreDisjoint == Spec => []HeldDisjoint
  <1>1. IInv => HeldDisjoint BY DEF IInv
  <1> QED BY <1>1, Inductive, PTL

\* pmm_alloc_page returns 0 only when no page is free.
THEOREM SinglePageIsServed == Spec => []SinglePageServed
  <1>1. IInv => SinglePageServed BY DEF IInv
  <1> QED BY <1>1, Inductive, PTL

-----------------------------------------------------------------------------
(* What is lent is RAM *)

\* The bitmap lies in a usable region that holds it.
BitmapPlaced ==
  pc = "up" =>
    \E i \in DOMAIN memmap :
      HoldsBitmap(i, BitmapBytes(total_pages)) /\ memmap[i].base = bitmap_base

LEMMA NextBitmapPlaced == BitmapPlaced /\ [Next]_vars => BitmapPlaced'
  <1> SUFFICES ASSUME BitmapPlaced, [Next]_vars PROVE BitmapPlaced' OBVIOUS
  <1>1. CASE init_bitmap_pmm
    <2>1. PICK i \in DOMAIN memmap : /\ FirstFit(i, BitmapBytes(total_pages'))
                                     /\ bitmap_base' = memmap[i].base
      BY <1>1 DEF init_bitmap_pmm
    <2>2. memmap' = memmap BY <1>1 DEF init_bitmap_pmm
    <2> QED BY <2>1, <2>2 DEF BitmapPlaced, FirstFit, HoldsBitmap, BitmapBytes
  <1>2. CASE init_bitmap_pmm_hcf BY <1>2 DEF init_bitmap_pmm_hcf, BitmapPlaced
  <1>3. ASSUME UNCHANGED <<pc, memmap, total_pages, bitmap_base>> PROVE BitmapPlaced'
    BY <1>3 DEF BitmapPlaced, HoldsBitmap, BitmapBytes
  <1> QED BY <1>1, <1>2, <1>3
          DEF Next, AllocFrame, pmm_alloc_page, pmm_alloc_pages, FreePage,
              FreeBlock, FreeNothing, uacpi_kernel_unmap, Halted, vars

\* Rounding a number down, or up, to a multiple of n.
LEMMA Rounding ==
  ASSUME NEW a \in Nat, NEW n \in Nat \ {0}, NEW p \in Nat
  PROVE  /\ p * n < ALIGN_DOWN(a, n) => (p + 1) * n <= a
         /\ ALIGN_UP(a, n) \in Nat /\ a <= ALIGN_UP(a, n)
  <1> DEFINE q == a \div n
             r == (a + n - 1) \div n
  <1>1. q \in Nat /\ a = n * q + (a % n) /\ a % n \in 0 .. n - 1 OBVIOUS
  <1>2. r \in Nat /\ a + n - 1 = n * r + ((a + n - 1) % n) /\ (a + n - 1) % n \in 0 .. n - 1
    OBVIOUS
  <1>3. ALIGN_DOWN(a, n) = q * n /\ ALIGN_UP(a, n) = r * n BY DEF ALIGN_DOWN, ALIGN_UP
  <1> HIDE DEF q, r
  <1>4. n * q = q * n /\ q * n \in Nat /\ n * r = r * n /\ r * n \in Nat BY <1>1, <1>2
  <1>5. p * n < q * n => p + 1 <= q BY <1>1
  <1>6. p + 1 <= q => (p + 1) * n <= q * n BY <1>1
  <1>7. (p + 1) * n \in Nat /\ p * n \in Nat OBVIOUS
  <1> QED BY <1>1, <1>2, <1>3, <1>4, <1>5, <1>6, <1>7

\* A page that is clear after initialisation is usable RAM, clear of the bitmap.
LEMMA ClearIsRam ==
  ASSUME TypeOK, BitmapPlaced, pc = "up", NEW p \in Clear(bitmap_base, total_pages)
  PROVE  /\ \E e \in Usable : /\ e.base <= p * PAGE_SIZE
                              /\ (p + 1) * PAGE_SIZE <= e.base + e.length
         /\ \/ (p + 1) * PAGE_SIZE <= bitmap_base
            \/ p * PAGE_SIZE >= bitmap_base + ((total_pages + 7) \div 8)
  <1> DEFINE lo == p * PAGE_SIZE
             hi == (p + 1) * PAGE_SIZE
             bytes == (total_pages + 7) \div 8
  <1>1. p \in Nat /\ total_pages \in Nat /\ bitmap_base \in Nat /\ p < total_pages
        /\ PAGE_SIZE \in Nat \ {0}
    BY PageSizeAssumption DEF TypeOK, Clear
  <1>2. lo \in Nat /\ hi \in Nat /\ hi = lo + PAGE_SIZE /\ lo < hi BY <1>1
  <1>3. PICK i \in DOMAIN memmap :
          /\ memmap[i].usable
          /\ ALIGN_UP(memmap[i].base, PAGE_SIZE) <= lo
          /\ lo < ALIGN_DOWN(memmap[i].base + memmap[i].length, PAGE_SIZE)
    BY DEF Clear, InUsableRam, Usable
  <1>4. PICK j \in DOMAIN memmap :
          HoldsBitmap(j, BitmapBytes(total_pages)) /\ memmap[j].base = bitmap_base
    BY DEF BitmapPlaced
  <1>5. /\ memmap[i].base \in Nat /\ memmap[i].length \in Nat
        /\ memmap[j].base \in Nat /\ memmap[j].length \in Nat
    BY EntryType
  <1>6. memmap[i].base <= lo /\ hi <= memmap[i].base + memmap[i].length
    <2>1. memmap[i].base + memmap[i].length \in Nat BY <1>5
    <2>2. ALIGN_UP(memmap[i].base, PAGE_SIZE) \in Nat
          /\ memmap[i].base <= ALIGN_UP(memmap[i].base, PAGE_SIZE)
      BY <1>1, <1>5, Rounding
    <2>3. hi <= memmap[i].base + memmap[i].length BY <1>1, <1>3, <2>1, Rounding
    <2> QED BY <1>2, <1>3, <1>5, <2>2, <2>3
  <1>7. memmap[i] \in Usable BY <1>3 DEF Usable
  <1>8. bytes \in Nat /\ bytes > 0 BY <1>1
  <1>9. BitmapBytes(total_pages) \in Nat /\ bytes <= BitmapBytes(total_pages)
    BY <1>1, <1>8, Rounding DEF BitmapBytes
  <1>10. lo < bitmap_base \/ lo >= bitmap_base + BitmapBytes(total_pages)
    BY <1>1, <1>2, <1>9 DEF Clear, InBitmapStorage
  <1>11. CASE lo < bitmap_base
    <2>1. i # j BY <1>4, <1>6, <1>11, <1>2, <1>5
    <2>2. memmap[j].length > 0 /\ memmap[j].usable BY <1>4, <1>5, <1>8, <1>9 DEF HoldsBitmap
    <2>3. \/ memmap[i].base + memmap[i].length <= memmap[j].base
          \/ memmap[j].base + memmap[j].length <= memmap[i].base
      BY <1>3, <2>1, <2>2, UsableDisjoint DEF TypeOK
    <2>4. hi <= bitmap_base BY <1>2, <1>4, <1>5, <1>6, <1>11, <2>2, <2>3
    <2> QED BY <1>6, <1>7, <2>4
  <1>12. CASE lo >= bitmap_base + BitmapBytes(total_pages)
    BY <1>1, <1>2, <1>6, <1>7, <1>8, <1>9, <1>12
  <1> QED BY <1>10, <1>11, <1>12

\* For every memory map whose usable entries do not overlap, and every page
\* size, what is lent is whole pages of usable RAM outside the bitmap, but for
\* the pages freed without being held.
THEOREM HeldIsRam == Spec => []HeldInRam
  <1>1. Init => BitmapPlaced BY DEF Init, BitmapPlaced
  <1>2. IInv /\ BitmapPlaced => HeldInRam
    <2> SUFFICES ASSUME IInv, BitmapPlaced, NEW p \in HeldPages \ stray
                 PROVE  HeldInRam!(p)
      BY DEF HeldInRam
    <2>1. pc = "up" BY DEF IInv, BootInv, HeldPages
    <2>2. p \notin Reserved /\ p \in bitmap
      BY <2>1 DEF IInv, BitmapExact, HeldDisjoint
    <2>3. p \in Clear(bitmap_base, total_pages)
      BY <2>2 DEF IInv, TypeOK, Reserved
    <2> QED BY <2>1, <2>3, ClearIsRam DEF IInv
  <1> QED BY <1>1, <1>2, NextBitmapPlaced, Inductive, PTL DEF Spec

-----------------------------------------------------------------------------
(* Implementation of FrameAllocator *)

Frames == IF pc = "up" THEN AllPages \ Reserved ELSE {}

LEMMA FrameSets ==
  ASSUME IInv, pc = "up"
  PROVE  /\ FreePages \subseteq FA!Free \cup stray
         /\ FA!Free \subseteq FreePages \cup stray
         /\ Frames \subseteq Nat \ {0}
  <1>1. \A b \in held : FA!Pages(b) = Pages(b)
    BY DEF FA!Pages, Run, Pages
  <1>2. FA!Lent = HeldPages BY <1>1 DEF FA!Lent, HeldPages, Pages
  <1>3. Frames \subseteq Nat \ {0}
    BY DEF Frames, AllPages, Reserved, IInv, TypeOK
  <1>4. FA!Free = (AllPages \ Reserved) \ HeldPages
    BY <1>2 DEF FA!Free
  <1>5. bitmap \ stray = (Reserved \cup HeldPages) \ stray
    BY DEF IInv, BitmapExact
  <1>6. FreePages \subseteq FA!Free \cup stray
        /\ FA!Free \subseteq FreePages \cup stray
    BY <1>4, <1>5 DEF FreePages
  <1> QED BY <1>3, <1>6

LEMMA InitRefines == Init => FA!Init
  BY DEF Init, FA!Init, NoCall, FA!NoCall

LEMMA NextRefines ==
  ASSUME IInv, IInv', [Next]_vars
  PROVE  [FA!Next]_(FA!vars)
  <1>1. CASE init_bitmap_pmm
    <2>1. Frames' \subseteq Nat \ {0}
      BY <1>1 DEF Frames, AllPages, Reserved, IInv, TypeOK
    <2>2. pc = "boot" /\ held = {} /\ stray = {} /\ UNCHANGED <<held, stray, ret>>
      BY <1>1 DEF init_bitmap_pmm, IInv, BootInv
    <2>3. FA!Boot BY <2>1, <2>2 DEF FA!Boot, Frames
    <2> QED BY <2>3 DEF FA!Next
  <1>2. CASE init_bitmap_pmm_hcf
    BY <1>2 DEF init_bitmap_pmm_hcf, FA!vars
  <1>3. ASSUME AllocFrame
        PROVE  /\ UNCHANGED Frames
               /\ FreePages \subseteq FA!Free \cup stray
               /\ FA!Free \subseteq FreePages \cup stray
    BY <1>3, ReservedFixed, FrameSets DEF AllocFrame, Frames
  <1>4. ASSUME AllocFrame, NEW fn, NEW s, NEW count,
               Run(s, count) \subseteq FreePages, Take(fn, s, count)
        PROVE  FA!Grant(fn, [start |-> s, count |-> count])
    <2>1. FA!Pages([start |-> s, count |-> count]) = Run(s, count)
      BY DEF FA!Pages, Run
    <2> QED BY <1>3, <1>4, <2>1 DEF FA!Grant, Take, Frames
  <1>5. ASSUME AllocFrame, NEW fn, NEW count, Fail(fn, count)
        PROVE  FA!Refuse(fn, count)
    BY <1>3, <1>5 DEF FA!Refuse, Fail, Frames
  <1>6. CASE pmm_alloc_page
    <2>1. AllocFrame BY <1>6 DEF pmm_alloc_page
    <2>2. ASSUME NEW i \in FreePages, Take("pmm_alloc_page", i, 1)
          PROVE  FA!AllocPage
      <3>1. Run(i, 1) \subseteq FreePages
        BY DEF FreePages, AllPages, Run, IInv, TypeOK
      <3>2. FA!Grant("pmm_alloc_page", [start |-> i, count |-> 1])
        BY <1>4, <2>1, <2>2, <3>1
      <3> QED BY <1>3, <2>1, <2>2, <3>2 DEF FA!AllocPage
    <2>3. ASSUME FreePages = {}, Fail("pmm_alloc_page", 1)
          PROVE  FA!AllocPage
      BY <1>3, <1>5, <2>1, <2>3 DEF FA!AllocPage
    <2> QED BY <1>6, <2>2, <2>3 DEF pmm_alloc_page, FA!Next
  <1>7. ASSUME NEW count \in 0 .. MaxCount, pmm_alloc_pages(count)
        PROVE  FA!AllocPages
    <2>1. AllocFrame /\ count \in Nat
      BY <1>7, MaxCountAssumption DEF pmm_alloc_pages
    <2>2. ASSUME count > 0, NEW s \in Runs(count), Take("pmm_alloc_pages", s, count)
          PROVE  FA!AllocPages
      <3>1. Run(s, count) \subseteq FreePages BY DEF Runs
      <3>2. s \in FreePages
        BY <2>1, <2>2, <3>1 DEF Run, Runs, AllPages, IInv, TypeOK
      <3>3. FA!Grant("pmm_alloc_pages", [start |-> s, count |-> count])
        BY <1>4, <2>1, <2>2, <3>1
      <3> QED BY <1>3, <2>1, <2>2, <3>2, <3>3 DEF FA!AllocPages
    <2>3. ASSUME Fail("pmm_alloc_pages", count)
          PROVE  FA!AllocPages
      BY <1>5, <2>1, <2>3 DEF FA!AllocPages
    <2> QED BY <1>7, <2>1, <2>2, <2>3 DEF pmm_alloc_pages
  <1>8. CASE \E b \in held : FreePage(b) \/ FreeBlock(b)
    <2>1. AllocFrame BY <1>8 DEF FreePage, FreeBlock
    <2>2. FA!FreeBlock
      BY <1>3, <1>8, <2>1
         DEF FA!FreeBlock, FreePage, FreeBlock, Returned, NoCall, FA!NoCall, Frames
    <2> QED BY <2>2 DEF FA!Next
  <1>9. CASE \E page \in AllPages : FreeNothing(page)
    <2>1. AllocFrame BY <1>9 DEF FreeNothing
    <2>2. FA!FreeBlock
      BY <1>3, <1>9, <2>1 DEF FA!FreeBlock, FreeNothing, NoCall, FA!NoCall, Frames
    <2> QED BY <2>2 DEF FA!Next
  <1>10. ASSUME NEW page \in Firmware, uacpi_kernel_unmap(page)
         PROVE  FA!Next
    <2>1. AllocFrame /\ held' = held /\ ret' = NoCall
          /\ stray' = stray \cup ({page} \cap AllPages)
      BY <1>10 DEF uacpi_kernel_unmap
    <2>2. UNCHANGED Frames BY <1>3, <2>1
    <2>3. CASE page \in AllPages
      BY <2>1, <2>2, <2>3, FirmwareAssumption
         DEF FA!Next, FA!Stray, NoCall, FA!NoCall, Frames
    <2>4. CASE page \notin AllPages
      <3>1. stray' = stray BY <2>1, <2>4
      <3> QED BY <2>1, <2>2, <3>1
              DEF FA!Next, FA!FreeBlock, NoCall, FA!NoCall, Frames
    <2> QED BY <2>3, <2>4
  <1>11. CASE Halted \/ UNCHANGED vars
    <2>1. UNCHANGED vars BY <1>11 DEF Halted
    <2>2. Reserved' = Reserved /\ AllPages' = AllPages
      BY <2>1, ReservedFixed DEF vars
    <2> QED BY <2>1, <2>2 DEF vars, FA!vars
  <1> QED BY <1>1, <1>2, <1>6, <1>7, <1>8, <1>9, <1>10, <1>11 DEF Next, FA!Next

\* The bitmap manager implements the abstract frame allocator.
THEOREM ImplementsFrameAllocator == Spec => FrameAllocatorSpec
  <1>1. IInv /\ IInv' /\ [Next]_vars => [FA!Next]_(FA!vars) BY NextRefines
  <1> QED BY <1>1, InitRefines, Inductive, PTL DEF Spec, FA!Spec, FrameAllocatorSpec

=============================================================================
