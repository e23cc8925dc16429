-------------------------------- MODULE PMM --------------------------------
(***************************************************************************)
(* The bitmap physical memory manager (mm/pmm/pmm.c).                      *)
(*                                                                         *)
(* The bitmap is the set of page indices whose bit is 1 (in use).  Every   *)
(* call runs to completion: on one CPU with interrupts off, as during      *)
(* boot.  The manager does not know who holds a page: it clears the bit of *)
(* any page it is given.  held, stray and ret are ghosts: the blocks the   *)
(* callers hold, the pages freed by somebody who did not hold them, and    *)
(* what the last call returned (page 0, i.e. address 0, is the failure     *)
(* value).                                                                 *)
(*                                                                         *)
(* A definition named X_Y, placed before a definition X, is a mutant of X: *)
(* X with a plausible mistake.  Nothing uses it; it documents, and lets    *)
(* one check, that a property can tell X from it.                          *)
(***************************************************************************)
EXTENDS Naturals, Sequences, FiniteSets

CONSTANTS
  PAGE_SIZE,   \* bytes in a page
  MemMaps,     \* the memory maps the boot loader may hand over
  MaxCount,    \* bound: the longest block a caller asks for
  Firmware     \* the pages uACPI unmaps, and so frees, without holding them

ASSUME PageSizeAssumption == PAGE_SIZE \in Nat \ {0}
ASSUME MaxCountAssumption == MaxCount \in Nat
\* vm_map_free_region frees no page 0 (`if (pa)`).
ASSUME FirmwareAssumption == Firmware \subseteq Nat \ {0}
ASSUME MemMapsAssumption ==
  \A m \in MemMaps : m \in Seq([base : Nat, length : Nat, usable : BOOLEAN])

\* The boot protocol promises that usable entries do not overlap.
ASSUME UsableDisjoint ==
  \A m \in MemMaps : \A i, j \in DOMAIN m :
    i # j /\ m[i].usable /\ m[j].usable =>
      m[i].base + m[i].length <= m[j].base \/ m[j].base + m[j].length <= m[i].base

VARIABLES
  pc,            \* "boot" until init_bitmap_pmm ran; "halted" after hcf()
  memmap,        \* boot_get_memmap(): a sequence of entries, sizes in bytes
  total_pages,   \* pmm_map.total_pages
  bitmap_base,   \* bitmap_phys_addr: where the bitmap itself is stored
  bitmap,        \* indices below total_pages whose bit is set
  cached_index,  \* where the next search starts
  held,          \* ghost: blocks lent out
  stray,         \* ghost: pages freed by somebody who did not hold them
  ret            \* ghost: the last call and its result

vars == <<pc, memmap, total_pages, bitmap_base, bitmap, cached_index, held, stray,
          ret>>

ALIGN_DOWN(a, align) == (a \div align) * align
ALIGN_UP(a, align) == ((a + align - 1) \div align) * align

Usable == {e \in {memmap[i] : i \in DOMAIN memmap} : e.usable}

AllPages == 0 .. total_pages - 1

BitmapBytes(pages) == ALIGN_UP((pages + 7) \div 8, PAGE_SIZE)

\* What the initialisation loop frees: whole pages of usable RAM outside the
\* bitmap's own storage.
InUsableRam_NotRounded(p) ==
  \E e \in Usable : /\ ALIGN_DOWN(e.base, PAGE_SIZE) <= p * PAGE_SIZE
                    /\ p * PAGE_SIZE < ALIGN_DOWN(e.base + e.length, PAGE_SIZE)

InUsableRam(p) ==
  \E e \in Usable : /\ ALIGN_UP(e.base, PAGE_SIZE) <= p * PAGE_SIZE
                    /\ p * PAGE_SIZE < ALIGN_DOWN(e.base + e.length, PAGE_SIZE)

InBitmapStorage(p, base, pages) ==
  p * PAGE_SIZE >= base /\ p * PAGE_SIZE < base + BitmapBytes(pages)

Clear(base, pages) ==
  {p \in 0 .. pages - 1 : InUsableRam(p) /\ ~InBitmapStorage(p, base, pages)}

NoCall == [fn |-> "none", count |-> 0, page |-> 0]

Init ==
  /\ pc = "boot"
  /\ memmap \in MemMaps
  /\ total_pages = 0 /\ bitmap_base = 0 /\ bitmap = {} /\ cached_index = 0
  /\ held = {} /\ stray = {} /\ ret = NoCall

-----------------------------------------------------------------------------
(* init_bitmap_pmm *)

Tops == {e.base + e.length : e \in Usable} \cup {0}

HighestAddr(top) == top \in Tops /\ \A t \in Tops : t <= top

\* The first usable entry that can hold the bitmap.
HoldsBitmap(i, size) == memmap[i].usable /\ memmap[i].length >= size

FirstFit(i, size) ==
  /\ i \in DOMAIN memmap /\ HoldsBitmap(i, size)
  /\ \A j \in DOMAIN memmap : HoldsBitmap(j, size) => i <= j

\* Page 0 is left free.
init_bitmap_pmm_Page0Free ==
  /\ pc = "boot"
  /\ \E top \in Tops :
       /\ HighestAddr(top)
       /\ total_pages' = top \div PAGE_SIZE
  /\ \E i \in DOMAIN memmap :
       /\ FirstFit(i, BitmapBytes(total_pages'))
       /\ bitmap_base' = memmap[i].base
  /\ bitmap' = (0 .. total_pages' - 1) \ Clear(bitmap_base', total_pages')
  /\ pc' = "up"
  /\ UNCHANGED <<memmap, cached_index, held, stray, ret>>

init_bitmap_pmm ==
  /\ pc = "boot"
  /\ \E top \in Tops :
       /\ HighestAddr(top)
       /\ total_pages' = top \div PAGE_SIZE
  /\ \E i \in DOMAIN memmap :
       /\ FirstFit(i, BitmapBytes(total_pages'))
       /\ bitmap_base' = memmap[i].base
  /\ bitmap' = ((0 .. total_pages' - 1) \ Clear(bitmap_base', total_pages')) \cup {0}
  /\ pc' = "up"
  /\ UNCHANGED <<memmap, cached_index, held, stray, ret>>

\* No usable region is large enough for the bitmap: hcf().
init_bitmap_pmm_hcf ==
  /\ pc = "boot"
  /\ \E top \in Tops :
       /\ HighestAddr(top)
       /\ total_pages' = top \div PAGE_SIZE
  /\ \A i \in DOMAIN memmap : ~HoldsBitmap(i, BitmapBytes(total_pages'))
  /\ pc' = "halted"
  /\ UNCHANGED <<memmap, bitmap_base, bitmap, cached_index, held, stray, ret>>

-----------------------------------------------------------------------------
(* Allocation.  FirstFrom(S, lo) is the index at which a scan that starts  *)
(* at lo and looks for a member of S stops.                                *)

FreePages == AllPages \ bitmap

FirstFrom(S, lo, i) == i \in S /\ i >= lo /\ \A j \in S : j >= lo => i <= j

Run(s, count) == s .. s + count - 1

\* Starts of the runs of count free pages.
Runs(count) == {s \in AllPages : Run(s, count) \subseteq FreePages}

\* Only the first page of a block is marked.
Take_FirstOnly(fn, s, count) ==
  /\ bitmap' = bitmap \cup {s}
  /\ cached_index' = s + count
  /\ held' = held \cup {[start |-> s, count |-> count]}
  /\ UNCHANGED stray
  /\ ret' = [fn |-> fn, count |-> count, page |-> s]

Take(fn, s, count) ==
  /\ bitmap' = bitmap \cup Run(s, count)
  /\ cached_index' = s + count
  /\ held' = held \cup {[start |-> s, count |-> count]}
  /\ UNCHANGED stray
  /\ ret' = [fn |-> fn, count |-> count, page |-> s]

Fail(fn, count) ==
  /\ ret' = [fn |-> fn, count |-> count, page |-> 0]
  /\ UNCHANGED <<bitmap, cached_index, held, stray>>

AllocFrame == pc = "up" /\ UNCHANGED <<pc, memmap, total_pages, bitmap_base>>

pmm_alloc_page_NoWrap ==
  /\ AllocFrame
  /\ \/ \E i \in FreePages : /\ FirstFrom(FreePages, cached_index, i)
                             /\ Take("pmm_alloc_page", i, 1)
     \/ /\ \A i \in FreePages : i < cached_index
        /\ Fail("pmm_alloc_page", 1)

\* The first loop of pmm_alloc_page, then its wrap-around, then failure.
pmm_alloc_page ==
  /\ AllocFrame
  /\ \/ \E i \in FreePages : /\ FirstFrom(FreePages, cached_index, i)
                             /\ Take("pmm_alloc_page", i, 1)
     \/ /\ \A i \in FreePages : i < cached_index
        /\ \E i \in FreePages : /\ FirstFrom(FreePages, 0, i)
                                /\ Take("pmm_alloc_page", i, 1)
     \/ /\ FreePages = {}
        /\ Fail("pmm_alloc_page", 1)

\* Searches from cached_index to the end only: no wrap-around.
pmm_alloc_pages(count) ==
  /\ AllocFrame
  /\ \/ count = 0 /\ Fail("pmm_alloc_pages", 0)
     \/ count > 0 /\ \E s \in Runs(count) :
          /\ FirstFrom(Runs(count), cached_index, s)
          /\ Take("pmm_alloc_pages", s, count)
     \/ /\ count > 0
        /\ \A s \in Runs(count) : s < cached_index
        /\ Fail("pmm_alloc_pages", count)

-----------------------------------------------------------------------------
(* Release *)

ClearRange_OneShort(index, count) ==
  /\ bitmap' = bitmap \ (index .. index + count - 2)
  /\ cached_index' = IF index < cached_index THEN index ELSE cached_index

\* Clears the bits of [index, index + count) below total_pages.
ClearRange(index, count) ==
  /\ bitmap' = bitmap \ Run(index, count)
  /\ cached_index' = IF index < cached_index THEN index ELSE cached_index

\* Clears the bit of any page of the bitmap; a frame above all RAM, such as a
\* device's, is ignored.
pmm_free_page(page) ==
  \/ page < total_pages /\ ClearRange(page, 1)
  \/ page >= total_pages /\ UNCHANGED <<bitmap, cached_index>>

\* The block is inside the bitmap (pmm_alloc_pages returned it), so the end
\* needs no cutting off; a count of 0 is ignored.
pmm_free_pages(b) ==
  \/ b.count > 0 /\ ClearRange(b.start, b.count)
  \/ b.count = 0 /\ UNCHANGED <<bitmap, cached_index>>

Pages(b) == Run(b.start, b.count)

\* A block whose pages have all been freed by a stranger may have been lent
\* twice; both lendings are one member of held, and the second return leaves
\* it.
Returned(b) ==
  /\ \/ held' = held \ {b}
     \/ Pages(b) \subseteq stray /\ UNCHANGED held
  /\ UNCHANGED stray

FreePage(b) ==
  /\ AllocFrame
  /\ b.count = 1
  /\ pmm_free_page(b.start)
  /\ Returned(b)
  /\ ret' = NoCall

FreeBlock(b) ==
  /\ AllocFrame
  /\ pmm_free_pages(b)
  /\ Returned(b)
  /\ ret' = NoCall

\* pmm_free_pages(_, 0).
FreeNothing(page) ==
  /\ AllocFrame
  /\ pmm_free_pages([start |-> page, count |-> 0])
  /\ ret' = NoCall
  /\ UNCHANGED <<held, stray>>

\* uACPI gives back a mapping of a page it does not hold; the region is freed
\* with its page, whoever holds that.
uacpi_kernel_unmap(page) ==
  /\ AllocFrame
  /\ pmm_free_page(page)
  /\ stray' = stray \cup ({page} \cap AllPages)
  /\ ret' = NoCall
  /\ UNCHANGED held

Halted == pc = "halted" /\ UNCHANGED vars

Next ==
  \/ init_bitmap_pmm
  \/ init_bitmap_pmm_hcf
  \/ pmm_alloc_page
  \/ \E count \in 0 .. MaxCount : pmm_alloc_pages(count)
  \/ \E b \in held : FreePage(b)
  \/ \E b \in held : FreeBlock(b)
  \/ \E page \in AllPages : FreeNothing(page)
  \/ \E page \in Firmware : uacpi_kernel_unmap(page)
  \/ Halted

Spec == Init /\ [][Next]_vars

-----------------------------------------------------------------------------
(* Properties *)

Blocks == [start : Nat, count : Nat]

\* Types; in particular every bit that is set lies inside the bitmap and the
\* search position never passes its end.
TypeOK ==
  /\ pc \in {"boot", "up", "halted"}
  /\ memmap \in MemMaps
  /\ total_pages \in Nat /\ bitmap_base \in Nat
  /\ cached_index \in 0 .. total_pages
  /\ bitmap \subseteq AllPages \cup {0}
  /\ held \subseteq Blocks
  /\ stray \subseteq AllPages \ {0}
  /\ ret \in [fn : {"none", "pmm_alloc_page", "pmm_alloc_pages"},
              count : Nat, page : Nat]

HeldPages == UNION {Pages(b) : b \in held}

\* The pages that initialisation withholds: page 0, whatever is not whole
\* usable RAM, and the bitmap's own storage.
Reserved == (AllPages \ Clear(bitmap_base, total_pages)) \cup {0}

\* The bitmap says exactly who owns what: once up, the bit of a page that no
\* stranger has freed is set if and only if the page is reserved or some caller
\* holds it.  No allocation, failed call, wrap-around or release in any order
\* makes a page leak (set, held by nobody) or be offered while somebody still
\* holds it, and a stranger's free harms no page but its own.
BitmapExact == pc = "up" => bitmap \ stray = (Reserved \cup HeldPages) \ stray

\* Two blocks share, and a block contains of what is reserved (the bitmap's
\* storage, a page outside usable RAM), only pages that a stranger has freed;
\* no block ever contains page 0, the failure value.
HeldDisjoint ==
  /\ \A b, c \in held : b # c => Pages(b) \cap Pages(c) \subseteq stray
  /\ HeldPages \cap Reserved \subseteq stray
  /\ 0 \notin HeldPages

\* Every page lent that no stranger has freed lies wholly inside one usable
\* region of the boot loader's map and overlaps no byte of the bitmap, whatever
\* the alignment of the regions (init_bitmap_pmm rounds starts up, ends down and
\* the bitmap to whole pages).
HeldInRam ==
  \A p \in HeldPages \ stray :
    /\ \E e \in Usable : /\ e.base <= p * PAGE_SIZE
                         /\ (p + 1) * PAGE_SIZE <= e.base + e.length
    /\ \/ (p + 1) * PAGE_SIZE <= bitmap_base
       \/ p * PAGE_SIZE >= bitmap_base + ((total_pages + 7) \div 8)

\* pmm_alloc_page gives up only when no page at all is free: the wrap-around
\* makes up for the pages below cached_index that earlier searches skipped.
SinglePageServed ==
  ret.fn = "pmm_alloc_page" /\ ret.page = 0 => FreePages = {}

\* The manager implements the frame allocator the rest of the kernel assumes,
\* which promises nothing more of a frame once a stranger has returned it.
FA == INSTANCE FrameAllocator WITH
        frames <- IF pc = "up" THEN AllPages \ Reserved ELSE {}

FrameAllocatorSpec == FA!Spec
=============================================================================
