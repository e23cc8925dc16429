------------------------------ MODULE Kmalloc ------------------------------
(***************************************************************************)
(* kmalloc and kfree (kernel/lib/stdlib.c): the binary search for a size   *)
(* class, one iteration per step, and where in its page the block lies.    *)
(* One block is followed from kmalloc to kfree; that blocks do not overlap *)
(* is the business of Slab and PMM.  Definitions named X_Y before an X are *)
(* mutants of X, as in PMM.                                                *)
(***************************************************************************)
EXTENDS Integers

CONSTANTS
  NUM_SIZES,       \* KMALLOC_NUM_SIZES
  kmalloc_sizes,   \* the table of size classes, indexed from 0
  PAGE_SIZE,
  Requests         \* bound: the sizes callers ask for

ASSUME TableAssumption ==
  /\ NUM_SIZES \in Nat \ {0}
  /\ kmalloc_sizes \in [0 .. NUM_SIZES - 1 -> Nat]
  /\ \A i, j \in 0 .. NUM_SIZES - 1 : i < j => kmalloc_sizes[i] < kmalloc_sizes[j]
ASSUME PageAssumption == PAGE_SIZE \in Nat \ {0}
ASSUME RequestsAssumption == Requests \subseteq Nat

VARIABLES
  pc,                    \* "idle", "search" or "held" (a block is lent)
  asked,                 \* the argument of kmalloc
  size,                  \* total, the argument of kmalloc_index
  left, right, result,   \* its locals
  block                  \* the header written: type and slab_idx, or type and
                         \* size; at: its offset in its (first) page

kmalloc_vars == <<pc, asked, size, left, right, result, block>>

ALIGN_UP(a, align) == ((a + align - 1) \div align) * align

HEADER == 16     \* sizeof(alloc_header_t), aligned(16)
SLAB_HDR == 32   \* ALIGN_UP(sizeof(struct slab_t), sizeof(void *))

\* kmem_cache_create: the distance between two objects, and how many fit.
CacheSize(i) == ALIGN_UP(IF kmalloc_sizes[i] < 8 THEN 8 ELSE kmalloc_sizes[i], 8)
obj_per_slab(i) == (PAGE_SIZE - SLAB_HDR) \div CacheSize(i)

\* What the table of stdlib.c has to be like for headers to be aligned: a class
\* whose objects are not 16-byte aligned is the smallest for no multiple of 16.
ASSUME AlignedTable ==
  \A i \in 0 .. NUM_SIZES - 1 :
    CacheSize(i) % 16 # 0 =>
      \A k \in (IF i = 0 THEN 1 ELSE kmalloc_sizes[i - 1] + 1) .. kmalloc_sizes[i] : k % 16 # 0

NoBlock == [type |-> "none", n |-> 0, at |-> 0]

\* init_kmalloc has created the caches.
KmallocInit ==
  /\ pc = "idle" /\ asked = 0 /\ size = 0
  /\ left = 0 /\ right = 0 /\ result = -1
  /\ block = NoBlock

\* The total is not rounded up.
kmalloc_NotRounded(s) ==
  /\ pc = "idle" /\ s > 0
  /\ pc' = "search"
  /\ asked' = s /\ size' = s + HEADER
  /\ left' = 0 /\ right' = NUM_SIZES - 1 /\ result' = -1
  /\ UNCHANGED block

\* kmalloc(0) returns NULL at once.
kmalloc(s) ==
  /\ pc = "idle" /\ s > 0
  /\ pc' = "search"
  /\ asked' = s /\ size' = ALIGN_UP(s + HEADER, 16)
  /\ left' = 0 /\ right' = NUM_SIZES - 1 /\ result' = -1
  /\ UNCHANGED block

Mid == (left + right) \div 2

\* right and left stay at mid: the last interval never shrinks.
kmalloc_index_Stuck ==
  /\ pc = "search" /\ left <= right
  /\ IF kmalloc_sizes[Mid] >= size
       THEN result' = Mid /\ right' = Mid - 1 /\ UNCHANGED left
       ELSE left' = Mid /\ UNCHANGED <<right, result>>
  /\ UNCHANGED <<pc, asked, size, block>>

\* > for >=: an exact fit is passed over.
kmalloc_index_Strict ==
  /\ pc = "search" /\ left <= right
  /\ IF kmalloc_sizes[Mid] > size
       THEN result' = Mid /\ right' = Mid - 1 /\ UNCHANGED left
       ELSE left' = Mid + 1 /\ UNCHANGED <<right, result>>
  /\ UNCHANGED <<pc, asked, size, block>>

\* One iteration of the loop.
kmalloc_index ==
  /\ pc = "search" /\ left <= right
  /\ IF kmalloc_sizes[Mid] >= size
       THEN result' = Mid /\ right' = Mid - 1 /\ UNCHANGED left
       ELSE left' = Mid + 1 /\ UNCHANGED <<right, result>>
  /\ UNCHANGED <<pc, asked, size, block>>

Pages == (size + PAGE_SIZE - 1) \div PAGE_SIZE

\* The rest of kmalloc: any object of a slab of the class found, or pages.
Place ==
  /\ pc = "search" /\ left > right
  /\ pc' = "held"
  /\ \/ /\ result >= 0
        /\ \E i \in 0 .. obj_per_slab(result) - 1 :
             block' = [type |-> "SLAB_BACKED", n |-> result,
                       at |-> SLAB_HDR + i * CacheSize(result)]
     \/ /\ result < 0
        /\ block' = [type |-> "PAGE_BACKED", n |-> Pages, at |-> 0]
  /\ UNCHANGED <<asked, size, left, right, result>>

\* The locals are dead after the call.
Done ==
  /\ pc' = "idle" /\ asked' = 0 /\ size' = 0
  /\ left' = 0 /\ right' = 0 /\ result' = -1
  /\ block' = NoBlock

\* kmem_cache_alloc or pmm_alloc_pages failed: NULL.
OutOfMemory == pc = "search" /\ left > right /\ Done

\* The header says where the block goes back to.
kfree == pc = "held" /\ Done

KmallocNext == \/ \E s \in Requests : kmalloc(s)
        \/ kmalloc_index \/ Place \/ OutOfMemory \/ kfree

KmallocSpec == KmallocInit /\ [][KmallocNext]_kmalloc_vars

\* A call that has begun goes on.
KmallocFairSpec == KmallocSpec /\ WF_kmalloc_vars(kmalloc_index)

-----------------------------------------------------------------------------
(* Properties *)

\* When the search ends, result is the smallest class that holds size, or -1
\* when none does: kmalloc_index never wastes a class and never picks one that
\* is too small.
SmallestClass ==
  pc = "search" /\ left > right =>
    IF result = -1 THEN \A i \in 0 .. NUM_SIZES - 1 : kmalloc_sizes[i] < size
    ELSE /\ result \in 0 .. NUM_SIZES - 1
         /\ kmalloc_sizes[result] >= size
         /\ \A i \in 0 .. result - 1 : kmalloc_sizes[i] < size

\* Every block has room for the header and what was asked, stays inside its
\* page (or pages), does not touch the slab's own header, and both the header
\* and the caller's pointer are 16-byte aligned, as the type of the header
\* demands - although the table has classes (24, 40, 56) whose objects are not.
BlockFits ==
  pc = "held" =>
    /\ (block.at + HEADER) % 16 = 0
    /\ \/ /\ block.type = "SLAB_BACKED"
          /\ block.at >= SLAB_HDR
          /\ CacheSize(block.n) >= HEADER + asked
          /\ block.at + CacheSize(block.n) <= PAGE_SIZE
       \/ /\ block.type = "PAGE_BACKED"
          /\ block.n * PAGE_SIZE >= HEADER + asked
          /\ (block.n - 1) * PAGE_SIZE < ALIGN_UP(HEADER + asked, 16)

\* The search ends for every size.
SearchEnds == pc = "search" ~> pc = "search" /\ left > right
=============================================================================
