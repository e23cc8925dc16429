--------------------------- MODULE FrameAllocator ---------------------------
(***************************************************************************)
(* What the rest of the kernel relies on when it calls the physical memory *)
(* manager: frames are lent out in blocks of consecutive frames, a lent    *)
(* block is made of frames nobody else holds, a single frame is refused    *)
(* only when every frame is lent, and a returned block becomes free again. *)
(* A frame that somebody returned who did not hold it is stray from then   *)
(* on: it may be lent while it is held, and although it was never managed. *)
(* A refused multi-frame request promises nothing: the code may refuse one *)
(* that lies below cached_index.                                           *)
(***************************************************************************)
EXTENDS Naturals

CONSTANT MaxCount  \* bound: the longest block a caller asks for

VARIABLES
  frames,  \* the frames the allocator manages; fixed once at boot
  held,    \* the blocks [start, count] lent out and not yet returned
  stray,   \* the frames returned by somebody who did not hold them
  ret      \* the last call and its result; page 0 stands for a refusal

vars == <<frames, held, stray, ret>>

Pages(b) == b.start .. b.start + b.count - 1

Lent == UNION {Pages(b) : b \in held}

Free == frames \ Lent

NoCall == [fn |-> "none", count |-> 0, page |-> 0]

Init == frames = {} /\ held = {} /\ stray = {} /\ ret = NoCall

Boot ==
  /\ frames = {} /\ held = {} /\ stray = {}
  /\ frames' \in SUBSET (Nat \ {0})
  /\ UNCHANGED <<held, stray, ret>>

Grant(fn, b) ==
  /\ Pages(b) \subseteq Free \cup stray
  /\ held' = held \cup {b}
  /\ ret' = [fn |-> fn, count |-> b.count, page |-> b.start]
  /\ UNCHANGED <<frames, stray>>

Refuse(fn, count) ==
  /\ ret' = [fn |-> fn, count |-> count, page |-> 0]
  /\ UNCHANGED <<frames, held, stray>>

AllocPage ==
  \/ \E p \in Free \cup stray : Grant("pmm_alloc_page", [start |-> p, count |-> 1])
  \/ Free \subseteq stray /\ Refuse("pmm_alloc_page", 1)

AllocPages ==
  \E count \in 0 .. MaxCount :
    \/ \E p \in Free \cup stray :
         /\ count > 0
         /\ Grant("pmm_alloc_pages", [start |-> p, count |-> count])
    \/ Refuse("pmm_alloc_pages", count)

\* A lent block comes back.  Of a block of stray frames, which may have been
\* lent twice, one of the two comes back.
FreeBlock ==
  /\ \/ \E b \in held : held' = held \ {b}
     \/ UNCHANGED held
  /\ ret' = NoCall
  /\ UNCHANGED <<frames, stray>>

\* Somebody returns a frame without holding it.
Stray ==
  /\ \E p \in stray' : p # 0 /\ stray' = stray \cup {p}
  /\ ret' = NoCall
  /\ UNCHANGED <<frames, held>>

Next == Boot \/ AllocPage \/ AllocPages \/ FreeBlock \/ Stray

Spec == Init /\ [][Next]_vars
=============================================================================
