# TLA+ models of the flos kernel

flos is a small x86-64 kernel: one CPU, booted by Limine, with a bitmap page
allocator, a slab allocator, four-level page tables, address spaces, and a
preemptive scheduler over a red-black tree. This directory holds TLA+ models of
the parts that carry its logic, TLC configurations that check them on small
instances, and TLAPS proofs of the results that hold for every instance.

`PROJECT.json` lists components, runs, mutants, the source lines behind every
definition, hazards, findings and theorems. Paths below are relative to
`src/src/kernel/`.

    tlc -workers 2 -config PMM.cfg MC_PMM      # one run
    tlapm PMM_proofs.tla                       # one module of proofs

## 1. Inventory

| Component | State | Operations | Used by |
|---|---|---|---|
| Physical memory (`mm/pmm/pmm.c`) | bitmap, `total_pages`, `cached_index` | `init_bitmap_pmm`, `pmm_alloc_page(s)`, `pmm_free_page(s)` | everything below |
| Slab (`mm/vm/slab.c`) | per cache: CPU slab and free list, partial list; per slab: free list, `inuse` | `kmem_cache_create/alloc/free` | kmalloc, areas, page-table objects |
| kmalloc (`kernel/lib/stdlib.c`) | 26 size classes, a header in each block | `kmalloc`, `kfree` | tasks, per-CPU data, uACPI |
| Page tables (`arch/x86_64/mm/pmap/pmap.c`, `mm/pmap/pmap.c`) | the tables in memory | map a range or page, unmap, create, destroy, boot mappings, MMIO | address spaces, boot, LAPIC |
| Address spaces (`mm/vm/vm_map.c`) | a list of areas and a page table | create, destroy, allocate, allocate at, free, lookup, page fault | tasks, uACPI glue |
| Red-black tree (`kernel/lib/rbtree.c`, `include/rbtree*.h`) | parent, colour and children of each node | link, insert colour, erase, first/last/next/prev | run queue |
| Run queue (`sched/runq.c`) | tree, cached leftmost node, `num_threads`, vruntimes | `add_runq`, `remove_runq`, `next_runq` | scheduler |
| Scheduler and tasks (`sched/`, `arch/x86_64/sched/`, `lapic_timer_handler`) | `current_task`, task states and flags, slices, `need_resched`, `preempt_count` | spawn, wake, execve, exit, tick, `schedule`, switch | kmain, interrupts |
| Log and terminal (`kernel/lib/printk/printk.c`, `drivers/tty/tty.c`) | a ring of characters; a ring of lines, `tty_row`, `view_row`, cursor, screen | `printk`, `tty_flush`, `tty_putchar`, scroll up and down | everything that prints |
| Keyboard (`drivers/input/ps2/keyboard/keyboard.c`) | `extended_key`; controller and PIC | `init_keyboard`, the interrupt handler | kmain, interrupts |
| Interrupts and system calls (`arch/x86_64/interrupts/`, `pic/pic.c`, `syscalls.c`) | table of handlers, mask and in-service bits | register, dispatch, mask, end of interrupt | all drivers |
| Formatting (`kernel/lib/kprintf/kprintf.c`) | none between calls | `vsnprintf` | log |
| APIC, PIT, per-CPU areas (`arch/x86_64/pic/`, `cpu/percpu.c`) | what the MADT listed, `lapic_ticks_per_ms`, the areas and the GS base | `parse_madt`, `lapic_timer_calibrate`, `pit_sleep`, `init_percpu`, `lapic_timer_start` | kmain, scheduler |
| uACPI glue (`firmware/acpi.c`) | none of its own | `uacpi_kernel_map/unmap`, stubs | uACPI |
| Boot protocol, descriptor tables, framebuffer | device registers, tables | - | - |

How they interact. All calls are direct function calls; there are no messages
and there is one CPU. Concurrency comes from interrupts: kernel threads run with
interrupts on (`__kfork_return` executes `sti`), so a tick may switch threads
between any two instructions, the timer's handler prints every thousandth tick,
and the keyboard's handler scrolls the terminal under whoever prints. No component
takes a lock, and
`preempt_count` is incremented but nobody tests it. Frames go from the physical
manager to slabs, page tables and user pages, and come back through `kfree`,
`vm_map_free_region` and `pmap_destroy_table`.

What is hard here, and so what the properties are about:

* accounting that is redundant and kept by hand: `inuse`, the partial list,
  `cached_index`, `rb_leftmost`, `num_threads`, `TASK_RUNNING`;
* sequences of legal calls that reach a bad state: free lists after many
  allocations and frees, trees of one particular shape, areas that are cut and
  split, address spaces that share tables;
* preemption in the middle of an operation, and a `printk` inside a `printk`;
* limits: a ring or a buffer that is exactly full, a counter that comes round, a
  firmware table that is cut off;
* exhaustion in the middle of an operation: a page table with no frame for the
  next level, a split with no object for the second half;
* starvation: whether a task that waits ever runs, given how `add_runq` rewrites
  vruntimes.

For each component, what makes it correct: physical memory - the bitmap is
exactly the reserved and lent pages, no page is lent twice; slab - every object
is in one place; kmalloc - the smallest class that fits, an aligned block
inside its page; page tables - a mapping changes exactly the translations asked
for and no table is lost; address spaces - the area list is ordered and nothing
is mapped outside it; tree and queue - a stable ordered queue; scheduler - a
runnable task is on the CPU or in the queue, in exactly one place, and runs;
terminal - the screen shows the lines from `view_row` on and follows the output;
keyboard - every byte is taken and decoded from the beginning of its code;
log - every character reaches the terminal once; formatting - what the C standard
says; APIC - the MADT's entries and nothing else, a timer that is not too fast.

## 2. Modules

| Module | Models | Kind |
|---|---|---|
| `PMM`, `MC_PMM` | the physical memory manager | state machine |
| `FrameAllocator` | what its callers rely on | abstract specification of `PMM` |
| `PMM_proofs` | | proofs |
| `Induction` | induction over the naturals and folds over sequences, in the form the provers can use | lemmas |
| `Slab` | one object cache, calls cut into steps | state machine |
| `Kmalloc`, `MC_Kmalloc` | the search for a class, one iteration per step, and the layout of a block | state machine |
| `Heap_proofs` | slab and kmalloc | proofs |
| `Pmap`, `MC_Pmap`, `Pmap_proofs` | page tables at the level of their entries | state machine, proofs |
| `VmMap`, `MC_VmMap`, `VmMap_proofs` | one address space over an abstract page table and a set of free frames, with faults and uACPI as its callers | state machine, proofs |
| `Kprintf` | `vsnprintf`, directive by directive | operators |
| `PrintfStandard` | what the C standard says a directive puts out | reference for `Kprintf` |
| `Printk` | the log's ring, a thread that prints and the timer that prints inside it | state machine |
| `PrintkFormat`, `MC_Printk` | the log with the formatter it calls | composition of `Printk` and `Kprintf` |
| `Apic`, `MC_Apic` | MADT parser, calibration, per-CPU areas, start of the timer | state machine |
| `Terminal` | the terminal, `tty_putchar` in stages | operators |
| `Console`, `MC_Console` | boot thread, system call and keyboard interrupt around one terminal | composition: state machine over `Terminal` |
| `Output_proofs` | console and log | proofs |
| `RBTree` | the pointer-level tree algorithms | operators |
| `RunQueue` | `tree_insert`, `tree_remove`, `min_vruntime` | operators on top of `RBTree` |
| `RunQueueSpec` | the queue as a component: any sequence of operations with any keys | state machine over `RunQueue` |
| `Scheduler`, `MC_Scheduler` | boot context, tasks, timer, exits, on the real tree | composition: state machine over `RunQueue` |
| `RoundRobin` | what the scheduler promises | abstract specification of `Scheduler` |
| `RBTree_proofs` | the tree's operations and the queue's | lemmas |
| `Cpu_proofs` | APIC, round robin, run queue and scheduler | proofs |

Conventions. State and operations keep the source's names. Ghost variables are
marked in the declaration. A definition `X_Y` placed before `X` is a mutant of
`X`: a version with a plausible mistake, used by nothing, that a property must
be able to tell from `X`; `PROJECT.json` pairs them with properties.

### PMM
`bitmap` is the set of page indices whose bit is 1. `init_bitmap_pmm` reads a
memory map in bytes, with unaligned region ends, places the bitmap in the first
region it fits and clears the bits of whole usable pages, leaving page 0 and the
bitmap's own storage set; `init_bitmap_pmm_hcf` is the halt when no region
holds it. `pmm_alloc_page` searches from `cached_index` and wraps;
`pmm_alloc_pages` does not wrap. A free clears the bit of any page below
`total_pages`: the manager does not know who holds it. `held` (ghost) is what callers
own. Callers that hold a block return that block (`FreePage`, `FreeBlock`); one caller
frees what it does not hold: `uacpi_kernel_unmap` (`firmware/acpi.c:41`, through
`vm_map_free_region`) passes the frames of firmware tables, which may be reserved, lent
to somebody, or beyond the bitmap. `Firmware` are the pages it passes, any but page 0,
which `vm_map_free_region` skips, and `stray` (ghost) collects those below
`total_pages`. From then on such a page may be lent although it is no RAM, or lent
twice, and the properties claim nothing of it; what they claim is that it harms no other.
`FrameAllocator` forgets bitmap and positions: it lends blocks of free or stray frames,
refuses a single frame only if none is free, and promises nothing when it refuses
a longer block.

### Slab
The objects of a slab are chained through the word they hold (`fp`), as in the
code. A call is a sequence of steps, cut where a value read from shared state is
used later. `Preemptible = FALSE` keeps calls from overlapping (the situation at
boot, with interrupts off), `TRUE` lets the timer switch threads between steps.

### Kmalloc
Each loop iteration of `kmalloc_index` is a step. `Place` takes any object of a
slab of that class, or whole pages, and records the header. That blocks do not
overlap is `Slab`'s and `PMM`'s business.

### Pmap
`mem` maps a frame to a table of `F` entries, each empty, a table or a (huge)
page. `map` is one iteration of `pmap_map_range`: it walks down, allocating
tables on the way, and writes an entry at the level `map_huge_ok` chooses; when
the walk fails, by exhaustion or because a huge page is in the way, the range
stops there and the tables allocated so far stay. `init_pmap` maps every region
of the memory map twice and then the kernel's sections, with the byte-to-page
rounding of `pmap_map_range`. `pmap_create_table` copies the upper half of the
top table. `pmap_map_page` and `pmap_unmap_page` work in the lower half of every
space: in user spaces for `ktask_execve`, and in the kernel's own, which the fault
handler and uACPI pass, over the huge pages that `init_pmap` left there. Access flags
and the TLB are not modelled.

### VmMap
`areas` is the list, `pt` the page table as `pmap_map_page`, `pmap_map_range` and
`pmap_unmap_page` show it, `free` the frames `FrameAllocator` has left. The space is
either `kernel_vm_map` as `init_pmap` leaves it, with every region of the memory map
mapped at its own address and no area for any of it (`Identity`; `HugePage` for what a
huge entry covers), or one that `vm_map_create` makes and `vm_map_destroy` ends, empty
at first. Area objects
may run out at any call; frames for tables when `free` is empty. The only caller of
`vm_map_allocate` and `vm_map_free_region` in the kernel is uACPI
(`uacpi_kernel_map`, `uacpi_kernel_unmap`), which maps frames of firmware tables
(`Firmware`). Mapping overwrites the entries of the identity map up to a huge one or a
missing table, and unmapping clears whatever entry a range shows, its own or one of the
identity map, and gives the frame to the physical manager; the model follows it there.
`ident` (ghost) are the pages where `init_pmap`'s entry still stands, and `stray` the
frames freed through one. Two more ghosts record the known losses: `dropped`, the pages of the half of
an area that a failed split drops, and `lost`, the frames nothing refers to any
more. `vm_fault_handler` is modelled as the function; on the machine
`interrupt_handler` (`arch/x86_64/interrupts/isr.c:72`) halts after every
exception handler that returns, so a resolved fault is not resumed today.

### Kprintf, PrintfStandard, Printk
`Kprintf` reads a format a directive at a time, as `_vsnprintf` does, and keeps the
buffer and the whole text. Characters are one-character strings because the
properties are about them; integer widths and the size of the conversion buffer
are constants, so that a 7-bit `long` meets what a 64-bit one meets.
`PrintfStandard` says what the same directive should put out, and where this
printf deviates (`Deviates`, `LosesDigits`). Floating conversions are switched off
in the source. `Printk` has the ring with its two positions; what `vsnprintf` makes of a
message is its parameter `Formatted`, to which `PrintkFormat` and `MC_Printk` give the
value that `Kprintf` computes. A thread's `printk` is
cut at every access to them (`put_next` .. `write_char`); the timer's is one step. The
boot context's printk may also be abandoned, when a tick gives the CPU to `bsp`.
`hit` (ghost) says that the timer printed between two accesses that belong
together. The terminal behind the ring is `Console`'s; a print inside
`tty_putchar` itself is not modelled.

### Apic
`parse_madt` takes one entry per step from a table of bytes; an override too many is
written where `iso_count` lies. Between two reads of the PIT any number of its ticks
out of `Gaps` may pass. `init_percpu` and `lapic_timer_start` follow; the guard
of the latter is that the scheduler, initialised in between, needs GS.

### Terminal, Console
`tty_putchar` is `Begin` followed by `Advance` once per stage; the cuts are where a
value read from `view_row` is used later (the row of a glyph, the newline's test and
increment, a redraw). System calls run through an interrupt gate and do all stages
at once; the boot thread does one per step, and the keyboard's interrupt may come
in between. For the boot thread `Interruptible` also cuts the redraw: `Clear`, then for
each row `StartRow`, which reads `view_row` and settles the line, and `NextCell` for each
of its columns, which uses that line. The handler's own redraw is complete: what a scroll
in the middle of one leaves is the new window, but for the rest of the row that the
interrupted redraw was in, which it still draws from the old line, and a scroll between a
glyph's row and its drawing leaves that glyph. `text` and
`torn` are ghosts in the terminal's record: all lines ever written, and the cells that the
last scroll found still to be drawn. The log ring holds 8191 characters and a message
at most 255 there, so it is the sequence of characters not yet written. `KeyPress` and
`SendByte` are the keyboard and its controller, seen from the ports the driver
reads; a byte requests the interrupt until it is read, also while the line is
masked.

### RBTree, RunQueue, RunQueueSpec
The tree is a heap of nodes with parent, colour and child pointers. The source
writes each case twice, mirrored; the model has one case with a `side`. An erased
node keeps its pointers, and a step that would follow `NULL` clears `ok`. The source's
loops are `Loop(f, x)`, at most as many turns as there are nodes: enough in a tree; in a
damaged one that has become a cycle the source would not end, and the model stops.
`RunQueueSpec` renumbers the queued tasks by the place they should have after
each operation, so one state stands for all trees of the same shape and keys.
Replacement and the augmented and linked variants have no caller in the kernel.

### Scheduler, RoundRobin
A step is what a task does between two points where the timer may interrupt it,
or one whole interrupt. The boot context's `sched_yield` and `task_wake` run with
interrupts on. The first is cut between `next_runq`'s reading of the leftmost task
(`sched_yield`) and its removal (`next_runq_removes`), the two writes of `TASK_RUNNING`
(`schedule_flags`), the exchange of the stack pointers (`switch_stacks`) and the write of
`current_task` (`__switch_to`); the second at the descent, the link, the rebalancing and
the update of the cache. A tick between the two flag writes leaves what one after them
does, and one inside `tree_remove` meets a leftmost task from before or after it, so these
are single steps. `hit` (ghost) says that a tick called `schedule()` while `task_wake` was
changing the tree, or took the task that the boot context had read and not yet removed.
`stale` is what a tick within the boot context's switch leaves to idle, which it takes for
the task it interrupts: `TASK_RUNNING`, or a saved stack pointer into another task's stack.
What runs when idle is dispatched with such a stack pointer, after a zombie was dispatched,
or after a NULL pointer was followed is not modelled (`Alive`).
`Casts` are the programs there may be. `schedule(q, st, flag)` is the whole function with
`next_runq` and the switch, and takes the run queue and states its caller has
just changed. `task_exit` removes the current task from the tree although
`next_runq` took it out: the model does what `rb_erase` does with the stale
pointers. Under the mapping *running = current_task, queue = in-order walk of
the tree (behind the task the boot context has picked), ready = tasks in state
S_TASK_RUNNABLE that are linked*, the scheduler implements `RoundRobin`.

## 3. Runs

| Run | Checks | Bounds, and why they are enough |
|---|---|---|
| `pmm` | `BitmapExact`, `HeldDisjoint`, `HeldInRam`, `SinglePageServed`, refinement of `FrameAllocator` | six memory maps of up to 19 pages of 2 bytes: RAM at 0, holes, unaligned ends, bitmap in a later region, no room for it; blocks up to 3 pages; uACPI frees page 1, which is RAM, reserved or the bitmap's own, depending on the map, and page 30, which is above all RAM. All of it is also proved for all maps. |
| `slab` | `ObjectsConserved`, `InuseExact`, `PartialExact`, `FailsOnlyWhenExhausted` | calls do not overlap; three slabs, so that one is the CPU's while the partial list has two |
| `slab_preempt` (violation) | `RefillAssert` | two threads, preemption anywhere |
| `kmalloc` | `SmallestClass`, `BlockFits`, `SearchEnds` | the kernel's own 26 classes and page size; every request up to 8300 bytes next to a multiple of 16 or 8 |
| `vm_map` | `AreasOrdered`, `MappedInAreas`, `FramesConserved`, `RegionsExact` | four pages, requests of 1 and 2.5 pages, two frames, a firmware table that may straddle two pages; in the kernel's space the identity map has the first page of that table, a frame of usable memory, and two pages of a huge entry; in the other space nothing: areas touch, are cut, split and swallowed, frames and objects run out |
| `pmap` | `TablesConserved`, `KernelShared`, `MapsExactly` | tables of 4 entries (256 pages; huge pages of 4 and 16), three memory maps, 17 table frames: they run out in the middle of a walk; single pages, in both spaces, at one address inside what the identity map covers (under a huge page with two of the maps) and one behind it |
| `console` | `ScreenShowsText`, `FollowsOutput`, `DecoderInStep`, `KeyboardDrains` | a screen of 2 by 2, a ring of 3 lines, 5 lines printed of two messages: lines too long, corrected and overwritten, the ring comes round, views too far back; keys pressed at any time without bound |
| `run_queue` | `InOrder`, `CacheExact`, `RedBlack`, `Traversal` | every tree of up to 11 tasks and three keys: large enough that rebalancing after an insertion and after an erasure climbs more than one level |
| `scheduler` | `RunnableQueued`, `RunningFlagExact`, `ZombiesStayOut`, refinement of `RoundRobin`, `EveryoneRuns` | four tasks that do not end, or the two tasks `bsp` creates with both ways to end; slices of 2 ticks (10 in the kernel; the length only scales time), a tick between any two steps, also of the first `schedule()` and its switch |
| `sched_exit` (violation) | `RunnableQueued` | three tasks that fault |
| `printk` | `DigitsSurvive`, `FieldsStandard`, `BufferHoldsText`, `LogConserved`, `PrintkReturns` | every directive with up to two flags, five widths, five precisions and the length modifiers, on values at the limits of integers of 2 to 7 bits; pairs of directives; conversion buffer 6, message buffer 6, chunk 3, ring 16 bytes, so that all four overflow; two printks and one printing tick anywhere in them |
| `apic` | `MadtRecorded`, `TimerPeriod`, `PercpuReady` | every table of up to four of eight kinds of entries, whole or cut, with room for 2 CPUs, 1 I/O APIC, 2 overrides: each limit is passed; a PIT of period 6 read after 1 to 3 ticks, so that it wraps during a sleep of 5 |

What they show. All passing runs are exhaustive. Among the results that are not
obvious from the code: every vruntime that `schedule` increments is overwritten
by `add_runq` with the smallest in the queue, and equal keys go right, so the
"fair" tree is exactly a round-robin queue: nobody is overtaken and nobody
starves. A tick in `sched_run_bsp` does no harm before the boot context's first
`schedule()`. Inside it, one that ends a slice may. Between `next_runq`'s reading of the leftmost
task and its removal it dispatches that task, and when the idle task comes back it erases
a task from the tree that is not in it and switches to it although it was preempted, or
has ended; between the flags, the stacks and `current_task` it finds idle still current: idle gets
the CPU back, finishes its switch, and keeps `TASK_RUNNING`, or a saved stack pointer into
the other task's stack, on which it would go on when it is dispatched next. After the removal the queue itself is not disturbed: the task
already picked is switched to when the idle task comes back. A tick that ends a slice inside `task_wake`'s insertion does:
`rb_insert_color` or the cached leftmost node meet a tree that changed under them, a
runnable task is lost or a NULL pointer followed, and the properties exempt exactly
those behaviours (dropping the exemption makes `EveryoneRuns` fail). The stale erase
of `task_exit` is harmless with the two tasks of today's boot (`scheduler`) and
loses a task with three (`sched_exit`). A timer that prints in the middle of a
`printk` loses and repeats nothing unless it comes between the two halves of an update
of the ring; then the whole ring may be printed again, but `printk` still returns.
`pmm_alloc_page`'s wrap-around makes up for skipped pages; `pmm_alloc_pages`
has none and reports exhaustion with a free run below `cached_index`. Scrolling
under a printing thread spoils at most the glyph being drawn or the rest of one row of a
redraw, and the next redraw repairs it. A free that uACPI makes of a frame it does not
hold has no effect on the accounting of any other; a byte that arrives in the middle of `init_keyboard` is not
lost and does not put the decoder out of step.

### Fairness
`SchedFairSpec` assumes that the boot code goes on as long as it has the CPU (it ends, or a
tick takes the CPU from it), that a `task_wake` that gets the CPU
again and again moves on (strong fairness: each step of it is a few instructions of a
task that has just been switched to), and that the timer, which `lapic_timer_start` programs as periodic, is delivered again and
again while interrupts are on. The latter is weak fairness of
`lapic_timer_handler`; it is written out as *infinitely often disabled or
infinitely often taken*, with `TickEnabled` for what `ENABLED` amounts to, because
TLC would otherwise evaluate the tree operations in every state to find out.
Nothing is assumed about tasks: a user program need not do anything.
`KmallocFairSpec` assumes that a loop that has begun goes on. `Console!FairConsoleSpec`
assumes that the boot thread goes on and that a pending, unmasked interrupt is
delivered (interrupts are on from `_load_idt` on); `MaxRow` bounds what is printed,
as the boot sequence does. Nothing is assumed of whoever types. `Printk!FairSpec`
assumes that a thread inside `printk` goes on. `Printk` and `Apic` stop when their
bounds are reached or boot is over, so their runs do not check for deadlock.

### Findings
Carried by a run each: `_refill` under preemption fails its own assertion
(`slab_preempt`); `task_exit` erases a task that is not in the tree (`sched_exit`).

Met while modelling, in the models, and exempted by name from a property:

* `vm_map_free_region` drops the second half of an area it has no object to split
  for, but not that half's pages (`mm/vm/vm_map.c:219`); they stay mapped until the
  range is used again, and their frames are lost with the table;
* `vm_fault_handler` loses the frame when `pmap_map_page` fails (`mm/vm/vm_map.c:271`);
* `uacpi_kernel_unmap` hands frames of firmware tables to the physical manager
  (`firmware/acpi.c:41`), which lends them, and clears entries of the identity map that
  lie in its range;
* `task_wake` inserts into the tree with interrupts on (`sched/task.c:43`), and the boot
  context's `schedule()` reads the leftmost task and removes it with interrupts on
  (`sched/runq.c:96`), and switches with interrupts on (`sched/scheduler.c:39`,
  `arch/x86_64/sched/switch.asm:16`);
* a scroll in the middle of a row that `tty_redraw` draws leaves the rest of that row
  (`drivers/tty/tty.c:46`);
* `printk` copies as many characters as the text has, although its buffer holds 256
  (`kernel/lib/printk/printk.c:24`; `kprintf.h:83` says what the larger value means),
  and the register dump of `isr.c:78` is longer;
* the bound of `parse_iso` admits one override too many, which overwrites the count
  (`arch/x86_64/pic/apic/apic.c:79`);
* `pit_sleep` counts one tick too many each time the counter wraps (it cannot wrap in
  the 10 ms it is called for); without a MADT or without CPUs in it the GS base is 0 and
  nothing says so;
* `vsnprintf`: `-` switches a number's precision off, a negative `.*` counts as 0, `#`
  with a width may overwrite digits, and numbers longer than 32 characters (`%b` of
  large values) lose their front; no format of the kernel's does any of this.

Recorded here only: `ktask_execve` decrements `preempt_count` once too often
(`arch/x86_64/sched/task.c:108`; the counter wraps, nothing reads it); `sched.vruntime`,
documented as total runtime (`sched/task.h:31`), is reset by every `add_runq`;
`map_user_vm_area_code_and_stack` builds an unsorted area list, on which
`vm_map_allocate` would refuse requests that fit (no caller does so yet);
`pmap_map_range` returns 0 or the part it mapped where `mm/pmap/pmap.h:48` says -1,
and its callers in `init_pmap` ignore it, so that a region that begins in a page a
huge page already covers is left unmapped; `map_2m` overwrites a table if a region
that covers a whole 2 MiB block begins in the page that the region before it ends in
(`arch/x86_64/mm/pmap/pmap.c:204`; excluded by `RangesAssumption`); `pmap_map_mmio` on such a page leaves
it cached; `pmm_alloc_pages` does not wrap; after a Page-Up, Page-Down stops one
line above the one being written (`drivers/tty/tty.c:74`), scrolling further
back than the ring shows newer lines in place of older ones, and a screen wider than
256 columns would run out of its line (`drivers/tty/tty.c:62`).

## 4. Proofs

All proofs are checked by TLAPS with Z3, Zenon and LS4. Each safety property and
each action property of `PMM`, `Kmalloc`, `Slab`, `VmMap`, `Pmap`, `Apic`, `Console` and
`Printk` that a run checks is a theorem, for every value of the constants that satisfies
the assumptions named here, and so are two of the run queue's and one of the scheduler's.

**Induction.** The library's induction theorems take a predicate, which the
provers cannot instantiate. `SmallestElement` (a non-empty set of naturals has a
least element) follows from the well-foundedness of `<` and is about a set, so it can
be used; `InductionUpTo` and `Recursion` follow from it, and from these what a fold over a
sequence preserves. The proofs about lists,
about sequences that are built step by step, and about recursive functions rest on
these three lemmas.

**PMM_proofs.** `TypeCorrect`, `BitmapIsExact`, `BlocksAreDisjoint`,
`SinglePageIsServed` and `ImplementsFrameAllocator`, for every page size, set of
memory maps and block length (`PageSizeAssumption`, `MemMapsAssumption`,
`MaxCountAssumption`). The inductive invariant is the conjunction of the four
properties, a description of the state before boot, and the types: exactness
alone is not inductive, since freeing a block clears its bits and would clear
another owner's if blocks could overlap; disjointness in turn needs exactness,
because a block is taken from clear bits. All of it is about the pages that are not
`stray`: what uACPI frees may have had any owner, and `FirmwareAssumption` says no more of
it than that page 0 is not among it, which is why page 0 is never lent. The refinement proof maps each action
to an action of `FrameAllocator` with the same `held` and `ret`; it needs
exactness to turn "bit clear" into "frame free". `HeldIsRam` adds that what is lent and not stray
is RAM and not the bitmap's own storage. It needs `UsableDisjoint`, which the boot
protocol promises: the code compares the addresses of pages with the bitmap's, so a
page that begins below a bitmap stored at an unaligned base would be lent if another
usable region covered it.

**Heap_proofs, kmalloc.** `SearchIsCorrect`: for every strictly increasing table the
search ends in the smallest class that fits, or in none. The loop invariant says
that every class left of `left` is too small, every class right of `right` is
large enough, and `result` is `right + 1` or -1 when nothing was found. `BlocksFit`:
the block is aligned, long enough and in its pages. It needs `AlignedTable`: a class
whose size is no multiple of 16 must not be the smallest that fits a rounded request,
which is true of the kernel's table (TLC evaluates it).

**Heap_proofs, slab.** `ObjectsAreConserved`, `InuseIsExact`, `PartialIsExact`,
`FailsOnlyExhausted`, `RefillAssertHolds`, for every finite set of slabs and every
number of objects in one, as long as calls do not overlap (`Preemptible = FALSE`:
with preemption the run `slab_preempt` refutes the last).
`IsList(next, head, S)` says that the cells reached from `head` are those of `S`,
each once, and that the list ends; the lemmas on pushing, popping and on changing
cells elsewhere are what every step needs. The invariant gives each free list its set:
the CPU's list and the lists of the slabs partition the objects that are not live,
`inuse` counts the live ones, the partial list is the list of the slabs that
have free objects and are not the CPU's, and at most one call is under way, with what
it has read still true.

**VmMap_proofs.** `AreasStayOrdered`, `MappedOnlyInAreas`, `FramesAreConserved`
and the action property `RegionsAreExact`, for every page size, every set of
frames and every identity map, also one that maps free frames, firmware's or the same one
twice (`VmAssumption`: firmware frames are not usable memory; no entry of the identity map
is assumed to be anything). `Ordered` compares
every two areas, not neighbours only, which is what survives cutting one out of the
middle. That `vm_map_free_region` leaves an ordered list is a lemma about putting
together pieces of the areas; that `vm_map_allocate` finds the first place is one
about its candidate: no lower one was free. `FrameInv` says that a frame of usable
memory that was not freed through the identity map is free, lost, or in the page table at
one address outside that map.

**Cpu_proofs, APIC.** `TimerPeriodHolds`, `MadtIsRecorded`, `PercpuIsReady`, for tables
of any length. `SleepInv` relates the ticks counted to those that went by and
to the wraps seen; it needs `GapsAssumption`, that two reads are less than a period
(55 ms) apart. `MadtInv` says that what has been recorded is what the reference
`Kept` finds among the entries before the current one, and that the position is the
`Offset` of that entry; both references are recursive functions, and that they exist
is `Recursion`. `ApicAssumption` types the table's fields.

**Pmap_proofs.** `TablesAreConserved`, `KernelIsShared` and the action property
`MapsAreExact`, for tables of any even number of entries, any number of frames and
address spaces, and every memory map (`PmapAssumption`, `RangesAssumption`). The
invariant (`PmapInvHolds`) has a ghost that says of every table its level, the
space it belongs to and the first page it covers. `Tree` says that each table is a
root or hangs at exactly one entry of a table one level above, whose index is the one
that its first page has there, and that the upper half of every root is a copy of
the kernel's. What a walk reaches then follows from the address alone (`Walk`,
`Paths`), so that two addresses share an entry only if they are in one block
(`SameBlock`), and an entry that is written changes the translations of its block and
no others (`PutTranslates`); an empty table that is hung in changes none
(`AllocKeeps`), and that is all a failed walk leaves behind. The difficulty is huge pages:
`map_2m` and `map_1g` write their entry without looking at what is there, and would
lose the table below it. `FreshInv` says why that does not happen: while `init_pmap`
may still enter huge pages, every table covers a page of a range mapped before, and
ranges do not reach into blocks that a later range covers whole. The latter is
`RangesAssumption`. It is true of memory maps whose regions are disjoint and aligned; two
regions that share a page satisfy it too, unless that page begins a 2 MiB block which the
second region covers: then the table with the first region's last page is overwritten
and its frame lost. Boot loaders need not align reserved regions, so this
is possible, if unlikely.

**Output_proofs, console.** `DecoderStaysInStep`, `OutputIsFollowed`, `ScreenIsRight`, for every
size of the screen and of the ring of lines, all messages and all scancodes
(`SizeAssumption`; `MessagesAssumption`: no NUL inside a message; `KeysAssumption`: no
scancode ends with 0xE0). The decoder's invariant has to speak about bytes that have not
arrived: once 0xE0 has been taken, the second byte is in the port or still coming. The
terminal's (`TermInv`) has three parts. `RingInv`: the ring holds the last lines of the
text, and the lines behind the last are empty until it comes round. `ViewInv`: a view
other than the first has no line behind the last one in it, also when the newline that
moves it has read `view_row` and not written it back. `ScreenInv`: outside the cell
being drawn, what a redraw has not come to, and the torn cells, the screen is the text from
`view_row` on; and a glyph or a row that was read under an older view is torn as far as it is
still to be drawn. Each stage of `tty_putchar` and each scroll between stages
preserves it; a whole message is a fold over its characters.

**Output_proofs, log.** `LogIsConserved`, for every ring, chunk size and set of texts
(`LogAssumption`). The invariant is about a stream: what was handed to the terminal, what
a `tty_flush` holds in its chunk, what lies in the ring and what an interrupted `printk` has
still to copy. Without a tick that stream is exactly what was printed (`Ordered`); a
tick inserts its text somewhere in it, so that the counts of characters still add up
(`Counted`). `Space` says that the ring never fills, which needs `RoomAssumption`: it must
hold two interrupted printks, the boot context's and `bsp`'s, and the timer's; with 8192
bytes and messages of about 256 it does. The theorem is about behaviours without `hit`.

**Cpu_proofs, round robin.** `TypeCorrect`, `EveryTaskHasOnePlace`,
`NobodyIsOvertaken`, for every set of tasks that does not contain the idle task.
The invariant is the type with `OnePlace`; a task that is woken is not ready and
so by `OnePlace` is neither queued nor running, which keeps positions distinct.
Through the refinement these hold of the scheduler on the instances TLC checks.

**RBTree_proofs and Cpu_proofs, run queue.** `RunQueueInOrder`, `RunQueueCacheExact` and
`RunQueueRedBlack`, for any number of tasks, any vruntimes and any sequence of
operations (`NodesAssumption`: the counter `num_threads` is wide enough;
`KeysAssumption`; `LoopAssumption`: NULL, which ends a loop, is not also the state of one).
A tree is described without recursion: its members are numbered
`1 .. n` in order, and each has an interval `lo .. hi` of numbers below it, which its
children's intervals and its own number make up (`Below`). A rotation changes two
intervals, recolouring none, so the rebalancing loops keep the order whatever the colours
are (`RotateTree`, `InsertTree`, `EraseColorTree`). Linking a new member shifts the
numbers behind it (`Shifted`), unlinking closes the gap (`Closed`); an erased member with
two children gives its place to the next one (`InnerTree`). Descending compares the
vruntime with that of one member after the other and ends at the one free place for it
(`PlaceIs`), `rb_next` leads from number `i` to `i + 1`, and a walk meets the numbers in
order (`WalkAll`). The inductive invariant `Sound` adds that vruntimes grow with the
numbers, that `rb_leftmost` has number 1, and that the counter is `n`. A loop of the code ends
after at most as many turns as there are nodes because each turn makes an interval smaller
(`LoopEnds`).

That the tree is red-black is not inductive inside an operation, and "every path has
the same number of black nodes" speaks about all paths. So each node is given a count,
the black nodes on the way down from it, and a tree is `Counted` if at each node both
children agree with it; `HeightIs` leads back to the recursive definition the run checks.
The two loops each have their own exception: in `rb_insert_color` one red node may
have a red parent (`RedAt`), in `____rb_erase_color` there is one black node too few below
one node (`ShortAt`). Every case of a loop's body either ends with a `Counted` tree or
moves the exception up, as recolouring does or, when the sibling is red, the rotation that
makes a case with a black one of it. `InsertedCounts` and `ErasedCounts` put this together
with linking and unlinking, also where an erased member with two children leaves its colour
to the next one. That no NULL pointer is followed comes out of the same lemmas.

**Cpu_proofs, scheduler.** `RunningFlagIsExact`, for every finite set of tasks and all
programs they may run, `task_exit`'s stale erase included: whatever the tree looks like,
its operations only ever return nodes or `NULL` (`LoopTyped`, then one typing lemma per
operation of the tree and the queue), and `SchedInv` says who may have the flag
at each point where the boot context's `schedule()` and switch can be cut: the current
task, the one picked, and idle if a tick came in between.

Only model-checked: liveness (`EveryoneRuns`, `SearchEnds`, `KeyboardDrains`,
`PrintkReturns`), which is out of the prover's reach; the traversals of the
tree (`Traversal`; of them `rb_next` is proved right, as a lemma); of the scheduler `RunnableQueued`, `ZombiesStayOut` and
the refinement of `RoundRobin` (which are false for casts in which `task_exit` damages the
tree, as `sched_exit` shows); and formatting (`DigitsSurvive`,
`FieldsStandard`, `BufferHoldsText`), whose definitions are `RECURSIVE` operators, which
the provers cannot reason with.

## 5. Not modelled

Device programming (I/O APIC, UART, the PIC beyond one line's mask and end of
interrupt, the local APIC's other registers, pixels of the framebuffer) is register
I/O, and setting up the descriptor tables is straight-line code; `init_pit` has no
caller. The floating conversions of `kprintf` are not compiled, and its other entry
points have no caller. `list.h` is not used; the libc string functions are byte loops;
most of `rbtree.h` and `rbtree_augmented.h` (replacement, cached and augmented
variants) has no caller; uACPI itself is an external library, and most of its glue
is empty. The exception path prints and halts, so nothing follows it. Failures of
`kmalloc` and `pmm_alloc_pages` inside `ktask_spawn`, which the code does not test,
would write to memory that no model has. The physical manager's calls do not overlap
in `PMM`; that two threads may be inside it at once is a hazard without a property, of
the kind `slab_preempt` shows. The rebalancing of the tree, `ktask_execve` and the exit
of a kernel thread are single steps in `Scheduler`; what runs after a zombie was switched
to, or idle on a stack that is not its own, is left open there. User address spaces are made
by `ktask_execve` without `vm_map_allocate`; `VmMap` has one space at a time.

## 6. Plan

1. Done: physical memory, slab, kmalloc, address spaces with uACPI, page tables, tree,
   run queue, scheduler with the races of boot and wake-up, console, formatting and
   log, APIC; abstract specifications of the first and of the scheduler; first proofs.
2. Done: proofs of all safety and action properties of physical memory, slab,
   kmalloc, address spaces, page tables, APIC, console and log; the tree as an ordered
   set and as a red-black tree, and on it the order, the cache and the balance of the
   run queue.
3. Proofs: the traversals of the tree, and the scheduler's refinement of `RoundRobin` for
   tasks that do not end.
4. If the kernel grows: a second CPU, user address spaces that are changed after
   `ktask_execve`, what `preempt_count` would have to guard.
