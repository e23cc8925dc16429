------------------------------- MODULE Printk -------------------------------
(***************************************************************************)
(* The kernel log (kernel/lib/printk/printk.c) and tty_flush: printk       *)
(* formats into a buffer on its stack, copies that into a ring, and empties *)
(* the ring to the terminal.  No lock protects the ring.                   *)
(*                                                                         *)
(* Before the timer is started, and in a system call, nothing that prints  *)
(* can interrupt a printk: it is one step.  Once the timer runs, its       *)
(* handler prints now and then, in one step (interrupts are off), and may  *)
(* hit a thread in the middle of a printk: that one is cut at its accesses *)
(* to the ring.  The tick may also switch from the boot context to the     *)
(* bsp task for good, whose printk then meets the ring as it was left.     *)
(*                                                                         *)
(* What vsnprintf makes of a format and its arguments is a parameter here; *)
(* PrintkFormat gives it the value that Kprintf computes.                  *)
(***************************************************************************)
EXTENDS Integers, Sequences, SequencesExt, FiniteSets

CONSTANTS
  PRINTK_BUF_SIZE,  \* bytes in the ring
  CHUNK_SIZE,       \* bytes in tty_flush's buffer
  Programs,         \* what may be printed where nothing interferes
  Messages,         \* what a thread prints with the timer on
  TickMessage,      \* what the timer's handler prints
  Formatted(_),     \* what vsnprintf makes of each of them: all the characters of
                    \* the text, and the bytes from printk's temp on
  Starts,           \* bound: where the positions of the empty ring may be at first
  MaxPrints,        \* bound: printks of a thread
  MaxTicks          \* bound: ticks that print

\* The value that vsnprintf returns
TextLen(p) == Len(Formatted(p).text)

ASSUME LogAssumption ==
  /\ {PRINTK_BUF_SIZE, CHUNK_SIZE} \subseteq Nat \ {0}
  /\ Starts \subseteq 0 .. PRINTK_BUF_SIZE - 1
  /\ MaxPrints \in Nat /\ MaxTicks \in Nat
  /\ \A p \in Programs \union Messages \union {TickMessage} : TextLen(p) \in Nat

\* The ring (8192 bytes) holds what two interrupted printks (of some 256 bytes)
\* and the timer's handler put into it.
ASSUME RoomAssumption ==
  /\ \A p \in Programs : TextLen(p) < PRINTK_BUF_SIZE
  /\ \E n \in 0 .. PRINTK_BUF_SIZE :
       (\A p \in Messages : TextLen(p) <= n) /\ 2 * n + TextLen(TickMessage) < PRINTK_BUF_SIZE

VARIABLES
  ring,    \* [buf, head, tail, out]: string_buffer, log_head, log_tail and, a
           \* ghost, the characters handed to tty_putchar so far
  call,    \* the thread's printk: where it is and its local variables
  timer,   \* "off", "on" in the boot context, "bsp" once the bsp task has the CPU
  ticks,   \* ticks that have printed
  prints,  \* printks of threads
  printed, \* ghost: what they have copied or will copy
  result,  \* ghost: the last call of vsnprintf
  dropped, \* ghost: the characters the boot context held when it lost the CPU
  hit      \* ghost: a tick came between two accesses to the ring that belong
           \* together

vars == <<ring, call, timer, ticks, prints, printed, result, dropped, hit>>

NoCall == [pc |-> "none"]

Inc(i) == (i + 1) % PRINTK_BUF_SIZE

\* The characters printk copies: as many as vsnprintf says the text has, also
\* from behind the end of temp
Copied(v) == [i \in 1 .. Len(v.text) |-> v.buffer[i - 1]]

-----------------------------------------------------------------------------
(* The ring, operation by operation *)

Room(r, next) == IF next = r.tail THEN [r EXCEPT !.tail = Inc(@)] ELSE r

\* A pass through printk's loop
PutChar(r, c) ==
  LET next == Inc(r.head)
  IN [Room(r, next) EXCEPT !.buf[r.head] = c, !.head = next]

\* What is in the ring
Used(r) == IF r.tail <= r.head THEN r.head - r.tail ELSE r.head + PRINTK_BUF_SIZE - r.tail
Pending(r) == [i \in 1 .. Used(r) |-> r.buf[(r.tail + i - 1) % PRINTK_BUF_SIZE]]

\* tty_flush: chunk after chunk, until the ring is empty
Drain(r) == [r EXCEPT !.out = @ \o Pending(r), !.tail = r.head]

PrintkWhole(r, v) ==
  IF v.text = <<>> THEN r ELSE Drain(FoldLeft(PutChar, r, Copied(v)))

-----------------------------------------------------------------------------
Init ==
  /\ \E start \in Starts :
       ring = [buf |-> [i \in 0 .. PRINTK_BUF_SIZE - 1 |-> "NUL"], head |-> start, tail |-> start, out |-> <<>>]
  /\ call = NoCall /\ timer = "off" /\ ticks = 0
  /\ prints = 0 /\ printed = <<>> /\ result = [prog |-> <<>>]
  /\ dropped = <<>> /\ hit = FALSE

Record(p, v) ==
  prints' = prints + 1 /\ printed' = printed \o Copied(v) /\ result' = [prog |-> p, v |-> v]

\* printk where no other printk can come in between
printk_alone ==
  /\ timer = "off" /\ prints = 0
  /\ \E p \in Programs : \E v \in {Formatted(p)} : Record(p, v) /\ ring' = PrintkWhole(ring, v)
  /\ UNCHANGED <<call, timer, ticks, dropped, hit>>

\* lapic_timer_start
local_timer_start ==
  /\ timer = "off" /\ prints = 0 /\ timer' = "on"
  /\ UNCHANGED <<ring, call, ticks, prints, printed, result, dropped, hit>>

(* A thread's printk, step by step *)

printk(p) ==
  /\ timer # "off" /\ call = NoCall /\ prints < MaxPrints
  /\ \E v \in {Formatted(p)} :
       /\ Record(p, v)
       /\ call' = IF v.text = <<>> THEN NoCall ELSE [pc |-> "next", todo |-> Copied(v)]
  /\ UNCHANGED <<ring, timer, ticks, dropped, hit>>

At(pc) == call.pc = pc /\ UNCHANGED <<timer, ticks, prints, printed, result, dropped, hit>>

\* next = (log_head + 1) % PRINTK_BUF_SIZE, or the end of the loop
put_next ==
  /\ At("next") /\ UNCHANGED ring
  /\ call' = IF call.todo = <<>> THEN [pc |-> "test", chunk |-> <<>>]
             ELSE [pc |-> "room", todo |-> call.todo, next |-> Inc(ring.head), at |-> ring.head]

put_room ==
  /\ At("room")
  /\ ring' = Room(ring, call.next)
  /\ call' = [call EXCEPT !.pc = "store"]

\* The position is read again, or the compiler has kept it from put_next.
put_store ==
  /\ At("store")
  /\ \E i \in {ring.head, call.at} : ring' = [ring EXCEPT !.buf[i] = Head(call.todo), !.head = call.next]
  /\ call' = [pc |-> "next", todo |-> Tail(call.todo)]

\* Mutant: an empty chunk does not end tty_flush.
read_test_NoEnd ==
  /\ At("test") /\ UNCHANGED ring
  /\ call' = IF Len(call.chunk) < CHUNK_SIZE /\ ring.tail # ring.head THEN [call EXCEPT !.pc = "read"]
             ELSE IF call.chunk = <<>> THEN call
             ELSE [call EXCEPT !.pc = "write"]

\* The test of printk_read_buf's loop.  An empty chunk ends tty_flush.
read_test ==
  /\ At("test") /\ UNCHANGED ring
  /\ call' = IF Len(call.chunk) < CHUNK_SIZE /\ ring.tail # ring.head THEN [call EXCEPT !.pc = "read"]
             ELSE IF call.chunk = <<>> THEN NoCall
             ELSE [call EXCEPT !.pc = "write"]

\* Mutant: the position moves on before the character is read.
read_char_AdvanceFirst ==
  /\ At("read")
  /\ call' = [pc |-> "test", chunk |-> Append(call.chunk, ring.buf[Inc(ring.tail)])]
  /\ ring' = [ring EXCEPT !.tail = Inc(@)]

read_char ==
  /\ At("read")
  /\ call' = [pc |-> "test", chunk |-> Append(call.chunk, ring.buf[ring.tail])]
  /\ ring' = [ring EXCEPT !.tail = Inc(@)]

\* tty_write, a character at a time
write_char ==
  /\ At("write")
  /\ ring' = [ring EXCEPT !.out = Append(@, Head(call.chunk))]
  /\ call' = [call EXCEPT !.chunk = Tail(@), !.pc = IF Len(call.chunk) = 1 THEN "test" ELSE "write"]

Thread == put_next \/ put_room \/ put_store \/ read_test \/ read_char \/ write_char

\* The thread has read a position of the ring and not used it yet.
InWindow == call.pc \in {"room", "store", "read"}

\* Every thousandth tick
lapic_timer_printk ==
  /\ timer # "off" /\ ticks < MaxTicks /\ ticks' = ticks + 1
  /\ ring' = PrintkWhole(ring, Formatted(TickMessage))
  /\ hit' = (hit \/ InWindow)
  /\ UNCHANGED <<call, timer, prints, printed, result, dropped>>

\* What the thread has taken from its message or from the ring and not passed on
Held == CASE call.pc \in {"next", "room", "store"} -> call.todo
          [] call.pc \in {"test", "read", "write"} -> call.chunk
          [] OTHER -> <<>>

\* The tick switches to the bsp task.  The boot context is the idle task's: it
\* would run again only if no task were runnable.
schedule_bsp ==
  /\ timer = "on" /\ timer' = "bsp"
  /\ call' = NoCall /\ dropped' = Held
  /\ UNCHANGED <<ring, ticks, prints, printed, result, hit>>

Next ==
  \/ printk_alone
  \/ local_timer_start
  \/ \E p \in Messages : printk(p)
  \/ Thread
  \/ lapic_timer_printk
  \/ schedule_bsp

Spec == Init /\ [][Next]_vars

\* The thread goes on: its printk is never given up.
FairSpec == Spec /\ WF_vars(Thread)
-----------------------------------------------------------------------------
(* Properties *)

\* How often c occurs in s
Count(s, c) == Cardinality({i \in DOMAIN s : s[i] = c})

\* Between two printks every character that printk copied has been handed to
\* the terminal exactly once, except the ones that the boot context held when
\* it lost the CPU and those that wait in the ring: a tick that prints in the
\* middle of a printk loses and repeats nothing as long as it does not come
\* between two accesses to the ring that belong together.  Undisturbed output
\* is in order.  (printk, printk_read_buf, tty_flush)
LogConserved ==
  call = NoCall /\ ~hit =>
    LET all == printed
        tick == Copied(Formatted(TickMessage))
    IN /\ \A c \in ToSet(all) \union ToSet(tick) \union ToSet(ring.out) :
            Count(ring.out, c) + Count(Pending(ring), c) + Count(dropped, c)
              = Count(all, c) + ticks * Count(tick, c)
       /\ ticks = 0 /\ dropped = <<>> => ring.out \o Pending(ring) = all

\* A printk returns, even if a tick has set log_head back behind log_tail and
\* tty_flush goes round the ring (the loop of tty_flush).
PrintkReturns == (call # NoCall) ~> (call = NoCall)
=============================================================================
