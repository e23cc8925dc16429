------------------------------ MODULE Console ------------------------------
(***************************************************************************)
(* The console: the terminal, written by printk, and the PS/2 keyboard,    *)
(* whose Page-Up and Page-Down keys scroll it from an interrupt handler.   *)
(*                                                                         *)
(* During boot the kernel's one thread prints with interrupts on, so the   *)
(* keyboard's handler may run between any two stages of tty_putchar.       *)
(* Later the system call prints, from an interrupt gate.  What a print by  *)
(* the timer's handler does to one that it interrupts is in Printk.        *)
(***************************************************************************)
EXTENDS Terminal

CONSTANTS
  ConsoleMessages,  \* what may be printed: sequences of characters with one newline
  Keys,             \* what the keyboard may send: sequences of scancode bytes
  MaxRow            \* bound: the last line printed

NoByte == "none"

\* The text of a message holds no zero byte.
ASSUME MessagesAssumption ==
  \A m \in ConsoleMessages : m \in Seq(ToSet(m)) /\ NUL \notin ToSet(m)

\* 0xE0 announces another byte: no scancode ends with it.
ASSUME KeysAssumption ==
  \A k \in Keys : k \in Seq(ToSet(k)) /\ NoByte \notin ToSet(k) /\ k # <<>> /\ k[Len(k)] # "E0"

VARIABLES
  term,          \* the terminal
  log,           \* string_buffer from log_tail to log_head
  phase,         \* how far kmain has come
  masked,        \* the PIC masks line 1
  in_service,    \* the PIC waits for the end of interrupt of line 1
  handler,       \* interrupt_handlers[33] is set
  obuf,          \* the byte in the keyboard controller's output buffer
  coming,        \* the rest of the keyboard's current scancode
  extended_key,  \* the last byte was 0xE0
  scrolled       \* ghost: a Page-Up has moved the view

boot == <<phase, masked, handler>>
keys == <<coming, scrolled, extended_key>>
console_vars == <<term, log, boot, in_service, obuf, keys>>

\* kmain after tty_init.  Interrupts are off; the firmware's mask is unknown.
ConsoleInit ==
  /\ term = tty_init /\ log = <<>>
  /\ phase = "tty" /\ masked \in BOOLEAN /\ handler = FALSE /\ in_service = FALSE
  /\ obuf = NoByte /\ coming = <<>> /\ extended_key = FALSE /\ scrolled = FALSE

-----------------------------------------------------------------------------
(* The keyboard.                                                           *)

\* A key pressed or released.  The keyboard holds one scancode: what happens
\* before that one is sent is lost.
KeyPress ==
  /\ coming' \in IF coming = <<>> THEN Keys ELSE {coming}
  /\ UNCHANGED <<term, log, boot, in_service, obuf, scrolled, extended_key>>

\* The controller takes the next byte when its output buffer is empty.
SendByte ==
  /\ obuf = NoByte /\ coming # <<>>
  /\ obuf' = Head(coming) /\ coming' = Tail(coming)
  /\ UNCHANGED <<term, log, boot, in_service, scrolled, extended_key>>

-----------------------------------------------------------------------------
(* The boot thread.  It prints between any two of its other steps.         *)

Free == log = <<>> /\ term.todo = NoStage

pic_remap == masked' = TRUE             \* every line, as its last step
pic_mask_all == masked' = TRUE
pic_irq_clear_mask == masked' = FALSE
register_interrupt_handler == handler' = TRUE

Step(from, to) ==
  /\ phase = from /\ Free /\ phase' = to
  /\ UNCHANGED <<term, log, in_service, keys>>

\* _load_idt enables interrupts.
init_idt == Step("tty", "idt") /\ pic_remap /\ UNCHANGED <<handler, obuf>>

init_apic == Step("idt", "apic") /\ pic_mask_all /\ UNCHANGED <<handler, obuf>>

\* init_keyboard, in three steps.
keyboard_register == Step("apic", "drain") /\ register_interrupt_handler /\ UNCHANGED <<masked, obuf>>

\* One iteration of the loop that empties the controller, and its end.
keyboard_drain ==
  /\ Step("drain", IF obuf = NoByte THEN "drained" ELSE "drain")
  /\ obuf' = NoByte
  /\ UNCHANGED <<masked, handler>>

keyboard_unmask == Step("drained", "kernel") /\ pic_irq_clear_mask /\ UNCHANGED <<handler, obuf>>

\* bsp registers the system call and becomes the first user task.
start_user == Step("kernel", "user") /\ UNCHANGED <<masked, handler, obuf>>

Boot == init_idt \/ init_apic \/ keyboard_register \/ keyboard_drain \/ keyboard_unmask \/ start_user

\* printk puts the whole message into the ring, which holds more than the
\* longest one, and tty_flush takes it out again.
printk_message(msg) ==
  /\ phase # "user" /\ Free /\ term.row < MaxRow
  /\ log' = msg
  /\ UNCHANGED <<term, boot, in_service, obuf, keys>>

tty_flush ==
  /\ \/ /\ term.todo = NoStage /\ log # <<>>
        /\ term' = Begin(term, Head(log)) /\ log' = Tail(log)
     \/ /\ term.todo # NoStage
        /\ term' = Interruptible(term) /\ UNCHANGED log
  /\ UNCHANGED <<boot, in_service, obuf, keys>>

-----------------------------------------------------------------------------
(* Interrupts.                                                             *)

\* int 0x80 is an interrupt gate: nothing interrupts the system call.
syscall_dispatch(msg) ==
  /\ phase = "user" /\ term.row < MaxRow
  /\ term' = tty_write(term, msg)
  /\ UNCHANGED <<log, boot, in_service, obuf, keys>>

\* Mutant: only the paths that do not scroll signal the end of interrupt.
EndOfInterrupt_NotExtended(byte) == byte = "E0" \/ ~extended_key

\* pic_signal_EOI, at the end of each of the three paths
EndOfInterrupt(byte) == TRUE

\* Mutant: a key after an extended one counts as extended, too.
Extended_Sticky(byte) == byte = "E0" \/ extended_key

Extended(byte) == byte = "E0"

Scroll(byte) ==
  CASE extended_key /\ byte = "49" -> tty_scroll_up(term)
    [] extended_key /\ byte = "51" -> tty_scroll_down(term)
    [] OTHER -> term

keyboard_irq_handler ==
  /\ term' = Scroll(obuf)
  /\ extended_key' = Extended(obuf)
  /\ in_service' = ~EndOfInterrupt(obuf)
  /\ obuf' = NoByte
  /\ scrolled' = (scrolled \/ term'.view < term.view)

\* Vector 33.  Without a handler the interrupt is reported (the warning's text
\* is left out) and never ended.
interrupt_handler ==
  /\ phase # "tty" /\ obuf # NoByte /\ ~masked /\ ~in_service
  /\ IF handler THEN keyboard_irq_handler
     ELSE in_service' = TRUE /\ UNCHANGED <<term, extended_key, obuf, scrolled>>
  /\ UNCHANGED <<log, boot, coming>>

-----------------------------------------------------------------------------
ConsoleNext ==
  \/ KeyPress \/ SendByte \/ Boot \/ tty_flush \/ interrupt_handler
  \/ \E msg \in ConsoleMessages : printk_message(msg) \/ syscall_dispatch(msg)

ConsoleSpec == ConsoleInit /\ [][ConsoleNext]_console_vars

\* The boot thread runs on, and a pending interrupt is delivered.  Nothing is
\* assumed of the user: keys need not be pressed.
FairConsoleSpec ==
  ConsoleSpec /\ WF_console_vars(Boot) /\ WF_console_vars(tty_flush) /\ WF_console_vars(interrupt_handler)

-----------------------------------------------------------------------------
(* Properties.                                                             *)

\* The text that should be visible at p: that of line view_row + p[1].
Expected(p) ==
  LET line == term.view + p[1] + 1
  IN IF line \in DOMAIN term.text THEN term.text[line][p[2]] ELSE " "

\* The cell whose character is stored but not drawn yet.
BeingDrawn ==
  IF term.todo.op = "glyph" THEN {<<term.row - term.view, term.todo.x>>} ELSE {}

Wrong == {p \in Screen : term.screen[p] # Expected(p)} \ BeingDrawn

\* Unless a redraw is under way, the screen shows the text of the lines from
\* view_row on, whatever order characters, newlines, wrapping of the ring and
\* scrolling came in.  Only a scroll that hits the boot thread between reading
\* view_row and drawing what it read it for spoils what is still to be drawn, a
\* glyph or the rest of one row, and the next redraw repairs it.  (tty_putchar,
\* tty_redraw; for views less than MAX_ROWS back, older lines are overwritten.)
ScreenShowsText ==
  term.todo.op \notin {"redraw", "row", "cells"} /\ term.row - term.view < MAX_ROWS => Wrong \subseteq term.torn

\* Between messages the line being written is on the screen as long as no
\* Page-Up has moved the view (the newline branch of tty_putchar).
FollowsOutput == Free /\ ~scrolled => term.row - term.view < rows

\* When the keyboard has sent a whole scancode and the kernel has taken it, the
\* decoder expects the beginning of a scancode, also if init_keyboard threw
\* away the first byte of one (keyboard_irq_handler).
DecoderInStep == coming = <<>> /\ obuf = NoByte => ~extended_key

\* A byte in the keyboard controller is taken in the end, whenever it arrived:
\* before the interrupt was set up, in the middle of init_keyboard, or later.
KeyboardDrains == (obuf # NoByte) ~> (obuf = NoByte)
=============================================================================
