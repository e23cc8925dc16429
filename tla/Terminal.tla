------------------------------ MODULE Terminal ------------------------------
(***************************************************************************)
(* The text terminal (drivers/tty/tty.c): a ring of MAX_ROWS lines, the    *)
(* line being written, the line at the top of the screen, and the screen.  *)
(*                                                                         *)
(* Operators on a record t, for Console to use from threads and interrupt  *)
(* handlers.  tty_putchar is cut into stages, at the places where an       *)
(* interrupt that scrolls makes a difference: Begin does everything up to  *)
(* the first value read from view_row, Advance one stage of the rest, and  *)
(* Interruptible also cuts the stage that redraws the screen, at each      *)
(* reading of view_row and each glyph.  t.todo is what comes next.         *)
(***************************************************************************)
EXTENDS Integers, Sequences, SequencesExt, FiniteSets

CONSTANTS
  MAX_ROWS,   \* lines in tty_buffer
  rows, cols  \* size of the screen in characters

ASSUME SizeAssumption ==
  /\ {MAX_ROWS, rows, cols} \subseteq Nat \ {0}
  /\ rows < MAX_ROWS

NUL == "NUL"
Screen == (0 .. rows - 1) \X (0 .. cols - 1)
EmptyLine == [x \in 0 .. cols - 1 |-> NUL]
BlankLine == [x \in 0 .. cols - 1 |-> " "]
NoStage == [op |-> "none"]

\* What a cell of tty_buffer looks like: tty_redraw skips zero bytes, and
\* fb_clear has painted the background that a space has as well.
Look(c) == IF c = NUL THEN " " ELSE c

\* What tty_redraw puts on the screen when the line on top is v.
Window(t, v) == [p \in Screen |-> Look(t.buf[(v + p[1]) % MAX_ROWS][p[2]])]

tty_init ==
  [buf    |-> [y \in 0 .. MAX_ROWS - 1 |-> EmptyLine],
   row    |-> 0,
   view   |-> 0,
   cx     |-> 0,
   screen |-> [p \in Screen |-> " "],
   todo   |-> NoStage,
   text   |-> <<BlankLine>>,  \* ghost: every line written so far, never reused
   torn   |-> {}]             \* ghost: the cells for which the last scroll came too late

tty_redraw(t) == [t EXCEPT !.screen = Window(t, t.view)]

-----------------------------------------------------------------------------
(* Scrolling, from the keyboard's interrupt handler                        *)

\* The cells that what the handler interrupts draws from what it has read under
\* the old view: a glyph at the row computed for it, or the rest of a row of the
\* redraw, whose line was computed at its beginning.
InFlight(todo) ==
  CASE todo.op = "glyph" -> {<<todo.vis, todo.x>>}
    [] todo.op = "cells" -> {todo.row} \X (todo.col .. cols - 1)
    [] OTHER -> {}

ScrollTo(t, v) == tty_redraw([t EXCEPT !.view = v, !.torn = InFlight(t.todo)])

tty_scroll_down(t) == IF t.view + rows < t.row THEN ScrollTo(t, t.view + 1) ELSE t

tty_scroll_up(t) == IF t.view > 0 THEN ScrollTo(t, t.view - 1) ELSE t

-----------------------------------------------------------------------------
(* Writing.                                                                *)

\* Mutant: the line the ring comes round to keeps its old text.
NewLine_NotCleared(t) ==
  [t EXCEPT !.row = @ + 1, !.cx = 0, !.text = Append(@, BlankLine), !.todo = [op |-> "test"]]

NewLine(t) ==
  [t EXCEPT !.row = @ + 1, !.cx = 0, !.text = Append(@, BlankLine), !.todo = [op |-> "test"],
            !.buf[(t.row + 1) % MAX_ROWS] = EmptyLine]

\* line[x] = c; the cursor ends at cx; the glyph is drawn at a row of the
\* screen computed here.
Store(t, x, c, cx) ==
  [t EXCEPT !.buf[t.row % MAX_ROWS][x] = c, !.text[t.row + 1][x] = c, !.cx = cx,
            !.todo = [op |-> "glyph", c |-> c, x |-> x, vis |-> t.row - t.view]]

Begin(t, c) ==
  CASE c = "LF" -> NewLine(t)
    [] c = "CR" -> [t EXCEPT !.cx = 0]
    [] c = "BS" -> IF t.cx > 0 THEN Store(t, t.cx - 1, " ", t.cx - 1) ELSE t
    [] OTHER    -> IF t.cx < cols THEN Store(t, t.cx, c, t.cx + 1) ELSE t

\* Mutant: the newline that leaves the screen is noticed one line late.
PastBottom_Late(t) == t.row - t.view > rows

PastBottom(t) == t.row - t.view >= rows

\* draw_glyph, if the row computed earlier is on the screen
DrawGlyph(t) ==
  IF t.todo.vis < rows THEN [t EXCEPT !.screen[<<t.todo.vis, t.todo.x>>] = t.todo.c] ELSE t

Advance(t) ==
  CASE t.todo.op = "test"   -> [t EXCEPT !.todo = IF PastBottom(t) THEN [op |-> "scroll", view |-> t.view]
                                                  ELSE NoStage]
    [] t.todo.op = "scroll" -> [t EXCEPT !.view = t.todo.view + 1, !.torn = {}, !.todo = [op |-> "redraw"]]
    [] t.todo.op = "redraw" -> [tty_redraw(t) EXCEPT !.todo = NoStage]
    [] t.todo.op = "glyph"  -> [DrawGlyph(t) EXCEPT !.todo = NoStage]
    [] t.todo.op = "none"   -> t

\* tty_redraw with interrupts on: fb_clear, and for each row the line on it and
\* then its glyphs
Clear(t) == [t EXCEPT !.screen = [p \in Screen |-> " "], !.todo = [op |-> "row", row |-> 0]]

StartRow(t) ==
  LET r == t.todo.row
  IN [t EXCEPT !.todo = [op |-> "cells", row |-> r, line |-> (t.view + r) % MAX_ROWS, col |-> 0]]

NextCell(t) ==
  LET r == t.todo.row
      x == t.todo.col
      c == t.buf[t.todo.line][x]
  IN [t EXCEPT !.screen[<<r, x>>] = IF c = NUL THEN @ ELSE c,
               !.todo = IF x + 1 < cols THEN [@ EXCEPT !.col = x + 1]
                        ELSE IF r + 1 < rows THEN [op |-> "row", row |-> r + 1] ELSE NoStage]

Interruptible(t) ==
  CASE t.todo.op = "redraw" -> Clear(t)
    [] t.todo.op = "row"    -> StartRow(t)
    [] t.todo.op = "cells"  -> NextCell(t)
    [] OTHER                -> Advance(t)

\* The whole of tty_putchar, with interrupts off.  A newline has three stages
\* after its first, everything else at most one.
tty_putchar(t, c) == Advance(Advance(Advance(Begin(t, c))))

tty_write(t, data) == FoldLeft(tty_putchar, t, data)
=============================================================================
