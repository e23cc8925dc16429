--------------------------- MODULE Output_proofs ---------------------------
(***************************************************************************)
(* Proofs about what the kernel prints: the console and the kernel log.    *)
(*                                                                         *)
(* The console, for every size of the screen and of the ring, all messages *)
(* and all scancodes: the decoder of scancodes stays in step, the screen   *)
(* follows the output, and what it shows is the text.                      *)
(*                                                                         *)
(* The log, for every size of the ring and of the chunk, all texts, and    *)
(* whatever vsnprintf makes of them: no character is lost or duplicated.   *)
(***************************************************************************)
EXTENDS Console, Printk, Induction, FiniteSetTheorems, SequenceTheorems

-----------------------------------------------------------------------------
(* The console: the decoder *)

Bytes == UNION {ToSet(k) : k \in Keys}

\* What is left of a scancode does not end with 0xE0; when the byte 0xE0 has
\* been taken, the next one is still to come; and before the interrupt is let
\* through for good nothing has been decoded.
KeyInv ==
  /\ coming \in Seq(Bytes)
  /\ IF coming = <<>> THEN obuf # "E0" ELSE coming[Len(coming)] # "E0"
  /\ extended_key => coming # <<>> \/ obuf # NoByte
  /\ phase \in {"idt", "apic", "drain", "drained"} => masked
  /\ phase \in {"tty", "idt", "apic", "drain", "drained"} => extended_key = FALSE

LEMMA KeyBytes ==
  /\ NoByte \notin Bytes
  /\ \A k \in Keys : k \in Seq(Bytes) /\ k # <<>> /\ k[Len(k)] # "E0"
  <1>1. NoByte \notin Bytes BY KeysAssumption DEF Bytes
  <1>2. ASSUME NEW k \in Keys PROVE k \in Seq(Bytes)
    <2>1. k \in Seq(ToSet(k)) /\ ToSet(k) \subseteq Bytes BY KeysAssumption DEF Bytes
    <2> QED BY <2>1
  <1> QED BY <1>1, <1>2, KeysAssumption

LEMMA InitKey == ConsoleInit => KeyInv
  BY DEF ConsoleInit, KeyInv, NoByte

LEMMA NextKey ==
  ASSUME KeyInv, [ConsoleNext]_console_vars
  PROVE  KeyInv'
  <1> USE DEF KeyInv
  <1>1. CASE KeyPress
    BY <1>1, KeyBytes DEF KeyPress, boot
  <1>2. CASE SendByte
    <2>1. obuf' \in Bytes /\ coming' \in Seq(Bytes) BY <1>2 DEF SendByte
    <2>2. coming' = <<>> => obuf' # "E0"
      <3>1. Len(coming) \in Nat \ {0} /\ Len(coming') = Len(coming) - 1 /\ obuf' = coming[1]
        BY <1>2 DEF SendByte
      <3>2. coming' = <<>> => Len(coming) = 1 BY <3>1
      <3> QED BY <1>2, <3>1, <3>2 DEF SendByte
    <2>3. coming' # <<>> => coming'[Len(coming')] # "E0"
      BY <1>2 DEF SendByte
    <2> QED BY <1>2, <2>1, <2>2, <2>3, KeyBytes DEF SendByte, boot
  <1>3. CASE Boot
    BY <1>3 DEF Boot, init_idt, init_apic, keyboard_register, keyboard_drain, keyboard_unmask,
                start_user, Step, pic_remap, pic_mask_all, pic_irq_clear_mask, keys, NoByte
  <1>4. CASE tty_flush
    BY <1>4 DEF tty_flush, boot, keys
  <1>5. CASE interrupt_handler
    BY <1>5 DEF interrupt_handler, keyboard_irq_handler, Extended, boot, NoByte
  <1>6. ASSUME NEW msg \in ConsoleMessages, printk_message(msg) \/ syscall_dispatch(msg) PROVE KeyInv'
    BY <1>6 DEF printk_message, syscall_dispatch, boot, keys
  <1>7. CASE UNCHANGED console_vars
    BY <1>7 DEF console_vars, boot, keys
  <1> QED BY <1>1, <1>2, <1>3, <1>4, <1>5, <1>6, <1>7 DEF ConsoleNext

\* Whatever the keyboard sends and whenever the kernel begins to listen, the
\* decoder never waits for the second byte of a scancode that is over, if every
\* 0xE0 the keyboard sends is followed by another byte.
THEOREM DecoderStaysInStep == ConsoleSpec => []DecoderInStep
  <1>1. KeyInv => DecoderInStep BY DEF KeyInv, DecoderInStep
  <1> QED BY <1>1, InitKey, NextKey, PTL DEF ConsoleSpec

-----------------------------------------------------------------------------
(* The terminal *)

Chars == (UNION {ToSet(m) : m \in ConsoleMessages}) \cup {" "}
Line == [0 .. cols - 1 -> Chars]
Stage ==
  {NoStage} \cup [op : {"test", "redraw"}] \cup [op : {"scroll"}, view : Nat]
    \cup [op : {"glyph"}, c : Chars, x : 0 .. cols - 1, vis : Nat]
    \cup [op : {"row"}, row : 0 .. rows - 1]
    \cup [op : {"cells"}, row : 0 .. rows - 1, line : 0 .. MAX_ROWS - 1, col : 0 .. cols - 1]
TermType ==
  [buf : [0 .. MAX_ROWS - 1 -> [0 .. cols - 1 -> Chars \cup {NUL}]],
   row : Nat, view : Nat, cx : 0 .. cols, screen : [Screen -> Chars],
   todo : Stage, text : Seq(Line), torn : SUBSET (Nat \X Nat)]

\* The ring holds the last MAX_ROWS lines of the text, and behind the last line
\* of the first round it is empty.
RingInv(t) ==
  /\ Len(t.text) = t.row + 1
  /\ \A n \in 0 .. t.row : t.row - n < MAX_ROWS =>
       \A x \in 0 .. cols - 1 : Look(t.buf[n % MAX_ROWS][x]) = t.text[n + 1][x]
  /\ \A n \in t.row + 1 .. MAX_ROWS - 1 : t.buf[n] = EmptyLine

\* A view other than the first has no line behind the last one in it.
ViewInv(t) ==
  /\ t.view = 0 \/ t.view + rows - 1 <= t.row
  /\ t.todo.op = "scroll" => t.todo.view + rows <= t.row

\* The last line is on the screen, or a newline is about to bring it there.
Following(t) ==
  /\ t.todo.op \in {"none", "glyph", "redraw", "row", "cells"} => t.row - t.view < rows
  /\ t.todo.op \in {"test", "scroll"} => t.row - t.view <= rows
  /\ t.todo.op = "scroll" => t.row - t.todo.view <= rows

\* The text at p when the line on top is v
ExpectedAt(t, v, p) ==
  IF v + p[1] + 1 \in 1 .. Len(t.text) THEN t.text[v + p[1] + 1][p[2]] ELSE " "

Right(t, p) == t.screen[p] = ExpectedAt(t, t.view, p)

\* The cells that are wrong, but for d, the one being drawn
WrongBut(t, d) == {p \in Screen : ~Right(t, p) /\ p # d}

NoCell == <<-1, -1>>

\* The cells that a redraw has not come to
Undrawn(todo, p) ==
  \/ todo.op = "row" /\ p[1] >= todo.row
  \/ todo.op = "cells" /\ (p[1] > todo.row \/ (p[1] = todo.row /\ p[2] >= todo.col))

\* What is not torn is right, but for the glyph being drawn, and in a redraw
\* but for what is ahead, which is cleared.  A glyph or a row read under an older
\* view is torn as far as it is still to be drawn.
ScreenInv(t) ==
  /\ t.todo.op = "glyph" => t.todo.c = t.text[t.row + 1][t.todo.x]
  /\ t.todo.op = "cells" =>
       \/ t.todo.line = (t.view + t.todo.row) % MAX_ROWS
       \/ \A x \in t.todo.col .. cols - 1 : <<t.todo.row, x>> \in t.torn
  /\ t.row - t.view < MAX_ROWS =>
       /\ t.todo.op = "glyph" =>
            /\ WrongBut(t, <<t.todo.vis, t.todo.x>>) \subseteq t.torn
            /\ t.todo.vis = t.row - t.view \/ <<t.todo.vis, t.todo.x>> \in t.torn
       /\ t.todo.op \in {"none", "test", "scroll"} => WrongBut(t, NoCell) \subseteq t.torn
       /\ t.todo.op \in {"row", "cells"} =>
            \A p \in Screen \ t.torn : Right(t, p) \/ (t.screen[p] = " " /\ Undrawn(t.todo, p))

TermInv(t) == t \in TermType /\ RingInv(t) /\ ViewInv(t) /\ ScreenInv(t)

LEMMA ScreenSizes ==
  /\ MAX_ROWS \in Nat /\ rows \in Nat /\ cols \in Nat
  /\ 0 < MAX_ROWS /\ 0 < rows /\ 0 < cols /\ rows < MAX_ROWS
  BY SizeAssumption

\* Positions in the ring
LEMMA Ring ==
  ASSUME NEW n \in Nat
  PROVE  /\ n % MAX_ROWS \in 0 .. MAX_ROWS - 1
         /\ n < MAX_ROWS => n % MAX_ROWS = n
         /\ \A m \in Nat : m # n /\ m - n < MAX_ROWS /\ n - m < MAX_ROWS
              => m % MAX_ROWS # n % MAX_ROWS
  <1> DEFINE M == MAX_ROWS
  <1>1. M \in Nat \ {0} BY ScreenSizes
  <1>2. n % M \in 0 .. M - 1 BY <1>1
  <1>3. n < M => n % M = n BY <1>1
  <1>4. ASSUME NEW m \in Nat, m # n, m - n < M, n - m < M PROVE m % M # n % M
    <2>1. /\ m = M * (m \div M) + (m % M) /\ n = M * (n \div M) + (n % M)
          /\ m \div M \in Int /\ n \div M \in Int /\ m % M \in Int /\ n % M \in Int
      BY <1>1
    <2> SUFFICES ASSUME m % M = n % M PROVE FALSE OBVIOUS
    <2>2. PICK k \in Int : k = (m \div M) - (n \div M) BY <2>1
    <2> HIDE DEF M
    <2>3. m - n = M * k BY <1>1, <2>1, <2>2
    <2>4. k = 0 \/ k >= 1 \/ k <= -1 OBVIOUS
    <2>5. k >= 1 => M * k >= M BY <1>1
    <2>6. k <= -1 => M * k <= -M BY <1>1
    <2> QED BY <1>1, <1>4, <2>3, <2>4, <2>5, <2>6
  <1> QED BY <1>2, <1>3, <1>4

LEMMA CharFacts == NUL \notin Chars /\ " " \in Chars /\ \A c \in Chars : Look(c) = c
  <1>1. NUL \notin Chars BY MessagesAssumption DEF Chars, NUL
  <1>2. " " \in Chars BY DEF Chars
  <1> QED BY <1>1, <1>2 DEF Look

LEMMA LookFacts == \A c \in Chars \cup {NUL} : Look(c) \in Chars
  BY CharFacts DEF Look

\* A redraw puts the right text on the screen, for every view that is not too
\* far back.
LEMMA WindowRight ==
  ASSUME NEW t \in TermType, RingInv(t), NEW v \in Nat, v = 0 \/ v + rows - 1 <= t.row,
         NEW p \in Screen
  PROVE  /\ Window(t, v)[p] \in Chars
         /\ t.row - v < MAX_ROWS => Window(t, v)[p] = ExpectedAt(t, v, p)
  <1>1. PICK y \in 0 .. rows - 1, x \in 0 .. cols - 1 : p = <<y, x>> /\ p[1] = y /\ p[2] = x
    BY DEF Screen
  <1>2. PICK n \in Nat : n = v + y BY ScreenSizes
  <1>3. n % MAX_ROWS \in 0 .. MAX_ROWS - 1 BY Ring
  <1>4. Window(t, v)[p] = Look(t.buf[n % MAX_ROWS][x]) BY <1>1, <1>2 DEF Window
  <1>5. t.buf[n % MAX_ROWS][x] \in Chars \cup {NUL}
    <2>1. t.buf \in [0 .. MAX_ROWS - 1 -> [0 .. cols - 1 -> Chars \cup {NUL}]] BY DEF TermType
    <2> QED BY <1>1, <1>3, <2>1
  <1>6. t.row \in Nat /\ Len(t.text) = t.row + 1 BY DEF TermType, RingInv
  <1>7. ASSUME t.row - v < MAX_ROWS PROVE Window(t, v)[p] = ExpectedAt(t, v, p)
    <2>1. CASE n <= t.row
      <3>1. n \in 0 .. t.row /\ t.row - n < MAX_ROWS /\ n + 1 \in 1 .. Len(t.text)
        BY <1>2, <1>6, <1>7, <2>1, ScreenSizes
      <3>2. Look(t.buf[n % MAX_ROWS][x]) = t.text[n + 1][x] BY <3>1 DEF RingInv
      <3> QED BY <1>1, <1>2, <1>4, <3>1, <3>2 DEF ExpectedAt
    <2>2. CASE n > t.row
      <3>1. v = 0 /\ n < MAX_ROWS /\ n \in t.row + 1 .. MAX_ROWS - 1 BY <1>2, <1>6, <2>2, ScreenSizes
      <3>2. t.buf[n] = EmptyLine /\ n % MAX_ROWS = n BY <3>1, Ring DEF RingInv
      <3>3. Look(t.buf[n % MAX_ROWS][x]) = " " BY <3>2 DEF EmptyLine, Look
      <3>4. ~(v + p[1] + 1 \in 1 .. Len(t.text)) BY <1>1, <1>2, <1>6, <2>2
      <3> QED BY <1>4, <3>3, <3>4 DEF ExpectedAt
    <2> QED BY <1>6, <2>1, <2>2
  <1> QED BY <1>4, <1>5, <1>7, LookFacts

LEMMA ScrollStep ==
  ASSUME NEW t, TermInv(t), NEW v \in Nat, v = 0 \/ v + rows - 1 <= t.row
  PROVE  /\ TermInv(ScrollTo(t, v))
         /\ ScrollTo(t, v).row = t.row /\ ScrollTo(t, v).view = v
         /\ ScrollTo(t, v).todo = t.todo
  <1> DEFINE torn == InFlight(t.todo)
             s == ScrollTo(t, v)
             u == [t EXCEPT !.view = v, !.torn = torn]
  <1>1. t \in TermType /\ RingInv(t) /\ t.todo \in Stage BY DEF TermInv, TermType
  <1>2. torn \in SUBSET (Nat \X Nat)
    <2>1. CASE t.todo.op = "glyph"
      <3>1. t.todo.vis \in Nat /\ t.todo.x \in Nat BY <1>1, <2>1, ScreenSizes DEF Stage, NoStage
      <3> QED BY <2>1, <3>1 DEF InFlight
    <2>2. CASE t.todo.op = "cells"
      <3>1. t.todo.row \in Nat /\ t.todo.col \in Nat BY <1>1, <2>2, ScreenSizes DEF Stage, NoStage
      <3>2. \A x \in t.todo.col .. cols - 1 : x \in Nat BY <3>1
      <3> QED BY <2>2, <3>1, <3>2 DEF InFlight
    <2> QED BY <2>1, <2>2 DEF InFlight
  <1>3. \A p \in Screen : Window(t, v)[p] \in Chars BY <1>1, WindowRight
  <1>4. Window(t, v) \in [Screen -> Chars] BY <1>3 DEF Window
  <1>5. s = [u EXCEPT !.screen = Window(u, u.view)] BY DEF ScrollTo, tty_redraw
  <1>6. t.todo.op = "glyph" => <<t.todo.vis, t.todo.x>> \in torn BY DEF InFlight
  <1>7. t.todo.op = "cells" => \A x \in t.todo.col .. cols - 1 : <<t.todo.row, x>> \in torn BY DEF InFlight
  <1> HIDE DEF torn, s
  <1>8. /\ s.buf = t.buf /\ s.row = t.row /\ s.view = v /\ s.cx = t.cx /\ s.text = t.text
        /\ s.todo = t.todo /\ s.torn = torn /\ s.screen = Window(t, v)
        /\ s \in TermType
    <2>1. u.buf = t.buf /\ u.row = t.row /\ u.view = v /\ u.cx = t.cx /\ u.text = t.text
          /\ u.todo = t.todo /\ u.torn = torn
      BY <1>1 DEF TermType
    <2>2. u \in TermType BY <1>1, <1>2 DEF TermType
    <2> HIDE DEF u
    <2>3. Window(u, u.view) = Window(t, v) BY <2>1 DEF Window
    <2> QED BY <1>4, <1>5, <2>1, <2>2, <2>3 DEF TermType
  <1> HIDE DEF u
  <1>9. RingInv(s) BY <1>8, <1>1 DEF RingInv
  <1>10. ViewInv(s) BY <1>8 DEF ViewInv, TermInv
  <1>11. ScreenInv(s)
    <2>1. ASSUME t.row - v < MAX_ROWS, NEW p \in Screen PROVE Right(s, p)
      <3>1. Window(t, v)[p] = ExpectedAt(t, v, p) BY <1>1, <2>1, WindowRight
      <3> QED BY <1>8, <3>1 DEF Right, ExpectedAt
    <2>2. ASSUME t.row - v < MAX_ROWS, NEW d PROVE WrongBut(s, d) = {} BY <2>1, <2>2 DEF WrongBut
    <2>3. t.todo.op = "glyph" => t.todo.c = t.text[t.row + 1][t.todo.x] BY DEF TermInv, ScreenInv
    <2> QED BY <1>6, <1>7, <1>8, <2>1, <2>2, <2>3 DEF ScreenInv
  <1> QED BY <1>8, <1>9, <1>10, <1>11 DEF TermInv, s

LEMMA StoreGlyphStep ==
  ASSUME NEW t, TermInv(t), t.todo = NoStage,
         NEW x \in 0 .. cols - 1, NEW c \in Chars, NEW cx \in 0 .. cols
  PROVE  /\ TermInv(Store(t, x, c, cx))
         /\ Store(t, x, c, cx).row = t.row /\ Store(t, x, c, cx).view = t.view
         /\ Store(t, x, c, cx).todo.op = "glyph"
  <1> DEFINE s == Store(t, x, c, cx)
             i == t.row % MAX_ROWS
             line == [t.buf[i] EXCEPT ![x] = c]
             buf == [t.buf EXCEPT ![i] = line]
             written == [t.text[t.row + 1] EXCEPT ![x] = c]
             text == [t.text EXCEPT ![t.row + 1] = written]
             vis == t.row - t.view
             todo == [op |-> "glyph", c |-> c, x |-> x, vis |-> vis]
  <1>1. t \in TermType /\ RingInv(t) /\ ViewInv(t) /\ ScreenInv(t) BY DEF TermInv
  <1>2. t.row \in Nat /\ t.view \in Nat /\ t.text \in Seq(Line) /\ Len(t.text) = t.row + 1
    BY <1>1 DEF TermType, RingInv
  <1>3. vis \in Nat BY <1>1, <1>2, ScreenSizes DEF ViewInv
  <1>4. i \in 0 .. MAX_ROWS - 1 BY <1>2, Ring
  <1>5. s = [t EXCEPT !.buf = buf, !.text = text, !.cx = cx, !.todo = todo] BY DEF Store
  <1>6. todo \in Stage /\ todo.op = "glyph" /\ todo.c = c /\ todo.x = x /\ todo.vis = vis
    BY <1>3 DEF Stage
  <1>7. /\ buf \in [0 .. MAX_ROWS - 1 -> [0 .. cols - 1 -> Chars \cup {NUL}]]
        /\ buf[i][x] = c
        /\ \A n \in 0 .. MAX_ROWS - 1 : \A z \in 0 .. cols - 1 :
             n # i \/ z # x => buf[n][z] = t.buf[n][z]
        /\ \A n \in 0 .. MAX_ROWS - 1 : n # i => buf[n] = t.buf[n]
    <2>1. t.buf \in [0 .. MAX_ROWS - 1 -> [0 .. cols - 1 -> Chars \cup {NUL}]] BY <1>1 DEF TermType
    <2> HIDE DEF i
    <2>2. line \in [0 .. cols - 1 -> Chars \cup {NUL}] BY <1>4, <2>1
    <2>3. line[x] = c /\ \A z \in 0 .. cols - 1 : z # x => line[z] = t.buf[i][z] BY <1>4, <2>1
    <2> HIDE DEF line
    <2> QED BY <1>4, <2>1, <2>2, <2>3
  <1>8. /\ text \in Seq(Line) /\ Len(text) = t.row + 1
        /\ text[t.row + 1][x] = c
        /\ \A n \in 1 .. t.row + 1 : \A z \in 0 .. cols - 1 :
             n # t.row + 1 \/ z # x => text[n][z] = t.text[n][z]
    <2>0. t.row + 1 \in 1 .. Len(t.text) BY <1>2
    <2>1. t.text[t.row + 1] \in Line BY <1>2, <2>0
    <2>2. written \in Line BY <2>1 DEF Line
    <2>3. written[x] = c /\ \A z \in 0 .. cols - 1 : z # x => written[z] = t.text[t.row + 1][z]
      BY <2>1 DEF Line
    <2> HIDE DEF written
    <2>4. text \in Seq(Line) /\ Len(text) = t.row + 1 BY <1>2, <2>0, <2>2
    <2>5. text[t.row + 1] = written /\ \A n \in 1 .. t.row + 1 : n # t.row + 1 => text[n] = t.text[n]
      BY <1>2, <2>0
    <2> HIDE DEF text
    <2> QED BY <2>3, <2>4, <2>5
  <1> HIDE DEF s, line, buf, written, text, todo
  <1>9. /\ s.buf = buf /\ s.row = t.row /\ s.view = t.view /\ s.screen = t.screen /\ s.text = text
        /\ s.todo = todo /\ s.torn = t.torn
    BY <1>1, <1>5 DEF TermType
  <1>10. s \in TermType BY <1>1, <1>5, <1>6, <1>7, <1>8 DEF TermType
  <1>11. RingInv(s)
    <2>1. ASSUME NEW n \in 0 .. t.row, t.row - n < MAX_ROWS, NEW z \in 0 .. cols - 1
          PROVE  Look(buf[n % MAX_ROWS][z]) = text[n + 1][z]
      <3>00. n \in Nat BY <1>2
      <3>0. n \in Nat /\ n % MAX_ROWS \in 0 .. MAX_ROWS - 1 BY <3>00, Ring
      <3>1. CASE n = t.row /\ z = x BY <1>7, <1>8, <3>1, CharFacts
      <3>2. CASE n # t.row \/ z # x
        <4>1. n # t.row => n % MAX_ROWS # i
          <5>1. n # t.row => n - t.row < MAX_ROWS BY <1>2, ScreenSizes
          <5> QED BY <1>2, <2>1, <3>0, <5>1, Ring
        <4>2. buf[n % MAX_ROWS][z] = t.buf[n % MAX_ROWS][z] BY <1>7, <3>0, <3>2, <4>1
        <4>3. text[n + 1][z] = t.text[n + 1][z]
          <5>1. n + 1 \in 1 .. t.row + 1 /\ (n # t.row => n + 1 # t.row + 1) BY <1>2
          <5> QED BY <1>8, <3>2, <5>1
        <4> QED BY <1>1, <2>1, <4>2, <4>3 DEF RingInv
      <3> QED BY <3>1, <3>2
    <2>2. ASSUME NEW n \in t.row + 1 .. MAX_ROWS - 1 PROVE buf[n] = EmptyLine
      <3>1. n \in 0 .. MAX_ROWS - 1 /\ t.row < MAX_ROWS /\ n # t.row BY <1>2, ScreenSizes
      <3>2. n # i BY <1>2, <3>1, Ring
      <3> QED BY <1>1, <1>7, <3>1, <3>2 DEF RingInv
    <2> QED BY <1>8, <1>9, <2>1, <2>2 DEF RingInv
  <1>12. ViewInv(s) BY <1>1, <1>6, <1>9 DEF ViewInv
  <1>13. ScreenInv(s)
    <2>1. ASSUME NEW p \in Screen, p # <<vis, x>> PROVE Right(s, p) <=> Right(t, p)
      <3>1. PICK y \in 0 .. rows - 1, z \in 0 .. cols - 1 : p = <<y, z>> /\ p[1] = y /\ p[2] = z
        BY DEF Screen
      <3>2. y # vis \/ z # x BY <2>1, <3>1
      <3>3. t.view + y + 1 \in 1 .. t.row + 1 => text[t.view + y + 1][z] = t.text[t.view + y + 1][z]
        <4>1. y # vis => t.view + y + 1 # t.row + 1 BY <1>2, <1>3, ScreenSizes
        <4> QED BY <1>8, <3>2, <4>1
      <3> QED BY <1>2, <1>8, <1>9, <3>1, <3>3 DEF Right, ExpectedAt
    <2>2. WrongBut(s, <<vis, x>>) \subseteq WrongBut(t, NoCell)
      <3>1. \A p \in Screen : p # NoCell BY DEF Screen, NoCell
      <3> QED BY <2>1, <3>1 DEF WrongBut
    <2>3. t.row - t.view < MAX_ROWS => WrongBut(t, NoCell) \subseteq t.torn
      BY <1>1 DEF ScreenInv, NoStage
    <2>4. t.row - t.view < MAX_ROWS => WrongBut(s, <<vis, x>>) \subseteq s.torn
      BY <1>9, <2>2, <2>3
    <2> QED BY <1>6, <1>8, <1>9, <2>4 DEF ScreenInv
  <1> QED BY <1>6, <1>9, <1>10, <1>11, <1>12, <1>13 DEF TermInv, s

LEMMA NewLineStep ==
  ASSUME NEW t, TermInv(t), t.todo = NoStage
  PROVE  /\ TermInv(NewLine(t))
         /\ NewLine(t).row = t.row + 1 /\ NewLine(t).view = t.view
         /\ NewLine(t).todo.op = "test"
  <1> DEFINE s == NewLine(t)
             i == (t.row + 1) % MAX_ROWS
             buf == [t.buf EXCEPT ![i] = EmptyLine]
             text == Append(t.text, BlankLine)
             todo == [op |-> "test"]
  <1>1. t \in TermType /\ RingInv(t) /\ ViewInv(t) /\ ScreenInv(t) BY DEF TermInv
  <1>2. t.row \in Nat /\ t.view \in Nat /\ t.text \in Seq(Line) /\ Len(t.text) = t.row + 1
    BY <1>1 DEF TermType, RingInv
  <1>3. t.row + 1 \in Nat /\ i \in 0 .. MAX_ROWS - 1
    <2>1. t.row + 1 \in Nat BY <1>2
    <2> QED BY <2>1, Ring
  <1>4. s = [t EXCEPT !.row = t.row + 1, !.cx = 0, !.text = text, !.todo = todo, !.buf = buf]
    BY DEF NewLine
  <1>5. todo \in Stage /\ todo.op = "test" BY DEF Stage
  <1>6. /\ buf \in [0 .. MAX_ROWS - 1 -> [0 .. cols - 1 -> Chars \cup {NUL}]]
        /\ buf[i] = EmptyLine
        /\ \A n \in 0 .. MAX_ROWS - 1 : n # i => buf[n] = t.buf[n]
    <2>1. t.buf \in [0 .. MAX_ROWS - 1 -> [0 .. cols - 1 -> Chars \cup {NUL}]] BY <1>1 DEF TermType
    <2>2. EmptyLine \in [0 .. cols - 1 -> Chars \cup {NUL}] BY DEF EmptyLine
    <2> HIDE DEF i
    <2> QED BY <1>3, <2>1, <2>2
  <1>7. /\ text \in Seq(Line) /\ Len(text) = t.row + 2
        /\ text[t.row + 2] = BlankLine
        /\ \A n \in 1 .. t.row + 1 : text[n] = t.text[n]
    <2>1. BlankLine \in Line BY CharFacts DEF BlankLine, Line
    <2> QED BY <1>2, <2>1
  <1> HIDE DEF s, buf, text, todo
  <1>8. /\ s.buf = buf /\ s.row = t.row + 1 /\ s.view = t.view /\ s.screen = t.screen /\ s.text = text
        /\ s.todo = todo /\ s.torn = t.torn
    BY <1>1, <1>4 DEF TermType
  <1>9. s \in TermType
    <2>1. 0 \in 0 .. cols BY ScreenSizes
    <2> QED BY <1>1, <1>3, <1>4, <1>5, <1>6, <1>7, <2>1 DEF TermType
  <1>10. RingInv(s)
    <2>1. ASSUME NEW n \in 0 .. t.row + 1, t.row + 1 - n < MAX_ROWS, NEW z \in 0 .. cols - 1
          PROVE  Look(buf[n % MAX_ROWS][z]) = text[n + 1][z]
      <3>0. n \in Nat BY <1>2
      <3>1. n % MAX_ROWS \in 0 .. MAX_ROWS - 1 BY <3>0, Ring
      <3>2. CASE n = t.row + 1
        <4>1. n % MAX_ROWS = i /\ n + 1 = t.row + 2 BY <1>2, <3>2
        <4>2. EmptyLine[z] = NUL /\ BlankLine[z] = " " /\ Look(NUL) = " " BY DEF EmptyLine, BlankLine, Look
        <4> HIDE DEF i
        <4> QED BY <1>6, <1>7, <4>1, <4>2
      <3>3. CASE n # t.row + 1
        <4>1. n \in 0 .. t.row /\ t.row - n < MAX_ROWS /\ n - (t.row + 1) < MAX_ROWS /\ n + 1 \in 1 .. t.row + 1
          BY <1>2, <2>1, <3>3, ScreenSizes
        <4>2. n % MAX_ROWS # i
          <5>1. PICK r \in Nat : r = t.row + 1 BY <1>3
          <5>2. n # r /\ n - r < MAX_ROWS /\ r - n < MAX_ROWS BY <1>2, <2>1, <3>3, <4>1, <5>1, ScreenSizes
          <5>3. n % MAX_ROWS # r % MAX_ROWS BY <3>0, <5>2, Ring
          <5> QED BY <5>1, <5>3
        <4> HIDE DEF i
        <4> QED BY <1>1, <1>6, <1>7, <3>1, <4>1, <4>2 DEF RingInv
      <3> QED BY <3>2, <3>3
    <2>2. ASSUME NEW n \in t.row + 2 .. MAX_ROWS - 1 PROVE buf[n] = EmptyLine
      <3>1. n \in 0 .. MAX_ROWS - 1 /\ t.row + 1 < MAX_ROWS /\ n # t.row + 1 /\ n \in t.row + 1 .. MAX_ROWS - 1
        BY <1>2, ScreenSizes
      <3>2. n # i BY <1>3, <3>1, Ring
      <3> QED BY <1>1, <1>6, <3>1, <3>2 DEF RingInv
    <2>3. Len(s.text) = s.row + 1 /\ s.row + 1 = t.row + 2 BY <1>2, <1>7, <1>8
    <2>4. \A n \in 0 .. s.row : s.row - n < MAX_ROWS =>
            \A x \in 0 .. cols - 1 : Look(s.buf[n % MAX_ROWS][x]) = s.text[n + 1][x]
      <3> TAKE n \in 0 .. s.row
      <3> HAVE s.row - n < MAX_ROWS
      <3> TAKE x \in 0 .. cols - 1
      <3>1. n \in 0 .. t.row + 1 /\ t.row + 1 - n < MAX_ROWS BY <1>2, <1>8, ScreenSizes
      <3>2. Look(buf[n % MAX_ROWS][x]) = text[n + 1][x] BY <2>1, <3>1
      <3> QED BY <1>8, <3>2
    <2>5. \A n \in s.row + 1 .. MAX_ROWS - 1 : s.buf[n] = EmptyLine BY <1>8, <2>2, <2>3
    <2> QED BY <2>3, <2>4, <2>5 DEF RingInv
  <1>11. ViewInv(s) BY <1>1, <1>2, <1>5, <1>8, ScreenSizes DEF ViewInv
  <1>12. ScreenInv(s)
    <2>1. ASSUME NEW p \in Screen PROVE Right(s, p) <=> Right(t, p)
      <3>1. PICK y \in 0 .. rows - 1, z \in 0 .. cols - 1 : p = <<y, z>> /\ p[1] = y /\ p[2] = z
        BY DEF Screen
      <3>2. PICK n \in Nat : n = t.view + y + 1 BY <1>2, ScreenSizes
      <3>3. n >= 1 BY <1>2, <3>2, ScreenSizes
      <3>4. ExpectedAt(t, t.view, p) = IF n \in 1 .. t.row + 1 THEN t.text[n][z] ELSE " "
        BY <1>2, <3>1, <3>2 DEF ExpectedAt
      <3>5. ExpectedAt(s, s.view, p) = IF n \in 1 .. t.row + 2 THEN text[n][z] ELSE " "
        BY <1>2, <1>7, <1>8, <3>1, <3>2 DEF ExpectedAt
      <3>6. BlankLine[z] = " " BY DEF BlankLine
      <3>7. ExpectedAt(s, s.view, p) = ExpectedAt(t, t.view, p)
        <4>1. CASE n \in 1 .. t.row + 1
          <5>1. n \in 1 .. t.row + 2 /\ text[n] = t.text[n] BY <1>2, <1>7, <4>1
          <5> QED BY <3>4, <3>5, <4>1, <5>1
        <4>2. CASE n = t.row + 2
          <5>1. n \in 1 .. t.row + 2 /\ text[n] = BlankLine /\ ~(n \in 1 .. t.row + 1) BY <1>2, <1>7, <4>2
          <5> QED BY <3>4, <3>5, <3>6, <5>1
        <4>3. CASE n > t.row + 2
          <5>1. ~(n \in 1 .. t.row + 2) /\ ~(n \in 1 .. t.row + 1) BY <1>2, <4>3
          <5> QED BY <3>4, <3>5, <5>1
        <4> QED BY <1>2, <3>3, <4>1, <4>2, <4>3
      <3> QED BY <1>8, <3>7 DEF Right
    <2>2. WrongBut(s, NoCell) = WrongBut(t, NoCell) BY <2>1 DEF WrongBut
    <2>3. t.row - t.view < MAX_ROWS => WrongBut(t, NoCell) \subseteq t.torn
      BY <1>1 DEF ScreenInv, NoStage
    <2>4. t.row + 1 - t.view < MAX_ROWS => WrongBut(s, NoCell) \subseteq s.torn
      <3>1. t.row + 1 - t.view < MAX_ROWS => t.row - t.view < MAX_ROWS BY <1>2, ScreenSizes
      <3> QED BY <1>8, <2>2, <2>3, <3>1
    <2>5. s.todo.op = "test" /\ (s.row - s.view < MAX_ROWS => WrongBut(s, NoCell) \subseteq s.torn)
      BY <1>2, <1>5, <1>8, <2>4, ScreenSizes
    <2> QED BY <2>5 DEF ScreenInv
  <1> QED BY <1>5, <1>8, <1>9, <1>10, <1>11, <1>12 DEF TermInv, s

\* The first part of tty_putchar
LEMMA BeginStep ==
  ASSUME NEW t, TermInv(t), t.todo = NoStage, NEW c \in Chars
  PROVE  /\ TermInv(Begin(t, c))
         /\ Begin(t, c).view = t.view
         /\ \/ Begin(t, c).row = t.row /\ Begin(t, c).todo.op \in {"none", "glyph"}
            \/ Begin(t, c).row = t.row + 1 /\ Begin(t, c).todo.op = "test"
  <1>0. t.todo.op = "none" BY DEF NoStage
  <1>1. CASE c = "LF"
    <2>1. Begin(t, c) = NewLine(t) BY <1>1 DEF Begin
    <2> QED BY <2>1, NewLineStep
  <1>2. CASE c = "CR"
    <2> DEFINE s == [t EXCEPT !.cx = 0]
    <2>1. Begin(t, c) = s BY <1>2 DEF Begin
    <2>2. t \in TermType BY DEF TermInv
    <2>3. s \in TermType
      <3>1. 0 \in 0 .. cols BY ScreenSizes
      <3> QED BY <2>2, <3>1 DEF TermType
    <2>4. /\ s.buf = t.buf /\ s.row = t.row /\ s.view = t.view /\ s.screen = t.screen /\ s.text = t.text
          /\ s.todo = t.todo /\ s.torn = t.torn
      BY <2>2 DEF TermType
    <2> HIDE DEF s
    <2>5. RingInv(s) /\ ViewInv(s) BY <2>4 DEF TermInv, RingInv, ViewInv
    <2>6. ScreenInv(s)
      <3>1. \A d : WrongBut(s, d) = WrongBut(t, d) BY <2>4 DEF WrongBut, Right, ExpectedAt
      <3> QED BY <1>0, <2>4, <3>1 DEF TermInv, ScreenInv
    <2> QED BY <1>0, <2>1, <2>3, <2>4, <2>5, <2>6 DEF TermInv
  <1>3. CASE c = "BS"
    <2>1. t.cx \in 0 .. cols BY DEF TermInv, TermType
    <2>2. CASE t.cx > 0
      <3>1. Begin(t, c) = Store(t, t.cx - 1, " ", t.cx - 1) BY <1>3, <2>2 DEF Begin
      <3>2. t.cx - 1 \in 0 .. cols - 1 /\ t.cx - 1 \in 0 .. cols BY <2>1, <2>2, ScreenSizes
      <3>3. PICK x \in 0 .. cols - 1, cx \in 0 .. cols, b \in Chars : x = t.cx - 1 /\ cx = t.cx - 1 /\ b = " "
        BY <3>2, CharFacts
      <3>4. Begin(t, c) = Store(t, x, b, cx) BY <3>1, <3>3
      <3> QED BY <3>4, StoreGlyphStep
    <2>3. CASE ~(t.cx > 0)
      <3>1. Begin(t, c) = t BY <1>3, <2>3 DEF Begin
      <3> QED BY <1>0, <3>1
    <2> QED BY <2>2, <2>3
  <1>4. CASE c \notin {"LF", "CR", "BS"}
    <2>1. t.cx \in 0 .. cols BY DEF TermInv, TermType
    <2>2. CASE t.cx < cols
      <3>1. Begin(t, c) = Store(t, t.cx, c, t.cx + 1) BY <1>4, <2>2 DEF Begin
      <3>2. t.cx \in 0 .. cols - 1 /\ t.cx + 1 \in 0 .. cols BY <2>1, <2>2, ScreenSizes
      <3> QED BY <3>1, <3>2, StoreGlyphStep
    <2>3. CASE ~(t.cx < cols)
      <3>1. Begin(t, c) = t BY <1>4, <2>3 DEF Begin
      <3> QED BY <1>0, <3>1
    <2> QED BY <2>2, <2>3
  <1> QED BY <1>1, <1>2, <1>3, <1>4

\* s has the text, the ring and the view of t; something may have been drawn.
SameText(s, t) ==
  /\ s \in TermType
  /\ s.buf = t.buf /\ s.row = t.row /\ s.view = t.view /\ s.text = t.text

LEMMA Settled ==
  ASSUME NEW t, TermInv(t), NEW s, SameText(s, t), s.todo.op \in {"none", "scroll"},
         s.todo.op = "scroll" => s.todo.view + rows <= s.row,
         s.row - s.view < MAX_ROWS => WrongBut(s, NoCell) \subseteq s.torn
  PROVE  TermInv(s)
  <1>1. RingInv(s) BY DEF TermInv, RingInv, SameText
  <1>2. ViewInv(s) BY DEF TermInv, ViewInv, SameText
  <1>3. ScreenInv(s) BY DEF ScreenInv
  <1> QED BY <1>1, <1>2, <1>3 DEF TermInv, SameText

\* The test for a newline that leaves the screen
LEMMA TestPageStep ==
  ASSUME NEW t, TermInv(t), t.todo.op = "test"
  PROVE  /\ TermInv(Advance(t))
         /\ Advance(t).row = t.row /\ Advance(t).view = t.view
         /\ Advance(t).todo = IF PastBottom(t) THEN [op |-> "scroll", view |-> t.view] ELSE NoStage
  <1> DEFINE todo == IF PastBottom(t) THEN [op |-> "scroll", view |-> t.view] ELSE NoStage
             s == [t EXCEPT !.todo = todo]
  <1>1. Advance(t) = s BY DEF Advance
  <1>2. t \in TermType /\ t.row \in Nat /\ t.view \in Nat BY DEF TermInv, TermType
  <1>3. todo \in Stage /\ todo.op \in {"none", "scroll"} BY <1>2 DEF Stage, NoStage
  <1>4. todo.op = "scroll" => todo.view + rows <= t.row
    BY <1>2, ScreenSizes DEF NoStage, PastBottom
  <1> HIDE DEF todo
  <1>5. /\ s \in TermType /\ s.buf = t.buf /\ s.row = t.row /\ s.view = t.view /\ s.text = t.text
        /\ s.todo = todo /\ s.screen = t.screen /\ s.torn = t.torn
    BY <1>2, <1>3 DEF TermType
  <1> HIDE DEF s
  <1>6. SameText(s, t) BY <1>5 DEF SameText
  <1>7. s.row - s.view < MAX_ROWS => WrongBut(s, NoCell) \subseteq s.torn
    <2>1. WrongBut(s, NoCell) = WrongBut(t, NoCell) BY <1>5 DEF WrongBut, Right, ExpectedAt
    <2> QED BY <1>5, <2>1 DEF TermInv, ScreenInv
  <1>8. TermInv(s) BY <1>3, <1>4, <1>5, <1>6, <1>7, Settled
  <1> QED BY <1>1, <1>5, <1>8 DEF todo

\* tty_view_row = tty_view_row + 1, and the redraw is to come
LEMMA NextViewStep ==
  ASSUME NEW t, TermInv(t), t.todo.op = "scroll"
  PROVE  /\ TermInv(Advance(t))
         /\ Advance(t).row = t.row /\ Advance(t).view = t.todo.view + 1
         /\ Advance(t).todo.op = "redraw"
  <1> DEFINE v == t.todo.view + 1
             todo == [op |-> "redraw"]
             s == [t EXCEPT !.view = v, !.torn = {}, !.todo = todo]
  <1>1. Advance(t) = s BY DEF Advance
  <1>2. t \in TermType /\ t.row \in Nat /\ t.todo \in Stage BY DEF TermInv, TermType
  <1>3. t.todo.view \in Nat BY <1>2 DEF Stage, NoStage
  <1>4. todo \in Stage /\ todo.op = "redraw" /\ v \in Nat BY <1>3 DEF Stage
  <1>5. v + rows - 1 <= t.row BY <1>2, <1>3, ScreenSizes DEF TermInv, ViewInv
  <1> HIDE DEF todo, v
  <1>6. /\ s \in TermType /\ s.buf = t.buf /\ s.row = t.row /\ s.view = v /\ s.text = t.text
        /\ s.todo = todo
    BY <1>2, <1>4 DEF TermType
  <1> HIDE DEF s
  <1>7. RingInv(s) BY <1>6 DEF TermInv, RingInv
  <1>8. ViewInv(s) BY <1>4, <1>5, <1>6 DEF ViewInv
  <1>9. ScreenInv(s) BY <1>4, <1>6 DEF ScreenInv
  <1> QED BY <1>1, <1>4, <1>6, <1>7, <1>8, <1>9 DEF TermInv, v

\* A redraw with interrupts off
LEMMA RedrawStep ==
  ASSUME NEW t, TermInv(t), t.todo.op = "redraw"
  PROVE  /\ TermInv(Advance(t))
         /\ Advance(t).row = t.row /\ Advance(t).view = t.view /\ Advance(t).todo = NoStage
  <1> DEFINE s == Advance(t)
  <1>1. t \in TermType /\ RingInv(t) /\ t.row \in Nat /\ t.view \in Nat BY DEF TermInv, TermType
  <1>2. t.view = 0 \/ t.view + rows - 1 <= t.row BY DEF TermInv, ViewInv
  <1>3. Window(t, t.view) \in [Screen -> Chars]
    <2>1. \A p \in Screen : Window(t, t.view)[p] \in Chars BY <1>1, <1>2, WindowRight
    <2> QED BY <2>1 DEF Window
  <1>4. s = [tty_redraw(t) EXCEPT !.todo = NoStage] BY DEF Advance
  <1>5. /\ s.buf = t.buf /\ s.row = t.row /\ s.view = t.view /\ s.text = t.text
        /\ s.screen = Window(t, t.view) /\ s.todo = NoStage /\ s \in TermType
    <2>1. NoStage \in Stage BY DEF Stage
    <2> QED BY <1>1, <1>3, <1>4, <2>1 DEF TermType, tty_redraw
  <1> HIDE DEF s
  <1>6. SameText(s, t) /\ s.todo.op = "none" BY <1>5 DEF SameText, NoStage
  <1>7. ASSUME t.row - t.view < MAX_ROWS PROVE WrongBut(s, NoCell) = {}
    <2>1. ASSUME NEW p \in Screen PROVE Right(s, p)
      <3>1. Window(t, t.view)[p] = ExpectedAt(t, t.view, p) BY <1>1, <1>2, <1>7, WindowRight
      <3> QED BY <1>5, <3>1 DEF Right, ExpectedAt
    <2> QED BY <2>1 DEF WrongBut
  <1>8. TermInv(s) BY <1>5, <1>6, <1>7, Settled
  <1> QED BY <1>5, <1>8 DEF s

\* fb_clear: everything is still to be drawn.
LEMMA ClearStep ==
  ASSUME NEW t, TermInv(t), t.todo.op = "redraw"
  PROVE  /\ TermInv(Clear(t))
         /\ Clear(t).row = t.row /\ Clear(t).view = t.view /\ Clear(t).todo.op = "row"
  <1> DEFINE screen == [p \in Screen |-> " "]
             todo == [op |-> "row", row |-> 0]
             s == [t EXCEPT !.screen = screen, !.todo = todo]
  <1>1. Clear(t) = s BY DEF Clear
  <1>2. t \in TermType BY DEF TermInv
  <1>3. todo \in Stage /\ todo.op = "row" /\ todo.row = 0 BY ScreenSizes DEF Stage
  <1>4. screen \in [Screen -> Chars] /\ \A p \in Screen : screen[p] = " " BY CharFacts
  <1> HIDE DEF screen, todo
  <1>5. /\ s \in TermType /\ s.buf = t.buf /\ s.row = t.row /\ s.view = t.view /\ s.text = t.text
        /\ s.todo = todo /\ s.screen = screen
    BY <1>2, <1>3, <1>4 DEF TermType
  <1> HIDE DEF s
  <1>6. RingInv(s) BY <1>5 DEF TermInv, RingInv
  <1>7. ViewInv(s) BY <1>3, <1>5 DEF TermInv, ViewInv
  <1>8. ScreenInv(s)
    <2>1. \A p \in Screen : s.screen[p] = " " /\ Undrawn(s.todo, p)
      <3>1. \A p \in Screen : p[1] >= 0 BY DEF Screen
      <3> QED BY <1>3, <1>4, <1>5, <3>1 DEF Undrawn
    <2> QED BY <1>3, <1>5, <2>1 DEF ScreenInv
  <1> QED BY <1>1, <1>3, <1>5, <1>6, <1>7, <1>8 DEF TermInv

\* The line on a row is computed from the view.
LEMMA StartRowStep ==
  ASSUME NEW t, TermInv(t), t.todo.op = "row"
  PROVE  /\ TermInv(StartRow(t))
         /\ StartRow(t).row = t.row /\ StartRow(t).view = t.view /\ StartRow(t).todo.op = "cells"
  <1> DEFINE r == t.todo.row
             line == (t.view + r) % MAX_ROWS
             todo == [op |-> "cells", row |-> r, line |-> line, col |-> 0]
             s == [t EXCEPT !.todo = todo]
  <1>1. StartRow(t) = s BY DEF StartRow
  <1>2. t \in TermType /\ t.view \in Nat /\ t.todo \in Stage BY DEF TermInv, TermType
  <1>3. r \in 0 .. rows - 1 BY <1>2 DEF Stage, NoStage
  <1>4. line \in 0 .. MAX_ROWS - 1
    <2>1. t.view + r \in Nat BY <1>2, <1>3
    <2> QED BY <2>1, Ring
  <1>5. /\ todo \in Stage /\ todo.op = "cells" /\ todo.row = t.todo.row /\ todo.col = 0
        /\ todo.line = (t.view + todo.row) % MAX_ROWS
    <2> HIDE DEF line
    <2>1. 0 \in 0 .. cols - 1 BY ScreenSizes
    <2>2. todo \in Stage BY <1>3, <1>4, <2>1 DEF Stage
    <2> QED BY <2>2 DEF line
  <1> HIDE DEF todo
  <1>6. /\ s \in TermType /\ s.buf = t.buf /\ s.row = t.row /\ s.view = t.view /\ s.text = t.text
        /\ s.todo = todo /\ s.screen = t.screen /\ s.torn = t.torn
    BY <1>2, <1>5 DEF TermType
  <1> HIDE DEF s
  <1>7. RingInv(s) BY <1>6 DEF TermInv, RingInv
  <1>8. ViewInv(s) BY <1>5, <1>6 DEF TermInv, ViewInv
  <1>9. ScreenInv(s)
    <2>1. ASSUME t.row - t.view < MAX_ROWS, NEW p \in Screen \ t.torn
          PROVE  Right(s, p) \/ (s.screen[p] = " " /\ Undrawn(s.todo, p))
      <3>1. Right(t, p) \/ (t.screen[p] = " " /\ Undrawn(t.todo, p)) BY <2>1 DEF TermInv, ScreenInv
      <3>2. Right(s, p) <=> Right(t, p) BY <1>6 DEF Right, ExpectedAt
      <3>3. p[1] \in 0 .. rows - 1 /\ p[2] \in 0 .. cols - 1 BY DEF Screen
      <3>4. Undrawn(t.todo, p) => p[1] >= t.todo.row BY DEF Undrawn
      <3>5. p[1] >= t.todo.row => Undrawn(todo, p) BY <1>3, <1>5, <3>3 DEF Undrawn
      <3> QED BY <1>6, <3>1, <3>2, <3>4, <3>5
    <2> QED BY <1>5, <1>6, <2>1 DEF ScreenInv
  <1> QED BY <1>1, <1>5, <1>6, <1>7, <1>8, <1>9 DEF TermInv

\* What follows a glyph of a redraw
LEMMA UndrawnAfter ==
  ASSUME NEW t, TermInv(t), t.todo.op = "cells", NEW p \in Screen,
         p # <<t.todo.row, t.todo.col>>, Undrawn(t.todo, p)
  PROVE  NextCell(t).todo # NoStage /\ Undrawn(NextCell(t).todo, p)
  <1> DEFINE r == t.todo.row
             x == t.todo.col
             todo == NextCell(t).todo
  <1>1. t \in TermType /\ t.todo \in Stage BY DEF TermInv, TermType
  <1>2. r \in 0 .. rows - 1 /\ x \in 0 .. cols - 1 BY <1>1 DEF Stage, NoStage
  <1>3. PICK y \in 0 .. rows - 1, z \in 0 .. cols - 1 : p = <<y, z>> /\ p[1] = y /\ p[2] = z
    BY DEF Screen
  <1>4. y > r \/ (y = r /\ z > x) BY <1>2, <1>3 DEF Undrawn
  <1>5. todo = IF x + 1 < cols THEN [t.todo EXCEPT !.col = x + 1]
               ELSE IF r + 1 < rows THEN [op |-> "row", row |-> r + 1] ELSE NoStage
    BY <1>1 DEF NextCell, TermType
  <1> HIDE DEF todo
  <1>6. CASE x + 1 < cols
    <2>1. todo.op = "cells" /\ todo.row = r /\ todo.col = x + 1 BY <1>1, <1>5, <1>6 DEF Stage, NoStage
    <2> QED BY <1>2, <1>3, <1>4, <2>1 DEF Undrawn, NoStage, todo
  <1>7. CASE ~(x + 1 < cols)
    <2>1. y > r /\ r + 1 < rows BY <1>2, <1>3, <1>4, <1>7, ScreenSizes
    <2>2. todo.op = "row" /\ todo.row = r + 1 BY <1>5, <1>7, <2>1
    <2> QED BY <1>2, <1>3, <2>1, <2>2 DEF Undrawn, NoStage, todo
  <1> QED BY <1>6, <1>7

LEMMA NextCellStep ==
  ASSUME NEW t, TermInv(t), t.todo.op = "cells"
  PROVE  /\ TermInv(NextCell(t))
         /\ NextCell(t).row = t.row /\ NextCell(t).view = t.view
         /\ NextCell(t).todo = NoStage \/ NextCell(t).todo.op \in {"row", "cells"}
  <1> DEFINE r == t.todo.row
             x == t.todo.col
             cell == <<r, x>>
             c == t.buf[t.todo.line][x]
             screen == [t.screen EXCEPT ![cell] = IF c = NUL THEN @ ELSE c]
             todo == IF x + 1 < cols THEN [t.todo EXCEPT !.col = x + 1]
                     ELSE IF r + 1 < rows THEN [op |-> "row", row |-> r + 1] ELSE NoStage
             s == NextCell(t)
  <1>1. /\ t \in TermType /\ RingInv(t) /\ t.row \in Nat /\ t.view \in Nat /\ t.todo \in Stage
        /\ t.screen \in [Screen -> Chars]
        /\ t.buf \in [0 .. MAX_ROWS - 1 -> [0 .. cols - 1 -> Chars \cup {NUL}]]
    BY DEF TermInv, TermType
  <1>2. r \in 0 .. rows - 1 /\ x \in 0 .. cols - 1 /\ t.todo.line \in 0 .. MAX_ROWS - 1
    BY <1>1 DEF Stage, NoStage
  <1>3. cell \in Screen /\ cell[1] = r /\ cell[2] = x BY <1>2 DEF Screen
  <1>4. c \in Chars \cup {NUL} BY <1>1, <1>2
  <1>5. s = [t EXCEPT !.screen = screen, !.todo = todo] BY DEF NextCell
  <1>6. /\ todo \in Stage
        /\ \/ todo.op = "cells" /\ todo.row = r /\ todo.line = t.todo.line /\ todo.col = x + 1
           \/ todo.op = "row"
           \/ todo = NoStage /\ todo.op = "none"
    <2>1. CASE x + 1 < cols
      <3>1. x + 1 \in 0 .. cols - 1 BY <1>2, <2>1, ScreenSizes
      <3>2. t.todo \in [op : {"cells"}, row : 0 .. rows - 1, line : 0 .. MAX_ROWS - 1, col : 0 .. cols - 1]
        BY <1>1 DEF Stage, NoStage
      <3>3. PICK z \in 0 .. cols - 1 : z = x + 1 BY <3>1
      <3>4. todo = [t.todo EXCEPT !.col = z] BY <2>1, <3>3
      <3> HIDE DEF todo
      <3>5. todo \in [op : {"cells"}, row : 0 .. rows - 1, line : 0 .. MAX_ROWS - 1, col : 0 .. cols - 1]
            /\ todo.op = "cells" /\ todo.row = r /\ todo.line = t.todo.line /\ todo.col = z
        BY <3>2, <3>4
      <3> QED BY <3>3, <3>5 DEF Stage
    <2>2. CASE ~(x + 1 < cols) /\ r + 1 < rows
      <3>1. r + 1 \in 0 .. rows - 1 BY <1>2, <2>2, ScreenSizes
      <3> QED BY <2>2, <3>1 DEF Stage
    <2>3. CASE ~(x + 1 < cols) /\ ~(r + 1 < rows) BY <2>3 DEF Stage, NoStage
    <2> QED BY <2>1, <2>2, <2>3
  <1>7. /\ screen \in [Screen -> Chars]
        /\ screen[cell] = IF c = NUL THEN t.screen[cell] ELSE c
        /\ \A p \in Screen : p # cell => screen[p] = t.screen[p]
    <2> HIDE DEF cell, c
    <2> QED BY <1>1, <1>3, <1>4
  <1> HIDE DEF screen, todo, s
  <1>8. /\ s \in TermType /\ s.buf = t.buf /\ s.row = t.row /\ s.view = t.view /\ s.text = t.text
        /\ s.todo = todo /\ s.screen = screen /\ s.torn = t.torn
    BY <1>1, <1>5, <1>6, <1>7 DEF TermType
  <1>9. RingInv(s) BY <1>1, <1>8 DEF RingInv
  <1>10. ViewInv(s) BY <1>6, <1>8 DEF TermInv, ViewInv
  <1>11. t.todo.line = (t.view + r) % MAX_ROWS \/ \A z \in x .. cols - 1 : <<r, z>> \in t.torn
    BY DEF TermInv, ScreenInv
  <1>12. ASSUME t.row - t.view < MAX_ROWS, cell \notin t.torn PROVE Right(s, cell)
    <2>1. t.todo.line = (t.view + r) % MAX_ROWS
      <3>1. x \in x .. cols - 1 BY <1>2
      <3> QED BY <1>11, <1>12, <3>1
    <2>2. Window(t, t.view)[cell] = Look(c) BY <1>3, <2>1 DEF Window
    <2>3. t.view = 0 \/ t.view + rows - 1 <= t.row BY DEF TermInv, ViewInv
    <2>4. Look(c) = ExpectedAt(t, t.view, cell) BY <1>1, <1>3, <1>12, <2>2, <2>3, WindowRight
    <2>5. Right(t, cell) \/ t.screen[cell] = " " BY <1>3, <1>12 DEF TermInv, ScreenInv
    <2>6. screen[cell] = ExpectedAt(t, t.view, cell)
      <3>1. CASE c = NUL BY <1>7, <2>4, <2>5, <3>1 DEF Right, Look
      <3>2. CASE c # NUL BY <1>7, <2>4, <3>2 DEF Look
      <3> QED BY <3>1, <3>2
    <2> QED BY <1>8, <2>6 DEF Right, ExpectedAt
  <1>13. ASSUME t.row - t.view < MAX_ROWS, NEW p \in Screen \ t.torn
         PROVE  Right(s, p) \/ (todo # NoStage /\ s.screen[p] = " " /\ Undrawn(todo, p))
    <2>1. CASE p = cell BY <1>12, <1>13, <2>1
    <2>2. CASE p # cell
      <3>1. Right(t, p) \/ (t.screen[p] = " " /\ Undrawn(t.todo, p)) BY <1>13 DEF TermInv, ScreenInv
      <3>2. screen[p] = t.screen[p] BY <1>7, <2>2
      <3>3. Right(t, p) => Right(s, p) BY <1>8, <3>2 DEF Right, ExpectedAt
      <3>4. Undrawn(t.todo, p) => NextCell(t).todo # NoStage /\ Undrawn(NextCell(t).todo, p)
        BY <2>2, UndrawnAfter
      <3>5. NextCell(t).todo = todo BY <1>8 DEF s
      <3> QED BY <1>8, <3>1, <3>2, <3>3, <3>4, <3>5
    <2> QED BY <2>1, <2>2
  <1>14. ScreenInv(s)
    <2>1. todo.op = "cells" => todo.line = (t.view + todo.row) % MAX_ROWS
                               \/ \A z \in todo.col .. cols - 1 : <<todo.row, z>> \in t.torn
      <3>1. \A z \in x + 1 .. cols - 1 : z \in x .. cols - 1 BY <1>2
      <3> QED BY <1>6, <1>11, <3>1 DEF NoStage
    <2>2. t.row - t.view < MAX_ROWS =>
            \A p \in Screen \ t.torn : Right(s, p) \/ (s.screen[p] = " " /\ Undrawn(todo, p))
      BY <1>13
    <2>3. t.row - t.view < MAX_ROWS /\ todo = NoStage => WrongBut(s, NoCell) \subseteq t.torn
      BY <1>13 DEF WrongBut
    <2>4. todo.op \in {"none", "test", "scroll"} => todo = NoStage BY <1>6
    <2>5. todo.op # "glyph" BY <1>6
    <2> QED BY <1>8, <2>1, <2>2, <2>3, <2>4, <2>5 DEF ScreenInv
  <1> QED BY <1>6, <1>8, <1>9, <1>10, <1>14 DEF TermInv, s

LEMMA GlyphStep ==
  ASSUME NEW t, TermInv(t), t.todo.op = "glyph"
  PROVE  /\ TermInv(Advance(t))
         /\ Advance(t).row = t.row /\ Advance(t).view = t.view /\ Advance(t).todo = NoStage
  <1> DEFINE s == Advance(t)
             d == DrawGlyph(t)
             cell == <<t.todo.vis, t.todo.x>>
  <1>1. t \in TermType /\ t.row \in Nat /\ t.view \in Nat /\ t.todo \in Stage /\ t.screen \in [Screen -> Chars]
    BY DEF TermInv, TermType
  <1>2. t.todo.vis \in Nat /\ t.todo.x \in 0 .. cols - 1 /\ t.todo.c \in Chars BY <1>1 DEF Stage, NoStage
  <1>3. s = [d EXCEPT !.todo = NoStage] BY DEF Advance
  <1>4. /\ d \in TermType /\ d.buf = t.buf /\ d.row = t.row /\ d.view = t.view /\ d.text = t.text
        /\ d.torn = t.torn
        /\ d.screen = IF t.todo.vis < rows THEN [t.screen EXCEPT ![cell] = t.todo.c] ELSE t.screen
    <2>1. CASE t.todo.vis < rows
      <3>1. cell \in Screen BY <1>2, <2>1, ScreenSizes DEF Screen
      <3> DEFINE screen == [t.screen EXCEPT ![cell] = t.todo.c]
      <3>2. d = [t EXCEPT !.screen = screen] BY <2>1 DEF DrawGlyph
      <3>3. screen \in [Screen -> Chars] BY <1>1, <1>2, <3>1
      <3> HIDE DEF screen, d
      <3>4. /\ d \in TermType /\ d.buf = t.buf /\ d.row = t.row /\ d.view = t.view /\ d.text = t.text
            /\ d.torn = t.torn /\ d.screen = screen
        BY <1>1, <3>2, <3>3 DEF TermType
      <3> QED BY <2>1, <3>4 DEF screen
    <2>2. CASE ~(t.todo.vis < rows) BY <1>1, <2>2 DEF DrawGlyph
    <2> QED BY <2>1, <2>2
  <1> HIDE DEF d, s
  <1>5. /\ s \in TermType /\ s.buf = t.buf /\ s.row = t.row /\ s.view = t.view /\ s.text = t.text
        /\ s.torn = t.torn /\ s.todo = NoStage /\ s.screen = d.screen
    <2>1. NoStage \in Stage BY DEF Stage
    <2> QED BY <1>3, <1>4, <2>1 DEF TermType
  <1>6. SameText(s, t) /\ s.todo.op = "none" BY <1>5 DEF SameText, NoStage
  <1>7. ASSUME t.row - t.view < MAX_ROWS PROVE WrongBut(s, NoCell) \subseteq s.torn
    <2>1. ASSUME NEW p \in Screen, p # cell PROVE Right(s, p) <=> Right(t, p)
      BY <1>1, <1>4, <1>5, <2>1 DEF Right, ExpectedAt
    <2>2. WrongBut(t, cell) \subseteq t.torn BY <1>7 DEF TermInv, ScreenInv
    <2>3. ASSUME cell \in Screen, cell \notin t.torn PROVE Right(s, cell)
      <3>1. t.todo.vis < rows
        <4>1. cell[1] \in 0 .. rows - 1 BY <2>3 DEF Screen
        <4> QED BY <4>1, ScreenSizes
      <3>2. s.screen[cell] = t.todo.c BY <1>1, <1>4, <1>5, <2>3, <3>1
      <3>3. t.todo.vis = t.row - t.view BY <1>7, <2>3 DEF TermInv, ScreenInv
      <3>4. t.view + cell[1] + 1 = t.row + 1 /\ cell[2] = t.todo.x BY <1>1, <1>2, <3>3
      <3>5. t.row + 1 \in 1 .. Len(t.text) BY <1>1 DEF TermInv, RingInv
      <3>6. ExpectedAt(s, s.view, cell) = t.text[t.row + 1][t.todo.x] BY <1>5, <3>4, <3>5 DEF ExpectedAt
      <3> QED BY <3>2, <3>6 DEF Right, TermInv, ScreenInv
    <2> QED BY <1>5, <2>1, <2>2, <2>3 DEF WrongBut
  <1>8. TermInv(s) BY <1>5, <1>6, <1>7, Settled
  <1> QED BY <1>5, <1>8 DEF s

\* What is left to do after a stage
LEMMA AdvanceStep ==
  ASSUME NEW t, TermInv(t),
         NEW s, (s = Advance(t) /\ t.todo.op \notin {"row", "cells"}) \/ s = Interruptible(t)
  PROVE  /\ TermInv(s)
         /\ s.row = t.row
         /\ t.todo.op = "test" =>
              /\ s.view = t.view
              /\ s.todo = IF PastBottom(t) THEN [op |-> "scroll", view |-> t.view] ELSE NoStage
         /\ t.todo.op = "scroll" => s.view = t.todo.view + 1 /\ s.todo.op = "redraw"
         /\ t.todo.op \in {"none", "glyph"} => s.view = t.view /\ s.todo = NoStage
         /\ t.todo.op \in {"redraw", "row", "cells"} =>
              s.view = t.view /\ (s.todo = NoStage \/ s.todo.op \in {"row", "cells"})
         /\ s = Advance(t) /\ t.todo.op = "redraw" => s.todo = NoStage
  <1>1. t.todo.op \in {"none", "test", "scroll", "redraw", "glyph", "row", "cells"}
    BY DEF TermInv, TermType, Stage, NoStage
  <1>2. t.todo.op \in {"none", "test", "scroll", "glyph"} => s = Advance(t) BY DEF Interruptible
  <1>3. CASE t.todo.op = "redraw" /\ s = Advance(t) BY <1>3, RedrawStep
  <1>4. CASE t.todo.op = "redraw" /\ s # Advance(t)
    <2>1. s = Clear(t) BY <1>4 DEF Interruptible
    <2> QED BY <1>4, <2>1, ClearStep
  <1>5. CASE t.todo.op = "row"
    <2>1. s = StartRow(t) BY <1>5 DEF Interruptible
    <2> QED BY <1>5, <2>1, StartRowStep
  <1>6. CASE t.todo.op = "cells"
    <2>1. s = NextCell(t) BY <1>6 DEF Interruptible
    <2> QED BY <1>6, <2>1, NextCellStep
  <1>7. CASE t.todo.op = "glyph" BY <1>2, <1>7, GlyphStep
  <1>8. CASE t.todo.op = "test" BY <1>2, <1>8, TestPageStep
  <1>9. CASE t.todo.op = "scroll" BY <1>2, <1>9, NextViewStep
  <1>10. CASE t.todo.op = "none"
    <2>1. s = t BY <1>2, <1>10 DEF Advance
    <2>2. t.todo = NoStage BY <1>10 DEF TermInv, TermType, Stage, NoStage
    <2> QED BY <1>10, <2>1, <2>2
  <1> QED BY <1>1, <1>3, <1>4, <1>5, <1>6, <1>7, <1>8, <1>9, <1>10

-----------------------------------------------------------------------------
(* Following the output *)

LEMMA BeginFollows ==
  ASSUME NEW t, TermInv(t), t.todo = NoStage, NEW c \in Chars, Following(t)
  PROVE  Following(Begin(t, c))
  <1>1. t.row \in Nat /\ t.view \in Nat BY DEF TermInv, TermType
  <1>2. t.row - t.view < rows BY DEF Following, NoStage
  <1>3. PICK s : s = Begin(t, c) OBVIOUS
  <1>4. /\ s.view = t.view
        /\ \/ s.row = t.row /\ s.todo.op \in {"none", "glyph"}
           \/ s.row = t.row + 1 /\ s.todo.op = "test"
    BY <1>3, BeginStep
  <1>5. Following(s) BY <1>1, <1>2, <1>4, ScreenSizes DEF Following
  <1> QED BY <1>3, <1>5

LEMMA AdvanceFollows ==
  ASSUME NEW t, TermInv(t), Following(t),
         NEW s, (s = Advance(t) /\ t.todo.op \notin {"row", "cells"}) \/ s = Interruptible(t)
  PROVE  Following(s)
  <1>1. t.row \in Nat /\ t.view \in Nat /\ t.todo \in Stage BY DEF TermInv, TermType
  <1>2. s.row = t.row BY AdvanceStep
  <1>3. CASE t.todo.op = "test"
    <2>1. s.view = t.view /\ s.todo = IF PastBottom(t) THEN [op |-> "scroll", view |-> t.view] ELSE NoStage
      BY <1>3, AdvanceStep
    <2>2. CASE PastBottom(t)
      <3>1. s.todo.op = "scroll" /\ s.todo.view = t.view BY <2>1, <2>2
      <3> QED BY <1>1, <1>2, <1>3, <2>1, <3>1 DEF Following
    <2>3. CASE ~PastBottom(t)
      <3>1. s.todo.op = "none" BY <2>1, <2>3 DEF NoStage
      <3>2. t.row - t.view < rows BY <1>1, <2>3, ScreenSizes DEF PastBottom
      <3> QED BY <1>2, <2>1, <3>1, <3>2 DEF Following
    <2> QED BY <2>2, <2>3
  <1>4. CASE t.todo.op = "scroll"
    <2>1. s.view = t.todo.view + 1 /\ s.todo.op = "redraw" BY <1>4, AdvanceStep
    <2>2. t.todo.view \in Nat BY <1>1, <1>4 DEF Stage, NoStage
    <2>3. t.row - t.todo.view <= rows BY <1>4 DEF Following
    <2>4. s.row - s.view < rows BY <1>1, <1>2, <2>1, <2>2, <2>3, ScreenSizes
    <2> QED BY <2>1, <2>4 DEF Following
  <1>5. CASE t.todo.op \in {"none", "glyph", "redraw", "row", "cells"}
    <2>1. s.view = t.view /\ s.todo.op \in {"none", "row", "cells"}
      <3>1. s.view = t.view /\ (s.todo = NoStage \/ s.todo.op \in {"row", "cells"}) BY <1>5, AdvanceStep
      <3> QED BY <3>1 DEF NoStage
    <2> QED BY <1>2, <1>5, <2>1 DEF Following
  <1> QED BY <1>1, <1>3, <1>4, <1>5 DEF Stage, NoStage

\* The terminal between two characters; b: it follows its output
Resting(b) == {t \in TermType : TermInv(t) /\ t.todo = NoStage /\ (b => Following(t))}

LEMMA PutCharStep ==
  ASSUME NEW b \in BOOLEAN, NEW t \in Resting(b), NEW c \in Chars
  PROVE  tty_putchar(t, c) \in Resting(b)
  <1>1. PICK u : u = Begin(t, c) OBVIOUS
  <1>2. PICK v : v = Advance(u) OBVIOUS
  <1>3. PICK w : w = Advance(v) OBVIOUS
  <1>4. PICK s : s = Advance(w) OBVIOUS
  <1>5. tty_putchar(t, c) = s BY <1>1, <1>2, <1>3, <1>4 DEF tty_putchar
  <1>6. TermInv(t) /\ t.todo = NoStage /\ (b => Following(t)) BY DEF Resting
  <1>7. TermInv(u) /\ (b => Following(u)) /\ u.todo.op \in {"none", "glyph", "test"}
    BY <1>1, <1>6, BeginStep, BeginFollows
  <1>8. /\ TermInv(v) /\ (b => Following(v))
        /\ v.todo.op \in {"none", "scroll"}
    <2>1. TermInv(v) /\ (b => Following(v)) BY <1>2, <1>7, AdvanceStep, AdvanceFollows
    <2>2. u.todo.op \in {"none", "glyph"} => v.todo = NoStage BY <1>2, <1>7, AdvanceStep
    <2>3. u.todo.op = "test" => v.todo = IF PastBottom(u) THEN [op |-> "scroll", view |-> u.view] ELSE NoStage
      BY <1>2, <1>7, AdvanceStep
    <2> QED BY <1>7, <2>1, <2>2, <2>3 DEF NoStage
  <1>9. TermInv(w) /\ (b => Following(w)) /\ w.todo.op \in {"none", "redraw"}
    <2>1. TermInv(w) /\ (b => Following(w)) BY <1>3, <1>8, AdvanceStep, AdvanceFollows
    <2>2. v.todo.op = "none" => w.todo = NoStage BY <1>3, <1>8, AdvanceStep
    <2>3. v.todo.op = "scroll" => w.todo.op = "redraw" BY <1>3, <1>8, AdvanceStep
    <2> QED BY <1>8, <2>1, <2>2, <2>3 DEF NoStage
  <1>10. TermInv(s) /\ (b => Following(s)) /\ s.todo = NoStage
    BY <1>4, <1>9, AdvanceStep, AdvanceFollows
  <1>11. s \in TermType BY <1>10 DEF TermInv
  <1> QED BY <1>5, <1>10, <1>11 DEF Resting

\* tty_write, with interrupts off, one character after the other
LEMMA TtyWriteStep ==
  ASSUME NEW b \in BOOLEAN, NEW t \in Resting(b), NEW data \in Seq(Chars)
  PROVE  tty_write(t, data) \in Resting(b)
  <1> DEFINE n == Len(data)
             T == Resting(b)
             g == [i \in 1 .. n |-> [u \in T |-> tty_putchar(u, data[i])]]
             Eq(f) == f = [s \in SUBSET (DOMAIN data) |->
                             IF s = {} THEN t ELSE tty_putchar(f[s \ {Max(s)}], data[Max(s)])]
             iter == CHOOSE f : Eq(f)
  <1>1. n \in Nat /\ DOMAIN data = 1 .. n /\ \A i \in 1 .. n : data[i] \in Chars OBVIOUS
  <1>2. tty_write(t, data) = iter[DOMAIN data] BY DEF tty_write, FoldLeft, MapThenFoldSet
  <1>3. \A i \in 1 .. n : \A u \in T : tty_putchar(u, data[i]) \in T BY <1>1, PutCharStep
  <1> HIDE DEF T
  <1>4. g \in [1 .. n -> [T -> T]] /\ \A i \in 1 .. n : \A u \in T : g[i][u] = tty_putchar(u, data[i])
    BY <1>3
  <1>5. t \in T BY DEF T
  <1> HIDE DEF g, n
  <1>6. PICK h \in [SUBSET (1 .. n) -> T] : Folds(h, n, t, g) BY <1>1, <1>4, <1>5, FoldExists
  <1>7. Eq(h)
    <2>1. ASSUME NEW s \in SUBSET (1 .. n)
          PROVE  h[s] = IF s = {} THEN t ELSE tty_putchar(h[s \ {Max(s)}], data[Max(s)])
      <3>1. h[s] = IF s = {} THEN t ELSE g[Max(s)][h[s \ {Max(s)}]] BY <1>6 DEF Folds
      <3>2. CASE s # {}
        <4>1. Max(s) \in 1 .. n /\ h[s \ {Max(s)}] \in T BY <1>1, <1>6, <3>2, Largest
        <4> QED BY <1>4, <3>1, <3>2, <4>1
      <3> QED BY <3>1, <3>2
    <2>2. h = [s \in SUBSET (1 .. n) |-> IF s = {} THEN t ELSE tty_putchar(h[s \ {Max(s)}], data[Max(s)])]
      BY <2>1
    <2> QED BY <1>1, <2>2
  <1>8. Eq(iter) BY <1>7
  <1> HIDE DEF iter
  <1>9. \A s \in SUBSET (1 .. n) :
          iter[s] = IF s = {} THEN t ELSE tty_putchar(iter[s \ {Max(s)}], data[Max(s)])
    BY <1>1, <1>8
  <1> DEFINE I == {i \in 0 .. n : iter[1 .. i] \in T}
  <1>10. 0 \in I
    <2>1. 1 .. 0 = {} /\ 1 .. 0 \in SUBSET (1 .. n) /\ 0 \in 0 .. n BY <1>1
    <2>2. iter[{}] = t BY <1>9
    <2> QED BY <1>5, <2>1, <2>2
  <1>11. ASSUME NEW i \in 0 .. n - 1, i \in I PROVE i + 1 \in I
    <2> DEFINE s == 1 .. (i + 1)
    <2>0. i + 1 \in 0 .. n /\ i + 1 \in 1 .. n /\ i + 1 \in s BY <1>1
    <2>1. s \in SUBSET (1 .. n) /\ s # {} /\ i + 1 \in 0 .. n /\ i + 1 \in 1 .. n /\ i + 1 \in s
      <3>1. \A j \in s : j \in 1 .. n BY <1>1
      <3> QED BY <2>0, <3>1
    <2>2. Max(s) \in s /\ i + 1 <= Max(s) BY <1>1, <2>1, Largest
    <2>3. Max(s) = i + 1 BY <1>1, <2>2
    <2>4. s \ {i + 1} = 1 .. i BY <1>1
    <2>5. iter[s] = tty_putchar(iter[1 .. i], data[i + 1])
      <3> HIDE DEF s
      <3>1. iter[s] = tty_putchar(iter[s \ {Max(s)}], data[Max(s)]) BY <1>9, <2>1
      <3> QED BY <2>3, <2>4, <3>1
    <2>6. iter[s] \in T BY <1>3, <1>11, <2>1, <2>5
    <2> QED BY <2>1, <2>6
  <1> HIDE DEF I
  <1>12. 0 .. n \subseteq I BY <1>1, <1>10, <1>11, InductionUpTo
  <1>13. iter[1 .. n] \in T
    <2>1. n \in I BY <1>1, <1>12
    <2> QED BY <2>1 DEF I
  <1> QED BY <1>1, <1>2, <1>13 DEF T

-----------------------------------------------------------------------------
(* The console *)

ConsoleLogInv ==
  /\ log \in Seq(Chars)
  /\ phase = "user" => Free

\* The terminal's own invariant, and that it follows its output before the
\* first Page-Up.
ConsoleInv == ConsoleLogInv /\ TermInv(term) /\ scrolled \in BOOLEAN /\ (~scrolled => Following(term))

LEMMA InitConsole == ConsoleInit => ConsoleInv
  <1> SUFFICES ASSUME ConsoleInit PROVE ConsoleInv OBVIOUS
  <1>1. PICK t : t = tty_init OBVIOUS
  <1>13. \A n \in 0 .. MAX_ROWS - 1 : t.buf[n] = EmptyLine BY <1>1 DEF tty_init
  <1>12. \A p \in Screen : t.screen[p] = " " BY <1>1 DEF tty_init
  <1>5. Len(t.text) = 1 /\ t.text[1] = BlankLine
    <2>1. t.text = <<BlankLine>> BY <1>1 DEF tty_init
    <2> QED BY <2>1
  <1>2. t.row = 0 /\ t.view = 0 /\ t.todo = NoStage /\ t.torn = {} /\ t.todo.op = "none"
    BY <1>1 DEF tty_init, NoStage
  <1>3. BlankLine \in Line BY CharFacts DEF BlankLine, Line
  <1>4. t \in TermType
    <2>1. EmptyLine \in [0 .. cols - 1 -> Chars \cup {NUL}] BY DEF EmptyLine
    <2>2. [y \in 0 .. MAX_ROWS - 1 |-> EmptyLine] \in [0 .. MAX_ROWS - 1 -> [0 .. cols - 1 -> Chars \cup {NUL}]]
      BY <2>1
    <2>3. 0 \in 0 .. cols /\ NoStage \in Stage BY ScreenSizes DEF Stage
    <2>4. [p \in Screen |-> " "] \in [Screen -> Chars] BY CharFacts
    <2>5. <<BlankLine>> \in Seq(Line) BY <1>3
    <2> QED BY <1>1, <2>2, <2>3, <2>4, <2>5 DEF tty_init, TermType
  <1>6. RingInv(t)
    <2>1. ASSUME NEW n \in 0 .. 0, NEW x \in 0 .. cols - 1 PROVE Look(t.buf[n % MAX_ROWS][x]) = t.text[n + 1][x]
      <3>1. n = 0 /\ 0 \in 0 .. MAX_ROWS - 1 BY ScreenSizes
      <3>2. n % MAX_ROWS = 0 BY <3>1, ScreenSizes, Ring
      <3>3. t.buf[0][x] = NUL
        <4>1. EmptyLine[x] = NUL BY DEF EmptyLine
        <4> QED BY <1>13, <3>1, <4>1
      <3>4. t.text[n + 1][x] = " "
        <4>1. BlankLine[x] = " " BY DEF BlankLine
        <4>2. n + 1 = 1 BY <3>1
        <4> QED BY <1>5, <4>1, <4>2
      <3> QED BY <3>2, <3>3, <3>4 DEF Look
    <2>2. ASSUME NEW n \in 0 + 1 .. MAX_ROWS - 1 PROVE t.buf[n] = EmptyLine
      <3>1. n \in 0 .. MAX_ROWS - 1 BY ScreenSizes
      <3> QED BY <1>13, <3>1
    <2>3. 0 + 1 = 1 OBVIOUS
    <2> QED BY <1>2, <1>5, <2>1, <2>2, <2>3 DEF RingInv
  <1>7. ViewInv(t) BY <1>2 DEF ViewInv
  <1>8. ScreenInv(t)
    <2>1. ASSUME NEW p \in Screen PROVE Right(t, p)
      <3>1. PICK y \in 0 .. rows - 1, z \in 0 .. cols - 1 : p = <<y, z>> /\ p[1] = y /\ p[2] = z
        BY DEF Screen
      <3>2. BlankLine[z] = " " BY DEF BlankLine
      <3>3. ExpectedAt(t, 0, p) = " "
        <4>1. 0 + p[1] + 1 \in 1 .. 1 => 0 + p[1] + 1 = 1 BY <3>1
        <4> QED BY <1>5, <3>1, <3>2, <4>1 DEF ExpectedAt
      <3> QED BY <1>2, <1>12, <3>3 DEF Right
    <2>2. WrongBut(t, NoCell) = {} BY <2>1 DEF WrongBut
    <2> QED BY <1>2, <2>2 DEF ScreenInv
  <1>9. TermInv(t) BY <1>4, <1>6, <1>7, <1>8 DEF TermInv
  <1>10. Following(t) BY <1>2, ScreenSizes DEF Following
  <1>11. log = <<>> /\ <<>> \in Seq(Chars) /\ phase = "tty" /\ scrolled = FALSE /\ term = t BY <1>1 DEF ConsoleInit
  <1> QED BY <1>9, <1>10, <1>11 DEF ConsoleInv, ConsoleLogInv

\* Page-Up and Page-Down, at any stage of tty_putchar
LEMMA KeyStep ==
  ASSUME NEW t, TermInv(t), NEW s, s \in {t, tty_scroll_up(t), tty_scroll_down(t)}
  PROVE  /\ TermInv(s)
         /\ t.todo = NoStage => s.todo = NoStage
         /\ Following(t) /\ ~(s.view < t.view) => Following(s)
  <1>1. t.row \in Nat /\ t.view \in Nat BY DEF TermInv, TermType
  <1>2. t.view = 0 \/ t.view + rows - 1 <= t.row BY DEF TermInv, ViewInv
  <1>3. CASE s = t BY <1>3
  <1>4. CASE s # t /\ s = tty_scroll_up(t)
    <2>1. t.view > 0 /\ s = ScrollTo(t, t.view - 1) BY <1>4 DEF tty_scroll_up
    <2>2. PICK v \in Nat : v = t.view - 1 BY <1>1, <2>1
    <2>3. v = 0 \/ v + rows - 1 <= t.row BY <1>1, <1>2, <2>2, ScreenSizes
    <2>4. TermInv(s) /\ s.view = v /\ s.todo = t.todo BY <2>1, <2>2, <2>3, ScrollStep
    <2>5. s.view < t.view BY <1>1, <2>2, <2>4
    <2> QED BY <2>4, <2>5 DEF NoStage
  <1>5. CASE s # t /\ s = tty_scroll_down(t)
    <2>1. t.view + rows < t.row /\ s = ScrollTo(t, t.view + 1) BY <1>5 DEF tty_scroll_down
    <2>2. PICK v \in Nat : v = t.view + 1 BY <1>1
    <2>3. v = 0 \/ v + rows - 1 <= t.row BY <1>1, <2>1, <2>2, ScreenSizes
    <2>4. TermInv(s) /\ s.view = v /\ s.todo = t.todo BY <2>1, <2>2, <2>3, ScrollStep
    <2>5. ~(t.row - t.view <= rows) BY <1>1, <2>1, ScreenSizes
    <2>6. ~(t.row - t.view < rows) BY <1>1, <2>1, ScreenSizes
    <2>7. ~Following(t) BY <2>5, <2>6 DEF Following, TermInv, TermType, Stage, NoStage
    <2> QED BY <2>4, <2>7 DEF NoStage
  <1> QED BY <1>3, <1>4, <1>5

LEMMA MessageChars == \A msg \in ConsoleMessages : msg \in Seq(Chars)
  <1> SUFFICES ASSUME NEW msg \in ConsoleMessages PROVE msg \in Seq(Chars) OBVIOUS
  <1>1. msg \in Seq(ToSet(msg)) /\ ToSet(msg) \subseteq Chars BY MessagesAssumption DEF Chars
  <1> QED BY <1>1

\* A step that leaves the terminal alone
LEMMA SameConsole ==
  ASSUME ConsoleInv, UNCHANGED <<term, scrolled>>, ConsoleLogInv'
  PROVE  ConsoleInv'
  BY DEF ConsoleInv

LEMMA NextConsole ==
  ASSUME ConsoleInv, [ConsoleNext]_console_vars
  PROVE  ConsoleInv'
  <1>0. ConsoleLogInv /\ TermInv(term) /\ scrolled \in BOOLEAN /\ (~scrolled => Following(term)) BY DEF ConsoleInv
  <1>1. CASE KeyPress \/ SendByte \/ UNCHANGED console_vars
    <2>1. UNCHANGED <<term, log, phase, scrolled>> BY <1>1 DEF KeyPress, SendByte, console_vars, boot, keys
    <2> QED BY <1>0, <2>1, SameConsole DEF ConsoleLogInv, Free
  <1>2. CASE Boot
    <2>1. UNCHANGED <<term, log, scrolled>> /\ Free
      BY <1>2 DEF Boot, init_idt, init_apic, keyboard_register, keyboard_drain, keyboard_unmask,
                  start_user, Step, keys
    <2> QED BY <1>0, <2>1, SameConsole DEF ConsoleLogInv, Free
  <1>3. CASE tty_flush
    <2>1. phase' = phase /\ scrolled' = scrolled BY <1>3 DEF tty_flush, boot, keys
    <2>2. CASE term.todo = NoStage /\ log # <<>> /\ term' = Begin(term, Head(log)) /\ log' = Tail(log)
      <3>1. PICK c \in Chars : c = Head(log) BY <1>0, <2>2 DEF ConsoleLogInv
      <3>2. TermInv(term') BY <1>0, <2>2, <3>1, BeginStep
      <3>3. ~scrolled => Following(term') BY <1>0, <2>2, <3>1, BeginFollows
      <3>4. log' \in Seq(Chars) /\ phase # "user" BY <1>0, <2>2 DEF ConsoleLogInv, Free
      <3> QED BY <1>0, <2>1, <3>2, <3>3, <3>4 DEF ConsoleInv, ConsoleLogInv
    <2>3. CASE term.todo # NoStage /\ term' = Interruptible(term) /\ UNCHANGED log
      <3>1. TermInv(term') BY <1>0, <2>3, AdvanceStep
      <3>2. ~scrolled => Following(term') BY <1>0, <2>3, AdvanceFollows
      <3>3. log' \in Seq(Chars) /\ phase # "user" BY <1>0, <2>3 DEF ConsoleLogInv, Free
      <3> QED BY <1>0, <2>1, <3>1, <3>2, <3>3 DEF ConsoleInv, ConsoleLogInv
    <2> QED BY <1>3, <2>2, <2>3 DEF tty_flush
  <1>4. CASE interrupt_handler
    <2>1. UNCHANGED <<log, phase>> BY <1>4 DEF interrupt_handler, boot
    <2>2. CASE handler
      <3>1. /\ term' = Scroll(obuf)
            /\ scrolled' = (scrolled \/ term'.view < term.view)
        BY <1>4, <2>2 DEF interrupt_handler, keyboard_irq_handler
      <3>2. term' \in {term, tty_scroll_up(term), tty_scroll_down(term)} BY <3>1 DEF Scroll
      <3>3. TermInv(term') BY <1>0, <3>2, KeyStep
      <3>4. term.todo = NoStage => term'.todo = NoStage BY <1>0, <3>2, KeyStep
      <3>5. ~scrolled' => Following(term') BY <1>0, <3>1, <3>2, KeyStep
      <3>6. scrolled' \in BOOLEAN BY <1>0, <3>1
      <3>7. ConsoleLogInv' BY <1>0, <2>1, <3>4 DEF ConsoleLogInv, Free
      <3> QED BY <3>3, <3>5, <3>6, <3>7 DEF ConsoleInv
    <2>3. CASE ~handler
      <3>1. UNCHANGED <<term, scrolled>> BY <1>4, <2>3 DEF interrupt_handler
      <3> QED BY <1>0, <2>1, <3>1, SameConsole DEF ConsoleLogInv, Free
    <2> QED BY <2>2, <2>3
  <1>5. ASSUME NEW msg \in ConsoleMessages, printk_message(msg) PROVE ConsoleInv'
    <2>1. UNCHANGED <<term, scrolled, phase>> /\ log' = msg /\ phase # "user" BY <1>5 DEF printk_message, boot, keys
    <2>2. ConsoleLogInv' BY <2>1, MessageChars DEF ConsoleLogInv
    <2> QED BY <2>1, <2>2, SameConsole
  <1>6. ASSUME NEW msg \in ConsoleMessages, syscall_dispatch(msg) PROVE ConsoleInv'
    <2>1. UNCHANGED <<log, phase, scrolled>> /\ phase = "user" /\ term' = tty_write(term, msg)
      BY <1>6 DEF syscall_dispatch, boot, keys
    <2>2. PICK b \in BOOLEAN : b = ~scrolled BY <1>0
    <2>3. term.todo = NoStage BY <1>0, <2>1 DEF ConsoleLogInv, Free
    <2>4. PICK t : t = term OBVIOUS
    <2>5. t \in Resting(b) BY <1>0, <2>2, <2>3, <2>4 DEF Resting, TermInv
    <2>6. tty_write(t, msg) \in Resting(b) BY <2>5, MessageChars, TtyWriteStep
    <2>7. TermInv(term') /\ term'.todo = NoStage /\ (~scrolled => Following(term'))
      BY <2>1, <2>2, <2>4, <2>6 DEF Resting
    <2> QED BY <1>0, <2>1, <2>7 DEF ConsoleInv, ConsoleLogInv, Free
  <1> QED BY <1>1, <1>2, <1>3, <1>4, <1>5, <1>6 DEF ConsoleNext

LEMMA ConsoleInvariant == ConsoleSpec => []ConsoleInv
  BY InitConsole, NextConsole, PTL DEF ConsoleSpec

\* As long as nobody has pressed Page-Up the line being written stays on the
\* screen, however many newlines a message has and whatever interrupts it.
THEOREM OutputIsFollowed == ConsoleSpec => []FollowsOutput
  <1>1. ConsoleInv => FollowsOutput BY DEF ConsoleInv, FollowsOutput, Following, Free, NoStage
  <1> QED BY <1>1, ConsoleInvariant, PTL

\* For every size of the screen and of the ring, every text and every moment at
\* which a key scrolls: but for the glyph being drawn the screen shows the
\* text, and a scroll in the middle of drawing spoils no more than what had been
\* read before it and not been drawn, one glyph or the rest of one row.
THEOREM ScreenIsRight == ConsoleSpec => []ScreenShowsText
  <1>1. ASSUME ConsoleInv PROVE ScreenShowsText
    <2> SUFFICES ASSUME term.todo.op \notin {"redraw", "row", "cells"}, term.row - term.view < MAX_ROWS
                 PROVE  Wrong \subseteq term.torn
      BY DEF ScreenShowsText
    <2>1. TermInv(term) /\ term \in TermType BY <1>1 DEF ConsoleInv, TermInv
    <2>2. ASSUME NEW p \in Screen PROVE Expected(p) = ExpectedAt(term, term.view, p)
      <3>1. DOMAIN term.text = 1 .. Len(term.text) BY <2>1 DEF TermType
      <3> QED BY <3>1 DEF Expected, ExpectedAt
    <2>3. \A p \in Screen : term.screen[p] = Expected(p) <=> Right(term, p) BY <2>2 DEF Right
    <2>4. CASE term.todo.op # "glyph"
      <3>1. term.todo.op \in {"none", "test", "scroll"} BY <2>1, <2>4 DEF TermType, Stage, NoStage
      <3>2. \A p \in Screen : p # NoCell BY DEF Screen, NoCell
      <3>3. Wrong = WrongBut(term, NoCell) BY <2>3, <2>4, <3>2 DEF Wrong, BeingDrawn, WrongBut
      <3> QED BY <2>1, <3>1, <3>3 DEF TermInv, ScreenInv
    <2>5. CASE term.todo.op = "glyph"
      <3> DEFINE cell == <<term.row - term.view, term.todo.x>>
                 drawn == <<term.todo.vis, term.todo.x>>
      <3>1. Wrong = WrongBut(term, cell) BY <2>3, <2>5 DEF Wrong, BeingDrawn, WrongBut
      <3>2. WrongBut(term, drawn) \subseteq term.torn /\ (drawn = cell \/ drawn \in term.torn)
        BY <2>1, <2>5 DEF TermInv, ScreenInv
      <3> QED BY <3>1, <3>2 DEF WrongBut
    <2> QED BY <2>4, <2>5
  <1> QED BY <1>1, ConsoleInvariant, PTL

-----------------------------------------------------------------------------
(* The log: counting *)

LEMMA CountType ==
  ASSUME NEW S, NEW s \in Seq(S), NEW c
  PROVE  Count(s, c) \in Nat /\ IsFiniteSet({i \in DOMAIN s : s[i] = c})
  <1>1. DOMAIN s = 1 .. Len(s) /\ Len(s) \in Nat OBVIOUS
  <1>2. IsFiniteSet(DOMAIN s) BY <1>1, FS_Interval
  <1>3. {i \in DOMAIN s : s[i] = c} \in SUBSET (DOMAIN s) OBVIOUS
  <1>4. IsFiniteSet({i \in DOMAIN s : s[i] = c}) BY <1>2, <1>3, FS_Subset
  <1> QED BY <1>4, FS_CardinalityType DEF Count

\* Occurrences in two sequences add up.
LEMMA CountConcat ==
  ASSUME NEW S, NEW s \in Seq(S), NEW t \in Seq(S), NEW c
  PROVE  Count(s \o t, c) = Count(s, c) + Count(t, c)
  <1> DEFINE n == Len(s)
             A == {i \in DOMAIN s : s[i] = c}
             B == {i \in DOMAIN t : t[i] = c}
             C == {i \in DOMAIN (s \o t) : (s \o t)[i] = c}
             D == {i \in C : i > n}
             f == [i \in B |-> i + n]
  <1>1. /\ n \in Nat /\ Len(t) \in Nat /\ DOMAIN s = 1 .. n /\ DOMAIN t = 1 .. Len(t)
        /\ DOMAIN (s \o t) = 1 .. n + Len(t)
        /\ \A i \in 1 .. n + Len(t) : (s \o t)[i] = IF i <= n THEN s[i] ELSE t[i - n]
    BY ConcatProperties
  <1> HIDE DEF n
  <1>2. C = A \cup D /\ A \cap D = {} BY <1>1
  <1>3. f \in Bijection(B, D)
    <2>1. \A i \in B : f[i] = i + n /\ i + n \in D BY <1>1
    <2>2. ASSUME NEW i \in D PROVE i - n \in B /\ (i - n) + n = i
      <3>1. i \in 1 .. n + Len(t) /\ i > n /\ (s \o t)[i] = c BY <1>1
      <3>2. t[i - n] = c BY <1>1, <3>1
      <3>3. i - n \in 1 .. Len(t) /\ (i - n) + n = i BY <1>1, <3>1
      <3> QED BY <1>1, <3>2, <3>3
    <2>3. \A i, j \in B : i + n = j + n => i = j BY <1>1
    <2>4. f \in [B -> D] BY <2>1
    <2> HIDE DEF f, B, D
    <2>5. f \in Injection(B, D) BY <2>1, <2>3, <2>4 DEF Injection, IsInjective
    <2>6. f \in Surjection(B, D)
      <3>1. \A d \in D : \E b \in B : f[b] = d BY <2>1, <2>2
      <3> QED BY <2>4, <3>1 DEF Surjection
    <2> QED BY <2>5, <2>6 DEF Bijection
  <1>4. IsFiniteSet(A) /\ IsFiniteSet(B) BY CountType
  <1>5. ExistsBijection(B, D) BY <1>3 DEF ExistsBijection
  <1> HIDE DEF A, B, C, D, f
  <1>6. IsFiniteSet(D) /\ Cardinality(D) = Cardinality(B) BY <1>4, <1>5, FS_Bijection
  <1>7. Cardinality(A \cup D) = Cardinality(A) + Cardinality(D)
    <2>1. Cardinality(A \cup D) = Cardinality(A) + Cardinality(D) - Cardinality(A \cap D)
      BY <1>4, <1>6, FS_Union
    <2>2. Cardinality(A \cap D) = 0 BY <1>2, FS_EmptySet
    <2>3. Cardinality(A) \in Nat /\ Cardinality(D) \in Nat BY <1>4, <1>6, FS_CardinalityType
    <2> QED BY <2>1, <2>2, <2>3
  <1>8. Count(s \o t, c) = Cardinality(C) /\ Count(s, c) = Cardinality(A) /\ Count(t, c) = Cardinality(B)
    BY DEF Count, A, B, C
  <1> QED BY <1>2, <1>6, <1>7, <1>8

LEMMA CountEmpty ==
  ASSUME NEW c
  PROVE  Count(<<>>, c) = 0
  <1>1. {i \in DOMAIN <<>> : <<>>[i] = c} = {} OBVIOUS
  <1> QED BY <1>1, FS_EmptySet DEF Count

-----------------------------------------------------------------------------
(* The ring *)

Texts == Programs \cup Messages \cup {TickMessage}

\* What may be in the ring: what printk copies
Letters == {"NUL"} \cup UNION {{Copied(Formatted(p))[i] : i \in 1 .. TextLen(p)} : p \in Texts}

Cells == 0 .. PRINTK_BUF_SIZE - 1
RingType == [buf : [Cells -> Letters], head : Cells, tail : Cells, out : Seq(Letters)]

LEMMA Grouping ==
  ASSUME NEW a \in Seq(Letters), NEW b \in Seq(Letters), NEW c \in Seq(Letters)
  PROVE  (a \o b) \o c = a \o (b \o c) /\ a \o b \in Seq(Letters)
  <1>1. (a \o b) \o c = a \o (b \o c) BY ConcatAssociative
  <1> QED BY <1>1

LEMMA AppendGrouping ==
  ASSUME NEW a \in Seq(Letters), NEW b \in Seq(Letters), NEW x \in Letters
  PROVE  Append(a \o b, x) = a \o Append(b, x)
  <1> DEFINE s == Append(a \o b, x)
             t == a \o Append(b, x)
  <1>1. s \in Seq(Letters) /\ t \in Seq(Letters) /\ Len(s) = Len(a) + Len(b) + 1 /\ Len(t) = Len(s)
    OBVIOUS
  <1>2. \A i \in 1 .. Len(s) : s[i] = t[i] OBVIOUS
  <1> HIDE DEF s, t
  <1>3. s = t BY <1>1, <1>2, SeqEqual
  <1> QED BY <1>3 DEF s, t

LEMMA Sizes ==
  /\ PRINTK_BUF_SIZE \in Nat \ {0} /\ CHUNK_SIZE \in Nat \ {0}
  /\ \A p \in Texts : TextLen(p) \in Nat
  BY LogAssumption DEF Texts

\* The positions wrap.
LEMMA Wraps ==
  ASSUME NEW i \in 0 .. 2 * PRINTK_BUF_SIZE - 1
  PROVE  /\ i % PRINTK_BUF_SIZE = IF i < PRINTK_BUF_SIZE THEN i ELSE i - PRINTK_BUF_SIZE
         /\ i % PRINTK_BUF_SIZE \in Cells
  <1> DEFINE N == PRINTK_BUF_SIZE
  <1>1. N \in Nat \ {0} BY Sizes
  <1>2. i \in Nat /\ i < 2 * N BY <1>1
  <1>3. i = N * (i \div N) + (i % N) /\ i \div N \in Int /\ i % N \in 0 .. N - 1 BY <1>1, <1>2
  <1>4. PICK q \in Int : q = i \div N BY <1>3
  <1>5. PICK m \in 0 .. N - 1 : m = i % N BY <1>3
  <1> HIDE DEF N
  <1>6. i = N * q + m BY <1>3, <1>4, <1>5
  <1>7. q = 0 \/ q = 1
    <2>1. q <= -1 => N * q <= -N BY <1>1
    <2>2. q >= 2 => N * q >= 2 * N BY <1>1
    <2> QED BY <1>1, <1>2, <1>5, <1>6, <2>1, <2>2
  <1>8. m = IF i < N THEN i ELSE i - N BY <1>1, <1>2, <1>5, <1>6, <1>7
  <1> QED BY <1>1, <1>5, <1>8 DEF N, Cells

LEMMA IncWraps ==
  ASSUME NEW i \in Cells
  PROVE  Inc(i) = (IF i + 1 = PRINTK_BUF_SIZE THEN 0 ELSE i + 1) /\ Inc(i) \in Cells
  <1>1. i + 1 \in 0 .. 2 * PRINTK_BUF_SIZE - 1 BY Sizes DEF Cells
  <1> QED BY <1>1, Wraps, Sizes DEF Inc, Cells

\* The place of the i-th character in the ring
Place(r, i) ==
  IF r.tail + i - 1 < PRINTK_BUF_SIZE THEN r.tail + i - 1 ELSE r.tail + i - 1 - PRINTK_BUF_SIZE

LEMMA PendingIs ==
  ASSUME NEW r \in RingType
  PROVE  /\ Used(r) \in 0 .. PRINTK_BUF_SIZE - 1
         /\ Used(r) = 0 <=> r.tail = r.head
         /\ Pending(r) \in Seq(Letters) /\ Len(Pending(r)) = Used(r)
         /\ \A i \in 1 .. Used(r) : Pending(r)[i] = r.buf[Place(r, i)] /\ Place(r, i) \in Cells
  <1>1. r.tail \in Cells /\ r.head \in Cells /\ r.buf \in [Cells -> Letters] BY DEF RingType
  <1>2. Used(r) \in 0 .. PRINTK_BUF_SIZE - 1 /\ (Used(r) = 0 <=> r.tail = r.head)
    BY <1>1, Sizes DEF Used, Cells
  <1>3. ASSUME NEW i \in 1 .. Used(r)
        PROVE  (r.tail + i - 1) % PRINTK_BUF_SIZE = Place(r, i) /\ Place(r, i) \in Cells
    <2>1. PICK k \in 0 .. 2 * PRINTK_BUF_SIZE - 1 : k = r.tail + i - 1
      BY <1>1, <1>2, Sizes DEF Cells
    <2>2. /\ k % PRINTK_BUF_SIZE = IF k < PRINTK_BUF_SIZE THEN k ELSE k - PRINTK_BUF_SIZE
          /\ k % PRINTK_BUF_SIZE \in Cells
      BY Wraps
    <2>3. Place(r, i) = IF k < PRINTK_BUF_SIZE THEN k ELSE k - PRINTK_BUF_SIZE
      BY <1>1, <2>1, Sizes DEF Place, Cells
    <2> QED BY <2>1, <2>2, <2>3
  <1>4. Pending(r) = [i \in 1 .. Used(r) |-> r.buf[Place(r, i)]]
    BY <1>3 DEF Pending
  <1>5. \A i \in 1 .. Used(r) : r.buf[Place(r, i)] \in Letters BY <1>1, <1>3
  <1>6. Used(r) \in Nat BY <1>2, Sizes
  <1> HIDE DEF Pending
  <1>7. Pending(r) \in [1 .. Used(r) -> Letters] BY <1>4, <1>5
  <1>8. Pending(r) \in Seq(Letters) /\ Len(Pending(r)) = Used(r) BY <1>6, <1>7
  <1> QED BY <1>2, <1>3, <1>4, <1>8

LEMMA PutCharType ==
  ASSUME NEW r \in RingType, NEW c \in Letters
  PROVE  PutChar(r, c) \in RingType
  <1>1. r.tail \in Cells /\ r.head \in Cells /\ r.buf \in [Cells -> Letters] BY DEF RingType
  <1>2. Inc(r.head) \in Cells /\ Inc(r.tail) \in Cells BY <1>1, IncWraps
  <1>3. Room(r, Inc(r.head)) \in RingType BY <1>2 DEF Room, RingType
  <1> QED BY <1>1, <1>2, <1>3 DEF PutChar, RingType

\* A character put into a ring that is not full is behind the others.
LEMMA PutOne ==
  ASSUME NEW r \in RingType, NEW c \in Letters, Used(r) + 1 < PRINTK_BUF_SIZE,
         NEW r2 \in RingType, r2.out = r.out, r2.tail = r.tail,
         r2.head = Inc(r.head), r2.buf = [r.buf EXCEPT ![r.head] = c]
  PROVE  /\ Inc(r.head) # r.tail
         /\ Used(r2) = Used(r) + 1 /\ Pending(r2) = Append(Pending(r), c)
  <1>1. r.tail \in Cells /\ r.head \in Cells /\ r.buf \in [Cells -> Letters] BY DEF RingType
  <1>2. Inc(r.head) = (IF r.head + 1 = PRINTK_BUF_SIZE THEN 0 ELSE r.head + 1) BY <1>1, IncWraps
  <1>3. Inc(r.head) # r.tail /\ Used(r2) = Used(r) + 1
    <2>1. PICK h \in Cells, t \in Cells, k \in Cells : h = r.head /\ t = r.tail /\ k = Inc(r.head)
      BY <1>1, IncWraps
    <2>2. k = (IF h + 1 = PRINTK_BUF_SIZE THEN 0 ELSE h + 1) BY <1>2, <2>1
    <2>3. Used(r) = IF t <= h THEN h - t ELSE h + PRINTK_BUF_SIZE - t BY <2>1 DEF Used
    <2>4. Used(r2) = IF t <= k THEN k - t ELSE k + PRINTK_BUF_SIZE - t BY <2>1 DEF Used
    <2>5. h \in Nat /\ t \in Nat /\ h < PRINTK_BUF_SIZE /\ t < PRINTK_BUF_SIZE BY Sizes DEF Cells
    <2>6. k # t /\ Used(r2) = Used(r) + 1 BY <2>2, <2>3, <2>4, <2>5, Sizes
    <2> QED BY <2>1, <2>6
  <1>4. /\ Pending(r) \in Seq(Letters) /\ Len(Pending(r)) = Used(r) /\ Used(r) \in Nat
        /\ Pending(r2) \in Seq(Letters) /\ Len(Pending(r2)) = Used(r) + 1
    BY <1>3, PendingIs, Sizes
  <1>5. ASSUME NEW i \in 1 .. Used(r) + 1 PROVE Pending(r2)[i] = Append(Pending(r), c)[i]
    <2>1. Place(r2, i) = Place(r, i) BY DEF Place
    <2>2. Pending(r2)[i] = r2.buf[Place(r, i)] /\ Place(r, i) \in Cells BY <1>3, <2>1, PendingIs
    <2>3. CASE i = Used(r) + 1
      <3>0. PICK h \in Nat, t \in Nat :
              h = r.head /\ t = r.tail /\ h < PRINTK_BUF_SIZE /\ t < PRINTK_BUF_SIZE
        BY <1>1, Sizes DEF Cells
      <3>1. Place(r, i) = r.head BY <2>3, <3>0, Sizes DEF Place, Used
      <3> QED BY <1>1, <1>4, <2>2, <2>3, <3>1
    <2>4. CASE i # Used(r) + 1
      <3>0. i \in 1 .. Used(r) BY <1>4, <2>4
      <3>1. Place(r, i) # r.head BY <1>1, <3>0, Sizes DEF Place, Used, Cells
      <3>2. Pending(r)[i] = r.buf[Place(r, i)] BY <3>0, PendingIs
      <3> QED BY <1>1, <1>4, <2>2, <3>0, <3>1, <3>2
    <2> QED BY <2>3, <2>4
  <1> DEFINE a == Append(Pending(r), c)
  <1>6. a \in Seq(Letters) /\ Len(a) = Used(r) + 1 BY <1>4
  <1> HIDE DEF a
  <1>7. Pending(r2) = a BY <1>4, <1>5, <1>6, SeqEqual DEF a
  <1> QED BY <1>3, <1>7 DEF a

\* A pass through printk's loop
LEMMA PutCharOne ==
  ASSUME NEW r \in RingType, NEW c \in Letters, Used(r) + 1 < PRINTK_BUF_SIZE
  PROVE  /\ PutChar(r, c).out = r.out
         /\ Used(PutChar(r, c)) = Used(r) + 1 /\ Pending(PutChar(r, c)) = Append(Pending(r), c)
  <1>1. r.tail \in Cells /\ r.head \in Cells /\ r.buf \in [Cells -> Letters] BY DEF RingType
  <1>2. Inc(r.head) # r.tail
    <2>1. Inc(r.head) = (IF r.head + 1 = PRINTK_BUF_SIZE THEN 0 ELSE r.head + 1) BY <1>1, IncWraps
    <2> QED BY <1>1, <2>1, Sizes DEF Used, Cells
  <1>3. PutChar(r, c) = [r EXCEPT !.buf[r.head] = c, !.head = Inc(r.head)]
    BY <1>2 DEF PutChar, Room
  <1>4. PICK r2 \in RingType : r2 = PutChar(r, c) BY PutCharType
  <1>5. /\ r2.out = r.out /\ r2.tail = r.tail
        /\ r2.head = Inc(r.head) /\ r2.buf = [r.buf EXCEPT ![r.head] = c]
    BY <1>3, <1>4 DEF RingType
  <1>6. Used(r2) = Used(r) + 1 /\ Pending(r2) = Append(Pending(r), c) BY <1>5, PutOne
  <1> QED BY <1>4, <1>5, <1>6

\* The first character leaves the ring.
LEMMA TakeOne ==
  ASSUME NEW r \in RingType, r.tail # r.head,
         NEW r2 \in RingType, r2.head = r.head, r2.buf = r.buf, r2.tail = Inc(r.tail)
  PROVE  /\ r.buf[r.tail] \in Letters
         /\ Used(r2) = Used(r) - 1 /\ Pending(r) = <<r.buf[r.tail]>> \o Pending(r2)
  <1>1. r.tail \in Cells /\ r.head \in Cells /\ r.buf \in [Cells -> Letters] BY DEF RingType
  <1>2. Inc(r.tail) = (IF r.tail + 1 = PRINTK_BUF_SIZE THEN 0 ELSE r.tail + 1) BY <1>1, IncWraps
  <1>3. Used(r2) = Used(r) - 1
    <2>1. PICK h \in Cells, t \in Cells, k \in Cells : h = r.head /\ t = r.tail /\ k = Inc(r.tail)
      BY <1>1, IncWraps
    <2>2. k = (IF t + 1 = PRINTK_BUF_SIZE THEN 0 ELSE t + 1) BY <1>2, <2>1
    <2>3. Used(r) = IF t <= h THEN h - t ELSE h + PRINTK_BUF_SIZE - t BY <2>1 DEF Used
    <2>4. Used(r2) = IF k <= h THEN h - k ELSE h + PRINTK_BUF_SIZE - k BY <2>1 DEF Used
    <2>5. h \in Nat /\ t \in Nat /\ h < PRINTK_BUF_SIZE /\ t < PRINTK_BUF_SIZE /\ t # h
      BY <2>1, Sizes DEF Cells
    <2> QED BY <2>2, <2>3, <2>4, <2>5, Sizes
  <1>4. /\ Pending(r) \in Seq(Letters) /\ Len(Pending(r)) = Used(r) /\ Used(r) \in Nat \ {0}
        /\ Pending(r2) \in Seq(Letters) /\ Len(Pending(r2)) = Used(r) - 1
    BY <1>3, PendingIs, Sizes
  <1>5. r.buf[r.tail] \in Letters BY <1>1
  <1> DEFINE a == <<r.buf[r.tail]>> \o Pending(r2)
  <1>6. a \in Seq(Letters) /\ Len(a) = Used(r) BY <1>4, <1>5
  <1>7. ASSUME NEW i \in 1 .. Used(r) PROVE Pending(r)[i] = a[i]
    <2>1. Pending(r)[i] = r.buf[Place(r, i)] BY PendingIs
    <2>2. CASE i = 1
      <3>1. Place(r, i) = r.tail BY <1>1, <2>2, Sizes DEF Place, Cells
      <3>2. a[1] = r.buf[r.tail] BY <1>4, <1>5
      <3> QED BY <2>1, <2>2, <3>1, <3>2
    <2>3. CASE i # 1
      <3>0. i - 1 \in 1 .. Used(r2) /\ Used(r2) \in Nat BY <1>3, <1>4, <2>3
      <3>1. Pending(r2)[i - 1] = r2.buf[Place(r2, i - 1)] BY <3>0, PendingIs
      <3>2. Place(r2, i - 1) = Place(r, i)
        <4>1. PICK t \in Cells, k \in Cells : t = r.tail /\ k = Inc(r.tail) BY <1>1, IncWraps
        <4>2. k = (IF t + 1 = PRINTK_BUF_SIZE THEN 0 ELSE t + 1) BY <1>2, <4>1
        <4>3. t \in Nat /\ t < PRINTK_BUF_SIZE /\ i \in Nat /\ i > 1 /\ i < PRINTK_BUF_SIZE
          BY <1>4, <2>3, PendingIs, Sizes DEF Cells
        <4>4. Place(r, i) = IF t + i - 1 < PRINTK_BUF_SIZE THEN t + i - 1 ELSE t + i - 1 - PRINTK_BUF_SIZE
          BY <4>1, <4>3, Sizes DEF Place
        <4>5. Place(r2, i - 1) = IF k + (i - 1) - 1 < PRINTK_BUF_SIZE THEN k + (i - 1) - 1
                                 ELSE k + (i - 1) - 1 - PRINTK_BUF_SIZE
          BY <4>1, <4>3, Sizes DEF Place
        <4> QED BY <4>2, <4>3, <4>4, <4>5, Sizes
      <3>3. a[i] = Pending(r2)[i - 1] BY <1>4, <1>5, <2>3
      <3> QED BY <2>1, <3>1, <3>2, <3>3
    <2> QED BY <2>2, <2>3
  <1> HIDE DEF a
  <1>8. Pending(r) = a BY <1>4, <1>6, <1>7, SeqEqual
  <1> QED BY <1>3, <1>5, <1>8 DEF a

LEMMA CopiedIs ==
  ASSUME NEW p \in Texts
  PROVE  Copied(Formatted(p)) \in Seq(Letters) /\ Len(Copied(Formatted(p))) = TextLen(p)
  <1>1. TextLen(p) \in Nat BY Sizes
  <1>2. Copied(Formatted(p)) = [i \in 1 .. TextLen(p) |-> Formatted(p).buffer[i - 1]]
    BY DEF Copied, TextLen
  <1>3. \A i \in 1 .. TextLen(p) : Copied(Formatted(p))[i] \in Letters BY DEF Letters
  <1>4. Copied(Formatted(p)) \in [1 .. TextLen(p) -> Letters] BY <1>2, <1>3
  <1> QED BY <1>1, <1>4

\* printk's loop: the whole text goes into the ring, if there is room for it.
LEMMA PutAll ==
  ASSUME NEW r \in RingType, NEW m \in Seq(Letters), Used(r) + Len(m) < PRINTK_BUF_SIZE
  PROVE  /\ FoldLeft(PutChar, r, m) \in RingType
         /\ FoldLeft(PutChar, r, m).out = r.out
         /\ Pending(FoldLeft(PutChar, r, m)) = Pending(r) \o m
  <1> DEFINE n == Len(m)
             T == RingType
             g == [i \in 1 .. n |-> [u \in T |-> PutChar(u, m[i])]]
             Eq(f) == f = [s \in SUBSET (DOMAIN m) |->
                             IF s = {} THEN r ELSE PutChar(f[s \ {Max(s)}], m[Max(s)])]
             iter == CHOOSE f : Eq(f)
  <1>1. n \in Nat /\ DOMAIN m = 1 .. n /\ \A i \in 1 .. n : m[i] \in Letters OBVIOUS
  <1>2. FoldLeft(PutChar, r, m) = iter[DOMAIN m] BY DEF FoldLeft, MapThenFoldSet
  <1>3. \A i \in 1 .. n : \A u \in T : PutChar(u, m[i]) \in T BY <1>1, PutCharType
  <1>4. r \in T OBVIOUS
  <1> HIDE DEF T
  <1>5. g \in [1 .. n -> [T -> T]] /\ \A i \in 1 .. n : \A u \in T : g[i][u] = PutChar(u, m[i])
    BY <1>3
  <1> HIDE DEF g, n
  <1>6. PICK h \in [SUBSET (1 .. n) -> T] : Folds(h, n, r, g) BY <1>1, <1>4, <1>5, FoldExists
  <1>7. Eq(h)
    <2>1. ASSUME NEW s \in SUBSET (1 .. n)
          PROVE  h[s] = IF s = {} THEN r ELSE PutChar(h[s \ {Max(s)}], m[Max(s)])
      <3>1. h[s] = IF s = {} THEN r ELSE g[Max(s)][h[s \ {Max(s)}]] BY <1>6 DEF Folds
      <3>2. CASE s # {}
        <4>1. Max(s) \in 1 .. n /\ h[s \ {Max(s)}] \in T BY <1>1, <1>6, <3>2, Largest
        <4> QED BY <1>5, <3>1, <3>2, <4>1
      <3> QED BY <3>1, <3>2
    <2>2. h = [s \in SUBSET (1 .. n) |-> IF s = {} THEN r ELSE PutChar(h[s \ {Max(s)}], m[Max(s)])]
      BY <2>1
    <2> QED BY <1>1, <2>2
  <1>8. Eq(iter) BY <1>7
  <1> HIDE DEF iter
  <1>9. \A s \in SUBSET (1 .. n) : iter[s] = IF s = {} THEN r ELSE PutChar(iter[s \ {Max(s)}], m[Max(s)])
    BY <1>1, <1>8
  <1> DEFINE Done(i) == SubSeq(m, 1, i)
             I == {i \in 0 .. n : /\ iter[1 .. i] \in T /\ iter[1 .. i].out = r.out
                                  /\ Used(iter[1 .. i]) = Used(r) + i
                                  /\ Pending(iter[1 .. i]) = Pending(r) \o Done(i)}
  <1>10. Pending(r) \in Seq(Letters) /\ Used(r) \in Nat BY PendingIs, Sizes
  <1>11. ASSUME NEW i \in 0 .. n
         PROVE  Done(i) \in Seq(Letters) /\ (i < n => Done(i + 1) = Append(Done(i), m[i + 1]))
    <2>1. i \in Nat /\ i <= Len(m) BY <1>1 DEF n
    <2>2. Done(i) \in Seq(Letters) /\ Len(Done(i)) = i /\ \A j \in 1 .. i : Done(i)[j] = m[j] BY <2>1
    <2>3. ASSUME i < n PROVE Done(i + 1) = Append(Done(i), m[i + 1])
      <3>1. i + 1 <= Len(m) /\ m[i + 1] \in Letters BY <1>1, <2>1, <2>3 DEF n
      <3>2. Done(i + 1) \in Seq(Letters) /\ Len(Done(i + 1)) = i + 1 /\ \A j \in 1 .. i + 1 : Done(i + 1)[j] = m[j]
        BY <2>1, <3>1
      <3> HIDE DEF Done
      <3> DEFINE b == Append(Done(i), m[i + 1])
      <3>3. b \in Seq(Letters) /\ Len(b) = i + 1 BY <2>2, <3>1
      <3>4. \A j \in 1 .. i + 1 : b[j] = m[j] BY <2>1, <2>2, <3>1
      <3> HIDE DEF b
      <3>5. Done(i + 1) = b BY <3>2, <3>3, <3>4, SeqEqual
      <3> QED BY <3>5 DEF b
    <2> QED BY <2>2, <2>3
  <1>12. Done(0) = <<>> /\ Done(n) = m BY <1>1 DEF n
  <1> HIDE DEF Done
  <1>13. 0 \in I
    <2>1. 1 .. 0 = {} /\ 0 \in 0 .. n BY <1>1
    <2>2. iter[{}] = r BY <1>9
    <2>3. Pending(r) \o Done(0) = Pending(r) BY <1>10, <1>12, ConcatEmptySeq
    <2> QED BY <1>4, <1>10, <2>1, <2>2, <2>3
  <1>14. ASSUME NEW i \in 0 .. n - 1, i \in I PROVE i + 1 \in I
    <2> DEFINE s == 1 .. (i + 1)
    <2>0. i + 1 \in 0 .. n /\ i + 1 \in 1 .. n /\ i + 1 \in s /\ i \in 0 .. n /\ i < n BY <1>1
    <2>1. s \in SUBSET (1 .. n) /\ s # {}
      <3>1. \A j \in s : j \in 1 .. n BY <1>1
      <3> QED BY <2>0, <3>1
    <2>2. Max(s) \in s /\ i + 1 <= Max(s) BY <1>1, <2>0, <2>1, Largest
    <2>3. Max(s) = i + 1 BY <1>1, <2>2
    <2>4. s \ {i + 1} = 1 .. i BY <1>1
    <2>5. iter[s] = PutChar(iter[1 .. i], m[i + 1])
      <3> HIDE DEF s
      <3>1. iter[s] = PutChar(iter[s \ {Max(s)}], m[Max(s)]) BY <1>9, <2>1
      <3> QED BY <2>3, <2>4, <3>1
    <2>6. PICK u \in RingType : u = iter[1 .. i] BY <1>14 DEF T
    <2>7. u.out = r.out /\ Used(u) = Used(r) + i /\ Pending(u) = Pending(r) \o Done(i) BY <1>14, <2>6
    <2>8. m[i + 1] \in Letters /\ Used(u) + 1 < PRINTK_BUF_SIZE
      <3>1. i + 1 <= Len(m) /\ i \in Nat /\ Len(m) \in Nat BY <1>1, <2>0 DEF n
      <3> QED BY <1>1, <1>10, <2>0, <2>7, <3>1, Sizes
    <2>9. PICK v \in RingType : v = PutChar(u, m[i + 1]) BY <2>8, PutCharType
    <2>10. v.out = u.out /\ Used(v) = Used(u) + 1 /\ Pending(v) = Append(Pending(u), m[i + 1])
      BY <2>8, <2>9, PutCharOne
    <2>11. Append(Pending(r) \o Done(i), m[i + 1]) = Pending(r) \o Append(Done(i), m[i + 1])
      BY <1>10, <1>11, <2>0, <2>8, AppendGrouping
    <2>12. Pending(v) = Pending(r) \o Done(i + 1) BY <1>11, <2>0, <2>7, <2>10, <2>11
    <2>13. Used(v) = Used(r) + (i + 1) BY <1>10, <2>0, <2>7, <2>10
    <2>14. iter[1 .. (i + 1)] = v BY <2>5, <2>6, <2>9
    <2> QED BY <2>0, <2>7, <2>10, <2>12, <2>13, <2>14 DEF T
  <1> HIDE DEF I
  <1>15. 0 .. n \subseteq I BY <1>1, <1>13, <1>14, InductionUpTo
  <1>16. n \in I BY <1>1, <1>15
  <1> QED BY <1>1, <1>2, <1>12, <1>16 DEF I, T

\* printk without interruption: what was in the ring and the text go to the
\* terminal, in this order.
LEMMA WholeStep ==
  ASSUME NEW r \in RingType, NEW p \in Texts, Used(r) + TextLen(p) < PRINTK_BUF_SIZE
  PROVE  /\ PrintkWhole(r, Formatted(p)) \in RingType
         /\ Used(PrintkWhole(r, Formatted(p))) <= Used(r)
         /\ PrintkWhole(r, Formatted(p)).out \o Pending(PrintkWhole(r, Formatted(p)))
              = (r.out \o Pending(r)) \o Copied(Formatted(p))
  <1> DEFINE m == Copied(Formatted(p))
  <1>1. m \in Seq(Letters) /\ Len(m) = TextLen(p) BY CopiedIs
  <1>2. /\ r.out \in Seq(Letters) /\ Pending(r) \in Seq(Letters) /\ Used(r) \in Nat
        /\ r.out \o Pending(r) \in Seq(Letters)
    BY PendingIs, Sizes DEF RingType
  <1>3. CASE Formatted(p).text = <<>>
    <2>1. PrintkWhole(r, Formatted(p)) = r BY <1>3 DEF PrintkWhole
    <2>2. m = <<>>
      <3>1. TextLen(p) = 0 BY <1>3 DEF TextLen
      <3> QED BY <1>1, <3>1
    <2>3. (r.out \o Pending(r)) \o m = r.out \o Pending(r) BY <1>2, <2>2, ConcatEmptySeq
    <2> QED BY <1>2, <2>1, <2>3
  <1>4. CASE Formatted(p).text # <<>>
    <2> HIDE DEF m
    <2>1. PICK f : f = FoldLeft(PutChar, r, m) OBVIOUS
    <2>2. f \in RingType /\ f.out = r.out /\ Pending(f) = Pending(r) \o m BY <1>1, <2>1, PutAll
    <2>3. PICK d : d = PrintkWhole(r, Formatted(p)) OBVIOUS
    <2>4. d = [f EXCEPT !.out = @ \o Pending(f), !.tail = f.head]
      BY <1>4, <2>1, <2>3 DEF PrintkWhole, Drain, m
    <2>5. d \in RingType /\ d.tail = f.head /\ d.head = f.head /\ d.out = f.out \o Pending(f)
      <3>1. f.out \o Pending(f) \in Seq(Letters) BY <1>1, <1>2, <2>2
      <3> QED BY <2>2, <2>4, <3>1 DEF RingType
    <2>6. Used(d) = 0 /\ Pending(d) \in Seq(Letters) /\ Len(Pending(d)) = 0
      BY <2>5, PendingIs
    <2>7. Pending(d) = <<>> BY <2>6
    <2>8. d.out \o Pending(d) = r.out \o (Pending(r) \o m)
      <3>1. d.out = r.out \o (Pending(r) \o m) /\ d.out \in Seq(Letters) BY <2>2, <2>5 DEF RingType
      <3> QED BY <2>7, <3>1, ConcatEmptySeq
    <2>9. r.out \o (Pending(r) \o m) = (r.out \o Pending(r)) \o m
      <3>1. PICK a \in Seq(Letters), b \in Seq(Letters), c \in Seq(Letters) : a = r.out /\ b = Pending(r) /\ c = m
        BY <1>1, <1>2
      <3>2. (a \o b) \o c = a \o (b \o c) BY Grouping
      <3> QED BY <3>1, <3>2
    <2> QED BY <1>2, <2>3, <2>5, <2>6, <2>8, <2>9 DEF m
  <1> QED BY <1>3, <1>4

-----------------------------------------------------------------------------
(* The log *)

\* The longest message of a thread
Most ==
  CHOOSE n \in 0 .. PRINTK_BUF_SIZE :
    (\A p \in Messages : TextLen(p) <= n) /\ 2 * n + TextLen(TickMessage) < PRINTK_BUF_SIZE

LEMMA MostIs ==
  /\ Most \in Nat /\ (\A p \in Messages : TextLen(p) <= Most)
  /\ 2 * Most + TextLen(TickMessage) < PRINTK_BUF_SIZE
  <1>1. Most \in 0 .. PRINTK_BUF_SIZE /\ (\A p \in Messages : TextLen(p) <= Most)
        /\ 2 * Most + TextLen(TickMessage) < PRINTK_BUF_SIZE
    BY RoomAssumption DEF Most
  <1> QED BY <1>1, Sizes

\* What a call holds: characters that go to the terminal before what is in the
\* ring, and characters that follow it
Ahead(c) == IF c.pc \in {"test", "read", "write"} THEN c.chunk ELSE <<>>
Behind(c) == IF c.pc \in {"next", "room", "store"} THEN c.todo ELSE <<>>

\* Everything that has been or will be handed to the terminal
StreamOf(r, c) == (r.out \o Ahead(c)) \o (Pending(r) \o Behind(c))

\* The positions that a call has read and not used yet are still right.
CallInv(c, r) ==
  \/ c = NoCall
  \/ c \in [pc : {"next"}, todo : Seq(Letters)]
  \/ /\ c \in [pc : {"room", "store"}, todo : Seq(Letters), next : Cells, at : Cells]
     /\ c.todo # <<>> /\ c.next = Inc(r.head) /\ c.at = r.head
  \/ /\ c \in [pc : {"test", "read", "write"}, chunk : Seq(Letters)]
     /\ c.pc = "read" => r.tail # r.head
     /\ c.pc = "write" => c.chunk # <<>>

TypeInv ==
  /\ ring \in RingType /\ CallInv(call, ring)
  /\ printed \in Seq(Letters) /\ dropped \in Seq(Letters) /\ ticks \in Nat

\* The ring never overflows: the boot context may leave one message in it when
\* it loses the CPU, and the bsp task's message comes on top of that.
Space ==
  /\ Used(ring) + Len(Behind(call)) <= IF timer = "bsp" THEN 2 * Most ELSE Most
  /\ call = NoCall => Used(ring) <= IF timer = "bsp" THEN Most ELSE 0
  /\ timer = "off" => call = NoCall
  /\ timer # "bsp" => dropped = <<>>

Tick == Copied(Formatted(TickMessage))

Counted ==
  \A c \in Letters :
    Count(StreamOf(ring, call), c) + Count(dropped, c) = Count(printed, c) + ticks * Count(Tick, c)

Ordered == ticks = 0 /\ dropped = <<>> => StreamOf(ring, call) = printed

LogInv == TypeInv /\ Space /\ Counted /\ Ordered

IInv == ~hit => LogInv

LEMMA CallSeqs ==
  ASSUME NEW r \in RingType, NEW c, CallInv(c, r)
  PROVE  /\ Ahead(c) \in Seq(Letters) /\ Behind(c) \in Seq(Letters)
         /\ r.out \in Seq(Letters) /\ Pending(r) \in Seq(Letters)
         /\ StreamOf(r, c) \in Seq(Letters)
         /\ c.pc = "none" <=> c = NoCall
  <1>1. r.out \in Seq(Letters) /\ Pending(r) \in Seq(Letters) BY PendingIs DEF RingType
  <1>2. Ahead(c) \in Seq(Letters) /\ Behind(c) \in Seq(Letters)
    BY DEF CallInv, Ahead, Behind, NoCall
  <1>3. StreamOf(r, c) \in Seq(Letters)
    <2>1. r.out \o Ahead(c) \in Seq(Letters) BY <1>1, <1>2
    <2>2. Pending(r) \o Behind(c) \in Seq(Letters) BY <1>1, <1>2
    <2> QED BY <2>1, <2>2 DEF StreamOf
  <1>4. c.pc = "none" <=> c = NoCall BY DEF CallInv, NoCall
  <1> QED BY <1>1, <1>2, <1>3, <1>4

\* The characters of the stream are counted where they are.
LEMMA StreamCount ==
  ASSUME NEW r \in RingType, NEW c, CallInv(c, r), NEW x
  PROVE  /\ Count(StreamOf(r, c), x)
              = Count(r.out, x) + Count(Ahead(c), x) + Count(Pending(r), x) + Count(Behind(c), x)
         /\ Count(r.out, x) \in Nat /\ Count(Ahead(c), x) \in Nat
         /\ Count(Pending(r), x) \in Nat /\ Count(Behind(c), x) \in Nat
  <1>1. PICK o \in Seq(Letters), f \in Seq(Letters), q \in Seq(Letters), b \in Seq(Letters) :
          o = r.out /\ f = Ahead(c) /\ q = Pending(r) /\ b = Behind(c)
    BY CallSeqs
  <1>2. o \o f \in Seq(Letters) /\ q \o b \in Seq(Letters) OBVIOUS
  <1>3. Count((o \o f) \o (q \o b), x) = Count(o \o f, x) + Count(q \o b, x)
    <2>1. PICK y \in Seq(Letters), z \in Seq(Letters) : y = o \o f /\ z = q \o b BY <1>2
    <2>2. Count(y \o z, x) = Count(y, x) + Count(z, x) BY CountConcat
    <2> QED BY <2>1, <2>2
  <1>4. Count(o \o f, x) = Count(o, x) + Count(f, x) BY CountConcat
  <1>5. Count(q \o b, x) = Count(q, x) + Count(b, x) BY CountConcat
  <1>6. Count(o, x) \in Nat /\ Count(f, x) \in Nat /\ Count(q, x) \in Nat /\ Count(b, x) \in Nat
    BY CountType
  <1>7. StreamOf(r, c) = (o \o f) \o (q \o b) BY <1>1 DEF StreamOf
  <1>8. Count(StreamOf(r, c), x) = Count(o, x) + Count(f, x) + Count(q, x) + Count(b, x)
    BY <1>3, <1>4, <1>5, <1>6, <1>7
  <1> QED BY <1>1, <1>6, <1>8

\* A step of a thread's printk that moves characters along the stream
LEMMA Moves ==
  ASSUME LogInv, UNCHANGED <<timer, ticks, printed, dropped>>, call # NoCall,
         ring' \in RingType, CallInv(call', ring'),
         StreamOf(ring', call') = StreamOf(ring, call),
         Used(ring') + Len(Behind(call')) <= Used(ring) + Len(Behind(call)),
         call' = NoCall => Used(ring') = 0
  PROVE  LogInv'
  <1>1. TypeInv' BY DEF LogInv, TypeInv
  <1>2. Counted' BY DEF LogInv, Counted, Tick
  <1>3. Ordered' BY DEF LogInv, Ordered
  <1>4. Space'
    <2>1. Used(ring) \in Nat /\ Used(ring') \in Nat BY PendingIs, Sizes DEF LogInv, TypeInv
    <2>2. Len(Behind(call)) \in Nat /\ Len(Behind(call')) \in Nat BY CallSeqs DEF LogInv, TypeInv
    <2>3. (Used(ring) + Len(Behind(call)) <= IF timer = "bsp" THEN 2 * Most ELSE Most)'
      BY <2>1, <2>2, MostIs DEF LogInv, Space
    <2>4. (call = NoCall => Used(ring) <= IF timer = "bsp" THEN Most ELSE 0)' BY MostIs
    <2>5. (timer = "off" => call = NoCall)' /\ (timer # "bsp" => dropped = <<>>)'
      BY DEF LogInv, Space
    <2> QED BY <2>3, <2>4, <2>5 DEF Space
  <1> QED BY <1>1, <1>2, <1>3, <1>4 DEF LogInv

LEMMA NextStep ==
  ASSUME LogInv, put_next
  PROVE  LogInv'
  <1>1. call \in [pc : {"next"}, todo : Seq(Letters)] /\ ring' = ring /\ ring \in RingType
    BY DEF LogInv, TypeInv, CallInv, put_next, At, NoCall
  <1>2. call # NoCall /\ Ahead(call) = <<>> /\ Behind(call) = call.todo
    BY <1>1 DEF NoCall, Ahead, Behind
  <1>3. CallInv(call', ring') /\ Ahead(call') = <<>> /\ Behind(call') = call.todo /\ call' # NoCall
    <2>1. CASE call.todo = <<>>
      <3>1. call' = [pc |-> "test", chunk |-> <<>>] BY <2>1 DEF put_next
      <3> QED BY <2>1, <3>1 DEF CallInv, Ahead, Behind, NoCall
    <2>2. CASE call.todo # <<>>
      <3>1. call' = [pc |-> "room", todo |-> call.todo, next |-> Inc(ring.head), at |-> ring.head]
        BY <2>2 DEF put_next
      <3>2. ring.head \in Cells /\ Inc(ring.head) \in Cells BY <1>1, IncWraps DEF RingType
      <3> QED BY <1>1, <2>2, <3>1, <3>2 DEF CallInv, Ahead, Behind, NoCall
    <2> QED BY <2>1, <2>2
  <1>4. StreamOf(ring', call') = StreamOf(ring, call) BY <1>1, <1>2, <1>3 DEF StreamOf
  <1>5. Used(ring') + Len(Behind(call')) <= Used(ring) + Len(Behind(call))
    <2>1. Used(ring) \in Nat /\ Len(call.todo) \in Nat BY <1>1, PendingIs, Sizes
    <2> QED BY <1>1, <1>2, <1>3, <2>1
  <1>6. UNCHANGED <<timer, ticks, printed, dropped>> BY DEF put_next, At
  <1> QED BY <1>1, <1>2, <1>3, <1>4, <1>5, <1>6, Moves

\* Never full: the oldest character is not thrown away.
LEMMA NotFull ==
  ASSUME LogInv, call.pc \in {"room", "store"}
  PROVE  /\ call \in [pc : {"room", "store"}, todo : Seq(Letters), next : Cells, at : Cells]
         /\ call.todo # <<>> /\ call.next = Inc(ring.head) /\ call.at = ring.head
         /\ ring \in RingType /\ Used(ring) + 1 < PRINTK_BUF_SIZE /\ call.next # ring.tail
  <1>1. /\ call \in [pc : {"room", "store"}, todo : Seq(Letters), next : Cells, at : Cells]
        /\ call.todo # <<>> /\ call.next = Inc(ring.head) /\ call.at = ring.head
        /\ ring \in RingType
    BY DEF LogInv, TypeInv, CallInv, NoCall
  <1>2. Behind(call) = call.todo BY DEF Behind
  <1>3. Len(call.todo) \in Nat \ {0} BY <1>1
  <1>4. Used(ring) \in Nat BY <1>1, PendingIs, Sizes
  <1>5. Used(ring) + Len(call.todo) <= 2 * Most
    BY <1>2, <1>3, <1>4, MostIs DEF LogInv, Space
  <1>6. TextLen(TickMessage) \in Nat BY Sizes DEF Texts
  <1>7. Used(ring) + 1 < PRINTK_BUF_SIZE BY <1>3, <1>4, <1>5, <1>6, MostIs, Sizes
  <1>8. Inc(ring.head) # ring.tail
    <2>1. ring.tail \in Cells /\ ring.head \in Cells BY <1>1 DEF RingType
    <2>2. Inc(ring.head) = (IF ring.head + 1 = PRINTK_BUF_SIZE THEN 0 ELSE ring.head + 1)
      BY <2>1, IncWraps
    <2> QED BY <1>7, <2>1, <2>2, Sizes DEF Used, Cells
  <1> QED BY <1>1, <1>7, <1>8

LEMMA RoomStep ==
  ASSUME LogInv, put_room
  PROVE  LogInv'
  <1>1. call.pc = "room" /\ UNCHANGED <<timer, ticks, printed, dropped>> BY DEF put_room, At
  <1>2. ring' = ring BY <1>1, NotFull DEF put_room, Room
  <1>3. call' = [call EXCEPT !.pc = "store"] BY DEF put_room
  <1>4. /\ call' \in [pc : {"room", "store"}, todo : Seq(Letters), next : Cells, at : Cells]
        /\ call'.pc = "store" /\ call'.todo = call.todo /\ call'.next = call.next /\ call'.at = call.at
    BY <1>1, <1>3, NotFull
  <1>5. CallInv(call', ring') BY <1>1, <1>2, <1>4, NotFull DEF CallInv
  <1>6. call # NoCall /\ call' # NoCall BY <1>1, <1>4 DEF NoCall
  <1>7. Ahead(call') = Ahead(call) /\ Behind(call') = Behind(call) BY <1>1, <1>4 DEF Ahead, Behind
  <1>8. StreamOf(ring', call') = StreamOf(ring, call) BY <1>2, <1>7 DEF StreamOf
  <1>9. Used(ring') + Len(Behind(call')) <= Used(ring) + Len(Behind(call))
    <2>1. Used(ring) \in Nat BY <1>1, NotFull, PendingIs, Sizes
    <2>2. Len(Behind(call)) \in Nat BY CallSeqs DEF LogInv, TypeInv
    <2> QED BY <1>2, <1>7, <2>1, <2>2
  <1>10. ring' \in RingType BY <1>1, <1>2, NotFull
  <1> QED BY <1>1, <1>5, <1>6, <1>8, <1>9, <1>10, Moves

LEMMA StoreStep ==
  ASSUME LogInv, put_store
  PROVE  LogInv'
  <1>1. call.pc = "store" /\ UNCHANGED <<timer, ticks, printed, dropped>> BY DEF put_store, At
  <1>2. PICK x \in Letters, s \in Seq(Letters) :
          x = Head(call.todo) /\ s = Tail(call.todo) /\ Len(call.todo) = Len(s) + 1 /\ call.todo = <<x>> \o s
    <2>1. call.todo \in Seq(Letters) /\ call.todo # <<>> BY <1>1, NotFull
    <2>2. Head(call.todo) \in Letters /\ Tail(call.todo) \in Seq(Letters) BY <2>1
    <2>3. Len(call.todo) = Len(Tail(call.todo)) + 1 /\ call.todo = <<Head(call.todo)>> \o Tail(call.todo)
      BY <2>1
    <2> QED BY <2>2, <2>3
  <1>3. call' = [pc |-> "next", todo |-> s] BY <1>2 DEF put_store
  <1>4. ring' = [ring EXCEPT !.buf[ring.head] = x, !.head = Inc(ring.head)]
    BY <1>1, <1>2, NotFull DEF put_store
  <1>5. ring.head \in Cells /\ Inc(ring.head) \in Cells BY <1>1, NotFull, IncWraps DEF RingType
  <1>6. /\ ring' \in RingType /\ ring'.out = ring.out /\ ring'.tail = ring.tail
        /\ ring'.head = Inc(ring.head) /\ ring'.buf = [ring.buf EXCEPT ![ring.head] = x]
    BY <1>1, <1>4, <1>5, NotFull DEF RingType
  <1>7. PICK r \in RingType, r2 \in RingType : r = ring /\ r2 = ring' BY <1>1, <1>6, NotFull
  <1>8. Used(r2) = Used(r) + 1 /\ Pending(r2) = Append(Pending(r), x)
    BY <1>1, <1>6, <1>7, NotFull, PutOne
  <1>9. call' # NoCall /\ call # NoCall /\ CallInv(call', ring') BY <1>1, <1>3 DEF NoCall, CallInv
  <1>10. /\ Ahead(call) = <<>> /\ Behind(call) = <<x>> \o s
         /\ Ahead(call') = <<>> /\ Behind(call') = s
    BY <1>1, <1>2, <1>3 DEF Ahead, Behind
  <1>11. Append(Pending(r), x) \o s = Pending(r) \o (<<x>> \o s)
    <2>1. PICK q \in Seq(Letters) : q = Pending(r) BY PendingIs
    <2>2. Append(q, x) = q \o <<x>> /\ <<x>> \in Seq(Letters) OBVIOUS
    <2>3. (q \o <<x>>) \o s = q \o (<<x>> \o s) BY <2>2, Grouping
    <2> QED BY <2>1, <2>2, <2>3
  <1>12. StreamOf(ring', call') = StreamOf(ring, call)
    BY <1>6, <1>7, <1>8, <1>10, <1>11 DEF StreamOf
  <1>13. Used(ring') + Len(Behind(call')) <= Used(ring) + Len(Behind(call))
    <2>1. Used(r) \in Nat /\ Len(s) \in Nat BY PendingIs, Sizes
    <2> QED BY <1>2, <1>7, <1>8, <1>10, <2>1
  <1> QED BY <1>1, <1>6, <1>9, <1>12, <1>13, Moves

LEMMA Reading ==
  ASSUME LogInv, call.pc \in {"test", "read", "write"}
  PROVE  /\ call \in [pc : {"test", "read", "write"}, chunk : Seq(Letters)] /\ ring \in RingType
         /\ call.pc = "read" => ring.tail # ring.head
         /\ call.pc = "write" => call.chunk # <<>>
         /\ call # NoCall /\ Ahead(call) = call.chunk /\ Behind(call) = <<>> /\ Used(ring) \in Nat
  <1>1. /\ call \in [pc : {"test", "read", "write"}, chunk : Seq(Letters)] /\ ring \in RingType
        /\ call.pc = "read" => ring.tail # ring.head
        /\ call.pc = "write" => call.chunk # <<>>
    BY DEF LogInv, TypeInv, CallInv, NoCall
  <1>2. Used(ring) \in Nat BY <1>1, PendingIs, Sizes
  <1> QED BY <1>1, <1>2 DEF Ahead, Behind, NoCall

LEMMA TestStep ==
  ASSUME LogInv, read_test
  PROVE  LogInv'
  <1>1. call.pc = "test" /\ ring' = ring /\ UNCHANGED <<timer, ticks, printed, dropped>>
    BY DEF read_test, At
  <1>2. call.chunk \in Seq(Letters) /\ Len(call.chunk) \in Nat BY <1>1, Reading
  <1>3. /\ CallInv(call', ring') /\ Ahead(call') = call.chunk /\ Behind(call') = <<>>
        /\ call' = NoCall => ring.tail = ring.head
    <2>1. CASE Len(call.chunk) < CHUNK_SIZE /\ ring.tail # ring.head
      <3>1. call' = [call EXCEPT !.pc = "read"] BY <2>1 DEF read_test
      <3>2. call' \in [pc : {"test", "read", "write"}, chunk : Seq(Letters)]
            /\ call'.pc = "read" /\ call'.chunk = call.chunk
        BY <1>1, <3>1, Reading
      <3> QED BY <1>1, <2>1, <3>2 DEF CallInv, Ahead, Behind, NoCall
    <2>2. CASE ~(Len(call.chunk) < CHUNK_SIZE /\ ring.tail # ring.head) /\ call.chunk = <<>>
      <3>1. call' = NoCall BY <2>2 DEF read_test
      <3>2. Len(call.chunk) = 0 BY <2>2
      <3>3. ring.tail = ring.head BY <2>2, <3>2, Sizes
      <3> QED BY <2>2, <3>1, <3>3 DEF CallInv, Ahead, Behind, NoCall
    <2>3. CASE ~(Len(call.chunk) < CHUNK_SIZE /\ ring.tail # ring.head) /\ call.chunk # <<>>
      <3>1. call' = [call EXCEPT !.pc = "write"] BY <2>3 DEF read_test
      <3>2. call' \in [pc : {"test", "read", "write"}, chunk : Seq(Letters)]
            /\ call'.pc = "write" /\ call'.chunk = call.chunk
        BY <1>1, <3>1, Reading
      <3> QED BY <1>1, <2>3, <3>2 DEF CallInv, Ahead, Behind, NoCall
    <2> QED BY <2>1, <2>2, <2>3
  <1>4. StreamOf(ring', call') = StreamOf(ring, call) BY <1>1, <1>3, Reading DEF StreamOf
  <1>5. Used(ring') + Len(Behind(call')) <= Used(ring) + Len(Behind(call))
    <2>1. Behind(call') = Behind(call) /\ Len(Behind(call)) = 0 BY <1>1, <1>3, Reading
    <2>2. Used(ring) \in Nat BY <1>1, Reading
    <2> QED BY <1>1, <2>1, <2>2
  <1>6. call' = NoCall => Used(ring') = 0 BY <1>1, <1>3, Reading, PendingIs
  <1>7. call # NoCall /\ ring' \in RingType BY <1>1, Reading
  <1> QED BY <1>1, <1>3, <1>4, <1>5, <1>6, <1>7, Moves

LEMMA ReadStep ==
  ASSUME LogInv, read_char
  PROVE  LogInv'
  <1>1. call.pc = "read" /\ UNCHANGED <<timer, ticks, printed, dropped>> BY DEF read_char, At
  <1>2. PICK r \in RingType : r = ring BY <1>1, Reading
  <1>3. r.tail # r.head BY <1>1, <1>2, Reading
  <1>4. ring' = [r EXCEPT !.tail = Inc(r.tail)] BY <1>2 DEF read_char
  <1>5. r.tail \in Cells /\ Inc(r.tail) \in Cells BY IncWraps DEF RingType
  <1>6. PICK r2 \in RingType : r2 = ring' BY <1>4, <1>5 DEF RingType
  <1>7. r2.head = r.head /\ r2.buf = r.buf /\ r2.tail = Inc(r.tail) /\ r2.out = r.out
    BY <1>4, <1>6 DEF RingType
  <1>8. PICK x \in Letters : x = r.buf[r.tail] BY <1>3, <1>7, TakeOne
  <1>9. Used(r2) = Used(r) - 1 /\ Pending(r) = <<x>> \o Pending(r2) BY <1>3, <1>7, <1>8, TakeOne
  <1>10. PICK k \in Seq(Letters) : k = call.chunk BY <1>1, Reading
  <1>11. call' = [pc |-> "test", chunk |-> Append(k, x)] BY <1>2, <1>8, <1>10 DEF read_char
  <1>12. Append(k, x) \in Seq(Letters) OBVIOUS
  <1>13. CallInv(call', ring') /\ Ahead(call') = Append(k, x) /\ Behind(call') = <<>> /\ call' # NoCall
    BY <1>11, <1>12 DEF CallInv, Ahead, Behind, NoCall
  <1>14. StreamOf(ring', call') = StreamOf(ring, call)
    <2>1. PICK o \in Seq(Letters), q \in Seq(Letters) : o = r.out /\ q = Pending(r2)
      BY PendingIs DEF RingType
    <2>2. <<x>> \in Seq(Letters) /\ Append(k, x) = k \o <<x>> OBVIOUS
    <2>3. o \o (k \o <<x>>) = (o \o k) \o <<x>> /\ o \o k \in Seq(Letters) BY <2>2, Grouping
    <2>4. ((o \o k) \o <<x>>) \o q = (o \o k) \o (<<x>> \o q) BY <2>2, <2>3, Grouping
    <2>5. q \o <<>> = q /\ (<<x>> \o q) \o <<>> = <<x>> \o q
      <3>1. <<x>> \o q \in Seq(Letters) BY <2>2
      <3> QED BY <3>1, ConcatEmptySeq
    <2>6. StreamOf(ring', call') = (o \o Append(k, x)) \o (q \o <<>>)
      BY <1>6, <1>7, <1>13, <2>1 DEF StreamOf
    <2>7. StreamOf(ring, call) = (o \o k) \o ((<<x>> \o q) \o <<>>)
      BY <1>1, <1>2, <1>9, <1>10, <2>1, Reading DEF StreamOf
    <2> QED BY <2>2, <2>3, <2>4, <2>5, <2>6, <2>7
  <1>15. Used(ring') + Len(Behind(call')) <= Used(ring) + Len(Behind(call))
    <2>1. Behind(call') = Behind(call) /\ Len(Behind(call)) = 0 BY <1>1, <1>13, Reading
    <2>2. Used(r) \in Nat BY PendingIs, Sizes
    <2> QED BY <1>2, <1>6, <1>9, <2>1, <2>2
  <1>16. call # NoCall BY <1>1, Reading
  <1> QED BY <1>1, <1>6, <1>13, <1>14, <1>15, <1>16, Moves

LEMMA WriteStep ==
  ASSUME LogInv, write_char
  PROVE  LogInv'
  <1>1. call.pc = "write" /\ UNCHANGED <<timer, ticks, printed, dropped>> BY DEF write_char, At
  <1>2. PICK x \in Letters, s \in Seq(Letters) :
          x = Head(call.chunk) /\ s = Tail(call.chunk) /\ Len(call.chunk) = Len(s) + 1 /\ call.chunk = <<x>> \o s
    <2>1. call.chunk \in Seq(Letters) /\ call.chunk # <<>> BY <1>1, Reading
    <2>2. Head(call.chunk) \in Letters /\ Tail(call.chunk) \in Seq(Letters) BY <2>1
    <2>3. Len(call.chunk) = Len(Tail(call.chunk)) + 1 /\ call.chunk = <<Head(call.chunk)>> \o Tail(call.chunk)
      BY <2>1
    <2> QED BY <2>2, <2>3
  <1>3. PICK r \in RingType : r = ring BY <1>1, Reading
  <1>4. r.out \in Seq(Letters) /\ Append(r.out, x) \in Seq(Letters) BY DEF RingType
  <1>5. ring' = [r EXCEPT !.out = Append(r.out, x)] BY <1>2, <1>3 DEF write_char
  <1>6. PICK r2 \in RingType : r2 = ring' BY <1>4, <1>5 DEF RingType
  <1>7. r2.head = r.head /\ r2.buf = r.buf /\ r2.tail = r.tail /\ r2.out = Append(r.out, x)
    BY <1>5, <1>6 DEF RingType
  <1>8. Pending(r2) = Pending(r) /\ Used(r2) = Used(r) BY <1>7 DEF Pending, Used
  <1>9. call' = [call EXCEPT !.chunk = s, !.pc = IF Len(s) = 0 THEN "test" ELSE "write"]
    <2>1. Len(call.chunk) = 1 <=> Len(s) = 0 BY <1>2
    <2> QED BY <1>2, <2>1 DEF write_char
  <1>10. call' \in [pc : {"test", "read", "write"}, chunk : Seq(Letters)]
         /\ call'.pc = (IF Len(s) = 0 THEN "test" ELSE "write") /\ call'.chunk = s
    BY <1>1, <1>9, Reading
  <1>11. CallInv(call', ring')
    <2>1. call'.pc = "write" => s # <<>> BY <1>10
    <2>2. call'.pc # "read" BY <1>10
    <2> QED BY <1>10, <2>1, <2>2 DEF CallInv
  <1>12. Ahead(call') = s /\ Behind(call') = <<>> /\ call' # NoCall
    BY <1>10 DEF Ahead, Behind, NoCall
  <1>13. StreamOf(ring', call') = StreamOf(ring, call)
    <2>1. PICK o \in Seq(Letters) : o = r.out BY <1>4
    <2>2. <<x>> \in Seq(Letters) /\ Append(o, x) = o \o <<x>> OBVIOUS
    <2>3. (o \o <<x>>) \o s = o \o (<<x>> \o s) BY <2>2, Grouping
    <2>4. StreamOf(ring', call') = (Append(o, x) \o s) \o (Pending(r) \o <<>>)
      BY <1>6, <1>7, <1>8, <1>12, <2>1 DEF StreamOf
    <2>5. StreamOf(ring, call) = (o \o (<<x>> \o s)) \o (Pending(r) \o <<>>)
      BY <1>1, <1>2, <1>3, <2>1, Reading DEF StreamOf
    <2> QED BY <2>2, <2>3, <2>4, <2>5
  <1>14. Used(ring') + Len(Behind(call')) <= Used(ring) + Len(Behind(call))
    <2>1. Behind(call') = Behind(call) /\ Len(Behind(call)) = 0 BY <1>1, <1>12, Reading
    <2>2. Used(r) \in Nat BY PendingIs, Sizes
    <2> QED BY <1>3, <1>6, <1>8, <2>1, <2>2
  <1>15. call # NoCall BY <1>1, Reading
  <1> QED BY <1>1, <1>6, <1>11, <1>12, <1>13, <1>14, <1>15, Moves

\* A text that is added at the end of the stream and to what was printed
LEMMA Prints ==
  ASSUME LogInv, NEW m \in Seq(Letters), ring' \in RingType, CallInv(call', ring'),
         StreamOf(ring', call') = StreamOf(ring, call) \o m,
         printed' = printed \o m, UNCHANGED <<ticks, dropped>>
  PROVE  TypeInv' /\ Counted' /\ Ordered'
  <1>1. printed \in Seq(Letters) /\ StreamOf(ring, call) \in Seq(Letters)
    BY CallSeqs DEF LogInv, TypeInv
  <1>2. TypeInv' BY <1>1 DEF LogInv, TypeInv
  <1>3. ASSUME NEW c \in Letters
        PROVE  Count(StreamOf(ring', call'), c) + Count(dropped', c) = Count(printed', c) + ticks' * Count(Tick, c)
    <2>1. Count(StreamOf(ring, call) \o m, c) = Count(StreamOf(ring, call), c) + Count(m, c)
      BY <1>1, CountConcat
    <2>2. Count(printed \o m, c) = Count(printed, c) + Count(m, c) BY <1>1, CountConcat
    <2>3. Count(StreamOf(ring, call), c) \in Nat /\ Count(m, c) \in Nat /\ Count(printed, c) \in Nat
      BY <1>1, CountType
    <2>4. Count(dropped, c) \in Nat BY CountType DEF LogInv, TypeInv
    <2>5. Count(StreamOf(ring, call), c) + Count(dropped, c) = Count(printed, c) + ticks * Count(Tick, c)
      BY DEF LogInv, Counted
    <2>6. ticks * Count(Tick, c) \in Nat
      <3>1. Tick \in Seq(Letters) BY CopiedIs DEF Tick, Texts
      <3>2. Count(Tick, c) \in Nat BY <3>1, CountType
      <3> QED BY <3>2 DEF LogInv, TypeInv
    <2>7. PICK k \in Nat : k = ticks * Count(Tick, c) BY <2>6
    <2>8. Count(StreamOf(ring', call'), c) + Count(dropped, c) = Count(printed', c) + k
      <3>1. PICK s \in Nat, d \in Nat, q \in Nat, n \in Nat :
              /\ s = Count(StreamOf(ring, call), c) /\ d = Count(dropped, c)
              /\ q = Count(printed, c) /\ n = Count(m, c)
        BY <2>3, <2>4
      <3>2. Count(StreamOf(ring', call'), c) = s + n BY <2>1, <3>1
      <3>3. Count(printed', c) = q + n BY <2>2, <3>1
      <3>4. s + d = q + k BY <2>5, <2>7, <3>1
      <3>5. (s + n) + d = (q + n) + k BY <3>4
      <3> QED BY <3>1, <3>2, <3>3, <3>5
    <2> QED BY <2>7, <2>8
  <1>4. Counted' BY <1>3 DEF Counted, Tick
  <1>5. Ordered' BY DEF LogInv, Ordered
  <1> QED BY <1>2, <1>4, <1>5

LEMMA NoCallStream ==
  ASSUME NEW r \in RingType
  PROVE  /\ CallInv(NoCall, r) /\ Ahead(NoCall) = <<>> /\ Behind(NoCall) = <<>>
         /\ StreamOf(r, NoCall) = r.out \o Pending(r) /\ r.out \o Pending(r) \in Seq(Letters)
         /\ r.out \in Seq(Letters) /\ Pending(r) \in Seq(Letters)
  <1>1. r.out \in Seq(Letters) /\ Pending(r) \in Seq(Letters) BY PendingIs DEF RingType
  <1>2. Ahead(NoCall) = <<>> /\ Behind(NoCall) = <<>> BY DEF Ahead, Behind, NoCall
  <1>3. r.out \o <<>> = r.out /\ Pending(r) \o <<>> = Pending(r) BY <1>1, ConcatEmptySeq
  <1>4. r.out \o Pending(r) \in Seq(Letters) BY <1>1
  <1> QED BY <1>1, <1>2, <1>3, <1>4 DEF StreamOf, CallInv

\* A thread enters printk.
LEMMA CallStep ==
  ASSUME LogInv, NEW p \in Messages, printk(p)
  PROVE  LogInv'
  <1>1. call = NoCall /\ ring' = ring /\ timer # "off" /\ UNCHANGED <<timer, ticks, dropped>>
    BY DEF printk
  <1>2. PICK m \in Seq(Letters) : m = Copied(Formatted(p)) /\ Len(m) = TextLen(p) BY CopiedIs DEF Texts
  <1>3. printed' = printed \o m BY <1>2 DEF printk, Record
  <1>4. PICK r \in RingType : r = ring BY DEF LogInv, TypeInv
  <1>5. /\ CallInv(call', ring') /\ Ahead(call') = <<>> /\ Behind(call') = m
        /\ call' = NoCall => m = <<>>
    <2>1. CASE Formatted(p).text = <<>>
      <3>1. call' = NoCall BY <2>1 DEF printk
      <3>2. TextLen(p) = 0 BY <2>1 DEF TextLen
      <3>3. m = <<>> BY <1>2, <3>2
      <3> QED BY <1>1, <1>4, <3>1, <3>3, NoCallStream
    <2>2. CASE Formatted(p).text # <<>>
      <3>1. call' = [pc |-> "next", todo |-> m] BY <1>2, <2>2 DEF printk
      <3> QED BY <3>1 DEF CallInv, Ahead, Behind, NoCall
    <2> QED BY <2>1, <2>2
  <1>6. StreamOf(ring', call') = StreamOf(ring, call) \o m
    <2>1. PICK o \in Seq(Letters), q \in Seq(Letters) :
            o = r.out /\ q = Pending(r) /\ StreamOf(ring, call) = o \o q
      BY <1>1, <1>4, NoCallStream
    <2>2. StreamOf(ring', call') = (o \o <<>>) \o (q \o m) BY <1>1, <1>4, <1>5, <2>1 DEF StreamOf
    <2>3. o \o <<>> = o BY ConcatEmptySeq
    <2>4. (o \o q) \o m = o \o (q \o m) BY Grouping
    <2> QED BY <2>1, <2>2, <2>3, <2>4
  <1>7. TypeInv' /\ Counted' /\ Ordered' BY <1>1, <1>3, <1>4, <1>5, <1>6, Prints
  <1>8. Space'
    <2>1. Used(ring) \in Nat /\ Used(ring) <= IF timer = "bsp" THEN Most ELSE 0
      BY <1>1, <1>4, PendingIs, Sizes DEF LogInv, Space
    <2>2. Len(m) \in Nat /\ Len(m) <= Most BY <1>2, MostIs
    <2>3. Used(ring) + Len(m) <= IF timer = "bsp" THEN 2 * Most ELSE Most BY <2>1, <2>2, MostIs
    <2>4. timer' # "bsp" => dropped' = <<>> BY <1>1 DEF LogInv, Space
    <2> QED BY <1>1, <1>5, <2>1, <2>3, <2>4 DEF Space
  <1> QED BY <1>7, <1>8 DEF LogInv

LEMMA AloneStep ==
  ASSUME LogInv, printk_alone
  PROVE  LogInv'
  <1>1. timer = "off" /\ UNCHANGED <<call, timer, ticks, dropped>> BY DEF printk_alone
  <1>2. call = NoCall BY <1>1 DEF LogInv, Space
  <1>3. PICK p \in Programs : Record(p, Formatted(p)) /\ ring' = PrintkWhole(ring, Formatted(p))
    BY DEF printk_alone
  <1>4. PICK m \in Seq(Letters) : m = Copied(Formatted(p)) BY CopiedIs DEF Texts
  <1>5. printed' = printed \o m BY <1>3, <1>4 DEF Record
  <1>6. PICK r \in RingType : r = ring BY DEF LogInv, TypeInv
  <1>7. Used(r) = 0
    <2>1. Used(r) <= 0 /\ Used(r) \in Nat BY <1>1, <1>2, <1>6, PendingIs, Sizes DEF LogInv, Space
    <2> QED BY <2>1
  <1>8. p \in Texts /\ Used(r) + TextLen(p) < PRINTK_BUF_SIZE
    BY <1>7, RoomAssumption, Sizes DEF Texts
  <1>9. PICK r2 \in RingType : r2 = ring' BY <1>3, <1>6, <1>8, WholeStep
  <1>10. Used(r2) <= Used(r) /\ r2.out \o Pending(r2) = (r.out \o Pending(r)) \o m
    BY <1>3, <1>4, <1>6, <1>8, <1>9, WholeStep
  <1>11. StreamOf(ring', call') = StreamOf(ring, call) \o m
    BY <1>1, <1>2, <1>6, <1>9, <1>10, NoCallStream
  <1>12. CallInv(call', ring') BY <1>1, <1>2, <1>9, NoCallStream
  <1>13. TypeInv' /\ Counted' /\ Ordered' BY <1>1, <1>5, <1>9, <1>11, <1>12, Prints
  <1>14. Space'
    <2>1. Used(ring') = 0
      <3>1. Used(r2) \in Nat BY PendingIs, Sizes
      <3> QED BY <1>7, <1>9, <1>10, <3>1
    <2>2. Behind(call') = <<>> BY <1>1, <1>2, <1>6, NoCallStream
    <2>3. Used(ring') + Len(Behind(call')) = 0 BY <2>1, <2>2
    <2>4. call' = NoCall /\ timer' = "off" /\ dropped' = <<>> BY <1>1, <1>2 DEF LogInv, Space
    <2> QED BY <2>1, <2>3, <2>4, MostIs DEF Space
  <1> QED BY <1>13, <1>14 DEF LogInv

\* The timer's handler prints while no position that a thread has read is still
\* to be used.
LEMMA TickStep ==
  ASSUME LogInv, lapic_timer_printk, ~InWindow
  PROVE  LogInv'
  <1>1. UNCHANGED <<call, timer, printed, dropped>> /\ ticks' = ticks + 1 /\ timer # "off"
    BY DEF lapic_timer_printk
  <1>2. PICK r \in RingType : r = ring BY DEF LogInv, TypeInv
  <1>3. PICK m \in Seq(Letters) : m = Tick BY CopiedIs DEF Tick, Texts
  <1>4. Used(r) \in Nat /\ Len(Behind(call)) \in Nat
    BY <1>2, PendingIs, CallSeqs, Sizes DEF LogInv, TypeInv
  <1>5. TickMessage \in Texts /\ Used(r) + TextLen(TickMessage) < PRINTK_BUF_SIZE
    <2>1. Used(r) <= 2 * Most BY <1>2, <1>4, MostIs DEF LogInv, Space
    <2>2. TickMessage \in Texts BY DEF Texts
    <2> QED BY <1>4, <2>1, <2>2, MostIs, Sizes
  <1>6. PICK r2 \in RingType : r2 = ring' BY <1>2, <1>5, WholeStep DEF lapic_timer_printk
  <1>7. Used(r2) <= Used(r) /\ r2.out \o Pending(r2) = (r.out \o Pending(r)) \o m
    BY <1>2, <1>3, <1>5, <1>6, WholeStep DEF lapic_timer_printk, Tick
  <1>8. CallInv(call, r) /\ CallInv(call, r2)
    BY <1>2 DEF LogInv, TypeInv, CallInv, InWindow, NoCall
  <1>9. TypeInv' BY <1>1, <1>6, <1>8 DEF LogInv, TypeInv
  <1>10. ASSUME NEW c \in Letters
         PROVE  Count(StreamOf(r2, call), c) + Count(dropped, c) = Count(printed, c) + (ticks + 1) * Count(m, c)
    <2>1. Count(r2.out \o Pending(r2), c) = Count(r2.out, c) + Count(Pending(r2), c)
      BY NoCallStream, CountConcat
    <2>2. Count((r.out \o Pending(r)) \o m, c) = Count(r.out, c) + Count(Pending(r), c) + Count(m, c)
      <3>1. PICK o \in Seq(Letters), q \in Seq(Letters) : o = r.out /\ q = Pending(r) BY NoCallStream
      <3>2. o \o q \in Seq(Letters) OBVIOUS
      <3>3. Count((o \o q) \o m, c) = Count(o \o q, c) + Count(m, c) BY <3>2, CountConcat
      <3>4. Count(o \o q, c) = Count(o, c) + Count(q, c) BY CountConcat
      <3> QED BY <3>1, <3>3, <3>4
    <2>3. /\ Count(StreamOf(r, call), c)
               = Count(r.out, c) + Count(Ahead(call), c) + Count(Pending(r), c) + Count(Behind(call), c)
          /\ Count(r.out, c) \in Nat /\ Count(Ahead(call), c) \in Nat
          /\ Count(Pending(r), c) \in Nat /\ Count(Behind(call), c) \in Nat
      BY <1>8, StreamCount
    <2>4. /\ Count(StreamOf(r2, call), c)
               = Count(r2.out, c) + Count(Ahead(call), c) + Count(Pending(r2), c) + Count(Behind(call), c)
          /\ Count(r2.out, c) \in Nat /\ Count(Pending(r2), c) \in Nat
      BY <1>8, StreamCount
    <2>5. Count(m, c) \in Nat /\ ticks \in Nat /\ Count(dropped, c) \in Nat /\ Count(printed, c) \in Nat
      BY CountType DEF LogInv, TypeInv
    <2>6. Count(StreamOf(r, call), c) + Count(dropped, c) = Count(printed, c) + ticks * Count(m, c)
      BY <1>2, <1>3 DEF LogInv, Counted
    <2>7. PICK n \in Nat, k \in Nat : n = ticks * Count(m, c) /\ k = (ticks + 1) * Count(m, c) BY <2>5
    <2>8. k = n + Count(m, c) BY <2>5, <2>7
    <2>9. Count(r2.out, c) + Count(Pending(r2), c) = Count(r.out, c) + Count(Pending(r), c) + Count(m, c)
      BY <1>7, <2>1, <2>2
    <2>10. Count(StreamOf(r2, call), c) + Count(dropped, c) = Count(printed, c) + k
      <3>1. PICK o \in Nat, a \in Nat, q \in Nat, b \in Nat :
              /\ o = Count(r.out, c) /\ a = Count(Ahead(call), c)
              /\ q = Count(Pending(r), c) /\ b = Count(Behind(call), c)
        BY <2>3
      <3>2. PICK o2 \in Nat, q2 \in Nat : o2 = Count(r2.out, c) /\ q2 = Count(Pending(r2), c) BY <2>4
      <3>3. PICK d \in Nat, w \in Nat, x \in Nat :
              d = Count(dropped, c) /\ w = Count(printed, c) /\ x = Count(m, c)
        BY <2>5
      <3>4. Count(StreamOf(r, call), c) = o + a + q + b BY <2>3, <3>1
      <3>5. Count(StreamOf(r2, call), c) = o2 + a + q2 + b BY <2>4, <3>1, <3>2
      <3>6. o + a + q + b + d = w + n BY <2>6, <2>7, <3>3, <3>4
      <3>7. o2 + q2 = o + q + x BY <2>9, <3>1, <3>2, <3>3
      <3>8. k = n + x BY <2>8, <3>3
      <3>9. o2 + a + q2 + b + d = w + k BY <3>6, <3>7, <3>8
      <3> QED BY <3>3, <3>5, <3>9
    <2> QED BY <2>7, <2>10
  <1>11. Counted' BY <1>1, <1>3, <1>6, <1>10 DEF Counted, Tick
  <1>12. Ordered'
    <2>1. ticks' # 0 BY <1>1 DEF LogInv, TypeInv
    <2> QED BY <2>1 DEF Ordered
  <1>13. Space'
    <2>1. Used(r2) \in Nat BY PendingIs, Sizes
    <2>2. (Used(ring) + Len(Behind(call)) <= IF timer = "bsp" THEN 2 * Most ELSE Most)'
      BY <1>1, <1>2, <1>4, <1>6, <1>7, <2>1, MostIs DEF LogInv, Space
    <2>3. (call = NoCall => Used(ring) <= IF timer = "bsp" THEN Most ELSE 0)'
      BY <1>1, <1>2, <1>4, <1>6, <1>7, <2>1, MostIs DEF LogInv, Space
    <2> QED BY <1>1, <2>2, <2>3 DEF LogInv, Space
  <1> QED BY <1>9, <1>11, <1>12, <1>13 DEF LogInv

\* The boot context loses the CPU for good, and what it holds is lost.
LEMMA SwitchStep ==
  ASSUME LogInv, schedule_bsp
  PROVE  LogInv'
  <1>1. /\ timer = "on" /\ timer' = "bsp" /\ call' = NoCall /\ dropped' = Held
        /\ UNCHANGED <<ring, ticks, printed>>
    BY DEF schedule_bsp
  <1>2. PICK r \in RingType : r = ring BY DEF LogInv, TypeInv
  <1>3. dropped = <<>> BY <1>1 DEF LogInv, Space
  <1>4. CallInv(call, r) BY <1>2 DEF LogInv, TypeInv
  <1>5. PICK a \in Seq(Letters), b \in Seq(Letters) : a = Ahead(call) /\ b = Behind(call) BY <1>4, CallSeqs
  <1>6. (a = <<>> /\ Held = b) \/ (b = <<>> /\ Held = a) BY <1>4, <1>5 DEF Held, Ahead, Behind, CallInv, NoCall
  <1>7. TypeInv' BY <1>1, <1>2, <1>5, <1>6, NoCallStream DEF LogInv, TypeInv
  <1>8. ASSUME NEW c \in Letters
        PROVE  Count(StreamOf(r, NoCall), c) + Count(Held, c) = Count(printed, c) + ticks * Count(Tick, c)
    <2>1. Count(StreamOf(r, call), c) = Count(r.out, c) + Count(a, c) + Count(Pending(r), c) + Count(b, c)
      BY <1>4, <1>5, StreamCount
    <2>2. Count(r.out, c) \in Nat /\ Count(Pending(r), c) \in Nat /\ Count(a, c) \in Nat /\ Count(b, c) \in Nat
      BY NoCallStream, CountType
    <2>3. Count(StreamOf(r, NoCall), c) = Count(r.out, c) + Count(Pending(r), c)
      <3>1. PICK o \in Seq(Letters), q \in Seq(Letters) :
              o = r.out /\ q = Pending(r) /\ StreamOf(r, NoCall) = o \o q
        BY NoCallStream
      <3>2. Count(o \o q, c) = Count(o, c) + Count(q, c) BY CountConcat
      <3> QED BY <3>1, <3>2
    <2>4. Count(Held, c) = Count(a, c) + Count(b, c) BY <1>6, <2>2, CountEmpty
    <2>5. Count(StreamOf(r, call), c) + Count(dropped, c) = Count(printed, c) + ticks * Count(Tick, c)
      BY <1>2 DEF LogInv, Counted
    <2>6. Count(dropped, c) = 0 BY <1>3, CountEmpty
    <2>7. Count(StreamOf(r, NoCall), c) + Count(Held, c) = Count(StreamOf(r, call), c) + Count(dropped, c)
      BY <2>1, <2>2, <2>3, <2>4, <2>6
    <2> QED BY <2>5, <2>7
  <1>9. Counted' BY <1>1, <1>2, <1>8 DEF Counted, Tick
  <1>10. Ordered'
    <2> SUFFICES ASSUME ticks = 0, Held = <<>> PROVE StreamOf(r, NoCall) = printed
      BY <1>1, <1>2 DEF Ordered
    <2>1. a = <<>> /\ b = <<>> BY <1>6
    <2>2. StreamOf(r, call) = StreamOf(r, NoCall) BY <1>5, <2>1, NoCallStream DEF StreamOf
    <2>3. StreamOf(r, call) = printed BY <1>2, <1>3 DEF LogInv, Ordered
    <2> QED BY <2>2, <2>3
  <1>11. Space'
    <2>1. Used(r) \in Nat /\ Len(b) \in Nat BY PendingIs, Sizes
    <2>2. Used(r) <= Most BY <1>1, <1>2, <1>5, <2>1, MostIs DEF LogInv, Space
    <2>3. Behind(call') = <<>> BY <1>1, <1>2, NoCallStream
    <2>4. Used(ring') + Len(Behind(call')) <= 2 * Most BY <1>1, <1>2, <2>1, <2>2, <2>3, MostIs
    <2> QED BY <1>1, <1>2, <2>2, <2>4 DEF Space
  <1> QED BY <1>7, <1>9, <1>10, <1>11 DEF LogInv

LEMMA InitLog == Init => IInv
  <1> SUFFICES ASSUME Init PROVE LogInv BY DEF IInv
  <1>1. PICK start \in Starts :
          ring = [buf |-> [i \in 0 .. PRINTK_BUF_SIZE - 1 |-> "NUL"], head |-> start, tail |-> start, out |-> <<>>]
    BY DEF Init
  <1>2. start \in Cells BY LogAssumption DEF Cells
  <1>3. [i \in 0 .. PRINTK_BUF_SIZE - 1 |-> "NUL"] \in [Cells -> Letters] BY DEF Cells, Letters
  <1>4. PICK r \in RingType : r = ring
    <2>1. PICK b \in [Cells -> Letters] : b = [i \in 0 .. PRINTK_BUF_SIZE - 1 |-> "NUL"] BY <1>3
    <2>2. PICK o \in Seq(Letters) : o = <<>>
      <3>1. <<>> \in Seq(Letters) OBVIOUS
      <3> QED BY <3>1, Zenon
    <2>3. ring = [buf |-> b, head |-> start, tail |-> start, out |-> o] BY <1>1, <2>1, <2>2
    <2>4. ring \in RingType BY <1>2, <2>3 DEF RingType
    <2> QED BY <2>4
  <1>5. r.tail = r.head /\ r.out = <<>> BY <1>1, <1>4
  <1>6. Used(r) = 0 /\ Pending(r) = <<>>
    <2>1. Used(r) = 0 /\ Pending(r) \in Seq(Letters) /\ Len(Pending(r)) = 0 BY <1>5, PendingIs
    <2> QED BY <2>1
  <1>7. call = NoCall /\ timer = "off" /\ ticks = 0 /\ printed = <<>> /\ dropped = <<>> BY DEF Init
  <1>8. StreamOf(ring, call) = <<>>
    <2>1. <<>> \o <<>> = <<>> OBVIOUS
    <2> QED BY <1>4, <1>5, <1>6, <1>7, <2>1, NoCallStream
  <1>9. TypeInv BY <1>4, <1>7, NoCallStream DEF TypeInv
  <1>10. Counted
    <2>1. \A c \in Letters : 0 * Count(Tick, c) = 0
      <3>1. Tick \in Seq(Letters) BY CopiedIs DEF Tick, Texts
      <3>2. \A c \in Letters : Count(Tick, c) \in Nat BY <3>1, CountType
      <3> QED BY <3>2
    <2>2. \A c \in Letters : Count(<<>>, c) = 0 BY CountEmpty
    <2> QED BY <1>7, <1>8, <2>1, <2>2 DEF Counted
  <1>11. Ordered BY <1>7, <1>8 DEF Ordered
  <1>12. Space
    <2>1. Behind(call) = <<>> /\ Len(Behind(call)) = 0 BY <1>4, <1>7, NoCallStream
    <2> QED BY <1>4, <1>6, <1>7, <2>1, MostIs DEF Space
  <1> QED BY <1>9, <1>10, <1>11, <1>12 DEF LogInv

LEMMA SameLog ==
  ASSUME LogInv, UNCHANGED <<ring, call, ticks, printed, dropped>>,
         timer' = timer \/ (timer = "off" /\ timer' = "on")
  PROVE  LogInv'
  <1>1. TypeInv' BY DEF LogInv, TypeInv
  <1>2. Counted' BY DEF LogInv, Counted, Tick
  <1>3. Ordered' BY DEF LogInv, Ordered
  <1>4. Space' BY DEF LogInv, Space
  <1> QED BY <1>1, <1>2, <1>3, <1>4 DEF LogInv

LEMMA NextLog ==
  ASSUME IInv, [Next]_vars
  PROVE  IInv'
  <1> SUFFICES ASSUME ~hit' PROVE LogInv' BY DEF IInv
  <1>1. ~hit /\ (lapic_timer_printk => ~InWindow)
    <2>1. printk_alone \/ local_timer_start \/ (\E p \in Messages : printk(p)) \/ schedule_bsp => hit' = hit
      BY DEF printk_alone, local_timer_start, printk, schedule_bsp
    <2>2. Thread => hit' = hit
      BY DEF Thread, put_next, put_room, put_store, read_test, read_char, write_char, At
    <2>3. lapic_timer_printk => hit' = (hit \/ InWindow) BY DEF lapic_timer_printk
    <2>4. UNCHANGED vars => hit' = hit BY DEF vars
    <2>5. lapic_timer_printk => ~hit /\ ~InWindow BY <2>3, Zenon
    <2>6. ~hit BY <2>1, <2>2, <2>4, <2>5, Zenon DEF Next
    <2> QED BY <2>5, <2>6
  <1>2. LogInv BY <1>1 DEF IInv
  <1>3. CASE printk_alone BY <1>2, <1>3, AloneStep
  <1>4. CASE local_timer_start BY <1>2, <1>4, SameLog DEF local_timer_start
  <1>5. ASSUME NEW p \in Messages, printk(p) PROVE LogInv' BY <1>2, <1>5, CallStep
  <1>6. CASE Thread
    BY <1>2, <1>6, NextStep, RoomStep, StoreStep, TestStep, ReadStep, WriteStep DEF Thread
  <1>7. CASE lapic_timer_printk BY <1>1, <1>2, <1>7, TickStep
  <1>8. CASE schedule_bsp BY <1>2, <1>8, SwitchStep
  <1>9. CASE UNCHANGED vars BY <1>2, <1>9, SameLog DEF vars
  <1> QED BY <1>3, <1>4, <1>5, <1>6, <1>7, <1>8, <1>9 DEF Next

\* printk, printk_read_buf and tty_flush lose and repeat nothing, whatever the
\* texts, the sizes of the ring and the chunk, and the number of printks and of
\* ticks, if no tick comes between two accesses that belong together.
THEOREM LogIsConserved == Spec => []LogConserved
  <1>1. IInv => LogConserved
    <2> SUFFICES ASSUME LogInv, call = NoCall
                 PROVE  /\ \A c \in Letters :
                             Count(ring.out, c) + Count(Pending(ring), c) + Count(dropped, c)
                               = Count(printed, c) + ticks * Count(Tick, c)
                        /\ \A c \in ToSet(printed) \union ToSet(Tick) \union ToSet(ring.out) : c \in Letters
                        /\ ticks = 0 /\ dropped = <<>> => ring.out \o Pending(ring) = printed
      BY Zenon DEF IInv, LogConserved, Tick
    <2>1. PICK r \in RingType : r = ring BY DEF LogInv, TypeInv
    <2>2. StreamOf(r, call) = r.out \o Pending(r) BY NoCallStream
    <2>3. ASSUME NEW c \in Letters
          PROVE  Count(r.out, c) + Count(Pending(r), c) + Count(dropped, c)
                   = Count(printed, c) + ticks * Count(Tick, c)
      <3>1. Count(StreamOf(r, call), c) + Count(dropped, c) = Count(printed, c) + ticks * Count(Tick, c)
        BY <2>1 DEF LogInv, Counted
      <3>2. Count(r.out \o Pending(r), c) = Count(r.out, c) + Count(Pending(r), c)
        BY NoCallStream, CountConcat
      <3> QED BY <2>2, <3>1, <3>2
    <2>4. \A c \in ToSet(printed) \union ToSet(Tick) \union ToSet(ring.out) : c \in Letters
      <3>1. printed \in Seq(Letters) /\ ring.out \in Seq(Letters) BY DEF LogInv, TypeInv, RingType
      <3>2. Tick \in Seq(Letters) BY CopiedIs DEF Tick, Texts
      <3> QED BY <3>1, <3>2 DEF ToSet
    <2>5. ticks = 0 /\ dropped = <<>> => r.out \o Pending(r) = printed BY <2>1, <2>2 DEF LogInv, Ordered
    <2> QED BY <2>1, <2>3, <2>4, <2>5
  <1> QED BY <1>1, InitLog, NextLog, PTL DEF Spec
=============================================================================
