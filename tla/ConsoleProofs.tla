--------------------------- MODULE ConsoleProofs ---------------------------
(***************************************************************************)
(* Theorems about the text console: it implements the terminal, its state  *)
(* is well typed, and the cursor stays on the screen unless it is set off  *)
(* it; after that one character brings it back, at the price of at most    *)
(* one store outside the buffer.  All hold for every size of the screen.   *)
(***************************************************************************)
EXTENDS Console, NatLemmas, SequenceTheorems

(* The screen is not empty and its width is a position of the controller.  *)
LEMMA ScreenSize ==
  /\ VGA_WIDTH \in Nat \ {0} /\ VGA_HEIGHT \in Nat \ {0}
  /\ VGA_WIDTH \in 0 .. (CrtcWord - 1) /\ 0 \in 0 .. (CrtcWord - 1)
<1>1. CrtcWord \in Nat \ {0}
  BY DEF CrtcWord
<1> QED
  BY <1>1, ConsoleAssumption

(* A place on the screen is a place of the buffer.                         *)
LEMMA OnScreenInBuffer ==
  ASSUME NEW row \in Nat, NEW col \in Nat, OnScreen(row, col)
  PROVE  row * VGA_WIDTH + col \in Index
<1> DEFINE W == VGA_WIDTH
           H == VGA_HEIGHT
<1>1. W \in Nat \ {0} /\ H \in Nat \ {0} /\ row < H /\ col < W
  BY ScreenSize DEF OnScreen
<1> HIDE DEF W, H
<1>2. PICK k \in Nat : H = row + 1 + k
  <2>1. H - (row + 1) \in Nat /\ H = row + 1 + (H - (row + 1))
    BY <1>1
  <2> QED
    BY <2>1
<1>3. row * W \in Nat /\ k * W \in Nat
  BY <1>1
<1>4. H * W = row * W + W + k * W
  BY <1>1, <1>2
<1>5. W * H = H * W
  BY <1>1
<1>6. row * W + col \in 0 .. (W * H - 1)
  BY <1>1, <1>3, <1>4, <1>5
<1> QED
  BY <1>6 DEF W, H, Index

(* Wherever kputc starts, its row and column end up on the screen.         *)
LEMMA kputcCursor ==
  ASSUME NEW c, cursor_row \in Nat, cursor_col \in Nat, kputc(c)
  PROVE  /\ cursor_row' \in Nat /\ cursor_col' \in Nat
         /\ OnScreen(cursor_row', cursor_col')
<1>1. cursor_col' = NextCol(c) /\ NextCol(c) \in Nat /\ NextCol(c) < VGA_WIDTH
  BY ScreenSize DEF kputc, NextCol, Wraps
<1>2. NextRow(c) \in Nat
  BY DEF NextRow
<1>3. CASE NextRow(c) < VGA_HEIGHT
  BY <1>1, <1>2, <1>3 DEF kputc, OnScreen
<1>4. CASE ~(NextRow(c) < VGA_HEIGHT)
  <2>1. cursor_row' = VGA_HEIGHT - 1
    BY <1>4 DEF kputc, LastRow
  <2> QED
    BY <1>1, <2>1, ScreenSize DEF OnScreen
<1> QED
  BY <1>3, <1>4

(* The position sent to the controller is one of its words.                *)
LEMMA PositionType ==
  ASSUME NEW row \in Nat, NEW col \in Nat
  PROVE  Position(row, col) \in 0 .. (CrtcWord - 1)
<1>1. row * VGA_WIDTH \in Nat
  BY ScreenSize
<1>2. row * VGA_WIDTH + col \in Nat
  BY <1>1
<1>3. CrtcWord \in Nat \ {0}
  BY DEF CrtcWord
<1> QED
  BY <1>2, <1>3 DEF Position

Printable == Chars \cup HighChars

(* What scrolling fills the last line with is a cell.                      *)
LEMMA BlankType ==
  ASSUME current_color \in Colors
  PROVE  BlankCell \in Marks
BY DEF BlankCell, Marks, Attributes

(* What kputc stores is a cell.                                            *)
LEMMA StoredType ==
  ASSUME vga \in [Index -> Marks], current_color \in Colors,
         NEW c \in Printable \cup {Newline}
  PROVE  Stored(c) \in [Index -> Marks]
<1>1. CASE c # Newline
  <2>1. Cell(c) \in Marks
    BY <1>1 DEF Cell, Marks, Attributes, Printable
  <2> HIDE DEF Marks, Index
  <2> QED
    BY <2>1 DEF Stored
<1>2. CASE c = Newline
  BY <1>2 DEF Stored
<1> QED
  BY <1>1, <1>2

(* Scrolling leaves a buffer of cells.                                     *)
LEMMA ScrollType ==
  ASSUME NEW screen \in [Index -> Marks], current_color \in Colors
  PROVE  /\ Scroll(screen) \in [Index -> Marks]
         /\ Row(screen, 0) \in [0 .. (VGA_WIDTH - 1) -> Marks]
<1>1. Scroll(screen) \in [Index -> Marks]
  BY BlankType DEF Scroll
<1>2. ASSUME NEW x \in 0 .. (VGA_WIDTH - 1)
      PROVE  screen[0 * VGA_WIDTH + x] \in Marks
  <2>1. OnScreen(0, x)
    BY ScreenSize DEF OnScreen
  <2>2. 0 * VGA_WIDTH + x \in Index
    BY <2>1, OnScreenInBuffer, ScreenSize
  <2> QED
    BY <2>2
<1> QED
  BY <1>1, <1>2 DEF Row

(* Each cursor off the screen has its call of set_cursor, which the next   *)
(* store outside the buffer uses up.                                       *)
CursorPaid == strays + (IF OnScreen(cursor_row, cursor_col) THEN 0 ELSE 1) <= bad

IInv ==
  /\ TypeOK
  /\ bad \in Nat /\ strays \in Nat
  /\ CursorPaid

(* A character keeps the invariant: a store outside is paid for.           *)
LEMMA kputcStep ==
  ASSUME IInv, NEW c \in Printable \cup {Newline}, kputc(c)
  PROVE  IInv'
<1>0. /\ vga \in [Index -> Marks] /\ current_color \in Colors
      /\ scrolled \in Seq([0 .. (VGA_WIDTH - 1) -> Marks])
      /\ cursor_row \in Nat /\ cursor_col \in Nat /\ cursor_on \in BOOLEAN
      /\ bad \in Nat /\ strays \in Nat /\ CursorPaid
  BY DEF IInv, TypeOK
<1>1. cursor_row' \in Nat /\ cursor_col' \in Nat /\ OnScreen(cursor_row', cursor_col')
  BY <1>0, kputcCursor
<1>2. vga' \in [Index -> Marks] /\ scrolled' \in Seq([0 .. (VGA_WIDTH - 1) -> Marks])
  <2>1. Stored(c) \in [Index -> Marks]
    BY <1>0, StoredType
  <2>2. CASE NextRow(c) < VGA_HEIGHT
    BY <1>0, <2>1, <2>2 DEF kputc
  <2>3. CASE ~(NextRow(c) < VGA_HEIGHT)
    <3>1. vga' = Scroll(Stored(c)) /\ scrolled' = Append(scrolled, Row(Stored(c), 0))
      BY <2>3 DEF kputc
    <3>2. Scroll(Stored(c)) \in [Index -> Marks]
      BY <1>0, <2>1, ScrollType
    <3>3. Row(Stored(c), 0) \in [0 .. (VGA_WIDTH - 1) -> Marks]
      BY <1>0, <2>1, ScrollType
    <3>4. Append(scrolled, Row(Stored(c), 0)) \in Seq([0 .. (VGA_WIDTH - 1) -> Marks])
      BY <1>0, <3>3
    <3> QED
      BY <3>1, <3>2, <3>4
  <2> QED
    BY <2>2, <2>3
<1>3. crtc' \in 0 .. (CrtcWord - 1)
  BY <1>1, PositionType DEF kputc
<1>4. current_color' \in Colors /\ cursor_on' \in BOOLEAN /\ bad' = bad
  BY <1>0 DEF kputc
<1>5. strays' \in Nat /\ strays' <= bad
  <2>1. CASE OnScreen(cursor_row, cursor_col)
    <3>1. Place \in Index
      BY <1>0, <2>1, OnScreenInBuffer DEF Place
    <3>2. strays' = strays
      BY <3>1 DEF kputc
    <3> QED
      BY <1>0, <2>1, <3>2 DEF CursorPaid
  <2>2. CASE ~OnScreen(cursor_row, cursor_col)
    <3>1. strays' = strays \/ strays' = strays + 1
      BY DEF kputc
    <3>2. strays + 1 <= bad
      BY <1>0, <2>2 DEF CursorPaid
    <3> QED
      BY <1>0, <3>1, <3>2
  <2> QED
    BY <2>1, <2>2
<1>6. CursorPaid'
  <2>1. cursor_row' < VGA_HEIGHT /\ cursor_col' < VGA_WIDTH
    BY <1>1 DEF OnScreen
  <2>2. strays' + 0 <= bad'
    BY <1>4, <1>5
  <2> QED
    BY <2>1, <2>2 DEF CursorPaid, OnScreen
<1>7. OnScreen(cursor_row, cursor_col)'
  BY <1>1 DEF OnScreen
<1> QED
  BY <1>0, <1>1, <1>2, <1>3, <1>4, <1>5, <1>6, <1>7 DEF IInv, TypeOK

(* So does every other operation of the console.                           *)
LEMMA OtherStep ==
  ASSUME IInv,
         \/ \E color \in Colors : set_color(color)
         \/ clear
         \/ \E p \in Cursors : set_cursor(p[1], p[2])
         \/ enable_cursor
         \/ disable_cursor
         \/ UNCHANGED vars
  PROVE  IInv'
<1>1. CASE UNCHANGED vars
  BY <1>1 DEF vars, cursor, ghosts, IInv, TypeOK, CursorPaid, OnScreen
<1>2. CASE enable_cursor \/ disable_cursor
  BY <1>2 DEF enable_cursor, disable_cursor, cursor, ghosts, IInv, TypeOK, CursorPaid, OnScreen
<1>3. CASE \E color \in Colors : set_color(color)
  BY <1>3 DEF set_color, cursor, ghosts, IInv, TypeOK, CursorPaid, OnScreen
<1>4. CASE clear
  <2>1. BlankCell \in Marks
    BY BlankType DEF IInv, TypeOK
  <2>2. vga' \in [Index -> Marks]
    BY <1>4, <2>1 DEF clear
  <2>3. crtc' \in 0 .. (CrtcWord - 1)
    BY <1>4, PositionType DEF clear
  <2>4. scrolled' \in Seq([0 .. (VGA_WIDTH - 1) -> Marks])
    BY <1>4 DEF clear
  <2>5. cursor_row' = 0 /\ cursor_col' = 0 /\ 0 < VGA_HEIGHT /\ 0 < VGA_WIDTH
    BY <1>4, ScreenSize DEF clear
  <2>6. UNCHANGED <<current_color, cursor_on, bad, strays>>
    BY <1>4 DEF clear
  <2>7. strays <= bad /\ strays \in Nat /\ bad \in Nat
    BY DEF IInv, CursorPaid
  <2> QED
    BY <2>2, <2>3, <2>4, <2>5, <2>6, <2>7 DEF IInv, TypeOK, CursorPaid, OnScreen
<1>5. CASE \E p \in Cursors : set_cursor(p[1], p[2])
  <2>1. PICK row \in Nat, col \in Nat : set_cursor(row, col)
    BY <1>5, ConsoleAssumption
  <2>2. crtc' \in 0 .. (CrtcWord - 1)
    BY <2>1, PositionType DEF set_cursor
  <2>3. cursor_row' = row /\ cursor_col' = col
    BY <2>1 DEF set_cursor
  <2>4. bad' = IF OnScreen(row, col) THEN bad ELSE bad + 1
    BY <2>1 DEF set_cursor
  <2>5. UNCHANGED <<vga, current_color, cursor_on, scrolled, strays>>
    BY <2>1 DEF set_cursor
  <2>6. strays <= bad /\ strays \in Nat /\ bad \in Nat
    BY DEF IInv, CursorPaid
  <2> QED
    BY <2>2, <2>3, <2>4, <2>5, <2>6 DEF IInv, TypeOK, CursorPaid, OnScreen
<1> QED
  BY <1>1, <1>2, <1>3, <1>4, <1>5

(* The invariant holds in every state of a run.                            *)
LEMMA IInvInvariant == Spec => []IInv
<1>1. Init => IInv
  <2> SUFFICES ASSUME Init
               PROVE  IInv
    OBVIOUS
  <2>1. vga \in [Index -> Marks]
    <3>1. <<Old, AllOnes>> \in Marks
      BY DEF Marks, Attributes
    <3> QED
      BY <3>1 DEF Init
  <2>2. crtc \in 0 .. (CrtcWord - 1)
    BY ScreenSize DEF Init
  <2>3. OnScreen(cursor_row, cursor_col)
    BY ScreenSize DEF Init, OnScreen
  <2> QED
    BY <2>1, <2>2, <2>3 DEF Init, IInv, TypeOK, CursorPaid
<1>2. IInv /\ [Next]_vars => IInv'
  <2> SUFFICES ASSUME IInv, [Next]_vars
               PROVE  IInv'
    OBVIOUS
  <2>1. CASE \E c \in Chars \cup HighChars \cup {Newline} : kputc(c)
    BY <2>1, kputcStep DEF Printable
  <2> QED
    BY <2>1, OtherStep DEF Next
<1> QED
  BY <1>1, <1>2, PTL DEF Spec

(* The console's state is well typed, and the cursor is on the screen as   *)
(* long as set_cursor was never called with a place off it.                *)
THEOREM TypeCorrect == Spec => []TypeOK
<1>1. IInv => TypeOK
  BY DEF IInv
<1> QED
  BY <1>1, IInvInvariant, PTL

(* No character is stored outside the buffer but right after a set_cursor  *)
(* off the screen, and each of those is good for one.                      *)
THEOREM StraysPaidForAlways == Spec => []StraysPaidFor
<1>1. IInv => StraysPaidFor
  BY DEF IInv, CursorPaid, StraysPaidFor
<1> QED
  BY <1>1, IInvInvariant, PTL

(* One character puts the cursor back on the screen, wherever it was.      *)
THEOREM CursorComesBackAlways == Spec => CursorComesBack
<1>1. IInv /\ [Next]_vars =>
        [\A c \in Chars \cup HighChars \cup {Newline} :
           kputc(c) => OnScreen(cursor_row', cursor_col')]_vars
  <2>1. IInv => cursor_row \in Nat /\ cursor_col \in Nat
    BY DEF IInv, TypeOK
  <2> QED
    BY <2>1, kputcCursor
<1> QED
  BY <1>1, IInvInvariant, PTL DEF Spec, CursorComesBack

-----------------------------------------------------------------------------
(* The paper *)

Screen(buffer) == [y \in 1 .. VGA_HEIGHT |-> Row(buffer, y - 1)]

PaperLine == [0 .. (VGA_WIDTH - 1) -> Marks]

(* A line of a buffer is a line of the paper.                              *)
LEMMA RowType ==
  ASSUME NEW b \in [Index -> Marks], NEW y \in 0 .. (VGA_HEIGHT - 1)
  PROVE  Row(b, y) \in PaperLine
<1>1. ASSUME NEW x \in 0 .. (VGA_WIDTH - 1)
      PROVE  b[y * VGA_WIDTH + x] \in Marks
  <2>1. y \in Nat /\ x \in Nat /\ OnScreen(y, x)
    BY ScreenSize DEF OnScreen
  <2>2. y * VGA_WIDTH + x \in Index
    BY <2>1, OnScreenInBuffer
  <2> QED
    BY <2>2
<1> QED
  BY <1>1 DEF Row, PaperLine

(* The paper: what left the screen, and the screen below it                *)
LEMMA PaperFacts ==
  ASSUME NEW s \in Seq(PaperLine), NEW b \in [Index -> Marks]
  PROVE  /\ s \o Screen(b) \in Seq(PaperLine)
         /\ Len(s) \in Nat
         /\ Len(s \o Screen(b)) = Len(s) + VGA_HEIGHT
         /\ \A j \in 1 .. Len(s) : (s \o Screen(b))[j] = s[j]
         /\ \A y \in 0 .. (VGA_HEIGHT - 1) : (s \o Screen(b))[Len(s) + y + 1] = Row(b, y)
<1>1. VGA_HEIGHT \in Nat \ {0} /\ Len(s) \in Nat
  BY ScreenSize, LenProperties
<1>2. Screen(b) \in [1 .. VGA_HEIGHT -> PaperLine]
  <2>1. ASSUME NEW y \in 1 .. VGA_HEIGHT PROVE Row(b, y - 1) \in PaperLine
    <3>1. y - 1 \in 0 .. (VGA_HEIGHT - 1)
      BY <1>1
    <3> QED
      BY <3>1, RowType
  <2> QED
    BY <2>1 DEF Screen
<1>3. Screen(b) \in Seq(PaperLine) /\ Len(Screen(b)) = VGA_HEIGHT
  BY <1>1, <1>2
<1>4. /\ s \o Screen(b) \in Seq(PaperLine)
      /\ Len(s \o Screen(b)) = Len(s) + VGA_HEIGHT
      /\ \A i \in 1 .. Len(s) + VGA_HEIGHT :
           (s \o Screen(b))[i] = IF i <= Len(s) THEN s[i] ELSE Screen(b)[i - Len(s)]
  BY <1>3, ConcatProperties
<1>5. ASSUME NEW j \in 1 .. Len(s)
      PROVE  (s \o Screen(b))[j] = s[j]
  BY <1>1, <1>4
<1>6. ASSUME NEW y \in 0 .. (VGA_HEIGHT - 1)
      PROVE  (s \o Screen(b))[Len(s) + y + 1] = Row(b, y)
  <2>1. /\ Len(s) + y + 1 \in 1 .. Len(s) + VGA_HEIGHT /\ ~(Len(s) + y + 1 <= Len(s))
        /\ Len(s) + y + 1 - Len(s) = y + 1 /\ y + 1 \in 1 .. VGA_HEIGHT /\ y + 1 - 1 = y
    BY <1>1
  <2>2. (s \o Screen(b))[Len(s) + y + 1] = Screen(b)[y + 1]
    BY <1>4, <2>1
  <2>3. Screen(b)[y + 1] = Row(b, y)
    BY <2>1 DEF Screen
  <2> QED
    BY <2>2, <2>3
<1> QED
  BY <1>1, <1>4, <1>5, <1>6

(* Two sheets are one if their lines are.                                  *)
LEMMA SamePaper ==
  ASSUME NEW s \in Seq(PaperLine), NEW p \in Seq(PaperLine), NEW b \in [Index -> Marks],
         Len(p) = Len(s) + VGA_HEIGHT,
         \A j \in 1 .. Len(s) : p[j] = s[j],
         \A y \in 0 .. (VGA_HEIGHT - 1) : p[Len(s) + y + 1] = Row(b, y)
  PROVE  p = s \o Screen(b)
<1> DEFINE q == s \o Screen(b)
<1>1. /\ q \in Seq(PaperLine) /\ Len(s) \in Nat /\ Len(q) = Len(s) + VGA_HEIGHT
      /\ \A j \in 1 .. Len(s) : q[j] = s[j]
      /\ \A y \in 0 .. (VGA_HEIGHT - 1) : q[Len(s) + y + 1] = Row(b, y)
  BY PaperFacts
<1> HIDE DEF q
<1>2. ASSUME NEW j \in 1 .. Len(p)
      PROVE  p[j] = q[j]
  <2>1. CASE j <= Len(s)
    <3>1. j \in 1 .. Len(s)
      BY <1>1, <2>1, ScreenSize
    <3> QED
      BY <1>1, <3>1
  <2>2. CASE ~(j <= Len(s))
    <3> DEFINE y == j - Len(s) - 1
    <3>1. y \in 0 .. (VGA_HEIGHT - 1) /\ j = Len(s) + y + 1
      BY <1>1, <2>2, ScreenSize
    <3> HIDE DEF y
    <3> QED
      BY <1>1, <3>1
  <2> QED
    BY <2>1, <2>2
<1>3. p = q
  BY <1>1, <1>2, SeqEqual
<1> QED
  BY <1>3 DEF q

(* A place of the buffer is on one line, in one column.                    *)
LEMMA PlaceUnique ==
  ASSUME NEW y \in Nat, NEW x \in 0 .. (VGA_WIDTH - 1),
         NEW row \in Nat, NEW col \in 0 .. (VGA_WIDTH - 1),
         y * VGA_WIDTH + x = row * VGA_WIDTH + col
  PROVE  y = row /\ x = col
<1>1. VGA_WIDTH \in Nat \ {0}
  BY ScreenSize
<1> QED
  BY <1>1, DigitsUnique

(* A mark on a line of a sheet, and one in a buffer                        *)
MarkAt(sheet, i, j, m) == [sheet EXCEPT ![i][j] = m]

Put(buffer, i, m) == [buffer EXCEPT ![i] = m]

(* A mark stored in the buffer is typed on the paper, and nothing else is. *)
LEMMA TypedPaper ==
  ASSUME NEW s \in Seq(PaperLine), NEW b \in [Index -> Marks],
         NEW row \in Nat, NEW col \in Nat, OnScreen(row, col), NEW m \in Marks
  PROVE  MarkAt(s \o Screen(b), Len(s) + row + 1, col, m)
           = s \o Screen(Put(b, row * VGA_WIDTH + col, m))
<1> DEFINE p == s \o Screen(b)
           c == [b EXCEPT ![row * VGA_WIDTH + col] = m]
           here == Len(s) + row + 1
           t == [p EXCEPT ![here] = [p[here] EXCEPT ![col] = m]]
<1>1. /\ row \in 0 .. (VGA_HEIGHT - 1) /\ col \in 0 .. (VGA_WIDTH - 1)
      /\ row * VGA_WIDTH + col \in Index
  BY OnScreenInBuffer, ScreenSize DEF OnScreen
<1>2. c \in [Index -> Marks] /\ \A i \in Index :
        c[i] = IF i = row * VGA_WIDTH + col THEN m ELSE b[i]
  BY <1>1
<1>3. /\ p \in Seq(PaperLine) /\ Len(s) \in Nat /\ Len(p) = Len(s) + VGA_HEIGHT
      /\ \A j \in 1 .. Len(s) : p[j] = s[j]
      /\ \A y \in 0 .. (VGA_HEIGHT - 1) : p[Len(s) + y + 1] = Row(b, y)
  BY PaperFacts
<1>4. here \in 1 .. Len(p) /\ p[here] = Row(b, row) /\ Row(b, row) \in PaperLine
  BY <1>1, <1>3, RowType, ScreenSize
<1> HIDE DEF c, p, here
<1>5. [p[here] EXCEPT ![col] = m] \in PaperLine
  BY <1>4 DEF PaperLine
<1>6. /\ t \in Seq(PaperLine) /\ Len(t) = Len(p)
      /\ \A j \in 1 .. Len(p) : t[j] = IF j = here THEN [p[here] EXCEPT ![col] = m] ELSE p[j]
  BY <1>3, <1>4, <1>5, ExceptSeq
<1>7. ASSUME NEW y \in 0 .. (VGA_HEIGHT - 1)
      PROVE  Row(c, y) = IF y = row THEN [Row(b, row) EXCEPT ![col] = m] ELSE Row(b, y)
  <2>1. ASSUME NEW x \in 0 .. (VGA_WIDTH - 1)
        PROVE  c[y * VGA_WIDTH + x] = IF y = row /\ x = col THEN m ELSE b[y * VGA_WIDTH + x]
    <3>1. y \in Nat /\ x \in Nat /\ OnScreen(y, x)
      BY ScreenSize DEF OnScreen
    <3>2. y * VGA_WIDTH + x \in Index
      BY <3>1, OnScreenInBuffer
    <3>3. y * VGA_WIDTH + x = row * VGA_WIDTH + col => y = row /\ x = col
      BY <1>1, <3>1, PlaceUnique
    <3> QED
      BY <1>2, <3>2, <3>3
  <2>2. CASE y = row
    BY <1>1, <2>1, <2>2 DEF Row
  <2>3. CASE y # row
    BY <2>1, <2>3 DEF Row
  <2> QED
    BY <2>2, <2>3
<1>8. ASSUME NEW y \in 0 .. (VGA_HEIGHT - 1)
      PROVE  t[Len(s) + y + 1] = Row(c, y)
  <2>1. Len(s) + y + 1 \in 1 .. Len(p) /\ (Len(s) + y + 1 = here <=> y = row)
    BY <1>3, ScreenSize DEF here
  <2>2. p[Len(s) + y + 1] = Row(b, y)
    BY <1>3
  <2> HIDE DEF t
  <2> QED
    BY <1>4, <1>6, <1>7, <2>1, <2>2
<1>9. ASSUME NEW j \in 1 .. Len(s)
      PROVE  t[j] = s[j]
  <2>1. j \in 1 .. Len(p) /\ j # here
    BY <1>3, ScreenSize DEF here
  <2>2. p[j] = s[j]
    BY <1>3
  <2> HIDE DEF t
  <2> QED
    BY <1>6, <2>1, <2>2
<1>10. t = s \o Screen(c)
  <2> HIDE DEF t
  <2> QED
    BY <1>2, <1>3, <1>6, <1>8, <1>9, SamePaper
<1>11. [p EXCEPT ![here][col] = m] = t
  OBVIOUS
<1> QED
  BY <1>10, <1>11 DEF MarkAt, Put, c, p, here

(* The line scrolling adds                                                 *)
BlankLine == [x \in 0 .. (VGA_WIDTH - 1) |-> BlankCell]

(* Scrolling the screen lengthens the paper by a blank line.               *)
LEMMA ScrolledPaper ==
  ASSUME NEW s \in Seq(PaperLine), NEW b \in [Index -> Marks], current_color \in Colors
  PROVE  Append(s, Row(b, 0)) \o Screen(Scroll(b)) = Append(s \o Screen(b), BlankLine)
<1> DEFINE p == s \o Screen(b)
           c == Scroll(b)
           r == Append(s, Row(b, 0))
           t == Append(p, BlankLine)
<1>1. c \in [Index -> Marks] /\ Row(b, 0) \in PaperLine /\ BlankLine \in PaperLine
      /\ 0 \in 0 .. (VGA_HEIGHT - 1)
  <2>1. 0 \in 0 .. (VGA_HEIGHT - 1)
    BY ScreenSize
  <2>2. BlankLine \in PaperLine
    BY BlankType DEF BlankLine, PaperLine
  <2> QED
    BY <2>1, <2>2, ScrollType, RowType
<1>2. /\ p \in Seq(PaperLine) /\ Len(s) \in Nat /\ Len(p) = Len(s) + VGA_HEIGHT
      /\ \A j \in 1 .. Len(s) : p[j] = s[j]
      /\ \A y \in 0 .. (VGA_HEIGHT - 1) : p[Len(s) + y + 1] = Row(b, y)
  BY PaperFacts
<1>3. /\ r \in Seq(PaperLine) /\ Len(r) = Len(s) + 1
      /\ \A j \in 1 .. Len(s) : r[j] = s[j]
      /\ r[Len(s) + 1] = Row(b, 0)
  <2>1. PICK l \in PaperLine : l = Row(b, 0)
    BY <1>1
  <2>2. r = Append(s, l)
    BY <2>1
  <2> HIDE DEF r, c, t
  <2>3. /\ Append(s, l) \in Seq(PaperLine) /\ Len(Append(s, l)) = Len(s) + 1
        /\ \A j \in 1 .. Len(s) : Append(s, l)[j] = s[j]
        /\ Append(s, l)[Len(s) + 1] = l
    BY <2>1, AppendProperties
  <2> QED
    BY <2>1, <2>2, <2>3
<1> HIDE DEF p
<1>4. /\ t \in Seq(PaperLine) /\ Len(t) = Len(p) + 1
      /\ \A j \in 1 .. Len(p) : t[j] = p[j]
      /\ t[Len(p) + 1] = BlankLine
  <2>1. PICK l \in PaperLine, q \in Seq(PaperLine) : l = BlankLine /\ q = p
    BY <1>1, <1>2
  <2>2. t = Append(q, l)
    BY <2>1
  <2> HIDE DEF r, c, t
  <2>3. /\ Append(q, l) \in Seq(PaperLine) /\ Len(Append(q, l)) = Len(q) + 1
        /\ \A j \in 1 .. Len(q) : Append(q, l)[j] = q[j]
        /\ Append(q, l)[Len(q) + 1] = l
    BY <2>1, AppendProperties
  <2> QED
    BY <2>1, <2>2, <2>3
<1>5. ASSUME NEW y \in 0 .. (VGA_HEIGHT - 1)
      PROVE  Row(c, y) = IF y = VGA_HEIGHT - 1 THEN BlankLine ELSE Row(b, y + 1)
  <2>1. ASSUME NEW x \in 0 .. (VGA_WIDTH - 1)
        PROVE  c[y * VGA_WIDTH + x] = IF y = VGA_HEIGHT - 1 THEN BlankCell
                                      ELSE b[(y + 1) * VGA_WIDTH + x]
    <3>1. y \in Nat /\ x \in Nat /\ OnScreen(y, x)
      BY ScreenSize DEF OnScreen
    <3>2. y * VGA_WIDTH + x \in Index
      BY <3>1, OnScreenInBuffer
    <3>3. (y * VGA_WIDTH + x) + VGA_WIDTH = (y + 1) * VGA_WIDTH + x
      BY <3>1, ScreenSize
    <3>4. c[y * VGA_WIDTH + x] =
            IF (y + 1) * VGA_WIDTH + x \in Index THEN b[(y + 1) * VGA_WIDTH + x] ELSE BlankCell
      BY <3>2, <3>3 DEF Scroll
    <3>5. CASE y = VGA_HEIGHT - 1
      <4>1. y + 1 = VGA_HEIGHT
        BY <3>5, ScreenSize
      <4>2. (y + 1) * VGA_WIDTH + x \notin Index
        <5>1. VGA_HEIGHT * VGA_WIDTH = VGA_WIDTH * VGA_HEIGHT
              /\ VGA_WIDTH * VGA_HEIGHT \in Nat
          BY ScreenSize
        <5> DEFINE area == VGA_WIDTH * VGA_HEIGHT
        <5>2. (y + 1) * VGA_WIDTH + x = area + x /\ area \in Nat
          BY <4>1, <5>1
        <5>3. Index = 0 .. (area - 1)
          BY DEF Index
        <5> HIDE DEF area
        <5> QED
          BY <3>1, <5>2, <5>3
      <4> QED
        BY <3>4, <3>5, <4>2
    <3>6. CASE y # VGA_HEIGHT - 1
      <4>1. y + 1 \in Nat /\ OnScreen(y + 1, x)
        BY <3>1, <3>6, ScreenSize DEF OnScreen
      <4>2. (y + 1) * VGA_WIDTH + x \in Index
        BY <3>1, <4>1, OnScreenInBuffer
      <4> QED
        BY <3>4, <3>6, <4>2
    <3> QED
      BY <3>5, <3>6
  <2> HIDE DEF c
  <2>2. CASE y = VGA_HEIGHT - 1
    BY <2>1, <2>2 DEF Row, BlankLine
  <2>3. CASE y # VGA_HEIGHT - 1
    BY <2>1, <2>3 DEF Row
  <2> QED
    BY <2>2, <2>3
<1> HIDE DEF c, r, t
<1>6. ASSUME NEW j \in 1 .. Len(r)
      PROVE  t[j] = r[j]
  <2>1. j \in 1 .. Len(p) /\ (j \in 1 .. Len(s) \/ j = Len(s) + 0 + 1)
    BY <1>2, <1>3, ScreenSize
  <2>2. p[Len(s) + 0 + 1] = Row(b, 0)
    BY <1>1, <1>2
  <2>3. Len(s) + 0 + 1 = Len(s) + 1
    BY <1>2
  <2> QED
    BY <1>2, <1>3, <1>4, <2>1, <2>2, <2>3
<1>7. ASSUME NEW y \in 0 .. (VGA_HEIGHT - 1)
      PROVE  t[Len(r) + y + 1] = Row(c, y)
  <2>1. CASE y = VGA_HEIGHT - 1
    <3>1. Len(r) + y + 1 = Len(p) + 1
      BY <1>2, <1>3, <2>1, ScreenSize
    <3> QED
      BY <1>4, <1>5, <2>1, <3>1
  <2>2. CASE y # VGA_HEIGHT - 1
    <3>1. y + 1 \in 0 .. (VGA_HEIGHT - 1) /\ Len(r) + y + 1 = Len(s) + (y + 1) + 1
          /\ Len(r) + y + 1 \in 1 .. Len(p)
      BY <1>2, <1>3, <2>2, ScreenSize
    <3> QED
      BY <1>2, <1>4, <1>5, <2>2, <3>1
  <2> QED
    BY <2>1, <2>2
<1>8. Len(t) = Len(r) + VGA_HEIGHT
  BY <1>2, <1>3, <1>4, ScreenSize
<1>9. t = r \o Screen(c)
  BY <1>1, <1>3, <1>4, <1>6, <1>7, <1>8, SamePaper
<1> QED
  BY <1>9 DEF c, r, t, p

(* The paper of the refinement, before and after a step                    *)
LEMMA PaperMapping ==
  /\ scrolled \o [y \in 1 .. VGA_HEIGHT |-> Row(vga, y - 1)] = scrolled \o Screen(vga)
  /\ (scrolled \o [y \in 1 .. VGA_HEIGHT |-> Row(vga, y - 1)])' = scrolled' \o Screen(vga')
BY DEF Screen, Row

(* The cursor goes to the next line of the paper, and the screen scrolls   *)
(* where the paper ends.                                                   *)
LEMMA AdvancePaper ==
  ASSUME IInv, OnScreen(cursor_row, cursor_col), NEW c \in Printable \cup {Newline}, kputc(c),
         c = Newline \/ Wraps(cursor_col),
         NEW sheet, sheet = scrolled \o Screen(Stored(c))
  PROVE  Paper!Advance(sheet)
<1>1. /\ vga \in [Index -> Marks] /\ current_color \in Colors
      /\ scrolled \in Seq(PaperLine)
      /\ cursor_row \in Nat /\ cursor_col \in Nat
      /\ cursor_row < VGA_HEIGHT /\ VGA_HEIGHT \in Nat \ {0}
  BY ScreenSize DEF IInv, TypeOK, PaperLine, OnScreen
<1>2. Stored(c) \in [Index -> Marks]
  BY <1>1, StoredType
<1>3. Len(sheet) = Len(scrolled) + VGA_HEIGHT /\ Len(scrolled) \in Nat
  BY <1>1, <1>2, PaperFacts
<1>4. cursor_col' = 0 /\ NextRow(c) = cursor_row + 1 /\ current_color' = current_color
  BY DEF kputc, NextCol, NextRow
<1>5. CASE cursor_row + 1 < VGA_HEIGHT
  <2>1. vga' = Stored(c) /\ cursor_row' = cursor_row + 1 /\ scrolled' = scrolled
    BY <1>4, <1>5 DEF kputc
  <2>2. scrolled' \o Screen(vga') = sheet
    BY <2>1
  <2>3. Len(scrolled) + cursor_row + 1 < Len(sheet)
    BY <1>1, <1>3, <1>5
  <2>4. (Len(scrolled) + cursor_row + 1)' = Len(scrolled) + cursor_row + 1 + 1
    BY <1>1, <1>3, <2>1
  <2> QED
    BY <1>4, <2>2, <2>3, <2>4, PaperMapping DEF Paper!Advance
<1>6. CASE ~(cursor_row + 1 < VGA_HEIGHT)
  <2>1. /\ vga' = Scroll(Stored(c)) /\ cursor_row' = VGA_HEIGHT - 1
        /\ scrolled' = Append(scrolled, Row(Stored(c), 0))
    BY <1>4, <1>6 DEF kputc, LastRow
  <2>2. scrolled' \o Screen(vga') = Append(sheet, BlankLine)
    BY <1>1, <1>2, <2>1, ScrolledPaper
  <2>3. BlankLine \in Paper!Line({<<Space, current_color>>})
    BY DEF BlankLine, BlankCell, Paper!Line
  <2>4. cursor_row + 1 = VGA_HEIGHT
    BY <1>1, <1>6
  <2>5. ~(Len(scrolled) + cursor_row + 1 < Len(sheet))
    BY <1>1, <1>3, <2>4
  <2>6. Len(scrolled') = Len(scrolled) + 1
    <3>1. Row(Stored(c), 0) \in PaperLine
      BY <1>1, <1>2, RowType
    <3> QED
      BY <1>1, <2>1, <3>1, AppendProperties
  <2>7. (Len(scrolled) + cursor_row + 1)' = Len(scrolled) + cursor_row + 1 + 1
    <3>1. cursor_row' = cursor_row
      BY <1>1, <2>1, <2>4
    <3>2. PICK n \in Nat : n = Len(scrolled)
      BY <1>3
    <3>3. Len(scrolled') = n + 1
      BY <2>6, <3>2
    <3>4. Len(scrolled') + cursor_row' + 1 = n + cursor_row + 1 + 1
      BY <1>1, <3>1, <3>3
    <3> QED
      BY <3>2, <3>4
  <2> QED
    BY <1>4, <2>2, <2>3, <2>5, <2>7, PaperMapping DEF Paper!Advance
<1> QED
  BY <1>5, <1>6

(* A character is typed on the paper, or a new line begun.                 *)
LEMMA kputcPaper ==
  ASSUME IInv, OnScreen(cursor_row, cursor_col), NEW c \in Printable \cup {Newline}, kputc(c)
  PROVE  Paper!Next
<1>1. /\ vga \in [Index -> Marks] /\ current_color \in Colors
      /\ scrolled \in Seq(PaperLine)
      /\ cursor_row \in Nat /\ cursor_col \in Nat
      /\ cursor_row < VGA_HEIGHT /\ cursor_col < VGA_WIDTH
      /\ VGA_HEIGHT \in Nat \ {0} /\ VGA_WIDTH \in Nat \ {0}
  BY ScreenSize DEF IInv, TypeOK, PaperLine, OnScreen
<1>2. PICK sheet : sheet = scrolled \o Screen(Stored(c))
  OBVIOUS
<1>3. CASE c = Newline
  <2>1. Stored(c) = vga
    BY <1>3 DEF Stored
  <2>2. sheet = scrolled \o [y \in 1 .. VGA_HEIGHT |-> Row(vga, y - 1)]
    BY <1>2, <2>1, PaperMapping
  <2>3. Paper!Advance(sheet)
    BY <1>2, <1>3, AdvancePaper
  <2>4. Paper!NewLine
    BY <2>2, <2>3 DEF Paper!NewLine
  <2> QED
    BY <2>4 DEF Paper!Next
<1>4. CASE c # Newline
  <2>1. c \in Printable /\ Cell(c) \in TypedIn(current_color) /\ Cell(c) \in Marks
    BY <1>1, <1>4 DEF Cell, TypedIn, Marks, Attributes, Printable
  <2>2. Stored(c) = [vga EXCEPT ![cursor_row * VGA_WIDTH + cursor_col] = Cell(c)]
    <3>1. cursor_row * VGA_WIDTH + cursor_col \in Index
      BY <1>1, OnScreenInBuffer
    <3> QED
      BY <1>4, <3>1 DEF Stored, Place
  <2>3. PICK m \in Marks : m = Cell(c)
    BY <2>1
  <2>4. [scrolled \o Screen(vga) EXCEPT ![Len(scrolled) + cursor_row + 1][cursor_col] = m] = sheet
    <3>1. MarkAt(scrolled \o Screen(vga), Len(scrolled) + cursor_row + 1, cursor_col, m)
            = scrolled \o Screen(Put(vga, cursor_row * VGA_WIDTH + cursor_col, m))
      BY <1>1, TypedPaper
    <3>2. Put(vga, cursor_row * VGA_WIDTH + cursor_col, m) = Stored(c)
      BY <2>2, <2>3 DEF Put
    <3> QED
      BY <1>2, <3>1, <3>2 DEF MarkAt
  <2>5. [scrolled \o [y \in 1 .. VGA_HEIGHT |-> Row(vga, y - 1)]
           EXCEPT ![Len(scrolled) + cursor_row + 1][cursor_col] = m] = sheet
    BY <2>4, PaperMapping
  <2>6. CASE Wraps(cursor_col)
    <3>1. Paper!Advance(sheet)
      BY <1>2, <2>6, AdvancePaper
    <3>2. ~(cursor_col < VGA_WIDTH - 1)
      BY <1>1, <2>6 DEF Wraps
    <3>3. Paper!Type(m)
      BY <2>5, <3>1, <3>2 DEF Paper!Type
    <3> QED
      BY <2>1, <2>3, <3>3 DEF Paper!Next
  <2>7. CASE ~Wraps(cursor_col)
    <3>1. NextRow(c) = cursor_row /\ NextCol(c) = cursor_col + 1 /\ cursor_col < VGA_WIDTH - 1
      BY <1>1, <1>4, <2>7 DEF NextRow, NextCol, Wraps
    <3>2. /\ vga' = Stored(c) /\ cursor_row' = cursor_row /\ cursor_col' = cursor_col + 1
          /\ scrolled' = scrolled /\ current_color' = current_color
      BY <1>1, <3>1 DEF kputc
    <3>3. (scrolled \o [y \in 1 .. VGA_HEIGHT |-> Row(vga, y - 1)])' = sheet
      BY <1>2, <3>2, PaperMapping
    <3>4. Paper!Type(m)
      BY <2>5, <3>1, <3>2, <3>3 DEF Paper!Type
    <3> QED
      BY <2>1, <2>3, <3>4 DEF Paper!Next
  <2> QED
    BY <2>6, <2>7
<1> QED
  BY <1>3, <1>4

(* Clearing takes an empty sheet.                                          *)
LEMMA clearPaper == ASSUME IInv, clear PROVE Paper!Next
<1>1. vga' = [i \in Index |-> BlankCell] /\ scrolled' = <<>> /\ cursor_row' = 0
      /\ cursor_col' = 0 /\ current_color' = current_color
  BY DEF clear
<1>2. ASSUME NEW y \in 0 .. (VGA_HEIGHT - 1)
      PROVE  Row(vga', y) \in Paper!Line({<<Space, current_color>>})
  <2>1. ASSUME NEW x \in 0 .. (VGA_WIDTH - 1)
        PROVE  vga'[y * VGA_WIDTH + x] = <<Space, current_color>>
    <3>1. y \in Nat /\ x \in Nat /\ OnScreen(y, x)
      BY ScreenSize DEF OnScreen
    <3>2. y * VGA_WIDTH + x \in Index
      BY <3>1, OnScreenInBuffer
    <3> QED
      BY <1>1, <3>2 DEF BlankCell
  <2> QED
    BY <2>1 DEF Row, Paper!Line
<1>3. Screen(vga') \in [1 .. VGA_HEIGHT -> Paper!Line({<<Space, current_color>>})]
  <2>1. ASSUME NEW y \in 1 .. VGA_HEIGHT
        PROVE  Row(vga', y - 1) \in Paper!Line({<<Space, current_color>>})
    <3>1. y - 1 \in 0 .. (VGA_HEIGHT - 1)
      BY ScreenSize
    <3> QED
      BY <1>2, <3>1
  <2> QED
    BY <2>1 DEF Screen
<1>4. scrolled' \o Screen(vga') = Screen(vga')
  <2> DEFINE T == Paper!Line({<<Space, current_color>>})
             s == Screen(vga')
  <2>3. s \in [1 .. VGA_HEIGHT -> T]
    BY <1>3
  <2> HIDE DEF T, s
  <2>1. s \in Seq(T)
    BY <2>3, ScreenSize
  <2>2. <<>> \o s = s
    BY <2>1, ConcatEmptySeq
  <2> QED
    BY <1>1, <2>2 DEF s
<1>5. (Len(scrolled) + cursor_row + 1)' = 1
  BY <1>1
<1>6. Paper!Erase
  BY <1>1, <1>3, <1>4, <1>5, PaperMapping DEF Paper!Erase
<1> QED
  BY <1>6 DEF Paper!Next

(* Setting the cursor moves the carriage among the lines in reach.         *)
LEMMA set_cursorPaper ==
  ASSUME IInv, NEW row \in Nat, NEW col \in Nat, set_cursor(row, col), bad' = 0
  PROVE  Paper!Next
<1>1. OnScreen(row, col)
  <2>1. bad \in Nat
    BY DEF IInv
  <2> QED
    BY <2>1 DEF set_cursor
<1>2. UNCHANGED <<vga, scrolled, current_color>> /\ cursor_row' = row /\ cursor_col' = col
  BY DEF set_cursor
<1>3. Len(scrolled \o Screen(vga)) = Len(scrolled) + VGA_HEIGHT /\ Len(scrolled) \in Nat
  BY PaperFacts DEF IInv, TypeOK, PaperLine
<1>4. PICK sheet : sheet = scrolled \o [y \in 1 .. VGA_HEIGHT |-> Row(vga, y - 1)]
  OBVIOUS
<1>5. /\ (scrolled \o [y \in 1 .. VGA_HEIGHT |-> Row(vga, y - 1)])' = sheet
      /\ Len(sheet) = Len(scrolled) + VGA_HEIGHT
  BY <1>2, <1>3, <1>4, PaperMapping
<1>6. (Len(scrolled) + cursor_row + 1)' = Len(scrolled) + row + 1
  BY <1>2
<1>7. Len(scrolled) + row + 1 \in (Len(sheet) - VGA_HEIGHT + 1) .. Len(sheet)
  BY <1>1, <1>3, <1>5, ScreenSize DEF OnScreen
<1>8. cursor_col' \in 0 .. (VGA_WIDTH - 1)
  BY <1>1, <1>2, ScreenSize DEF OnScreen
<1>9. Paper!Move
  <2>1. (Len(scrolled) + cursor_row + 1)' \in (Len(sheet) - VGA_HEIGHT + 1) .. Len(sheet)
    BY <1>6, <1>7
  <2> QED
    BY <1>2, <1>4, <1>5, <1>8, <2>1 DEF Paper!Move
<1> QED
  BY <1>9 DEF Paper!Next

(* The first screen is a sheet of marks.                                   *)
LEMMA InitPaper == Init => Paper!Init
<1> SUFFICES ASSUME Init PROVE Paper!Init
  OBVIOUS
<1>1. vga = [i \in Index |-> <<Old, AllOnes>>] /\ cursor_row = 0 /\ cursor_col = 0
      /\ current_color \in Colors /\ scrolled = <<>>
  BY DEF Init
<1>2. vga \in [Index -> Marks]
  <2>1. <<Old, AllOnes>> \in Marks
    BY DEF Marks, Attributes
  <2> QED
    BY <1>1, <2>1
<1>3. Screen(vga) \in [1 .. VGA_HEIGHT -> PaperLine]
  <2>1. ASSUME NEW y \in 1 .. VGA_HEIGHT PROVE Row(vga, y - 1) \in PaperLine
    <3>1. y - 1 \in 0 .. (VGA_HEIGHT - 1)
      BY ScreenSize
    <3> QED
      BY <1>2, <3>1, RowType
  <2> QED
    BY <2>1 DEF Screen
<1>4. scrolled \o Screen(vga) = Screen(vga)
  <2> DEFINE s == Screen(vga)
  <2>1. s \in Seq(PaperLine)
    BY <1>3, ScreenSize
  <2> HIDE DEF s
  <2>2. <<>> \o s = s
    BY <2>1, ConcatEmptySeq
  <2> QED
    BY <1>1, <2>2 DEF s
<1>5. scrolled \o [y \in 1 .. VGA_HEIGHT |-> Row(vga, y - 1)]
        \in [1 .. VGA_HEIGHT -> Paper!Line(Marks)]
  BY <1>3, <1>4, PaperMapping DEF PaperLine, Paper!Line
<1>6. Len(scrolled) + cursor_row + 1 = 1
  BY <1>1
<1> QED
  BY <1>1, <1>5, <1>6 DEF Paper!Init

(* Every step but one off the screen is a step of the terminal.            *)
LEMMA PaperStep ==
  ASSUME IInv, [Next]_vars, bad' = 0
  PROVE  [Paper!Next]_(Paper!vars)
<1>1. CASE \E c \in Chars \cup HighChars \cup {Newline} : kputc(c)
  <2>1. PICK c \in Printable \cup {Newline} : kputc(c)
    BY <1>1 DEF Printable
  <2>2. bad = 0
    BY <2>1 DEF kputc
  <2>3. OnScreen(cursor_row, cursor_col)
    BY <2>2 DEF IInv, TypeOK
  <2> QED
    BY <2>1, <2>3, kputcPaper
<1>2. CASE \E color \in Colors : set_color(color)
  <2>1. current_color' \in Colors /\ UNCHANGED <<vga, cursor_row, cursor_col, scrolled>>
    BY <1>2 DEF set_color, cursor, ghosts
  <2>2. Paper!ChangeInk
    BY <2>1, PaperMapping DEF Paper!ChangeInk
  <2> QED
    BY <2>2 DEF Paper!Next
<1>3. CASE clear
  BY <1>3, clearPaper
<1>4. CASE \E p \in Cursors : set_cursor(p[1], p[2])
  <2>1. PICK row \in Nat, col \in Nat : set_cursor(row, col)
    BY <1>4, ConsoleAssumption
  <2> QED
    BY <2>1, set_cursorPaper
<1>5. CASE enable_cursor \/ disable_cursor \/ UNCHANGED vars
  <2>1. UNCHANGED <<vga, cursor_row, cursor_col, scrolled, current_color>>
    BY <1>5 DEF enable_cursor, disable_cursor, vars, cursor, ghosts
  <2> QED
    BY <2>1, PaperMapping DEF Paper!vars
<1> QED
  BY <1>1, <1>2, <1>3, <1>4, <1>5 DEF Next

(* The console is the terminal: what was printed is on the screen or has   *)
(* been scrolled off its top, for every size of the screen.                *)
THEOREM TerminalImplemented == Spec => TerminalSpec
<1>1. IInv /\ [Next]_vars => [bad' = 0 => [Paper!Next]_(Paper!vars)]_vars
  BY PaperStep
<1> QED
  BY <1>1, InitPaper, IInvInvariant, PTL DEF Spec, TerminalSpec

=============================================================================
