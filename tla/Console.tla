------------------------------ MODULE Console ------------------------------
(***************************************************************************)
(* The text console of console.cpp: the cursor, the colour and the VGA     *)
(* text buffer, which kputc fills and scrolls.  kprintf (module Kprintf)   *)
(* is a sequence of kputc.                                                 *)
(*                                                                         *)
(* An operator named Op_Bug is Op with a plausible bug; the specification  *)
(* uses none of them, they show which properties would notice.             *)
(***************************************************************************)
EXTENDS Integers, Sequences

CONSTANTS
  VGA_WIDTH, VGA_HEIGHT,  \* 80 and 25
  Chars,       \* characters below 128, other than the newline
  HighChars,   \* characters from 128 on
  Newline, Space,
  Colors,      \* attribute bytes set_color is called with
  AllOnes,     \* the attribute byte 0xFF
  Old,         \* what the buffer holds before anything was printed
  Cursors,     \* arguments of set_cursor: <<row, col>>
  MaxScroll,   \* bound: lines that may leave the screen between two clears
  MaxBad       \* bound: calls of set_cursor to a place off the screen

(* The controller keeps a position in 16 bits.                             *)
CrtcWord == 65536

ASSUME ConsoleAssumption ==
  /\ VGA_WIDTH \in 1 .. (CrtcWord - 1) /\ VGA_HEIGHT \in Nat \ {0}
  /\ Cursors \subseteq Nat \X Nat
  /\ Newline \notin Chars \cup HighChars \cup {Space}
  /\ MaxScroll \in Nat /\ MaxBad \in Nat

VARIABLES
  vga,            \* VGA_BUFFER
  cursor_row, cursor_col,
  current_color,
  crtc,           \* cursor position the VGA controller was last told
  cursor_on,      \* whether it displays the cursor
  scrolled,       \* lines that left the screen since the last clear (ghost)
  bad,            \* calls of set_cursor to a place off the screen (ghost)
  strays          \* stores outside the buffer (ghost)

cursor  == <<cursor_row, cursor_col>>
ghosts  == <<scrolled, bad, strays>>
vars    == <<vga, cursor, current_color, crtc, cursor_on, ghosts>>

Index == 0 .. (VGA_WIDTH * VGA_HEIGHT - 1)

-----------------------------------------------------------------------------
(* The character is extended to 16 bits with its sign, then combined with  *)
(* the colour by or: above 127 the attribute is all ones.                  *)
Cell(c) == <<c, IF c \in HighChars THEN AllOnes ELSE current_color>>

BlankCell == <<Space, current_color>>

Row(screen, y) == [x \in 0 .. (VGA_WIDTH - 1) |-> screen[y * VGA_WIDTH + x]]

(* update_cursor tells the controller. *)
Position(row, col) == (row * VGA_WIDTH + col) % CrtcWord

(* kputc: where the cursor goes before the screen scrolls *)
Wraps_Late(col) == col + 1 > VGA_WIDTH

Wraps(col) == col + 1 >= VGA_WIDTH

NextCol(c) == IF c = Newline \/ Wraps(cursor_col) THEN 0 ELSE cursor_col + 1

NextRow(c) == IF c = Newline \/ Wraps(cursor_col) THEN cursor_row + 1 ELSE cursor_row

Place == cursor_row * VGA_WIDTH + cursor_col

Stored(c) ==
  IF c # Newline /\ Place \in Index THEN [vga EXCEPT ![Place] = Cell(c)] ELSE vga

Scroll_KeepLast(screen) ==
  [i \in Index |-> IF i + VGA_WIDTH \in Index THEN screen[i + VGA_WIDTH] ELSE screen[i]]

(* Every line moves up by one, the last becomes blank. *)
Scroll(screen) ==
  [i \in Index |-> IF i + VGA_WIDTH \in Index THEN screen[i + VGA_WIDTH] ELSE BlankCell]

LastRow_NotSet(row) == row

(* Wherever the cursor was, it ends on the last line. *)
LastRow(row) == VGA_HEIGHT - 1

kputc(c) ==
  /\ IF NextRow(c) < VGA_HEIGHT
       THEN /\ vga' = Stored(c)
            /\ cursor_row' = NextRow(c)
            /\ UNCHANGED scrolled
       ELSE /\ Len(scrolled) < MaxScroll
            /\ vga' = Scroll(Stored(c))
            /\ cursor_row' = LastRow(NextRow(c))
            /\ scrolled' = Append(scrolled, Row(Stored(c), 0))
  /\ cursor_col' = NextCol(c)
  /\ crtc' = Position(cursor_row', cursor_col')
  /\ strays' = IF c # Newline /\ Place \notin Index THEN strays + 1 ELSE strays
  /\ UNCHANGED <<current_color, cursor_on, bad>>

set_color(color) ==
  /\ current_color' = color
  /\ UNCHANGED <<vga, cursor, crtc, cursor_on, ghosts>>

clear ==
  /\ vga' = [i \in Index |-> BlankCell]
  /\ cursor_row' = 0
  /\ cursor_col' = 0
  /\ crtc' = Position(0, 0)
  /\ scrolled' = <<>>
  /\ UNCHANGED <<current_color, cursor_on, bad, strays>>

OnScreen(row, col) == row < VGA_HEIGHT /\ col < VGA_WIDTH

set_cursor(row, col) ==
  /\ OnScreen(row, col) \/ bad < MaxBad
  /\ cursor_row' = row
  /\ cursor_col' = col
  /\ crtc' = Position(row, col)
  /\ bad' = IF OnScreen(row, col) THEN bad ELSE bad + 1
  /\ UNCHANGED <<vga, current_color, cursor_on, scrolled, strays>>

enable_cursor ==
  /\ cursor_on' = TRUE
  /\ UNCHANGED <<vga, cursor, current_color, crtc, ghosts>>

disable_cursor ==
  /\ cursor_on' = FALSE
  /\ UNCHANGED <<vga, cursor, current_color, crtc, ghosts>>

(* The controller is as the firmware left it. *)
Init ==
  /\ vga = [i \in Index |-> <<Old, AllOnes>>]
  /\ cursor_row = 0 /\ cursor_col = 0
  /\ current_color \in Colors
  /\ crtc \in {0, VGA_WIDTH}
  /\ cursor_on \in BOOLEAN
  /\ scrolled = <<>> /\ bad = 0 /\ strays = 0

Next ==
  \/ \E c \in Chars \cup HighChars \cup {Newline} : kputc(c)
  \/ \E color \in Colors : set_color(color)
  \/ clear
  \/ \E p \in Cursors : set_cursor(p[1], p[2])
  \/ enable_cursor
  \/ disable_cursor

Spec == Init /\ [][Next]_vars

-----------------------------------------------------------------------------
(* Properties *)

Attributes == Colors \cup {AllOnes}
Marks == (Chars \cup HighChars \cup {Space, Old}) \X Attributes

(* Types; the cursor is on the screen as long as set_cursor respects it. *)
TypeOK ==
  /\ vga \in [Index -> Marks]
  /\ cursor_row \in Nat /\ cursor_col \in Nat
  /\ current_color \in Colors
  /\ crtc \in 0 .. (CrtcWord - 1)
  /\ cursor_on \in BOOLEAN
  /\ scrolled \in Seq([0 .. (VGA_WIDTH - 1) -> Marks])
  /\ bad = 0 => OnScreen(cursor_row, cursor_col)

(* Only characters below 128 keep the colour. *)
TypedIn(color) == (Chars \X {color}) \cup (HighChars \X {AllOnes})

(* As long as set_cursor stays on the screen, the screen with the lines    *)
(* that left it is the paper of a terminal: kputc loses and changes        *)
(* nothing but by scrolling it off the top, across line ends, scrolls,     *)
(* clears and cursor movements, and every place has the colour that was    *)
(* set when it was written.                                                *)
Paper == INSTANCE Terminal WITH
  Width <- VGA_WIDTH, Height <- VGA_HEIGHT, Ink <- Colors,
  Typed <- TypedIn, Untouched <- LAMBDA color : {<<Space, color>>}, Mark <- Marks,
  paper <- scrolled \o [y \in 1 .. VGA_HEIGHT |-> Row(vga, y - 1)],
  line <- Len(scrolled) + cursor_row + 1,
  column <- cursor_col, ink <- current_color

TerminalSpec == Paper!Init /\ [][bad' = 0 => [Paper!Next]_(Paper!vars)]_vars

(* However far off the screen set_cursor has put the cursor, one character *)
(* brings it back.                                                         *)
CursorComesBack ==
  [][\A c \in Chars \cup HighChars \cup {Newline} :
       kputc(c) => OnScreen(cursor_row', cursor_col')]_vars

(* A store outside the buffer needs a set_cursor off the screen before it, *)
(* and each of those is good for one.                                      *)
StraysPaidFor == strays <= bad

=============================================================================
