------------------------------ MODULE Terminal ------------------------------
(***************************************************************************)
(* What a text console promises: a roll of paper that gets longer at its   *)
(* end.  A character is typed at the carriage, in the ink of the moment,   *)
(* and moves it on; at the end of a line, or on a new line, the carriage   *)
(* goes to the start of the next, and the paper grows when there is none.  *)
(* Nothing typed is lost or changed, except that the whole paper may be    *)
(* replaced by an empty sheet.                                             *)
(***************************************************************************)
EXTENDS Integers, Sequences

CONSTANTS
  Width,        \* characters per line
  Height,       \* lines of an empty sheet, and the ones in reach
  Ink,          \* inks
  Typed(_),     \* marks a character typed in an ink may leave
  Untouched(_), \* marks of fresh paper, tinted in an ink
  Mark          \* all marks, also of the first sheet

VARIABLES
  paper,      \* lines, each a function from columns to marks
  line,       \* line of the carriage, 1 for the first
  column,     \* its column, 0 for the first
  ink

vars == <<paper, line, column, ink>>

Line(marks) == [0 .. (Width - 1) -> marks]

Init ==
  /\ paper \in [1 .. Height -> Line(Mark)]
  /\ line = 1
  /\ column = 0
  /\ ink \in Ink

(* The carriage goes to the start of the next line of this paper. *)
Advance(sheet) ==
  /\ column' = 0
  /\ line' = line + 1
  /\ IF line < Len(sheet)
       THEN paper' = sheet
       ELSE \E l \in Line(Untouched(ink)) : paper' = Append(sheet, l)
  /\ UNCHANGED ink

Type(m) ==
  LET typed == [paper EXCEPT ![line][column] = m]
  IN  IF column < Width - 1
        THEN paper' = typed /\ column' = column + 1 /\ UNCHANGED <<line, ink>>
        ELSE Advance(typed)

NewLine == Advance(paper)

Erase ==
  /\ paper' \in [1 .. Height -> Line(Untouched(ink))]
  /\ line' = 1
  /\ column' = 0
  /\ UNCHANGED ink

(* Only the last lines are in reach. *)
Move ==
  /\ line' \in (Len(paper) - Height + 1) .. Len(paper)
  /\ column' \in 0 .. (Width - 1)
  /\ UNCHANGED <<paper, ink>>

ChangeInk ==
  /\ ink' \in Ink
  /\ UNCHANGED <<paper, line, column>>

Next == (\E m \in Typed(ink) : Type(m)) \/ NewLine \/ Erase \/ Move \/ ChangeInk

Spec == Init /\ [][Next]_vars

=============================================================================
