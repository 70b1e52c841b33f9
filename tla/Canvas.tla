------------------------------- MODULE Canvas -------------------------------
(***************************************************************************)
(* What graphics.h promises: a screen that shows the shapes drawn on it.   *)
(* One shape is drawn at a time.  While it is drawn only points of the     *)
(* shape change, and only to its colours; when the drawing is over, all of *)
(* the shape that lies on the screen is there.  Shapes are figures of a    *)
(* plane that is Plane points wide and high and wraps around: beyond its   *)
(* last column comes the first.  A line may choose between neighbouring    *)
(* points; of a circle it is said how far it reaches and that it goes      *)
(* around its centre, not what it looks like inside (graphics.cpp:489      *)
(* calls it filled, the code draws an outline, next to the circle or more  *)
(* than a point within); the other shapes are exact.                       *)
(***************************************************************************)
EXTENDS Integers, Sequences, FiniteSets

CONSTANTS
  Width, Height,  \* of the screen
  Plane,
  Color, Black,
  Shapes,         \* what can be drawn: records [kind, color, ...]
  NoShape,
  Newline,
  Font,           \* glyphs: from printable characters to sets of points
  GlyphSize

VARIABLES
  open,    \* whether there is a screen
  pixels,  \* what it shows
  shape,   \* the shape being drawn, or NoShape
  drawn    \* its points that are there already

vars == <<open, pixels, shape, drawn>>

Screen == (0 .. (Width - 1)) \X (0 .. (Height - 1))

-----------------------------------------------------------------------------
(* Shapes *)

(* i is one of the n numbers from a on. *)
Between(i, a, n) == (i - a) % Plane < n

InRect(s, p) == Between(p[1], s.x, s.width) /\ Between(p[2], s.y, s.height)

OnEdge(s, p) ==
  \/ p[1] \in {s.x, (s.x + s.width - 1) % Plane}
  \/ p[2] \in {s.y, (s.y + s.height - 1) % Plane}

Abs(i) == IF i < 0 THEN -i ELSE i

Larger(i, j) == IF i < j THEN j ELSE i

(* At most half a point from the line, measured along a screen axis, and   *)
(* not beyond its ends *)
NearLine(s, p) ==
  LET dx == s.x1 - s.x0
      dy == s.y1 - s.y0
  IN  /\ Abs(p[1] - s.x0) + Abs(p[1] - s.x1) = Abs(dx)
      /\ Abs(p[2] - s.y0) + Abs(p[2] - s.y1) = Abs(dy)
      /\ 2 * Abs(dx * (p[2] - s.y0) - dy * (p[1] - s.x0)) <= Larger(Abs(dx), Abs(dy))

Distance2(s, p) == (p[1] - s.cx) * (p[1] - s.cx) + (p[2] - s.cy) * (p[2] - s.cy)

(* At most half a point beyond the circle; inside it, a circle may be      *)
(* filled or not                                                           *)
InCircle(s, p) == 4 * Distance2(s, p) <= (2 * s.radius + 1) * (2 * s.radius + 1)

(* Where character i of a text goes: characters before it on its line,     *)
(* and lines before it *)
Newlines(t, i) == {j \in 1 .. (i - 1) : t[j] = Newline}

CharColumn(t, i) == Cardinality({j \in 1 .. (i - 1) : \A k \in Newlines(t, i) : k < j})

Corner(s, i) ==
  <<s.x + GlyphSize * CharColumn(s.text, i), s.y + GlyphSize * Cardinality(Newlines(s.text, i))>>

InCell(s, i, p) ==
  /\ s.text[i] \in DOMAIN Font
  /\ Between(p[1], Corner(s, i)[1], GlyphSize)
  /\ Between(p[2], Corner(s, i)[2], GlyphSize)

OnGlyph(s, i, p) ==
  /\ InCell(s, i, p)
  /\ <<(p[1] - Corner(s, i)[1]) % Plane, (p[2] - Corner(s, i)[2]) % Plane>> \in Font[s.text[i]]

Covers(s, p) ==
  CASE s.kind = "screen" -> TRUE
    [] s.kind = "rect"   -> InRect(s, p)
    [] s.kind = "frame"  -> InRect(s, p) /\ OnEdge(s, p)
    [] s.kind = "line"   -> NearLine(s, p)
    [] s.kind = "circle" -> InCircle(s, p)
    [] s.kind = "disc"   -> Distance2(s, p) <= s.radius * s.radius
    [] s.kind = "text"   -> \E i \in DOMAIN s.text : InCell(s, i, p)

Tint(s, p) ==
  IF s.kind = "text" /\ ~\E i \in DOMAIN s.text : OnGlyph(s, i, p) THEN s.ground ELSE s.color

(* A point in every column of a flat line and in every row of a steep one, *)
(* where the screen has it *)
LineComplete(s, points) ==
  LET flat    == Abs(s.x1 - s.x0) >= Abs(s.y1 - s.y0)
      axis    == IF flat THEN 1 ELSE 2
      near(i) == {p \in (0 .. Larger(s.x0, s.x1)) \X (0 .. Larger(s.y0, s.y1)) :
                    p[axis] = i /\ NearLine(s, p)}
  IN  \A i \in 0 .. (Larger(Width, Height) - 1) :
        near(i) # {} /\ near(i) \subseteq Screen => near(i) \cap points # {}

(* It goes around its centre: in every row and column that crosses the     *)
(* circle there is a point on each side of the centre, and at the four     *)
(* ends the end itself                                                     *)
CircleComplete(s, points) ==
  \A i \in (-s.radius) .. s.radius :
    \A side \in {-1, 1}, axis \in {1, 2} :
      LET at(j) == IF axis = 1 THEN <<s.cx + i, s.cy + side * j>>
                               ELSE <<s.cx + side * j, s.cy + i>>
          way   == {j \in 0 .. s.radius : IF Abs(i) = s.radius THEN j = 0 ELSE j > 0}
          arm   == {at(j) : j \in {k \in way : InCircle(s, at(k))}}
      IN  arm \subseteq Screen => arm \cap points # {}

(* A shape that reaches beyond the end of the plane (whole is FALSE) may   *)
(* stay incomplete.                                                        *)
Complete(s, points) ==
  CASE s.kind = "line"   -> LineComplete(s, points)
    [] s.kind = "circle" -> CircleComplete(s, points)
    [] OTHER             -> s.whole => \A p \in Screen : Covers(s, p) => p \in points

-----------------------------------------------------------------------------
Init ==
  /\ open = FALSE
  /\ pixels = [p \in Screen |-> Black]
  /\ shape = NoShape
  /\ drawn = {}

(* A screen appears, showing anything, or goes away.  One that appears in  *)
(* place of another may have other colours, but the same figures.          *)
Open ==
  /\ shape = NoShape
  /\ open' = TRUE
  /\ pixels' \in [Screen -> Color]
  /\ open => \A p, q \in Screen : pixels[p] = pixels[q] => pixels'[p] = pixels'[q]
  /\ shape' \in {NoShape} \cup {s \in Shapes : s.kind = "screen"}
  /\ UNCHANGED drawn

Close ==
  /\ shape = NoShape
  /\ open' = FALSE
  /\ pixels' = [p \in Screen |-> Black]
  /\ UNCHANGED <<shape, drawn>>

Begin ==
  /\ open
  /\ shape = NoShape
  /\ shape' \in Shapes
  /\ UNCHANGED <<open, pixels, drawn>>

Paint ==
  /\ shape # NoShape
  /\ drawn \subseteq drawn'
  /\ \A p \in Screen :
       IF p \in drawn' \ drawn THEN Covers(shape, p) /\ pixels'[p] = Tint(shape, p)
                               ELSE pixels'[p] = pixels[p]
  /\ UNCHANGED <<open, shape>>

End ==
  /\ shape # NoShape
  /\ Complete(shape, drawn)
  /\ shape' = NoShape
  /\ drawn' = {}
  /\ UNCHANGED <<open, pixels>>

Next == Open \/ Close \/ Begin \/ Paint \/ End

Spec == Init /\ [][Next]_vars

=============================================================================
