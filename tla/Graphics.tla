------------------------------ MODULE Graphics ------------------------------
(***************************************************************************)
(* The framebuffer and the drawing functions of graphics.cpp.  Coordinates *)
(* are unsigned numbers of 32 bits, here modulo Wrap: a point left of the  *)
(* screen or above it is one with a large coordinate.  A function without  *)
(* a state of its own is one step; the loops of draw_line, draw_circle and *)
(* draw_string, which carry a state, make one step per iteration.          *)
(*                                                                         *)
(* An operator named Op_Bug is Op with a plausible bug; the specification  *)
(* uses none of them, they show which properties would notice.             *)
(***************************************************************************)
EXTENDS Integers, Sequences

CONSTANTS
  Width, Height, Pitch,  \* of the context; Pitch in bytes
  Wrap,        \* 2^32
  Channel,     \* values of a colour component (256)
  Black,       \* COLOR_BLACK
  Requests,    \* calls of the drawing functions: records [kind, color, ...]
  Modes,       \* arguments of graphics_init: [linear, packed, bpp, unit]
  Font,        \* font_8x8: set bits of the glyph of each character
  GlyphSize,   \* 8
  Newline,
  Idle,
  MaxCalls     \* bound: calls of drawing functions

(* The context is one graphics_init or graphics_init_simple accepts: 32    *)
(* bits per pixel, a whole component in each of three places.              *)
(* A line has room for its pixels and ends on a pixel; the code checks     *)
(* none of these but the first.                                            *)
ASSUME ContextAssumption ==
  /\ Width \in Nat \ {0} /\ Height \in Nat \ {0}
  /\ Pitch \in Nat /\ Pitch % 4 = 0 /\ Pitch >= 4 * Width
  /\ Pitch * Height < Wrap
  /\ Wrap \in Nat /\ Wrap % 4 = 0
  /\ Channel \in Nat /\ MaxCalls \in Nat

Sized == {"fill_rect", "draw_rect", "horizontal", "vertical"}
Round == {"circle", "disc"}

(* Coordinates and sizes are unsigned.  Ends of lines are less than a      *)
(* quarter of the plane apart, so that the signed arithmetic of draw_line  *)
(* has room; likewise for radii.  A circle has a radius: of radius 0,      *)
(* draw_circle stores to the four diagonal neighbours of the centre too.   *)
ASSUME RequestAssumption ==
  \A r \in Requests :
    /\ r.kind \in {"pixel", "clear", "line", "string"} \cup Sized \cup Round
    /\ r.kind \in {"pixel", "string"} \cup Sized => r.x \in Nat /\ r.y \in Nat
    /\ r.kind \in Sized \ {"vertical"} => r.width \in Nat
    /\ r.kind \in Sized \ {"horizontal"} => r.height \in Nat
    /\ r.kind = "line" => {r.x0, r.y0, r.x1, r.y1} \subseteq 0 .. (Wrap \div 4 - 1)
    /\ r.kind \in Round =>
         /\ r.cx \in Nat /\ r.cy \in Nat
         /\ r.radius \in Nat /\ 4 * r.radius * r.radius < Wrap
         /\ r.kind = "circle" => r.radius > 0

VARIABLES
  initialized,  \* of g_graphics_ctx
  unit,         \* its shifts: what one of each component adds to a pixel value
  fb,           \* the framebuffer: a pixel value per 32-bit word
  job,          \* the drawing function that runs, with its locals, or Idle
  stored,       \* words it has stored to (ghost)
  spilled,      \* whether any store went outside the framebuffer (ghost)
  calls         \* calls so far (ghost)

vars == <<initialized, unit, fb, job, stored, spilled, calls>>

Word == 0 .. ((Pitch * Height) \div 4 - 1)

-----------------------------------------------------------------------------
(* Arithmetic and pixels *)

AsInt(u) == IF u >= Wrap \div 2 THEN u - Wrap ELSE u

Add(a, b) == (a + b) % Wrap

Diff(a, b) == AsInt((IF a > b THEN a - b ELSE b - a) % Wrap)

(* A component is shifted to its place in the pixel value; the masks keep  *)
(* all of it, and alpha is lost.                                           *)
graphics_color_to_pixel(c) ==
  c.red * unit.red + c.green * unit.green + c.blue * unit.blue

graphics_pixel_to_color_Rgb(v) ==
  [red   |-> (v \div (Channel * Channel)) % Channel,
   green |-> (v \div Channel) % Channel,
   blue  |-> v % Channel,
   alpha |-> Channel - 1]

graphics_pixel_to_color(v) ==
  [red   |-> (v \div unit.red) % Channel,
   green |-> (v \div unit.green) % Channel,
   blue  |-> (v \div unit.blue) % Channel,
   alpha |-> Channel - 1]

Stride == Pitch \div 4

PutWord(x, y) == ((y * Pitch) % Wrap) \div 4 + x

OnScreen_Last(x, y) == x <= Width /\ y < Height

OnScreen(x, y) == x < Width /\ y < Height

graphics_get_pixel(x, y) ==
  IF ~initialized \/ ~OnScreen(x, y) THEN Black
  ELSE graphics_pixel_to_color(fb[PutWord(x, y)])

(* Stores a pixel value to each word of a set, or two to two sets.         *)
Store(words, color, others, color2) ==
  /\ fb' = [w \in Word |-> IF w \in words THEN graphics_color_to_pixel(color)
                           ELSE IF w \in others THEN graphics_color_to_pixel(color2)
                           ELSE fb[w]]
  /\ stored' = stored \cup words \cup others
  /\ spilled' = (spilled \/ ~(words \cup others \subseteq Word))

(* Words graphics_put_pixel stores to for these points                     *)
PutWords(points) ==
  {PutWord(p[1], p[2]) : p \in {q \in points : OnScreen(q[1], q[2])}}

Draw(words) == Store(words, job.req.color, {}, job.req.color)

-----------------------------------------------------------------------------
(* Functions of one step: the words they store to *)

ClearWords ==
  {y * Stride + x : x \in 0 .. (Width - 1), y \in 0 .. (Height - 1)}

FillWords(x, y, width, height) ==
  {row * Stride + col : row \in y .. (IF Add(y, height) < Height THEN Add(y, height) ELSE Height) - 1,
                        col \in x .. (IF Add(x, width) < Width THEN Add(x, width) ELSE Width) - 1}

ClippedEnd_Not(start, size, limit) == Add(start, size)

(* graphics_draw_horizontal_line and graphics_draw_vertical_line end at    *)
(* the border.                                                             *)
ClippedEnd(start, size, limit) ==
  IF Add(start, size) > limit THEN limit ELSE Add(start, size)

HorizontalWords(x, y, width) ==
  IF y >= Height THEN {}
  ELSE {y * Stride + col : col \in x .. (ClippedEnd(x, width, Width) - 1)}

VerticalWords(x, y, height) ==
  IF x >= Width THEN {}
  ELSE {row * Stride + x : row \in y .. (ClippedEnd(y, height, Height) - 1)}

FrameWords(x, y, width, height) ==
  IF width = 0 \/ height = 0 THEN {}
  ELSE HorizontalWords(x, y, width)
    \cup (IF height > 1 THEN HorizontalWords(x, Add(y, height - 1), width) ELSE {})
    \cup (IF height > 2 THEN VerticalWords(x, Add(y, 1), height - 2) ELSE {})
    \cup (IF height > 2 /\ width > 1
            THEN VerticalWords(Add(x, width - 1), Add(y, 1), height - 2) ELSE {})

Near(r) == (-r.radius) .. r.radius

DiscWords(r) ==
  PutWords({<<Add(r.cx, d[1]), Add(r.cy, d[2])>> :
              d \in {e \in Near(r) \X Near(r) : e[1] * e[1] + e[2] * e[2] <= r.radius * r.radius}})

WordsOf(r) ==
  CASE r.kind = "pixel"      -> PutWords({<<r.x, r.y>>})
    [] r.kind = "clear"      -> ClearWords
    [] r.kind = "fill_rect"  -> FillWords(r.x, r.y, r.width, r.height)
    [] r.kind = "draw_rect"  -> FrameWords(r.x, r.y, r.width, r.height)
    [] r.kind = "horizontal" -> HorizontalWords(r.x, r.y, r.width)
    [] r.kind = "vertical"   -> VerticalWords(r.x, r.y, r.height)
    [] r.kind = "disc"       -> DiscWords(r)

draw_at_once ==
  /\ job # Idle
  /\ job.at = "once"
  /\ Draw(WordsOf(job.req))
  /\ job' = [job EXCEPT !.at = "done"]
  /\ UNCHANGED <<initialized, unit, calls>>

-----------------------------------------------------------------------------
(* graphics_draw_line: one point, then one step of Bresenham's algorithm   *)

LineDx_Signed(r) == r.x1 - r.x0

LineDx(r) == Diff(r.x1, r.x0)

LineDy(r) == Diff(r.y1, r.y0)
StepY(r)  == IF r.y0 < r.y1 THEN 1 ELSE -1

StepX(r) == IF r.x0 < r.x1 THEN 1 ELSE -1

MovesX_WrongSign(e2, r) == e2 > LineDy(r)

MovesX(e2, r) == e2 > -LineDy(r)

MovesY(e2, r) == e2 < LineDx(r)

graphics_draw_line ==
  /\ job # Idle
  /\ job.at = "line"
  /\ Draw(PutWords({<<job.x, job.y>>}))
  /\ LET r  == job.req
         e2 == 2 * job.err
     IN  job' =
           IF job.x = r.x1 /\ job.y = r.y1 THEN [job EXCEPT !.at = "done"]
           ELSE [job EXCEPT
             !.x   = IF MovesX(e2, r) THEN Add(@, StepX(r)) ELSE @,
             !.y   = IF MovesY(e2, r) THEN Add(@, StepY(r)) ELSE @,
             !.err = @ - (IF MovesX(e2, r) THEN LineDy(r) ELSE 0)
                       + (IF MovesY(e2, r) THEN LineDx(r) ELSE 0)]
  /\ UNCHANGED <<initialized, unit, calls>>

(* graphics_draw_circle: the eight points of an offset, then the next one  *)
Octants(r, x, y) ==
  {<<Add(r.cx, s[1]), Add(r.cy, s[2])>> :
     s \in {<<x, y>>, <<-x, y>>, <<x, -y>>, <<-x, -y>>, <<y, x>>, <<-y, x>>, <<y, -x>>, <<-y, -x>>}}

NextD(d, x, y) == IF d > 0 THEN d + 4 * (x + 1 - (y - 1)) + 10 ELSE d + 4 * (x + 1) + 6

NextY(d, y) == IF d > 0 THEN y - 1 ELSE y

graphics_draw_circle ==
  /\ job # Idle
  /\ job.at = "circle"
  /\ Draw(PutWords(Octants(job.req, job.x, job.y)))
  /\ job' = IF job.y < job.x THEN [job EXCEPT !.at = "done"]
            ELSE [job EXCEPT !.x = @ + 1, !.y = NextY(job.d, @), !.d = NextD(@, job.x, job.y)]
  /\ UNCHANGED <<initialized, unit, calls>>

(* graphics_draw_char: the glyph in one colour, the rest of its cell in    *)
(* the other                                                               *)
CellPoints == (0 .. (GlyphSize - 1)) \X (0 .. (GlyphSize - 1))

ASSUME FontAssumption ==
  GlyphSize \in Nat /\ \A c \in DOMAIN Font : Font[c] \subseteq CellPoints

PlacedWords(x, y, points) == PutWords({<<Add(x, p[1]), Add(y, p[2])>> : p \in points})

graphics_draw_char(x, y, c) ==
  IF c \notin DOMAIN Font THEN UNCHANGED <<fb, stored, spilled>>
  ELSE Store(PlacedWords(x, y, Font[c]), job.req.color,
             PlacedWords(x, y, CellPoints \ Font[c]), job.req.ground)

(* A new line starts below the first character. *)
LineX(x) == job.req.x

(* graphics_draw_string: one character *)
graphics_draw_string ==
  /\ job # Idle
  /\ job.at = "string"
  /\ LET c == job.req.text[job.i]
     IN  IF job.i > Len(job.req.text)
           THEN job' = [job EXCEPT !.at = "done"] /\ UNCHANGED <<fb, stored, spilled>>
         ELSE IF c = Newline
           THEN /\ job' = [job EXCEPT !.i = @ + 1, !.x = LineX(@), !.y = Add(@, GlyphSize)]
                /\ UNCHANGED <<fb, stored, spilled>>
           ELSE /\ graphics_draw_char(job.x, job.y, c)
                /\ job' = [job EXCEPT !.i = @ + 1, !.x = Add(@, GlyphSize)]
  /\ UNCHANGED <<initialized, unit, calls>>

-----------------------------------------------------------------------------
(* Calls *)

Start(r) ==
  CASE r.kind = "line"   -> [at |-> "line", req |-> r, x |-> r.x0, y |-> r.y0,
                             err |-> LineDx(r) - LineDy(r)]
    [] r.kind = "circle" -> [at |-> "circle", req |-> r, x |-> 0, y |-> r.radius,
                             d |-> 3 - 2 * r.radius]
    [] r.kind = "string" -> [at |-> "string", req |-> r, i |-> 1, x |-> r.x, y |-> r.y]
    [] OTHER             -> [at |-> "once", req |-> r]

(* Before initialisation every drawing function returns at once.           *)
Call(r) ==
  /\ job = Idle
  /\ calls < MaxCalls
  /\ calls' = calls + 1
  /\ job' = IF initialized THEN Start(r) ELSE Idle
  /\ UNCHANGED <<initialized, unit, fb, stored, spilled>>

Return ==
  /\ job # Idle
  /\ job.at = "done"
  /\ job' = Idle
  /\ stored' = {}
  /\ UNCHANGED <<initialized, unit, fb, spilled, calls>>

graphics_init_simple ==
  /\ job = Idle
  /\ initialized' = TRUE
  /\ unit' = [red |-> Channel * Channel, green |-> Channel, blue |-> 1]
  /\ UNCHANGED <<fb, job, stored, spilled, calls>>

(* graphics_init rejects a mode, or accepts it and clears the screen,      *)
(* which is a call of a drawing function.                                  *)
graphics_init(mode) ==
  /\ job = Idle
  /\ IF mode.linear /\ mode.packed /\ mode.bpp = 32
       THEN /\ calls < MaxCalls
            /\ calls' = calls + 1
            /\ initialized' = TRUE
            /\ unit' = mode.unit
            /\ job' = Start([kind |-> "clear", color |-> Black])
       ELSE UNCHANGED <<initialized, unit, job, calls>>
  /\ UNCHANGED <<fb, stored, spilled>>

graphics_cleanup ==
  /\ job = Idle
  /\ initialized' = FALSE
  /\ UNCHANGED <<unit, fb, job, stored, spilled, calls>>

Init ==
  /\ initialized = FALSE
  /\ unit = [red |-> 1, green |-> 1, blue |-> 1]
  /\ fb = [w \in Word |-> 0]
  /\ job = Idle
  /\ stored = {}
  /\ spilled = FALSE
  /\ calls = 0

Step ==
  \/ draw_at_once \/ graphics_draw_line \/ graphics_draw_circle
  \/ graphics_draw_string \/ Return

Next ==
  \/ Step
  \/ \E r \in Requests : Call(r)
  \/ graphics_init_simple
  \/ \E mode \in Modes : graphics_init(mode)
  \/ graphics_cleanup

Spec == Init /\ [][Next]_vars

(* The processor does not stop between two iterations. *)
FairSpec == Spec /\ WF_vars(Step)

-----------------------------------------------------------------------------
(* Properties *)

(* Words of the framebuffer that are pixels: not the padding of a line     *)
PixelWords == {PutWord(x, y) : x \in 0 .. (Width - 1), y \in 0 .. (Height - 1)}

(* Whatever the arguments, clipped or wrapped around, drawing stores to    *)
(* words of the framebuffer only, and never to the padding behind the      *)
(* pixels of a line.                                                       *)
OnlyPixelsStored == ~spilled /\ stored \subseteq PixelWords

(* draw_line stays between its ends, and err is what its place says: how   *)
(* far the next diagonal point is off the line.  Hence it cannot miss the  *)
(* end, at which alone the loop stops.                                     *)
LineOnCourse ==
  job # Idle /\ job.at = "line" =>
    LET r  == job.req
        mx == Diff(job.x, r.x0)
        my == Diff(job.y, r.y0)
    IN  /\ mx + Diff(r.x1, job.x) = LineDx(r)
        /\ my + Diff(r.y1, job.y) = LineDy(r)
        /\ job.err = LineDx(r) * (my + 1) - LineDy(r) * (mx + 1)

(* What a call asks for                                                    *)
Opaque(c) == [c EXCEPT !.alpha = Channel - 1]

Rect(kind, r, width, height) ==
  [kind |-> kind, color |-> Opaque(r.color), x |-> r.x, y |-> r.y,
   width |-> width, height |-> height,
   whole |-> r.x + width < Wrap /\ r.y + height < Wrap]

Asked(r) ==
  CASE r.kind = "clear"      -> [kind |-> "screen", color |-> Opaque(r.color), whole |-> TRUE]
    [] r.kind = "pixel"      -> Rect("rect", r, 1, 1)
    [] r.kind = "fill_rect"  -> Rect("rect", r, r.width, r.height)
    [] r.kind = "draw_rect"  -> Rect("frame", r, r.width, r.height)
    [] r.kind = "horizontal" -> Rect("rect", r, r.width, 1)
    [] r.kind = "vertical"   -> Rect("rect", r, 1, r.height)
    [] r.kind = "line"       -> [kind |-> "line", color |-> Opaque(r.color),
                                 x0 |-> r.x0, y0 |-> r.y0, x1 |-> r.x1, y1 |-> r.y1]
    [] r.kind \in {"circle", "disc"} ->
         [kind |-> r.kind, color |-> Opaque(r.color), cx |-> AsInt(r.cx), cy |-> AsInt(r.cy),
          radius |-> r.radius, whole |-> TRUE]
    [] r.kind = "string"     ->
         [kind |-> "text", color |-> Opaque(r.color), ground |-> Opaque(r.ground),
          x |-> r.x, y |-> r.y, text |-> r.text, whole |-> TRUE]

AllAsked == {Asked(r) : r \in Requests \cup {[kind |-> "clear", color |-> Black]}}

ScreenPoints == (0 .. (Width - 1)) \X (0 .. (Height - 1))

Component == 0 .. (Channel - 1)

(* Read back with graphics_get_pixel, the screen shows what was drawn on   *)
(* it, in its order: the framebuffer implements Canvas.                    *)
Screen == INSTANCE Canvas WITH
  Color <- [red : Component, green : Component, blue : Component, alpha : {Channel - 1}],
  Shapes <- AllAsked,
  NoShape <- Idle, Plane <- Wrap,
  open <- initialized,
  pixels <- [p \in ScreenPoints |-> graphics_get_pixel(p[1], p[2])],
  shape <- IF job = Idle THEN Idle ELSE Asked(job.req),
  drawn <- {p \in ScreenPoints : PutWord(p[1], p[2]) \in stored}

CanvasSpec == Screen!Spec

(* Every drawing function returns. *)
DrawingEnds == job # Idle ~> job = Idle

=============================================================================
