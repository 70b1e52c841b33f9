----------------------------- MODULE Animations -----------------------------
(***************************************************************************)
(* The animations of graphics_demo.cpp with their own constants: a frame   *)
(* of the ball, a rectangle and a pixel of the colour wave are one step    *)
(* each.  What is drawn is kept as the calls of the primitives (module     *)
(* Graphics) since the screen was cleared; the delays are left out.        *)
(*                                                                         *)
(* An operator named Op_Bug is Op with a plausible bug; the specification  *)
(* uses none of them, they show which properties would notice.             *)
(***************************************************************************)
EXTENDS Math, Sequences

CONSTANTS
  Screens,     \* graphics contexts: width, height, initialized
  WaveScreens, \* the ones small enough to follow every pixel of the wave
  Wrap         \* 2^32

(* Wrap is large enough for the products of the code, as 2^32 is, and an   *)
(* int holds the size of a screen.                                         *)
ASSUME AnimationsAssumption ==
  /\ Wrap \in Nat /\ Wrap > 1000000
  /\ WaveScreens \subseteq Screens
  /\ \A s \in Screens :
       /\ s.width \in Nat \ {0} /\ 2 * s.width <= Wrap
       /\ s.height \in Nat \ {0} /\ 2 * s.height <= Wrap

VARIABLES
  ctx,      \* the graphics context
  running,  \* the animation, or "none"
  frame,    \* its frames so far; twice as fast for the rectangles
  ball,     \* locals of the ball: x, y, vx, vy, color_index
  index,    \* rectangle, or pixel of the wave, to draw next
  drawn     \* primitives called since the screen was cleared

vars == <<ctx, running, frame, ball, index, drawn>>

Unsigned(n) == n % Wrap
AsInt(u) == IF u < Wrap \div 2 THEN u ELSE u - Wrap

Idle == running = "none"

(* Every animation returns at once without an initialised context. *)
Start(animation) ==
  /\ Idle
  /\ ctx.initialized
  /\ running' = animation
  /\ frame' = 0 /\ index' = 0
  /\ UNCHANGED ctx

Return(frames) ==
  /\ frame >= frames
  /\ running' = "none"
  /\ UNCHANGED <<ctx, frame, ball, index, drawn>>

-----------------------------------------------------------------------------
(* graphics_animate_bouncing_ball *)

radius == 20
BallStart == [x |-> 50, y |-> 50, vx |-> 2, vy |-> 2, color_index |-> 0]

StartBall ==
  /\ Start("ball")
  /\ ball' = BallStart
  /\ UNCHANGED drawn

Hits_Beyond(pos, extent) == pos < radius \/ pos > extent - radius

(* width - radius is unsigned but compared as int, so it may be negative. *)
Hits(pos, extent) == pos <= radius \/ pos >= extent - radius

Kept_Low(pos, extent) == IF pos < radius THEN radius ELSE pos

Kept(pos, extent) ==
  LET low == IF pos < radius THEN radius ELSE pos
  IN  IF low > extent - radius THEN extent - radius ELSE low

NextColor(c) == (c + 1) % 6

BallFrame ==
  LET x == ball.x + ball.vx
      y == ball.y + ball.vy
      hitX == Hits(x, ctx.width)
      hitY == Hits(y, ctx.height)
      once == IF hitX THEN NextColor(ball.color_index) ELSE ball.color_index
      next == [x  |-> Kept(x, ctx.width), y |-> Kept(y, ctx.height),
               vx |-> IF hitX THEN -ball.vx ELSE ball.vx,
               vy |-> IF hitY THEN -ball.vy ELSE ball.vy,
               color_index |-> IF hitY THEN NextColor(once) ELSE once]
  IN  /\ running = "ball" /\ frame < 1000
      /\ ball' = next
      /\ drawn' = {[shape |-> "disc", x |-> Unsigned(next.x), y |-> Unsigned(next.y),
                    size |-> radius, color |-> next.color_index],
                   [shape |-> "text", x |-> 10, y |-> 10]}
      /\ frame' = frame + 1
      /\ UNCHANGED <<ctx, running, index>>

BallReturn == running = "ball" /\ Return(1000)

-----------------------------------------------------------------------------
(* graphics_animate_rotating_rects *)

cx == ctx.width \div 2
cy == ctx.height \div 2

StartRects == Start("rects") /\ UNCHANGED <<ball, drawn>>

angle == frame + index * 72
size == 30 + index * 20
distance == 50 + index * 30

Offset_Unscaled(sine) == AsInt(Unsigned(distance * sine))

(* distance is unsigned, so a negative sine is multiplied modulo Wrap, and *)
(* the quotient is a large positive one.                                   *)
Offset(sine) == AsInt(Unsigned(distance * sine) \div 1000)

Corner_NotMoved(pos, extent) == Unsigned(pos - size \div 2)

(* Kept on the screen; the corner is unsigned. *)
Corner(pos, extent) ==
  LET low  == IF pos < size \div 2 THEN size \div 2 ELSE pos
      high == extent - size \div 2
  IN  Unsigned((IF low > high THEN high ELSE low) - size \div 2)

Rect == [shape |-> "rect", color |-> index, size |-> size,
         x |-> Corner(cx + Offset(math_cos(angle)), ctx.width),
         y |-> Corner(cy + Offset(math_sin(angle)), ctx.height)]

(* The first rectangle of a frame finds the screen cleared. *)
DrawRect ==
  /\ running = "rects" /\ frame < 360 /\ index < 5
  /\ drawn' = (IF index = 0 THEN {} ELSE drawn) \cup {Rect}
  /\ index' = index + 1
  /\ UNCHANGED <<ctx, running, frame, ball>>

RectsFrame_AngleWraps ==
  /\ running = "rects" /\ frame < 360 /\ index = 5
  /\ drawn' = drawn \cup {[shape |-> "text", x |-> Unsigned(cx - 50), y |-> cy]}
  /\ frame' = (frame + 2) % 360
  /\ index' = 0
  /\ UNCHANGED <<ctx, running, ball>>

RectsFrame ==
  /\ running = "rects" /\ frame < 360 /\ index = 5
  /\ drawn' = drawn \cup {[shape |-> "text", x |-> Unsigned(cx - 50), y |-> cy]}
  /\ frame' = frame + 2
  /\ index' = 0
  /\ UNCHANGED <<ctx, running, ball>>

RectsReturn == running = "rects" /\ Return(360)

-----------------------------------------------------------------------------
(* graphics_animate_color_wave *)

StartWave ==
  /\ [width |-> ctx.width, height |-> ctx.height, initialized |-> TRUE] \in WaveScreens
  /\ Start("wave")
  /\ drawn' = {}
  /\ UNCHANGED ball

px == index % ctx.width
py == index \div ctx.width

Wave == Quot(math_sin((px + frame * 2) \div 4) * math_sin((py + frame) \div 3), 1000)

(* What is converted to the three bytes of the colour *)
Byte(v) == 128 + Quot(v * 127, 1000)

Rgb == <<Byte(Wave), Byte(math_sin(frame + px \div 8)), Byte(math_cos(frame + py \div 8))>>

(* Row by row; the screen is not cleared, only the last pixel is kept. *)
WavePixel ==
  /\ running = "wave" /\ frame < 500 /\ py < ctx.height
  /\ drawn' = {[shape |-> "pixel", x |-> px, y |-> py,
                color |-> [i \in 1 .. 3 |-> Rgb[i] % 256]]}
  /\ index' = index + 1
  /\ UNCHANGED <<ctx, running, frame, ball>>

WaveFrame ==
  /\ running = "wave" /\ frame < 500 /\ py = ctx.height
  /\ frame' = frame + 1
  /\ index' = 0
  /\ UNCHANGED <<ctx, running, ball, drawn>>

WaveReturn == running = "wave" /\ Return(500)

-----------------------------------------------------------------------------
Init ==
  /\ ctx \in Screens
  /\ running = "none"
  /\ frame = 0
  /\ ball = BallStart
  /\ index = 0
  /\ drawn = {}

Ball == BallFrame \/ BallReturn
Rects == DrawRect \/ RectsFrame \/ RectsReturn
Waves == WavePixel \/ WaveFrame \/ WaveReturn

Next == StartBall \/ StartRects \/ StartWave \/ Ball \/ Rects \/ Waves

Spec == Init /\ [][Next]_vars

FairSpec == Spec /\ WF_vars(Ball \/ Rects \/ Waves)

-----------------------------------------------------------------------------
(* Properties *)

(* Where a ball that started at 50 is after a way of n: thrown back at     *)
(* radius and at extent - radius, as by mirrors.                           *)
Mirrored(n, extent) ==
  LET way == (50 + n - radius) % (2 * (extent - 2 * radius))
  IN  radius + IF way <= extent - 2 * radius THEN way ELSE 2 * (extent - 2 * radius) - way

(* On screens of even size that are wide enough for its start, the ball    *)
(* has moved as if between mirrors, through all its frames: no wall holds  *)
(* it, it misses none and leaves none late.                                *)
BallMirrored ==
  running = "ball" =>
    /\ ctx.width % 2 = 0 /\ ctx.width > 50 + radius
         => ball.x = Mirrored(2 * frame, ctx.width)
    /\ ctx.height % 2 = 0 /\ ctx.height > 50 + radius
         => ball.y = Mirrored(2 * frame, ctx.height)

(* Once on the screen, the ball at a wall moves away from it, also when it *)
(* started behind the wall: it never shakes in place there.                *)
LeavesWall(pos, v, extent) ==
  extent > 2 * radius =>
    /\ pos \in radius .. extent - radius
    /\ pos = radius => v > 0
    /\ pos = extent - radius => v < 0

BallLeavesWalls ==
  running = "ball" /\ frame > 0 =>
    /\ LeavesWall(ball.x, ball.vx, ctx.width)
    /\ LeavesWall(ball.y, ball.vy, ctx.height)

(* A rectangle that fits on the screen is drawn on it as a whole. *)
RectsOnScreen ==
  \A d \in drawn : d.shape = "rect" =>
    /\ d.size <= ctx.width => d.x + d.size <= ctx.width
    /\ d.size <= ctx.height => d.y + d.size <= ctx.height

(* Where the rectangle to be drawn belongs: its size to the left or above  *)
(* of its centre, which is at its distance from the centre of the screen   *)
(* in the direction of its angle, or the nearest place on the screen       *)
Turned(sine, centre, extent) ==
  LET at == centre + Quot(distance * sine, 1000) - size \div 2
  IN  IF at > extent - size THEN extent - size ELSE IF at < 0 THEN 0 ELSE at

(* graphics_demo.cpp:95 says "Rotating rectangles" and lines 113 and 114   *)
(* "calculate position using integer math" and "math_cos/sin return values *)
(* * 1000, so divide by 1000": every rectangle that fits on the screen is  *)
(* drawn at its distance from the centre, in the direction of its angle,   *)
(* as far as the screen reaches.  The code does not do this where the sine *)
(* or the cosine is negative, the product being an unsigned one.           *)
RectsTurn ==
  running = "rects" /\ frame < 360 /\ index < 5 =>
    /\ size <= ctx.width => Rect.x = Turned(math_cos(angle), cx, ctx.width)
    /\ size <= ctx.height => Rect.y = Turned(math_sin(angle), cy, ctx.height)

(* Of that, each coordinate holds wherever its sine is not negative: the   *)
(* wrapping product and the bounds of the screen move no rectangle that    *)
(* goes to the right or down.                                              *)
RectsTurnForward ==
  running = "rects" /\ frame < 360 /\ index < 5 =>
    /\ size <= ctx.width /\ math_cos(angle) >= 0
         => Rect.x = Turned(math_cos(angle), cx, ctx.width)
    /\ size <= ctx.height /\ math_sin(angle) >= 0
         => Rect.y = Turned(math_sin(angle), cy, ctx.height)

(* The two functions stay on a circle of radius 1000, within one percent,  *)
(* at every angle the rectangles come to but 30 degrees, of which nothing  *)
(* is said (math_sin answers 0 there, where math.cpp:12 says 1/2), and no  *)
(* colour of the wave computed from them leaves its byte.                  *)
OnUnitCircle ==
  LET s == math_sin(angle)
      c == math_cos(angle)
      error == 1000000 - (s * s + c * c)
  IN  /\ running = "rects" /\ angle # 30 => -10000 <= error /\ error <= 10000
      /\ running = "wave" => \A i \in 1 .. 3 : Rgb[i] \in 0 .. 255

(* Every animation ends. *)
AnimationsEnd == ~Idle ~> Idle

=============================================================================
