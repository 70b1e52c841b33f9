-------------------------- MODULE AnimationsProofs --------------------------
(***************************************************************************)
(* The ball bounces off every wall as mirrors would have it and the        *)
(* rectangles stay on the screen, for every size of the screen; they stand *)
(* where their sines put them as long as these are not negative; sine and  *)
(* cosine are on a circle at every angle they come to but 30 degrees.      *)
(***************************************************************************)
EXTENDS Animations, NatLemmas

(* A screen is not empty and its sizes are unsigned numbers.               *)
LEMMA ScreenType ==
  ASSUME NEW s \in Screens
  PROVE  /\ s.width \in Nat /\ s.width >= 1 /\ s.width < Wrap
         /\ s.height \in Nat /\ s.height >= 1 /\ s.height < Wrap
BY AnimationsAssumption

-----------------------------------------------------------------------------
(* The ball *)

(* One coordinate: at its start, or between the walls and leaving them.    *)
OnTrack(pos, v, extent, started) ==
  /\ pos \in Int
  /\ v \in {-2, 2}
  /\ IF started THEN LeavesWall(pos, v, extent) ELSE pos = 50 /\ v = 2

(* One frame leads from the start, or from inside the walls, to inside them. *)
LEMMA BounceStep ==
  ASSUME NEW extent \in Nat, extent >= 1, NEW pos, NEW v,
         OnTrack(pos, v, extent, FALSE) \/ OnTrack(pos, v, extent, TRUE)
  PROVE  OnTrack(Kept(pos + v, extent), IF Hits(pos + v, extent) THEN -v ELSE v, extent, TRUE)
BY DEF OnTrack, LeavesWall, Kept, Hits, radius

BallInv ==
  /\ ctx \in Screens
  /\ frame \in Nat
  /\ running = "ball" =>
       /\ OnTrack(ball.x, ball.vx, ctx.width, frame > 0)
       /\ OnTrack(ball.y, ball.vy, ctx.height, frame > 0)

(* Every frame keeps the ball on its track.                                *)
LEMMA BallInvInvariant == Spec => []BallInv
<1>1. Init => BallInv
  BY DEF Init, BallInv
<1>2. BallInv /\ [Next]_vars => BallInv'
  <2> SUFFICES ASSUME BallInv, [Next]_vars
               PROVE  BallInv'
    OBVIOUS
  <2>1. CASE StartBall
    <3>1. /\ ctx' = ctx /\ frame' = 0
          /\ ball'.x = 50 /\ ball'.y = 50 /\ ball'.vx = 2 /\ ball'.vy = 2
      BY <2>1 DEF StartBall, Start, BallStart
    <3> QED
      BY <3>1 DEF BallInv, OnTrack
  <2>2. CASE BallFrame
    <3> DEFINE x == Kept(ball.x + ball.vx, ctx.width)
               y == Kept(ball.y + ball.vy, ctx.height)
               vx == IF Hits(ball.x + ball.vx, ctx.width) THEN -ball.vx ELSE ball.vx
               vy == IF Hits(ball.y + ball.vy, ctx.height) THEN -ball.vy ELSE ball.vy
    <3>1. running = "ball" /\ ctx' = ctx /\ frame' = frame + 1
      BY <2>2 DEF BallFrame
    <3>2. ball'.x = x /\ ball'.y = y /\ ball'.vx = vx /\ ball'.vy = vy
      BY <2>2 DEF BallFrame
    <3>3. ctx.width \in Nat /\ ctx.width >= 1 /\ ctx.height \in Nat /\ ctx.height >= 1
      BY ScreenType DEF BallInv
    <3>4. OnTrack(x, vx, ctx.width, TRUE) /\ OnTrack(y, vy, ctx.height, TRUE)
      <4>1. /\ \/ OnTrack(ball.x, ball.vx, ctx.width, FALSE)
               \/ OnTrack(ball.x, ball.vx, ctx.width, TRUE)
            /\ \/ OnTrack(ball.y, ball.vy, ctx.height, FALSE)
               \/ OnTrack(ball.y, ball.vy, ctx.height, TRUE)
        BY <3>1 DEF BallInv, OnTrack
      <4> QED
        BY <3>3, <4>1, BounceStep
    <3>5. frame' \in Nat /\ (frame > 0)' = TRUE
      BY <3>1 DEF BallInv
    <3> HIDE DEF x, y, vx, vy
    <3> QED
      BY <3>1, <3>2, <3>4, <3>5 DEF BallInv, OnTrack
  <2>3. CASE StartRects \/ StartWave
    BY <2>3 DEF StartRects, StartWave, Start, BallInv
  <2>4. CASE BallReturn \/ RectsReturn \/ WaveReturn
    BY <2>4 DEF BallReturn, RectsReturn, WaveReturn, Return, BallInv
  <2>5. CASE DrawRect \/ RectsFrame \/ WavePixel \/ WaveFrame
    BY <2>5 DEF DrawRect, RectsFrame, WavePixel, WaveFrame, BallInv
  <2>6. CASE UNCHANGED vars
    BY <2>6 DEF vars, BallInv
  <2> QED
    BY <2>1, <2>2, <2>3, <2>4, <2>5, <2>6 DEF Next, Ball, Rects, Waves
<1> QED
  BY <1>1, <1>2, PTL DEF Spec

(* On every screen wider and higher than the ball, the ball at a wall      *)
(* moves away from it: it never leaves the screen and never sticks.        *)
THEOREM BallLeavesWallsAlways == Spec => []BallLeavesWalls
<1>1. BallInv => BallLeavesWalls
  BY DEF BallInv, OnTrack, BallLeavesWalls
<1> QED
  BY <1>1, BallInvInvariant, PTL

-----------------------------------------------------------------------------
(* The rectangles *)

(* Normalising leaves a whole turn of angles.                              *)
LEMMA NormalType ==
  ASSUME NEW a \in Int
  PROVE  Normal(a) \in 0 .. 359
<1>1. CASE a >= 0
  <2>1. a \div 360 \in Int /\ a % 360 \in 0 .. 359 /\ a = 360 * (a \div 360) + (a % 360)
    BY <1>1
  <2>2. Rem(a, 360) = a % 360
    BY <1>1, <2>1 DEF Rem, Quot
  <2> QED
    BY <2>1, <2>2 DEF Normal
<1>2. CASE ~(a >= 0)
  <2> DEFINE b == -a
  <2>1. b \in Nat
    BY <1>2
  <2>2. b \div 360 \in Int /\ b % 360 \in 0 .. 359 /\ b = 360 * (b \div 360) + (b % 360)
    BY <2>1
  <2>3. Rem(a, 360) = -(b % 360)
    BY <1>2, <2>2 DEF Rem, Quot
  <2> HIDE DEF b
  <2> QED
    BY <2>2, <2>3 DEF Normal
<1> QED
  BY <1>1, <1>2

(* The formula divides by a positive number.                               *)
LEMMA BhaskaraType ==
  ASSUME NEW x \in 0 .. 180
  PROVE  Bhaskara(x) \in Int
<1>1. x * (180 - x) \in Nat
  OBVIOUS
<1>2. x * (180 - x) <= 8100
  <2>1. (90 - x) * (90 - x) \in Nat
    OBVIOUS
  <2>2. (90 - x) * (90 - x) = 8100 - x * (180 - x)
    OBVIOUS
  <2> QED
    BY <1>1, <2>1, <2>2
<1>3. 40500 - x * (180 - x) \in Nat \ {0}
  BY <1>1, <1>2
<1>4. 4 * x * (180 - x) * 1000 \in Nat
  OBVIOUS
<1>5. ASSUME NEW n \in Nat, NEW d \in Nat \ {0}
      PROVE  Quot(n, d) \in Int
  BY DEF Quot
<1> QED
  BY <1>3, <1>4, <1>5 DEF Bhaskara

(* The sine is an integer at every angle.                                  *)
LEMMA SineType ==
  ASSUME NEW a \in Int
  PROVE  math_sin(a) \in Int /\ math_cos(a) \in Int
<1>1. ASSUME NEW b \in Int
      PROVE  math_sin(b) \in Int
  <2>1. CASE b \in DOMAIN Special
    <3>1. Special[b] \in Int
      BY <2>1 DEF Special, Quot
    <3> QED
      BY <2>1, <3>1 DEF math_sin
  <2>2. CASE b \notin DOMAIN Special
    <3>1. Normal(b) \in 0 .. 359
      BY NormalType
    <3>2. CASE Normal(b) >= 180
      <4>1. Bhaskara(Normal(b) - 180) \in Int
        BY <3>1, <3>2, BhaskaraType
      <4> QED
        BY <2>2, <3>2, <4>1 DEF math_sin
    <3>3. CASE ~(Normal(b) >= 180)
      <4>1. Bhaskara(Normal(b)) \in Int
        BY <3>1, <3>3, BhaskaraType
      <4> QED
        BY <2>2, <3>3, <4>1 DEF math_sin
    <3> QED
      BY <3>2, <3>3
  <2> QED
    BY <2>1, <2>2
<1>2. a + 90 \in Int
  OBVIOUS
<1> QED
  BY <1>1, <1>2 DEF math_cos

(* The offset of a rectangle is an integer, whatever the product wraps to. *)
LEMMA OffsetType ==
  ASSUME index \in Nat, NEW sine \in Int
  PROVE  Offset(sine) \in Int
<1>1. distance * sine \in Int
  BY DEF distance
<1>2. ASSUME NEW n \in Int
      PROVE  AsInt(Unsigned(n) \div 1000) \in Int
  <2>1. Unsigned(n) \in Nat
    BY AnimationsAssumption DEF Unsigned
  <2> QED
    BY <2>1, AnimationsAssumption DEF AsInt
<1> QED
  BY <1>1, <1>2 DEF Offset

(* Corner, of a rectangle of size 2 * half.                                *)
Clamped(pos, extent, half) ==
  LET low  == IF pos < half THEN half ELSE pos
      high == extent - half
  IN  Unsigned((IF low > high THEN high ELSE low) - half)

(* The clamp comes last, so the coordinate it leaves is on the screen.     *)
LEMMA ClampedInside ==
  ASSUME NEW half \in Nat, NEW pos \in Int, NEW extent \in Nat,
         2 * half <= extent, extent < Wrap
  PROVE  Clamped(pos, extent, half) + 2 * half <= extent
<1> DEFINE low == IF pos < half THEN half ELSE pos
           high == extent - half
           at == (IF low > high THEN high ELSE low) - half
<1>1. at \in Nat /\ at + 2 * half <= extent
  OBVIOUS
<1>2. at % Wrap = at
  <2>1. at < Wrap
    BY <1>1, AnimationsAssumption
  <2> HIDE DEF at
  <2> QED
    BY <1>1, <2>1, AnimationsAssumption
<1>3. Clamped(pos, extent, half) = at
  BY <1>2 DEF Clamped, Unsigned
<1> QED
  BY <1>1, <1>3

(* In each direction it fits, a rectangle is drawn on the screen as a whole. *)
LEMMA RectInside ==
  ASSUME ctx \in Screens, frame \in Nat, index \in 0 .. 4
  PROVE  /\ Rect.shape = "rect" /\ Rect.size = size
         /\ size <= ctx.width => Rect.x + size <= ctx.width
         /\ size <= ctx.height => Rect.y + size <= ctx.height
<1>1. /\ ctx.width \in Nat /\ ctx.width < Wrap
      /\ ctx.height \in Nat /\ ctx.height < Wrap
  BY ScreenType
<1>2. cx \in Int /\ cy \in Int
  <2>1. ASSUME NEW n \in Nat
        PROVE  n \div 2 \in Int
    OBVIOUS
  <2> QED
    BY <1>1, <2>1 DEF cx, cy
<1>3. math_cos(angle) \in Int /\ math_sin(angle) \in Int
  <2>1. angle \in Int
    BY DEF angle
  <2> QED
    BY <2>1, SineType
<1>4. Offset(math_cos(angle)) \in Int /\ Offset(math_sin(angle)) \in Int
  BY <1>3, OffsetType
<1> DEFINE across == cx + Offset(math_cos(angle))
           down == cy + Offset(math_sin(angle))
<1>5. across \in Int /\ down \in Int
  BY <1>2, <1>4
<1> DEFINE half == 15 + index * 10
<1>6. half \in Nat /\ size = 2 * half /\ size \div 2 = half
  BY DEF size
<1> HIDE DEF across, down, half
<1>7. /\ Rect.shape = "rect" /\ Rect.size = size
      /\ Rect.x = Clamped(across, ctx.width, half)
      /\ Rect.y = Clamped(down, ctx.height, half)
  BY <1>6 DEF Rect, Corner, Clamped, across, down
<1>8. /\ 2 * half <= ctx.width => Clamped(across, ctx.width, half) + 2 * half <= ctx.width
      /\ 2 * half <= ctx.height => Clamped(down, ctx.height, half) + 2 * half <= ctx.height
  BY <1>1, <1>5, <1>6, ClampedInside
<1> QED
  BY <1>6, <1>7, <1>8

(* The corner needs its rectangle to be one of the five.                   *)
RectsInv ==
  /\ ctx \in Screens
  /\ frame \in Nat
  /\ running = "rects" => index \in 0 .. 5
  /\ RectsOnScreen

(* Every frame keeps the rectangles drawn so far on the screen.            *)
LEMMA RectsInvInvariant == Spec => []RectsInv
<1>1. Init => RectsInv
  BY DEF Init, RectsInv, RectsOnScreen
<1>2. RectsInv /\ [Next]_vars => RectsInv'
  <2> SUFFICES ASSUME RectsInv, [Next]_vars
               PROVE  RectsInv'
    OBVIOUS
  <2>1. CASE StartBall \/ StartRects
    BY <2>1 DEF StartBall, StartRects, Start, RectsInv, RectsOnScreen
  <2>2. CASE StartWave
    BY <2>2 DEF StartWave, Start, RectsInv, RectsOnScreen
  <2>3. CASE DrawRect
    <3>1. /\ running = "rects" /\ index \in 0 .. 4
          /\ ctx' = ctx /\ frame' = frame /\ index' = index + 1
      BY <2>3 DEF DrawRect, RectsInv
    <3>2. \A d \in drawn' : d \in drawn \/ d = Rect
      BY <2>3 DEF DrawRect
    <3>3. RectsOnScreen'
      <4> SUFFICES ASSUME NEW d \in drawn', d.shape = "rect"
                   PROVE  /\ d.size <= ctx.width => d.x + d.size <= ctx.width
                          /\ d.size <= ctx.height => d.y + d.size <= ctx.height
        BY <3>1 DEF RectsOnScreen
      <4>1. CASE d \in drawn
        BY <4>1 DEF RectsInv, RectsOnScreen
      <4>2. CASE d = Rect
        BY <4>2, <3>1, RectInside DEF RectsInv
      <4> QED
        BY <3>2, <4>1, <4>2
    <3> QED
      BY <3>1, <3>3 DEF RectsInv
  <2>4. CASE RectsFrame
    <3>1. \A d \in drawn' : d \in drawn \/ d.shape = "text"
      BY <2>4 DEF RectsFrame
    <3>2. ctx' = ctx /\ frame' = frame + 2 /\ index' = 0
      BY <2>4 DEF RectsFrame
    <3> QED
      BY <3>1, <3>2 DEF RectsInv, RectsOnScreen
  <2>5. CASE BallFrame
    <3>1. \A d \in drawn' : d.shape = "disc" \/ d.shape = "text"
      BY <2>5 DEF BallFrame
    <3>2. ctx' = ctx /\ frame' = frame + 1 /\ running' # "rects"
      BY <2>5 DEF BallFrame
    <3> QED
      BY <3>1, <3>2 DEF RectsInv, RectsOnScreen
  <2>6. CASE WavePixel
    <3>1. \A d \in drawn' : d.shape = "pixel"
      BY <2>6 DEF WavePixel
    <3>2. ctx' = ctx /\ frame' = frame /\ running' # "rects"
      BY <2>6 DEF WavePixel
    <3> QED
      BY <3>1, <3>2 DEF RectsInv, RectsOnScreen
  <2>7. CASE WaveFrame
    BY <2>7 DEF WaveFrame, RectsInv, RectsOnScreen
  <2>8. CASE BallReturn \/ RectsReturn \/ WaveReturn
    BY <2>8 DEF BallReturn, RectsReturn, WaveReturn, Return, RectsInv, RectsOnScreen
  <2>9. CASE UNCHANGED vars
    BY <2>9 DEF vars, RectsInv, RectsOnScreen
  <2> QED
    BY <2>1, <2>2, <2>3, <2>4, <2>5, <2>6, <2>7, <2>8, <2>9 DEF Next, Ball, Rects, Waves
<1> QED
  BY <1>1, <1>2, PTL DEF Spec

(* Every rectangle that fits is drawn on the screen as a whole, though its *)
(* offset is the remainder of a product that wrapped.                      *)
THEOREM RectsOnScreenAlways == Spec => []RectsOnScreen
<1>1. RectsInv => RectsOnScreen
  BY DEF RectsInv
<1> QED
  BY <1>1, RectsInvInvariant, PTL

-----------------------------------------------------------------------------
(* The path of the ball *)

(* The way the ball has gone since it last left the wall at radius, on a   *)
(* round to the other wall and back                                        *)
Phase(n, extent) == (50 + n - radius) % (2 * (extent - 2 * radius))

Wide(extent) == extent % 2 = 0 /\ extent > 50 + radius

(* Two pixels on, the phase is two more, or the round is complete.         *)
LEMMA PhaseStep ==
  ASSUME NEW f \in Nat, NEW extent \in Nat, Wide(extent)
  PROVE  \E w \in Nat, d \in Nat :
           /\ extent = 2 * d + 40 /\ w < 2 * d /\ d > 15
           /\ Phase(2 * f, extent) = 2 * w
           /\ Phase(2 * (f + 1), extent) = IF w + 1 < 2 * d THEN 2 * (w + 1) ELSE 0
<1>1. PICK d \in Nat : extent = 2 * d + 40 /\ d > 15
  <2>1. extent \div 2 \in Nat /\ extent = 2 * (extent \div 2)
    BY DEF Wide
  <2>2. PICK h \in Nat : extent = 2 * h
    BY <2>1
  <2>3. h - 20 \in Nat /\ extent = 2 * (h - 20) + 40 /\ h - 20 > 15
    BY <2>2 DEF Wide, radius
  <2> QED
    BY <2>3
<1>2. PICK M \in Nat \ {0}, a \in Nat : M = 4 * d /\ a = 30 + 2 * f
  BY <1>1
<1>3. Phase(2 * f, extent) = a % M /\ Phase(2 * (f + 1), extent) = (a + 2) % M
  <2>1. /\ 2 * (extent - 2 * radius) = M
        /\ 50 + 2 * f - radius = a /\ 50 + 2 * (f + 1) - radius = a + 2
    BY <1>1, <1>2 DEF radius
  <2> QED
    BY <2>1 DEF Phase
<1>4. ASSUME NEW n \in Nat, NEW s \in 0 .. (M - 1), NEW b \in Nat, b = M * n + s
      PROVE  b % M = s
  <2>1. b \div M \in Nat /\ b % M \in 0 .. (M - 1) /\ b = M * (b \div M) + (b % M)
    BY Division
  <2>2. PICK k \in Nat, r \in 0 .. (M - 1) : k = b \div M /\ r = b % M
    BY <2>1
  <2>3. n * M + s = k * M + r
    BY <1>4, <2>1, <2>2
  <2>4. s = r
    BY <2>3, DigitsUnique
  <2> QED
    BY <2>2, <2>4
<1>5. PICK q \in Nat, r \in 0 .. (M - 1) : a = M * q + r /\ a % M = r
  BY Division
<1>6. PICK p \in Nat : p = d * q
  BY <1>1
<1>7. M * q = 4 * p /\ M * (q + 1) = 4 * p + M
  <2>1. (4 * d) * q = 4 * (d * q) /\ (4 * d) * (q + 1) = 4 * (d * q) + 4 * d
    OBVIOUS
  <2> QED
    BY <1>2, <1>6, <2>1
<1>8. PICK w \in Nat : r = 2 * w /\ w < 2 * d
  <2>1. 15 + f - 2 * p \in Nat /\ r = 2 * (15 + f - 2 * p) /\ 15 + f - 2 * p < 2 * d
    BY <1>2, <1>5, <1>7
  <2> QED
    BY <2>1
<1>9. (a + 2) % M = IF w + 1 < 2 * d THEN 2 * (w + 1) ELSE 0
  <2>1. CASE w + 1 < 2 * d
    <3>1. 2 * (w + 1) \in 0 .. (M - 1) /\ a + 2 \in Nat
      BY <1>2, <2>1
    <3>2. a + 2 = M * q + 2 * (w + 1)
      <4>1. a = 4 * p + 2 * w
        BY <1>5, <1>7, <1>8
      <4>2. a + 2 = 4 * p + 2 * (w + 1)
        BY <4>1
      <4> QED
        BY <1>7, <4>2
    <3>3. PICK s \in 0 .. (M - 1), b \in Nat : s = 2 * (w + 1) /\ b = a + 2
      BY <3>1
    <3>4. b = M * q + s
      BY <3>2, <3>3
    <3>5. b % M = s
      BY <1>4, <3>4
    <3> QED
      BY <2>1, <3>3, <3>5
  <2>2. CASE ~(w + 1 < 2 * d)
    <3>1. a + 2 = M * (q + 1) + 0 /\ 0 \in 0 .. (M - 1) /\ a + 2 \in Nat /\ q + 1 \in Nat
      BY <1>2, <1>5, <1>7, <1>8, <2>2
    <3>2. PICK n \in Nat, s \in 0 .. (M - 1), b \in Nat : n = q + 1 /\ s = 0 /\ b = a + 2
      BY <3>1
    <3>3. b = M * n + s
      BY <3>1, <3>2
    <3>4. b % M = s
      BY <1>4, <3>3
    <3> QED
      BY <2>2, <3>2, <3>4
  <2> QED
    BY <2>1, <2>2
<1> QED
  BY <1>1, <1>3, <1>5, <1>8, <1>9

(* One coordinate between its mirrors: where it is and where it goes       *)
OnPath(pos, v, f, extent) ==
  Wide(extent) =>
    /\ pos = Mirrored(2 * f, extent)
    /\ v = IF Phase(2 * f, extent) < extent - 2 * radius THEN 2 ELSE -2

(* The ball starts on its path.                                            *)
LEMMA PathStart ==
  ASSUME NEW extent \in Nat
  PROVE  OnPath(50, 2, 0, extent)
<1> SUFFICES ASSUME Wide(extent)
             PROVE  50 = Mirrored(2 * 0, extent) /\ Phase(2 * 0, extent) < extent - 2 * radius
  BY DEF OnPath
<1>1. 2 * (extent - 2 * radius) \in Nat /\ 2 * (extent - 2 * radius) > 60
  BY DEF Wide, radius
<1>2. Phase(2 * 0, extent) = 30
  BY <1>1 DEF Phase, radius
<1> QED
  BY <1>1, <1>2 DEF Mirrored, Phase, Wide, radius

(* A frame leads on along the path.                                        *)
LEMMA PathStep ==
  ASSUME NEW f \in Nat, NEW extent \in Nat, NEW pos, NEW v, OnPath(pos, v, f, extent)
  PROVE  OnPath(Kept(pos + v, extent), IF Hits(pos + v, extent) THEN -v ELSE v, f + 1, extent)
<1> SUFFICES ASSUME Wide(extent)
             PROVE  OnPath(Kept(pos + v, extent), IF Hits(pos + v, extent) THEN -v ELSE v,
                           f + 1, extent)
  BY DEF OnPath
<1>1. PICK w \in Nat, d \in Nat :
        /\ extent = 2 * d + 40 /\ w < 2 * d /\ d > 15
        /\ Phase(2 * f, extent) = 2 * w
        /\ Phase(2 * (f + 1), extent) = IF w + 1 < 2 * d THEN 2 * (w + 1) ELSE 0
  BY PhaseStep
<1>2. extent - 2 * radius = 2 * d /\ radius = 20
  BY <1>1 DEF radius
<1>3. ASSUME NEW n \in Nat, NEW p \in Nat, Phase(n, extent) = p
      PROVE  Mirrored(n, extent) = 20 + IF p <= 2 * d THEN p ELSE 4 * d - p
  BY <1>1, <1>2, <1>3 DEF Mirrored, Phase
<1>4. /\ pos = 20 + IF 2 * w <= 2 * d THEN 2 * w ELSE 4 * d - 2 * w
      /\ v = IF 2 * w < 2 * d THEN 2 ELSE -2
  <2>1. 2 * f \in Nat /\ 2 * w \in Nat
    OBVIOUS
  <2> QED
    BY <1>1, <1>2, <1>3, <2>1 DEF OnPath
<1>5. CASE w + 1 < 2 * d
  <2>1. Phase(2 * (f + 1), extent) = 2 * (w + 1) /\ 2 * (w + 1) \in Nat /\ 2 * (f + 1) \in Nat
    BY <1>1, <1>5
  <2>2. Mirrored(2 * (f + 1), extent)
          = 20 + IF 2 * (w + 1) <= 2 * d THEN 2 * (w + 1) ELSE 4 * d - 2 * (w + 1)
    BY <1>3, <2>1
  <2>3. /\ Kept(pos + v, extent)
             = 20 + IF 2 * (w + 1) <= 2 * d THEN 2 * (w + 1) ELSE 4 * d - 2 * (w + 1)
        /\ (IF Hits(pos + v, extent) THEN -v ELSE v)
             = IF 2 * (w + 1) < 2 * d THEN 2 ELSE -2
    <3>1. CASE w < d
      <4>1. pos + v = 22 + 2 * w /\ v = 2
        BY <1>4, <3>1
      <4>2. Kept(22 + 2 * w, 2 * d + 40) = 22 + 2 * w /\ (Hits(22 + 2 * w, 2 * d + 40) <=> w + 1 = d)
        BY <1>1, <3>1 DEF Kept, Hits, radius
      <4> QED
        BY <1>1, <3>1, <4>1, <4>2
    <3>2. CASE ~(w < d)
      <4>1. pos + v = 18 + 4 * d - 2 * w /\ v = -2
        BY <1>4, <3>2
      <4>2. /\ Kept(18 + 4 * d - 2 * w, 2 * d + 40) = 18 + 4 * d - 2 * w
            /\ ~Hits(18 + 4 * d - 2 * w, 2 * d + 40)
        BY <1>1, <1>5, <3>2 DEF Kept, Hits, radius
      <4> QED
        BY <1>1, <3>2, <4>1, <4>2
    <3> QED
      BY <3>1, <3>2
  <2> QED
    BY <1>2, <2>1, <2>2, <2>3 DEF OnPath
<1>6. CASE ~(w + 1 < 2 * d)
  <2>1. Phase(2 * (f + 1), extent) = 0 /\ 2 * (f + 1) \in Nat
    BY <1>1, <1>6
  <2>2. Mirrored(2 * (f + 1), extent) = 20
    <3>1. PICK n \in Nat : n = 2 * (f + 1) /\ Phase(n, extent) = 0
      BY <2>1
    <3>2. Mirrored(n, extent) = 20 + IF 0 <= 2 * d THEN 0 ELSE 4 * d - 0
      BY <1>3, <3>1
    <3> QED
      BY <1>1, <3>1, <3>2
  <2>3. Kept(pos + v, extent) = 20 /\ (IF Hits(pos + v, extent) THEN -v ELSE v) = 2
    <3>1. extent = 2 * d + 40 /\ d \in Nat /\ d > 15
      BY <1>1
    <3>2. Kept(20, extent) = 20 /\ Hits(20, extent)
      BY <3>1 DEF Kept, Hits, radius
    <3>3. pos + v = 20 /\ -v = 2
      <4>1. w = 2 * d - 1
        BY <1>1, <1>6
      <4>2. ~(2 * w <= 2 * d) /\ ~(2 * w < 2 * d) /\ 4 * d - 2 * w = 2
        BY <3>1, <4>1
      <4>3. pos = 22 /\ v = -2
        BY <1>4, <4>2
      <4>4. v \in Int /\ v + 2 = 0 /\ pos + v = 20
        BY <4>3
      <4> QED
        BY <4>4
    <3> QED
      BY <3>2, <3>3
  <2> QED
    BY <1>1, <1>2, <2>1, <2>2, <2>3 DEF OnPath
<1> QED
  BY <1>5, <1>6

PathInv ==
  /\ ctx \in Screens
  /\ frame \in Nat
  /\ running = "ball" =>
       /\ OnPath(ball.x, ball.vx, frame, ctx.width)
       /\ OnPath(ball.y, ball.vy, frame, ctx.height)

(* Every frame keeps the ball on its path.                                 *)
LEMMA PathInvInvariant == Spec => []PathInv
<1>1. Init => PathInv
  BY DEF Init, PathInv
<1>2. PathInv /\ [Next]_vars => PathInv'
  <2> SUFFICES ASSUME PathInv, [Next]_vars
               PROVE  PathInv'
    OBVIOUS
  <2>1. CASE StartBall
    <3>1. /\ ctx' = ctx /\ frame' = 0
          /\ ball'.x = 50 /\ ball'.y = 50 /\ ball'.vx = 2 /\ ball'.vy = 2
      BY <2>1 DEF StartBall, Start, BallStart
    <3>2. ctx.width \in Nat /\ ctx.height \in Nat
      BY ScreenType DEF PathInv
    <3>3. OnPath(50, 2, 0, ctx.width) /\ OnPath(50, 2, 0, ctx.height)
      BY <3>2, PathStart
    <3> QED
      BY <3>1, <3>3 DEF PathInv
  <2>2. CASE BallFrame
    <3> DEFINE x == Kept(ball.x + ball.vx, ctx.width)
               y == Kept(ball.y + ball.vy, ctx.height)
               vx == IF Hits(ball.x + ball.vx, ctx.width) THEN -ball.vx ELSE ball.vx
               vy == IF Hits(ball.y + ball.vy, ctx.height) THEN -ball.vy ELSE ball.vy
    <3>1. running = "ball" /\ ctx' = ctx /\ frame' = frame + 1
      BY <2>2 DEF BallFrame
    <3>2. ball'.x = x /\ ball'.y = y /\ ball'.vx = vx /\ ball'.vy = vy
      BY <2>2 DEF BallFrame
    <3>3. ctx.width \in Nat /\ ctx.height \in Nat /\ frame \in Nat
      BY ScreenType DEF PathInv
    <3>4. OnPath(x, vx, frame + 1, ctx.width) /\ OnPath(y, vy, frame + 1, ctx.height)
      BY <3>1, <3>3, PathStep DEF PathInv
    <3> HIDE DEF x, y, vx, vy
    <3> QED
      BY <3>1, <3>2, <3>3, <3>4 DEF PathInv
  <2>3. CASE StartRects \/ StartWave
    BY <2>3 DEF StartRects, StartWave, Start, PathInv
  <2>4. CASE BallReturn \/ RectsReturn \/ WaveReturn
    BY <2>4 DEF BallReturn, RectsReturn, WaveReturn, Return, PathInv
  <2>5. CASE DrawRect \/ RectsFrame \/ WavePixel \/ WaveFrame
    BY <2>5 DEF DrawRect, RectsFrame, WavePixel, WaveFrame, PathInv
  <2>6. CASE UNCHANGED vars
    BY <2>6 DEF vars, PathInv
  <2> QED
    BY <2>1, <2>2, <2>3, <2>4, <2>5, <2>6 DEF Next, Ball, Rects, Waves
<1> QED
  BY <1>1, <1>2, PTL DEF Spec

(* In every frame on every screen of even, sufficient size the ball is     *)
(* where mirrors at its radius from the walls would have thrown it.        *)
THEOREM BallMirroredAlways == Spec => []BallMirrored
<1>1. PathInv => BallMirrored
  BY DEF PathInv, OnPath, Wide, BallMirrored
<1> QED
  BY <1>1, PathInvInvariant, PTL

-----------------------------------------------------------------------------
(* Where the rectangles are *)

(* The formula is at most 1000, which it is at 90 degrees.                 *)
LEMMA BhaskaraBound ==
  ASSUME NEW x \in Nat, x <= 180
  PROVE  Bhaskara(x) \in Nat /\ Bhaskara(x) <= 1000
<1>1. PICK p \in Nat : p = x * (180 - x) /\ p <= 8100
  <2>1. x * (180 - x) \in Nat
    OBVIOUS
  <2>2. (90 - x) * (90 - x) \in Nat /\ (90 - x) * (90 - x) = 8100 - x * (180 - x)
    OBVIOUS
  <2> QED
    BY <2>1, <2>2
<1>2. Bhaskara(x) = (4000 * p) \div (40500 - p)
  <2>1. 4 * x * (180 - x) * 1000 = 4000 * (x * (180 - x))
    OBVIOUS
  <2>2. Bhaskara(x) = Quot(4000 * p, 40500 - p)
    BY <1>1, <2>1 DEF Bhaskara
  <2>3. 4000 * p >= 0
    BY <1>1
  <2> QED
    BY <2>2, <2>3 DEF Quot
<1>3. PICK d \in Nat \ {0}, a \in Nat : d = 40500 - p /\ a = 4000 * p /\ a < 1001 * d
  <2>1. /\ 40500 - p \in Nat \ {0} /\ 4000 * p \in Nat
        /\ 4000 * p < 1001 * (40500 - p)
    BY <1>1
  <2> QED
    BY <2>1
<1>4. PICK q \in Nat, r \in 0 .. (d - 1) : q = a \div d /\ a = d * q + r
  BY Division
<1>5. d * q < d * 1001
  BY <1>3, <1>4
<1>6. q <= 1000
  <2>1. 1000 + 1 = 1001 /\ q \in Int /\ 1000 \in Int
    OBVIOUS
  <2> QED
    BY <1>5, <2>1, Multiples
<1> QED
  BY <1>2, <1>3, <1>4, <1>6

Sine(n) == n \in Int /\ 0 <= n + 1000 /\ n <= 1000

(* A sine is at most 1000 in magnitude, at every angle.                    *)
LEMMA SineBound ==
  ASSUME NEW a \in Int
  PROVE  Sine(math_sin(a)) /\ Sine(math_cos(a))
<1>1. ASSUME NEW b \in Int
      PROVE  Sine(math_sin(b))
  <2>1. CASE b \in DOMAIN Special
    <3>1. Special[b] \in Nat /\ Special[b] <= 1000
      <4>1. b \in {0, 30, 45, 60, 90}
        BY <2>1 DEF Special
      <4>2. Special[0] = 0 /\ Special[90] = 1000 /\ Special[60] = 866 /\ Special[45] = 707
        BY DEF Special
      <4>3. Special[30] = 1 \div 2 /\ 1 \div 2 = 0
        BY DEF Special, Quot
      <4> QED
        BY <4>1, <4>2, <4>3
    <3>2. math_sin(b) = Special[b]
      BY <2>1 DEF math_sin
    <3> QED
      BY <3>1, <3>2 DEF Sine
  <2>2. CASE b \notin DOMAIN Special
    <3>1. Normal(b) \in 0 .. 359
      BY NormalType
    <3>2. CASE Normal(b) >= 180
      <4>1. PICK s \in 0 .. 1000 : s = Bhaskara(Normal(b) - 180)
        <5>1. PICK x \in Nat : x <= 180 /\ x = Normal(b) - 180
          BY <3>1, <3>2
        <5>2. Bhaskara(x) \in Nat /\ Bhaskara(x) <= 1000
          BY <5>1, BhaskaraBound
        <5> QED
          BY <5>1, <5>2
      <4>2. math_sin(b) = -s
        BY <2>2, <3>2, <4>1 DEF math_sin
      <4> QED
        BY <4>2 DEF Sine
    <3>3. CASE ~(Normal(b) >= 180)
      <4>1. Bhaskara(Normal(b)) \in 0 .. 1000
        <5>1. PICK x \in Nat : x <= 180 /\ x = Normal(b)
          BY <3>1, <3>3
        <5>2. Bhaskara(x) \in Nat /\ Bhaskara(x) <= 1000
          BY <5>1, BhaskaraBound
        <5> QED
          BY <5>1, <5>2
      <4>2. math_sin(b) = Bhaskara(Normal(b))
        BY <2>2, <3>3 DEF math_sin
      <4> QED
        BY <4>1, <4>2 DEF Sine
    <3> QED
      BY <3>2, <3>3
  <2> QED
    BY <2>1, <2>2
<1>2. PICK c \in Int : c = a + 90
  OBVIOUS
<1>3. math_cos(a) = math_sin(c)
  BY <1>2 DEF math_cos
<1> QED
  BY <1>1, <1>3

(* What the offset of a rectangle stands for, and what it is               *)
Reach(d, sine) == (d * sine) \div 1000

Shift(d, sine) == AsInt(Unsigned(d * sine) \div 1000)

Far(d) == d \in Nat /\ 50 <= d /\ d <= 170

(* For a sine that is not negative the offset is the distance it stands for. *)
LEMMA OffsetForward ==
  ASSUME NEW d \in Nat, Far(d), NEW sine \in Nat, sine <= 1000
  PROVE  Shift(d, sine) = Reach(d, sine) /\ Reach(d, sine) \in 0 .. 170
<1>1. Wrap \in Nat /\ Wrap > 1000000
  BY AnimationsAssumption
<1>2. PICK n \in Nat : n = d * sine /\ n <= 170000
  <2>1. PICK e \in Nat : 1000 = sine + e
    <3>1. 1000 - sine \in Nat /\ 1000 = sine + (1000 - sine)
      OBVIOUS
    <3> QED
      BY <3>1
  <2>2. d * sine \in Nat /\ d * e \in Nat /\ d * 1000 = d * sine + d * e
    BY <2>1
  <2> QED
    BY <2>2 DEF Far
<1>3. Unsigned(n) = n
  BY <1>1, <1>2 DEF Unsigned
<1>4. n \div 1000 \in 0 .. 170 /\ n \div 1000 < Wrap \div 2
  BY <1>1, <1>2
<1> QED
  BY <1>2, <1>3, <1>4 DEF Shift, Reach, AsInt

Nearest(pos, extent, half) ==
  IF pos - half > extent - 2 * half THEN extent - 2 * half
  ELSE IF pos - half < 0 THEN 0 ELSE pos - half

(* The corner that Clamped leaves is the nearest one on the screen.        *)
LEMMA ClampedValue ==
  ASSUME NEW half \in Nat, NEW pos \in Int, NEW extent \in Nat,
         2 * half <= extent, extent < Wrap
  PROVE  Clamped(pos, extent, half) = Nearest(pos, extent, half)
<1> DEFINE low == IF pos < half THEN half ELSE pos
           high == extent - half
           at == (IF low > high THEN high ELSE low) - half
<1>1. at \in Nat /\ at + 2 * half <= extent
  OBVIOUS
<1>2. at % Wrap = at
  <2>1. at < Wrap
    BY <1>1, AnimationsAssumption
  <2> HIDE DEF at
  <2> QED
    BY <1>1, <2>1, AnimationsAssumption
<1>3. Clamped(pos, extent, half) = at
  BY <1>2 DEF Clamped, Unsigned
<1>4. at = Nearest(pos, extent, half)
  BY DEF Nearest
<1> QED
  BY <1>3, <1>4

Stands(extent, half, d, sine) ==
  Clamped(extent \div 2 + Shift(d, sine), extent, half)
    = Nearest(extent \div 2 + Reach(d, sine), extent, half)

(* A rectangle stands at its distance where its sine is not negative.      *)
LEMMA CornerValue ==
  ASSUME NEW extent \in Nat, NEW half \in Nat, 2 * half <= extent, extent < Wrap,
         NEW d \in Nat, Far(d), NEW sine \in Nat, sine <= 1000
  PROVE  Stands(extent, half, d, sine)
<1>1. PICK c \in Nat : c = extent \div 2
  <2>1. extent \div 2 \in Nat
    OBVIOUS
  <2> QED
    BY <2>1
<1>2. PICK o \in 0 .. 170 : o = Reach(d, sine) /\ o = Shift(d, sine)
  <2>1. Shift(d, sine) = Reach(d, sine) /\ Reach(d, sine) \in 0 .. 170
    BY OffsetForward
  <2> QED
    BY <2>1
<1>3. PICK pos \in Int : pos = c + o
  OBVIOUS
<1>4. Clamped(pos, extent, half) = Nearest(pos, extent, half)
  BY ClampedValue
<1> QED
  BY <1>1, <1>2, <1>3, <1>4 DEF Stands

(* A rectangle that fits on the screen stands where its sine puts it, or   *)
(* at the nearest place on the screen, on every axis on which the sine is  *)
(* not negative.                                                           *)
THEOREM RectsTurnForwardAlways == Spec => []RectsTurnForward
<1>1. RectsInv => RectsTurnForward
  <2> SUFFICES ASSUME RectsInv, running = "rects", index < 5
               PROVE  /\ size <= ctx.width /\ math_cos(angle) >= 0
                           => Rect.x = Turned(math_cos(angle), cx, ctx.width)
                      /\ size <= ctx.height /\ math_sin(angle) >= 0
                           => Rect.y = Turned(math_sin(angle), cy, ctx.height)
    BY DEF RectsTurnForward
  <2>1. /\ ctx.width \in Nat /\ ctx.width < Wrap
        /\ ctx.height \in Nat /\ ctx.height < Wrap
    BY ScreenType DEF RectsInv
  <2>2. PICK half \in Nat, d \in Nat :
          Far(d) /\ size = 2 * half /\ size \div 2 = half /\ distance = d
    <3>1. PICK i \in 0 .. 4 : i = index
      BY DEF RectsInv
    <3>2. /\ 15 + i * 10 \in Nat /\ size = 2 * (15 + i * 10)
          /\ size \div 2 = 15 + i * 10
          /\ distance = 50 + i * 30 /\ 50 + i * 30 \in Nat /\ Far(50 + i * 30)
      BY <3>1 DEF size, distance, Far
    <3> QED
      BY <3>2
  <2>3. PICK cosine \in Int, sine \in Int :
          /\ Sine(cosine) /\ Sine(sine)
          /\ cosine = math_cos(angle) /\ sine = math_sin(angle)
    <3>1. PICK a \in Int : a = angle
      BY DEF RectsInv, angle
    <3>2. Sine(math_cos(a)) /\ Sine(math_sin(a))
      BY SineBound
    <3> QED
      BY <3>1, <3>2 DEF Sine
  <2>4. /\ Rect.x = Clamped(ctx.width \div 2 + Shift(d, cosine), ctx.width, half)
        /\ Rect.y = Clamped(ctx.height \div 2 + Shift(d, sine), ctx.height, half)
    BY <2>2, <2>3 DEF Rect, Corner, Clamped, Offset, Shift, cx, cy
  <2>5. ASSUME NEW s \in Int, Sine(s), s >= 0, NEW extent \in Nat,
               extent < Wrap, size <= extent
        PROVE  Clamped(extent \div 2 + Shift(d, s), extent, half)
                 = Turned(s, extent \div 2, extent)
    <3>1. Stands(extent, half, d, s)
      <4>1. s \in Nat /\ s <= 1000 /\ 2 * half <= extent
        BY <2>2, <2>5 DEF Sine
      <4> QED
        BY <2>2, <2>5, <4>1, CornerValue
    <3>2. PICK n \in Nat : n = d * s
      BY <2>2, <2>5
    <3>3. Quot(distance * s, 1000) = Reach(d, s)
      BY <2>2, <3>2 DEF Quot, Reach
    <3>4. PICK r \in Int, c \in Int : r = Reach(d, s) /\ c = extent \div 2
      <4>1. n \div 1000 \in Int /\ extent \div 2 \in Int
        BY <3>2, <2>5
      <4> QED
        BY <3>2, <4>1 DEF Reach
    <3>5. Turned(s, c, extent) = Nearest(c + r, extent, half)
      BY <2>2, <3>3, <3>4 DEF Turned, Nearest
    <3> QED
      BY <3>1, <3>4, <3>5 DEF Stands
  <2>6. size <= ctx.width /\ math_cos(angle) >= 0
          => Rect.x = Turned(math_cos(angle), cx, ctx.width)
    BY <2>1, <2>3, <2>4, <2>5 DEF cx
  <2>7. size <= ctx.height /\ math_sin(angle) >= 0
          => Rect.y = Turned(math_sin(angle), cy, ctx.height)
    BY <2>1, <2>3, <2>4, <2>5 DEF cy
  <2> QED
    BY <2>6, <2>7
<1> QED
  BY <1>1, RectsInvInvariant, PTL

-----------------------------------------------------------------------------
(* The circle and the colours *)

(* The even angles of a quarter turn; the rectangles come to no odd ones.  *)
QuarterTurn == {0, 2, 4, 6, 8, 10, 12, 14, 16, 18, 20, 22, 24, 26, 28, 30, 32, 34, 36, 38, 40, 42,
                44, 46, 48, 50, 52, 54, 56, 58, 60, 62, 64, 66, 68, 70, 72, 74, 76, 78, 80, 82, 84,
                86, 88}

(* A place at a distance from the centre of about 1000, within one percent *)
(* of its square                                                           *)
NearUnit(s, c) == 990000 <= s * s + c * c /\ s * s + c * c <= 1010000

(* The formula and its value a right angle further are on the circle: by   *)
(* their evaluation.                                                       *)
LEMMA QuarterOnCircle ==
  ASSUME NEW t \in QuarterTurn
  PROVE  NearUnit(Bhaskara(t), Bhaskara(t + 90))
BY SMTT(60) DEF QuarterTurn, NearUnit, Bhaskara, Quot

NearUnitAround(s, c) ==
  NearUnit(s, c) /\ NearUnit(c, -s) /\ NearUnit(-s, -c) /\ NearUnit(-c, s)

(* The order and the signs of the two do not matter.                       *)
LEMMA NearUnitSigns ==
  ASSUME NEW s \in Nat, NEW c \in Nat, NearUnit(s, c)
  PROVE  NearUnitAround(s, c)
<1>1. s * s \in Nat /\ c * c \in Nat /\ (-s) * (-s) = s * s /\ (-c) * (-c) = c * c
  OBVIOUS
<1> QED
  BY <1>1 DEF NearUnit, NearUnitAround

(* The values at an angle of a quarter turn and a right angle further      *)
Around(t) ==
  \E s \in Nat, c \in Nat : s = Bhaskara(t) /\ c = Bhaskara(t + 90) /\ NearUnitAround(s, c)

(* In every quarter of the turn they are on the circle.                    *)
LEMMA QuarterAround ==
  ASSUME NEW t \in QuarterTurn
  PROVE  Around(t)
<1>1. NearUnit(Bhaskara(t), Bhaskara(t + 90))
  BY QuarterOnCircle
<1>2. PICK u \in Nat : u = t + 90 /\ u <= 180 /\ t \in Nat /\ t <= 180
  BY DEF QuarterTurn
<1>3. Bhaskara(t) \in Nat /\ Bhaskara(u) \in Nat
  BY <1>2, BhaskaraBound
<1>4. PICK s \in Nat, c \in Nat : s = Bhaskara(t) /\ c = Bhaskara(u)
  BY <1>3
<1>5. NearUnit(s, c)
  BY <1>1, <1>2, <1>4
<1>6. NearUnitAround(s, c)
  BY <1>5, NearUnitSigns
<1> QED
  BY <1>2, <1>4, <1>6 DEF Around

(* A remainder is what is left of a whole number of turns.                 *)
LEMMA NormalRest ==
  ASSUME NEW n \in 0 .. 359, NEW q \in Nat
  PROVE  Normal(360 * q + n) = n
<1>1. PICK a \in Nat : a = 360 * q + n
  OBVIOUS
<1>2. a \div 360 = q
  BY <1>1
<1>3. Rem(a, 360) = n
  BY <1>1, <1>2 DEF Rem, Quot
<1> QED
  BY <1>1, <1>3 DEF Normal

(* Sine and cosine at the even angles the code answers by the formula      *)
LEMMA FormulaOnCircle ==
  ASSUME NEW h \in Nat, NEW a \in Nat, a = 2 * h, a \notin {0, 30, 60, 90}
  PROVE  NearUnit(math_sin(a), math_cos(a))
<1>1. PICK q \in Nat, n \in 0 .. 359, k \in Nat : a = 360 * q + n /\ n = 2 * k
  <2>1. PICK q \in Nat, n \in 0 .. 359 : a = 360 * q + n
    <3>1. a \div 360 \in Nat /\ a % 360 \in 0 .. 359 /\ a = 360 * (a \div 360) + (a % 360)
      OBVIOUS
    <3> QED
      BY <3>1
  <2>2. h - 180 * q \in Nat /\ n = 2 * (h - 180 * q)
    BY <2>1
  <2> QED
    BY <2>1, <2>2
<1>2. a \notin DOMAIN Special /\ a + 90 \notin DOMAIN Special
  BY DEF Special
<1>3. math_sin(a) = IF n >= 180 THEN -Bhaskara(n - 180) ELSE Bhaskara(n)
  <2>1. Normal(a) = n
    BY <1>1, NormalRest
  <2> QED
    BY <1>2, <2>1 DEF math_sin
<1>4. math_cos(a) = IF n < 90 THEN Bhaskara(n + 90)
                    ELSE IF n < 270 THEN -Bhaskara(n - 90) ELSE Bhaskara(n - 270)
  <2>1. CASE n < 270
    <3>1. PICK m \in 0 .. 359 : m = n + 90
      BY <2>1
    <3>2. Normal(360 * q + m) = m
      BY NormalRest
    <3>3. Normal(a + 90) = m
      <4>1. a + 90 = 360 * q + m
        BY <1>1, <3>1
      <4> QED
        BY <3>2, <4>1
    <3>4. math_sin(a + 90) = IF m >= 180 THEN -Bhaskara(m - 180) ELSE Bhaskara(m)
      BY <1>2, <3>3 DEF math_sin
    <3>5. m - 180 = n - 90 /\ (m >= 180 <=> ~(n < 90))
      BY <3>1
    <3> QED
      BY <2>1, <3>1, <3>4, <3>5 DEF math_cos
  <2>2. CASE ~(n < 270)
    <3>1. PICK m \in 0 .. 359, p \in Nat : m = n - 270 /\ p = q + 1 /\ m < 180 /\ ~(n < 90)
      BY <2>2
    <3>2. Normal(360 * p + m) = m
      BY NormalRest
    <3>3. Normal(a + 90) = m
      <4>1. a + 90 = 360 * p + m
        BY <1>1, <3>1
      <4> QED
        BY <3>2, <4>1
    <3>4. math_sin(a + 90) = Bhaskara(m)
      BY <1>2, <3>1, <3>3 DEF math_sin
    <3> QED
      BY <2>2, <3>1, <3>4 DEF math_cos
  <2> QED
    BY <2>1, <2>2
<1>5. CASE n < 90
  <2>1. PICK t \in QuarterTurn : n = t
    <3>1. k \in 0 .. 44 /\ n = 2 * k
      BY <1>1, <1>5
    <3>2. 2 * k \in QuarterTurn
      BY <3>1 DEF QuarterTurn
    <3> QED
      BY <3>1, <3>2
  <2>2. Around(t)
    BY QuarterAround
  <2>3. PICK s \in Nat, c \in Nat :
          s = Bhaskara(t) /\ c = Bhaskara(t + 90) /\ NearUnitAround(s, c)
    BY <2>2 DEF Around
  <2>4. t \in Nat
    BY DEF QuarterTurn
  <2> QED
    BY <1>3, <1>4, <1>5, <2>1, <2>3, <2>4 DEF NearUnitAround
<1>6. CASE 90 <= n /\ n < 180
  <2>1. PICK t \in QuarterTurn : n = t + 90
    <3>1. k - 45 \in 0 .. 44 /\ n = 2 * (k - 45) + 90
      BY <1>1, <1>6
    <3>2. 2 * (k - 45) \in QuarterTurn
      BY <3>1 DEF QuarterTurn
    <3> QED
      BY <3>1, <3>2
  <2>2. Around(t)
    BY QuarterAround
  <2>3. PICK s \in Nat, c \in Nat :
          s = Bhaskara(t) /\ c = Bhaskara(t + 90) /\ NearUnitAround(s, c)
    BY <2>2 DEF Around
  <2>4. t \in Nat
    BY DEF QuarterTurn
  <2> QED
    BY <1>3, <1>4, <1>6, <2>1, <2>3, <2>4 DEF NearUnitAround
<1>7. CASE 180 <= n /\ n < 270
  <2>1. PICK t \in QuarterTurn : n = t + 180
    <3>1. k - 90 \in 0 .. 44 /\ n = 2 * (k - 90) + 180
      BY <1>1, <1>7
    <3>2. 2 * (k - 90) \in QuarterTurn
      BY <3>1 DEF QuarterTurn
    <3> QED
      BY <3>1, <3>2
  <2>2. Around(t)
    BY QuarterAround
  <2>3. PICK s \in Nat, c \in Nat :
          s = Bhaskara(t) /\ c = Bhaskara(t + 90) /\ NearUnitAround(s, c)
    BY <2>2 DEF Around
  <2>4. t \in Nat
    BY DEF QuarterTurn
  <2> QED
    BY <1>3, <1>4, <1>7, <2>1, <2>3, <2>4 DEF NearUnitAround
<1>8. CASE 270 <= n
  <2>1. PICK t \in QuarterTurn : n = t + 270
    <3>1. k - 135 \in 0 .. 44 /\ n = 2 * (k - 135) + 270
      BY <1>1, <1>8
    <3>2. 2 * (k - 135) \in QuarterTurn
      BY <3>1 DEF QuarterTurn
    <3> QED
      BY <3>1, <3>2
  <2>2. Around(t)
    BY QuarterAround
  <2>3. PICK s \in Nat, c \in Nat :
          s = Bhaskara(t) /\ c = Bhaskara(t + 90) /\ NearUnitAround(s, c)
    BY <2>2 DEF Around
  <2>4. t \in Nat
    BY DEF QuarterTurn
  <2> QED
    BY <1>3, <1>4, <1>8, <2>1, <2>3, <2>4 DEF NearUnitAround
<1> QED
  BY <1>5, <1>6, <1>7, <1>8

(* At the angles answered before, all but 30 degrees are on the circle.    *)
LEMMA SpecialOnCircle ==
  /\ NearUnit(math_sin(0), math_cos(0))
  /\ NearUnit(math_sin(60), math_cos(60))
  /\ NearUnit(math_sin(90), math_cos(90))
<1>1. math_sin(0) = 0 /\ math_sin(60) = 866 /\ math_sin(90) = 1000
  BY DEF math_sin, Special
<1>2. math_sin(150) = 500 /\ math_sin(180) = 0
  <2>1. Normal(150) = 150 /\ Normal(180) = 180
    BY DEF Normal, Rem, Quot
  <2>2. Bhaskara(150) = 500 /\ Bhaskara(0) = 0
    BY DEF Bhaskara, Quot
  <2>4. PICK z \in Int : z = Bhaskara(0) /\ -z = 0
    BY <2>2
  <2>3. 150 \notin DOMAIN Special /\ 180 \notin DOMAIN Special /\ 180 - 180 = 0
    BY DEF Special
  <2> QED
    BY <2>1, <2>2, <2>3, <2>4 DEF math_sin
<1>3. math_cos(0) = 1000 /\ math_cos(60) = 500 /\ math_cos(90) = 0
  BY <1>1, <1>2 DEF math_cos
<1> QED
  BY <1>1, <1>3 DEF NearUnit

(* On the circle, at every even angle but 30 degrees                       *)
LEMMA OnCircle ==
  ASSUME NEW h \in Nat, NEW a \in Nat, a = 2 * h, a # 30
  PROVE  NearUnit(math_sin(a), math_cos(a))
<1>1. CASE a \in {0, 60, 90}
  BY <1>1, SpecialOnCircle
<1>2. CASE a \notin {0, 30, 60, 90}
  BY <1>2, FormulaOnCircle
<1> QED
  BY <1>1, <1>2

(* A byte of a colour is one, for every number of a sine's size.           *)
LEMMA ByteType ==
  ASSUME NEW v \in Int, Sine(v)
  PROVE  Byte(v) \in 0 .. 255
<1>1. ASSUME NEW n \in Nat, n <= 127000
      PROVE  n \div 1000 \in 0 .. 127
  BY <1>1
<1>2. CASE v >= 0
  <2>1. PICK n \in Nat : n = v * 127 /\ n <= 127000
    BY <1>2 DEF Sine
  <2>2. Quot(n, 1000) = n \div 1000
    BY DEF Quot
  <2> QED
    BY <1>1, <2>1, <2>2 DEF Byte
<1>3. CASE ~(v >= 0)
  <2>1. PICK n \in Nat : n = -(v * 127) /\ n <= 127000 /\ ~(v * 127 >= 0)
    BY <1>3 DEF Sine
  <2>2. Quot(v * 127, 1000) = -(n \div 1000)
    BY <2>1 DEF Quot
  <2>3. PICK q \in 0 .. 127 : q = n \div 1000
    BY <1>1, <2>1
  <2> QED
    BY <2>2, <2>3 DEF Byte
<1> QED
  BY <1>2, <1>3

(* So is a thousandth of the product of two sines.                         *)
LEMMA SineProduct ==
  ASSUME NEW v \in Int, NEW w \in Int, Sine(v), Sine(w)
  PROVE  Sine(Quot(v * w, 1000))
<1>1. PICK a \in Nat, b \in Nat : a <= 1000 /\ b <= 1000 /\ v \in {a, -a} /\ w \in {b, -b}
  <2>1. PICK a \in Nat : a <= 1000 /\ v \in {a, -a}
    <3>1. CASE v >= 0
      BY <3>1 DEF Sine
    <3>2. CASE ~(v >= 0)
      <4>1. -v \in Nat /\ -v <= 1000 /\ v = -(-v)
        BY <3>2 DEF Sine
      <4> QED
        BY <4>1
    <3> QED
      BY <3>1, <3>2
  <2>2. PICK b \in Nat : b <= 1000 /\ w \in {b, -b}
    <3>1. CASE w >= 0
      BY <3>1 DEF Sine
    <3>2. CASE ~(w >= 0)
      <4>1. -w \in Nat /\ -w <= 1000 /\ w = -(-w)
        BY <3>2 DEF Sine
      <4> QED
        BY <4>1
    <3> QED
      BY <3>1, <3>2
  <2> QED
    BY <2>1, <2>2
<1>2. PICK n \in Nat : n = a * b /\ n <= 1000000
  <2>1. a * b \in Nat /\ a * b <= 1000 * b
    BY <1>1, TimesMonotone
  <2> QED
    BY <1>1, <2>1
<1>3. v * w = n \/ v * w = -n
  <2>1. a * b = n /\ (-a) * b = -n /\ a * (-b) = -n /\ (-a) * (-b) = n
    BY <1>2
  <2> QED
    BY <1>1, <2>1
<1>4. n \div 1000 \in 0 .. 1000
  BY <1>2
<1>5. PICK q \in Nat : q = n \div 1000 /\ q <= 1000
  BY <1>4
<1>6. Quot(n, 1000) = q /\ (Quot(-n, 1000) = -q \/ Quot(-n, 1000) = q)
  <2>1. CASE n = 0
    BY <1>5, <2>1 DEF Quot
  <2>2. CASE n # 0
    <3>1. ~(-n >= 0) /\ n >= 0 /\ -(-n) = n
      BY <2>2
    <3> QED
      BY <1>5, <3>1 DEF Quot
  <2> QED
    BY <2>1, <2>2
<1> QED
  BY <1>3, <1>5, <1>6 DEF Sine

(* Every pixel of the wave has a colour of three bytes.                    *)
LEMMA WaveBytes ==
  ASSUME ctx \in Screens, frame \in Nat, index \in Nat
  PROVE  \A i \in 1 .. 3 : Rgb[i] \in 0 .. 255
<1>1. PICK w \in Nat \ {0} : w = ctx.width
  BY ScreenType
<1>2. px \in Nat /\ py \in Nat
  <2>1. index % w \in 0 .. (w - 1) /\ index \div w \in Nat
    BY Division
  <2> QED
    BY <1>1, <2>1 DEF px, py
<1>3. PICK a \in Int, b \in Int, c \in Int, d \in Int :
        /\ a = (px + frame * 2) \div 4 /\ b = (py + frame) \div 3
        /\ c = frame + px \div 8 /\ d = frame + py \div 8
  <2>1. ASSUME NEW n \in Nat
        PROVE  n \div 4 \in Int /\ n \div 3 \in Int /\ n \div 8 \in Int
    OBVIOUS
  <2>2. px + frame * 2 \in Nat /\ py + frame \in Nat
    BY <1>2
  <2> QED
    BY <1>2, <2>1, <2>2
<1>4. Sine(math_sin(a)) /\ Sine(math_sin(b)) /\ Sine(math_sin(c)) /\ Sine(math_cos(d))
  BY SineBound
<1>5. PICK u \in Int, v \in Int : u = math_sin(a) /\ v = math_sin(b) /\ Sine(u) /\ Sine(v)
  BY <1>4 DEF Sine
<1>6. PICK r \in Int, g \in Int, e \in Int :
        /\ r = Wave /\ g = math_sin(c) /\ e = math_cos(d)
        /\ Sine(r) /\ Sine(g) /\ Sine(e)
  <2>1. Sine(Quot(u * v, 1000))
    BY <1>5, SineProduct
  <2>2. Wave = Quot(u * v, 1000)
    BY <1>3, <1>5 DEF Wave
  <2> QED
    BY <1>4, <2>1, <2>2 DEF Sine
<1>7. Byte(r) \in 0 .. 255 /\ Byte(g) \in 0 .. 255 /\ Byte(e) \in 0 .. 255
  BY <1>6, ByteType
<1>8. Rgb = <<Byte(r), Byte(g), Byte(e)>>
  BY <1>3, <1>6 DEF Rgb
<1> QED
  BY <1>7, <1>8

AngleInv ==
  /\ RectsInv
  /\ index \in Nat
  /\ running = "rects" => \E h \in Nat : frame = 2 * h

(* The rectangles come to even angles only.                                *)
LEMMA AngleInvInvariant == Spec => []AngleInv
<1>1. Init => index \in Nat /\ (running = "rects" => \E h \in Nat : frame = 2 * h)
  BY DEF Init
<1> DEFINE Even == index \in Nat /\ (running = "rects" => \E h \in Nat : frame = 2 * h)
<1>2. RectsInv /\ Even /\ [Next]_vars => Even'
  <2> SUFFICES ASSUME RectsInv, Even, [Next]_vars
               PROVE  Even'
    OBVIOUS
  <2>1. CASE StartBall \/ StartRects \/ StartWave
    <3>1. frame' = 2 * 0 /\ index' = 0
      BY <2>1 DEF StartBall, StartRects, StartWave, Start
    <3> QED
      BY <3>1
  <2>2. CASE DrawRect
    BY <2>2 DEF DrawRect
  <2>3. CASE RectsFrame
    <3>1. running = "rects" /\ index' = 0 /\ frame' = frame + 2
      BY <2>3 DEF RectsFrame
    <3>2. PICK h \in Nat : frame = 2 * h
      BY <3>1
    <3>3. frame' = 2 * (h + 1) /\ h + 1 \in Nat
      BY <3>1, <3>2
    <3> QED
      BY <3>1, <3>3
  <2>4. CASE BallFrame
    BY <2>4 DEF BallFrame
  <2>5. CASE WavePixel \/ WaveFrame
    BY <2>5 DEF WavePixel, WaveFrame
  <2>6. CASE BallReturn \/ RectsReturn \/ WaveReturn
    BY <2>6 DEF BallReturn, RectsReturn, WaveReturn, Return
  <2>7. CASE UNCHANGED vars
    BY <2>7 DEF vars
  <2> QED
    BY <2>1, <2>2, <2>3, <2>4, <2>5, <2>6, <2>7 DEF Next, Ball, Rects, Waves
<1> QED
  BY <1>1, <1>2, RectsInvInvariant, PTL DEF Spec, AngleInv

(* At every angle the rectangles come to but 30 degrees, sine and cosine   *)
(* stay within one percent of the circle, and every pixel of the wave has  *)
(* a colour of three bytes.                                                *)
THEOREM OnUnitCircleAlways == Spec => []OnUnitCircle
<1>1. AngleInv => OnUnitCircle
  <2> SUFFICES ASSUME AngleInv
               PROVE  OnUnitCircle
    OBVIOUS
  <2>1. ASSUME running = "rects", angle # 30
        PROVE  NearUnit(math_sin(angle), math_cos(angle))
    <3>1. PICK h \in Nat : frame = 2 * h
      BY <2>1 DEF AngleInv
    <3>2. PICK a \in Nat, k \in Nat : a = angle /\ a = 2 * k
      <4>1. h + index * 36 \in Nat /\ angle = 2 * (h + index * 36)
        BY <3>1 DEF AngleInv, angle
      <4> QED
        BY <4>1
    <3>3. NearUnit(math_sin(a), math_cos(a))
      BY <2>1, <3>2, OnCircle
    <3> QED
      BY <3>2, <3>3
  <2>2. ASSUME NEW s \in Int, NEW c \in Int, NearUnit(s, c)
        PROVE  -10000 <= 1000000 - (s * s + c * c) /\ 1000000 - (s * s + c * c) <= 10000
    <3>1. PICK n \in Int : n = s * s + c * c /\ 990000 <= n /\ n <= 1010000
      BY <2>2 DEF NearUnit
    <3> QED
      BY <3>1
  <2>3. PICK s \in Int, c \in Int : s = math_sin(angle) /\ c = math_cos(angle)
    <3>1. PICK a \in Int : a = angle
      BY DEF AngleInv, RectsInv, angle
    <3> QED
      BY <3>1, SineType
  <2>4. running = "rects" /\ angle # 30 =>
          -10000 <= 1000000 - (s * s + c * c) /\ 1000000 - (s * s + c * c) <= 10000
    BY <2>1, <2>2, <2>3
  <2>5. \A i \in 1 .. 3 : Rgb[i] \in 0 .. 255
    BY WaveBytes DEF AngleInv, RectsInv
  <2> QED
    BY <2>3, <2>4, <2>5 DEF OnUnitCircle
<1> QED
  BY <1>1, AngleInvInvariant, PTL

=============================================================================
