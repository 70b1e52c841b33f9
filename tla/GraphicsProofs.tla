--------------------------- MODULE GraphicsProofs ---------------------------
(***************************************************************************)
(* Theorems about the drawing functions: they store to pixels of the       *)
(* screen only, and draw_line reaches its end from any slope, for every    *)
(* screen and every sequence of calls.                                     *)
(***************************************************************************)
EXTENDS Graphics, NatLemmas

-----------------------------------------------------------------------------
(* Words of pixels *)

(* The sum of coordinates wraps to an unsigned number.                     *)
LEMMA AddType ==
  ASSUME NEW a \in Int, NEW b \in Int
  PROVE  Add(a, b) \in Nat
<1>1. Wrap \in Nat \ {0} /\ a + b \in Int
  BY ContextAssumption
<1> QED
  BY <1>1 DEF Add

(* A pixel's word, as graphics_put_pixel and as the loops over rows        *)
(* compute it, is a word of the framebuffer.                               *)
LEMMA PixelWord ==
  ASSUME NEW x \in 0 .. (Width - 1), NEW y \in 0 .. (Height - 1)
  PROVE  /\ PutWord(x, y) = y * Stride + x
         /\ y * Stride + x \in PixelWords
         /\ y * Stride + x \in Word
<1> DEFINE s == Pitch \div 4
           q == y * s
<1>1. /\ x \in Nat /\ x < Width /\ y \in Nat /\ y + 1 <= Height
      /\ Width \in Nat /\ Height \in Nat /\ Pitch \in Nat /\ Wrap \in Nat
  BY ContextAssumption
<1>2. s \in Nat /\ Pitch = 4 * s
  BY <1>1, ContextAssumption, Division
<1>3. Width <= s
  BY <1>1, <1>2, ContextAssumption
<1>4. Stride = s
  BY DEF Stride
<1> HIDE DEF s
<1>5. q \in Nat /\ q + s = (y + 1) * s /\ y * Pitch = 4 * q
  BY <1>1, <1>2
<1>6. (y + 1) * s <= Height * s /\ Height * s \in Nat /\ Pitch * Height = 4 * (Height * s)
  BY <1>1, <1>2
<1> DEFINE h == Height * s
<1>7. q + x < h /\ 4 * q < Wrap
  <2>1. 4 * h < Wrap /\ q + s <= h /\ h \in Nat
    BY <1>5, <1>6, ContextAssumption
  <2> HIDE DEF q, h
  <2> QED
    BY <1>1, <1>2, <1>3, <1>5, <2>1
<1>8. PutWord(x, y) = y * Stride + x
  <2>1. (y * Pitch) % Wrap = 4 * q
    <3> HIDE DEF q
    <3> QED
      BY <1>1, <1>5, <1>7
  <2>2. (4 * q) \div 4 = q
    BY <1>5
  <2> QED
    BY <1>4, <2>1, <2>2 DEF PutWord
<1>9. y * Stride + x \in PixelWords
  BY <1>8 DEF PixelWords
<1>10. y * Stride + x \in Word
  <2>1. (Pitch * Height) \div 4 = h
    BY <1>6
  <2>2. q + x \in 0 .. (h - 1)
    <3> HIDE DEF q, h
    <3>1. h \in Nat
      BY <1>6 DEF h
    <3> QED
      BY <1>1, <1>5, <1>7, <3>1
  <2> QED
    BY <1>4, <2>1, <2>2 DEF Word
<1> QED
  BY <1>8, <1>9, <1>10

(* What put_pixel stores for points with unsigned coordinates              *)
LEMMA PutWordsPixels ==
  ASSUME NEW points \in SUBSET (Nat \X Nat)
  PROVE  PutWords(points) \subseteq PixelWords
<1> SUFFICES ASSUME NEW p \in points, OnScreen(p[1], p[2])
             PROVE  PutWord(p[1], p[2]) \in PixelWords
  BY DEF PutWords
<1>1. p[1] \in 0 .. (Width - 1) /\ p[2] \in 0 .. (Height - 1)
  BY ContextAssumption DEF OnScreen
<1> QED
  BY <1>1 DEF PixelWords

(* The clipped loops stay on the screen, wherever they start.              *)
LEMMA SegmentPixels ==
  ASSUME NEW x \in Nat, NEW y \in Nat, NEW n \in Int
  PROVE  HorizontalWords(x, y, n) \subseteq PixelWords
         /\ VerticalWords(x, y, n) \subseteq PixelWords
<1>1. /\ ClippedEnd(x, n, Width) \in Int /\ ClippedEnd(x, n, Width) <= Width
      /\ ClippedEnd(y, n, Height) \in Int /\ ClippedEnd(y, n, Height) <= Height
  <2>1. x \in Int /\ y \in Int
    OBVIOUS
  <2>2. Add(x, n) \in Nat /\ Add(y, n) \in Nat
    BY <2>1, AddType
  <2>3. Width \in Nat /\ Height \in Nat
    BY ContextAssumption
  <2> QED
    BY <2>2, <2>3 DEF ClippedEnd
<1>2. ASSUME y < Height, NEW col \in x .. (ClippedEnd(x, n, Width) - 1)
      PROVE  y * Stride + col \in PixelWords
  <2>1. col \in 0 .. (Width - 1) /\ y \in 0 .. (Height - 1)
    BY <1>1, <1>2, ContextAssumption
  <2> QED
    BY <2>1, PixelWord
<1>3. ASSUME x < Width, NEW row \in y .. (ClippedEnd(y, n, Height) - 1)
      PROVE  row * Stride + x \in PixelWords
  <2>1. x \in 0 .. (Width - 1) /\ row \in 0 .. (Height - 1)
    BY <1>1, <1>3, ContextAssumption
  <2> QED
    BY <2>1, PixelWord
<1>4. y < Height \/ y >= Height
  BY ContextAssumption
<1>5. x < Width \/ x >= Width
  BY ContextAssumption
<1>6. HorizontalWords(x, y, n) \subseteq PixelWords
  <2>1. CASE y >= Height
    BY <2>1 DEF HorizontalWords
  <2>2. CASE y < Height
    <3>1. HorizontalWords(x, y, n)
            = {y * Stride + col : col \in x .. (ClippedEnd(x, n, Width) - 1)}
      <4>1. ~(y >= Height)
        BY <2>2, ContextAssumption
      <4> QED
        BY <4>1 DEF HorizontalWords
    <3> QED
      BY <1>2, <2>2, <3>1
  <2> QED
    BY <1>4, <2>1, <2>2
<1>7. VerticalWords(x, y, n) \subseteq PixelWords
  <2>1. CASE x >= Width
    BY <2>1 DEF VerticalWords
  <2>2. CASE x < Width
    <3>1. VerticalWords(x, y, n)
            = {row * Stride + x : row \in y .. (ClippedEnd(y, n, Height) - 1)}
      <4>1. ~(x >= Width)
        BY <2>2, ContextAssumption
      <4> QED
        BY <4>1 DEF VerticalWords
    <3> QED
      BY <1>3, <2>2, <3>1
  <2> QED
    BY <1>5, <2>1, <2>2
<1> QED
  BY <1>6, <1>7

(* So do graphics_fill_rect and graphics_clear_screen.                     *)
LEMMA FillPixels ==
  ASSUME NEW x \in Nat, NEW y \in Nat, NEW width \in Int, NEW height \in Int
  PROVE  FillWords(x, y, width, height) \subseteq PixelWords
<1> DEFINE right == IF Add(x, width) < Width THEN Add(x, width) ELSE Width
           low   == IF Add(y, height) < Height THEN Add(y, height) ELSE Height
<1>1. right \in Int /\ right <= Width /\ low \in Int /\ low <= Height
  <2>1. x \in Int /\ y \in Int
    OBVIOUS
  <2>2. Add(x, width) \in Nat /\ Add(y, height) \in Nat
    BY <2>1, AddType
  <2>3. Width \in Nat /\ Height \in Nat
    BY ContextAssumption
  <2> QED
    BY <2>2, <2>3
<1>2. ASSUME NEW row \in y .. low - 1, NEW col \in x .. right - 1
      PROVE  row * Stride + col \in PixelWords
  <2>1. col \in 0 .. (Width - 1) /\ row \in 0 .. (Height - 1)
    <3> HIDE DEF right, low
    <3> QED
      BY <1>1, <1>2, ContextAssumption
  <2> QED
    BY <2>1, PixelWord
<1>3. FillWords(x, y, width, height)
        = {row * Stride + col : row \in y .. low - 1, col \in x .. right - 1}
  BY DEF FillWords
<1> HIDE DEF right, low
<1> QED
  BY <1>2, <1>3

(* graphics_clear_screen goes over all pixels.                             *)
LEMMA ClearPixels == ClearWords \subseteq PixelWords
BY PixelWord DEF ClearWords

-----------------------------------------------------------------------------
(* The arithmetic of graphics_draw_line *)

Quarter == 0 .. (Wrap \div 4 - 1)

(* Within a quarter of the plane the cast to int gives the distance.       *)
LEMMA DiffIsDistance ==
  ASSUME NEW a \in Quarter, NEW b \in Quarter
  PROVE  Diff(a, b) \in Nat /\ Diff(a, b) = IF a > b THEN a - b ELSE b - a
<1> DEFINE d == IF a > b THEN a - b ELSE b - a
<1>1. d \in Nat /\ d < Wrap \div 4 /\ Wrap \in Nat /\ Wrap \div 4 <= Wrap \div 2
      /\ Wrap \div 2 <= Wrap
  BY ContextAssumption DEF Quarter
<1>2. Diff(a, b) = AsInt(d % Wrap)
  BY DEF Diff
<1> HIDE DEF d
<1>3. d % Wrap = d /\ ~(d >= Wrap \div 2)
  BY <1>1
<1>4. Diff(a, b) = d
  BY <1>2, <1>3 DEF AsInt
<1> QED
  BY <1>1, <1>4 DEF d

(* A step toward the other end goes one closer to it.                      *)
LEMMA StepCloser ==
  ASSUME NEW from \in Quarter, NEW to \in Quarter, NEW at \in Quarter,
         Diff(at, from) + Diff(to, at) = Diff(to, from),
         Diff(at, from) < Diff(to, from),
         NEW next, next = Add(at, IF from < to THEN 1 ELSE -1)
  PROVE  /\ next \in Quarter
         /\ Diff(next, from) = Diff(at, from) + 1
         /\ Diff(next, from) + Diff(to, next) = Diff(to, from)
<1>1. /\ Diff(at, from) = IF at > from THEN at - from ELSE from - at
      /\ Diff(to, at) = IF to > at THEN to - at ELSE at - to
      /\ Diff(to, from) = IF to > from THEN to - from ELSE from - to
  BY DiffIsDistance
<1>2. from \in Nat /\ to \in Nat /\ at \in Nat
  BY DEF Quarter
<1>3. /\ from < to => from <= at /\ at < to
      /\ ~(from < to) => to < at /\ at <= from
  BY <1>1, <1>2
<1>4. next = at + (IF from < to THEN 1 ELSE -1) /\ next \in Quarter
  <2> DEFINE e == at + (IF from < to THEN 1 ELSE -1)
  <2>1. e \in Quarter
    <3>1. Wrap \div 4 \in Nat
      BY ContextAssumption, Division
    <3>2. CASE from < to
      BY <1>2, <1>3, <3>1, <3>2 DEF Quarter
    <3>3. CASE ~(from < to)
      BY <1>2, <1>3, <3>1, <3>3 DEF Quarter
    <3> QED
      BY <3>2, <3>3
  <2>2. next = e % Wrap
    BY DEF Add
  <2> HIDE DEF e
  <2>3. e % Wrap = e
    <3>1. Wrap \in Nat /\ Wrap \div 4 <= Wrap /\ e \in Nat /\ e < Wrap
      BY <2>1, ContextAssumption DEF Quarter
    <3> QED
      BY <3>1
  <2> QED
    BY <2>1, <2>2, <2>3 DEF e
<1>5. /\ Diff(next, from) = IF next > from THEN next - from ELSE from - next
      /\ Diff(to, next) = IF to > next THEN to - next ELSE next - to
  BY <1>4, DiffIsDistance
<1> QED
  BY <1>1, <1>2, <1>3, <1>4, <1>5

(* With err as the place says, the tests move a coordinate only where it   *)
(* has not reached its end.                                                *)
LEMMA NoOvershoot ==
  ASSUME NEW dx \in Nat, NEW dy \in Nat, NEW mx \in Nat, NEW my \in Nat,
         mx <= dx, my <= dy, ~(mx = dx /\ my = dy),
         NEW err \in Int, err = dx * (my + 1) - dy * (mx + 1)
  PROVE  /\ 2 * err > -dy => mx < dx
         /\ 2 * err < dx => my < dy
<1>1. ASSUME 2 * err > -dy, mx = dx PROVE FALSE
  <2> DEFINE r == dy - my - 1
             p == dx * r
  <2>1. r \in Nat
    BY <1>1
  <2>2. dx * (my + 1) = dx * dy - p
    BY <2>1
  <2>3. dy * (mx + 1) = dx * dy + dy
    BY <1>1
  <2>4. p \in Nat /\ dx * dy \in Nat
    BY <2>1
  <2> DEFINE a == dx * dy
             b == dx * (my + 1)
             c == dy * (mx + 1)
  <2>5. b = a - p /\ c = a + dy /\ err = b - c /\ a \in Nat /\ p \in Nat
    BY <2>2, <2>3, <2>4
  <2> HIDE DEF p, r, a, b, c
  <2> QED
    BY <1>1, <2>5
<1>2. ASSUME 2 * err < dx, my = dy PROVE FALSE
  <2> DEFINE r == dx - mx - 1
             p == dy * r
  <2>1. r \in Nat
    BY <1>2
  <2>2. dy * (mx + 1) = dx * dy - p
    BY <2>1
  <2>3. dx * (my + 1) = dx * dy + dx
    BY <1>2
  <2>4. p \in Nat /\ dx * dy \in Nat
    BY <2>1
  <2> DEFINE a == dx * dy
             b == dx * (my + 1)
             c == dy * (mx + 1)
  <2>5. c = a - p /\ b = a + dx /\ err = b - c /\ a \in Nat /\ p \in Nat
    BY <2>2, <2>3, <2>4
  <2> HIDE DEF p, r, a, b, c
  <2> QED
    BY <1>2, <2>5
<1> QED
  BY <1>1, <1>2

(* And err after the step is what the new place says.                      *)
LEMMA ErrStep ==
  ASSUME NEW dx \in Nat, NEW dy \in Nat, NEW mx \in Nat, NEW my \in Nat,
         NEW sx \in {0, 1}, NEW sy \in {0, 1},
         NEW err, err = dx * (my + 1) - dy * (mx + 1)
  PROVE  err - (IF sx = 1 THEN dy ELSE 0) + (IF sy = 1 THEN dx ELSE 0)
           = dx * (my + sy + 1) - dy * (mx + sx + 1)
<1>1. dx * (my + sy + 1) = dx * (my + 1) + (IF sy = 1 THEN dx ELSE 0)
  OBVIOUS
<1>2. dy * (mx + sx + 1) = dy * (mx + 1) + (IF sx = 1 THEN dy ELSE 0)
  OBVIOUS
<1>3. dx * (my + 1) \in Nat /\ dy * (mx + 1) \in Nat
  OBVIOUS
<1> QED
  BY <1>1, <1>2, <1>3

-----------------------------------------------------------------------------
(* What each call stores to *)

Known == Requests \cup {[kind |-> "clear", color |-> Black]}

(* Requests a call of one step answers                                     *)
AtOnce == {r \in Known : r.kind \in {"pixel", "clear", "disc"} \cup Sized}

(* A frame is four clipped segments.                                       *)
LEMMA FramePixels ==
  ASSUME NEW x \in Nat, NEW y \in Nat, NEW width \in Nat, NEW height \in Nat
  PROVE  FrameWords(x, y, width, height) \subseteq PixelWords
<1>1. /\ Add(y, height - 1) \in Nat /\ Add(y, 1) \in Nat /\ Add(x, width - 1) \in Nat
      /\ height - 2 \in Int /\ height - 1 \in Int /\ width - 1 \in Int
      /\ width \in Int /\ height \in Int
  <2>1. /\ x \in Int /\ y \in Int /\ 1 \in Int
        /\ height - 1 \in Int /\ width - 1 \in Int /\ height - 2 \in Int
    OBVIOUS
  <2> QED
    BY <2>1, AddType
<1>2. HorizontalWords(x, y, width) \subseteq PixelWords
  BY <1>1, SegmentPixels
<1>3. HorizontalWords(x, Add(y, height - 1), width) \subseteq PixelWords
  BY <1>1, SegmentPixels
<1>4. VerticalWords(x, Add(y, 1), height - 2) \subseteq PixelWords
  BY <1>1, SegmentPixels
<1>5. VerticalWords(Add(x, width - 1), Add(y, 1), height - 2) \subseteq PixelWords
  BY <1>1, SegmentPixels
<1> QED
  BY <1>2, <1>3, <1>4, <1>5 DEF FrameWords

(* A disc goes through graphics_put_pixel, which tests each point.         *)
LEMMA DiscPixels ==
  ASSUME NEW r, r.cx \in Nat, r.cy \in Nat, r.radius \in Nat
  PROVE  DiscWords(r) \subseteq PixelWords
<1> DEFINE inside == {e \in Near(r) \X Near(r) : e[1] * e[1] + e[2] * e[2] <= r.radius * r.radius}
           points == {<<Add(r.cx, d[1]), Add(r.cy, d[2])>> : d \in inside}
<1>1. points \in SUBSET (Nat \X Nat)
  <2> SUFFICES ASSUME NEW d \in inside
               PROVE  Add(r.cx, d[1]) \in Nat /\ Add(r.cy, d[2]) \in Nat
    OBVIOUS
  <2>1. d[1] \in Int /\ d[2] \in Int /\ r.cx \in Int /\ r.cy \in Int
    BY DEF Near
  <2> QED
    BY <2>1, AddType
<1>2. DiscWords(r) = PutWords(points)
  BY DEF DiscWords
<1> HIDE DEF points
<1> QED
  BY <1>1, <1>2, PutWordsPixels

(* A function of one step stores to pixels only.                           *)
LEMMA AtOncePixels ==
  ASSUME NEW r \in AtOnce
  PROVE  WordsOf(r) \subseteq PixelWords
<1>1. CASE r.kind = "clear"
  BY <1>1, ClearPixels DEF WordsOf
<1>2. CASE r.kind # "clear"
  <2>1. r \in Requests
    BY <1>2 DEF AtOnce, Known
  <2>2. CASE r.kind = "pixel"
    <3>1. {<<r.x, r.y>>} \in SUBSET (Nat \X Nat)
      BY <2>1, <2>2, RequestAssumption
    <3> QED
      BY <2>2, <3>1, PutWordsPixels DEF WordsOf
  <2>3. CASE r.kind = "disc"
    <3>1. r.cx \in Nat /\ r.cy \in Nat /\ r.radius \in Nat
      BY <2>1, <2>3, RequestAssumption DEF Round
    <3> QED
      BY <2>3, <3>1, DiscPixels DEF WordsOf
  <2>4. CASE r.kind \in Sized
    <3>1. r.x \in Nat /\ r.y \in Nat
      BY <2>1, <2>4, RequestAssumption DEF Sized
    <3>2. CASE r.kind = "fill_rect"
      <4>1. r.width \in Nat /\ r.height \in Nat
        BY <2>1, <3>2, RequestAssumption DEF Sized
      <4>2. r.width \in Int /\ r.height \in Int
        BY <4>1
      <4> QED
        BY <3>1, <3>2, <4>2, FillPixels DEF WordsOf
    <3>3. CASE r.kind = "draw_rect"
      <4>1. r.width \in Nat /\ r.height \in Nat
        BY <2>1, <3>3, RequestAssumption DEF Sized
      <4> QED
        BY <3>1, <3>3, <4>1, FramePixels DEF WordsOf
    <3>4. CASE r.kind = "horizontal"
      <4>1. r.width \in Nat
        BY <2>1, <3>4, RequestAssumption DEF Sized
      <4>2. r.width \in Int
        BY <4>1
      <4> QED
        BY <3>1, <3>4, <4>2, SegmentPixels DEF WordsOf
    <3>5. CASE r.kind = "vertical"
      <4>1. r.height \in Nat
        BY <2>1, <3>5, RequestAssumption DEF Sized
      <4>2. r.height \in Int
        BY <4>1
      <4> QED
        BY <3>1, <3>5, <4>2, SegmentPixels DEF WordsOf
    <3> QED
      BY <2>4, <3>2, <3>3, <3>4, <3>5 DEF Sized
  <2> QED
    BY <1>2, <2>2, <2>3, <2>4 DEF AtOnce
<1> QED
  BY <1>1, <1>2

(* The eight points of a circle's offset are tested one by one, too.       *)
LEMMA OctantPixels ==
  ASSUME NEW r, r.cx \in Nat, r.cy \in Nat, NEW x \in Int, NEW y \in Int
  PROVE  PutWords(Octants(r, x, y)) \subseteq PixelWords
<1> DEFINE signs == {<<x, y>>, <<-x, y>>, <<x, -y>>, <<-x, -y>>,
                     <<y, x>>, <<-y, x>>, <<y, -x>>, <<-y, -x>>}
<1>1. \A s \in signs : s[1] \in Int /\ s[2] \in Int
  OBVIOUS
<1>2. Octants(r, x, y) = {<<Add(r.cx, s[1]), Add(r.cy, s[2])>> : s \in signs}
  BY DEF Octants
<1> HIDE DEF signs
<1>3. Octants(r, x, y) \in SUBSET (Nat \X Nat)
  <2>1. ASSUME NEW s \in signs
        PROVE  Add(r.cx, s[1]) \in Nat /\ Add(r.cy, s[2]) \in Nat
    <3>1. s[1] \in Int /\ s[2] \in Int /\ r.cx \in Int /\ r.cy \in Int
      BY <1>1
    <3> QED
      BY <3>1, AddType
  <2> QED
    BY <1>2, <2>1
<1> QED
  BY <1>3, PutWordsPixels

(* So are the points of a character's cell.                                *)
LEMMA PlacedPixels ==
  ASSUME NEW x \in Nat, NEW y \in Nat, NEW points \in SUBSET CellPoints
  PROVE  PlacedWords(x, y, points) \subseteq PixelWords
<1> DEFINE placed == {<<Add(x, p[1]), Add(y, p[2])>> : p \in points}
<1>1. placed \in SUBSET (Nat \X Nat)
  <2>1. ASSUME NEW p \in points
        PROVE  Add(x, p[1]) \in Nat /\ Add(y, p[2]) \in Nat
    <3>1. p[1] \in Int /\ p[2] \in Int /\ x \in Int /\ y \in Int
      BY FontAssumption DEF CellPoints
    <3> QED
      BY <3>1, AddType
  <2> QED
    BY <2>1
<1> HIDE DEF placed
<1>2. PlacedWords(x, y, points) = PutWords(placed)
  BY DEF PlacedWords, placed
<1> QED
  BY <1>1, <1>2, PutWordsPixels

(* Pixels are words of the framebuffer.                                    *)
LEMMA PixelsInFramebuffer == PixelWords \subseteq Word
BY PixelWord DEF PixelWords

-----------------------------------------------------------------------------
(* The invariant *)

OnceJobs == [at : {"once", "done"}, req : AtOnce]

LineJobs ==
  [at : {"line", "done"}, req : {r \in Requests : r.kind = "line"},
   x : Quarter, y : Quarter, err : Int]

CircleJobs ==
  [at : {"circle", "done"}, req : {r \in Requests : r.kind = "circle"},
   x : Int, y : Int, d : Int]

TextJobs ==
  [at : {"string", "done"}, req : {r \in Requests : r.kind = "string"},
   i : Nat, x : Nat, y : Nat]

JobType == job \in {Idle} \cup OnceJobs \cup LineJobs \cup CircleJobs \cup TextJobs

DrawInv == JobType /\ OnlyPixelsStored /\ LineOnCourse

(* A request is answered by a job of its kind; a line starts on course.    *)
LEMMA StartType ==
  ASSUME NEW r \in Known
  PROVE  /\ Start(r) \in OnceJobs \cup LineJobs \cup CircleJobs \cup TextJobs
         /\ Start(r).at = "line" =>
              /\ r \in Requests /\ r.kind = "line"
              /\ Start(r) = [at |-> "line", req |-> r, x |-> r.x0, y |-> r.y0,
                            err |-> LineDx(r) - LineDy(r)]
<1>1. CASE r.kind = "line"
  <2>1. r \in Requests
    BY <1>1 DEF Known
  <2>2. {r.x0, r.y0, r.x1, r.y1} \subseteq Quarter
    BY <1>1, <2>1, RequestAssumption DEF Quarter
  <2>3. LineDx(r) \in Nat /\ LineDy(r) \in Nat
    BY <2>2, DiffIsDistance DEF LineDx, LineDy
  <2>4. LineDx(r) - LineDy(r) \in Int
    BY <2>3
  <2>5. Start(r) = [at |-> "line", req |-> r, x |-> r.x0, y |-> r.y0,
                    err |-> LineDx(r) - LineDy(r)]
    BY <1>1 DEF Start
  <2> QED
    BY <1>1, <2>1, <2>2, <2>4, <2>5 DEF LineJobs
<1>2. CASE r.kind = "circle"
  <2>1. r \in Requests
    BY <1>2 DEF Known
  <2>2. r.radius \in Nat
    BY <1>2, <2>1, RequestAssumption DEF Round
  <2>3. r.radius \in Int /\ 3 - 2 * r.radius \in Int
    BY <2>2
  <2>4. Start(r) = [at |-> "circle", req |-> r, x |-> 0, y |-> r.radius,
                    d |-> 3 - 2 * r.radius]
    BY <1>2 DEF Start
  <2> QED
    BY <1>2, <2>1, <2>3, <2>4 DEF CircleJobs
<1>3. CASE r.kind = "string"
  <2>1. r \in Requests
    BY <1>3 DEF Known
  <2>2. r.x \in Nat /\ r.y \in Nat
    BY <1>3, <2>1, RequestAssumption
  <2>3. Start(r) = [at |-> "string", req |-> r, i |-> 1, x |-> r.x, y |-> r.y]
    BY <1>3 DEF Start
  <2> QED
    BY <1>3, <2>1, <2>2, <2>3 DEF TextJobs
<1>4. CASE r.kind \notin {"line", "circle", "string"}
  <2>1. r \in AtOnce
    BY <1>4, RequestAssumption DEF AtOnce, Known, Round
  <2>2. Start(r) = [at |-> "once", req |-> r]
    BY <1>4 DEF Start
  <2> QED
    BY <2>1, <2>2 DEF OnceJobs
<1> QED
  BY <1>1, <1>2, <1>3, <1>4

(* A new line has covered no distance.                                     *)
LEMMA LineStarts ==
  ASSUME NEW r \in Known, job' = Start(r)
  PROVE  JobType' /\ LineOnCourse'
<1>1. JobType'
  BY StartType DEF JobType
<1>2. LineOnCourse'
  <2> SUFFICES ASSUME job'.at = "line"
               PROVE  /\ Diff(job'.x, job'.req.x0) + Diff(job'.req.x1, job'.x) = LineDx(job'.req)
                      /\ Diff(job'.y, job'.req.y0) + Diff(job'.req.y1, job'.y) = LineDy(job'.req)
                      /\ job'.err = LineDx(job'.req) * (Diff(job'.y, job'.req.y0) + 1)
                                     - LineDy(job'.req) * (Diff(job'.x, job'.req.x0) + 1)
    BY DEF LineOnCourse
  <2>1. /\ r \in Requests /\ r.kind = "line" /\ job'.req = r
        /\ job'.x = r.x0 /\ job'.y = r.y0 /\ job'.err = LineDx(r) - LineDy(r)
    BY StartType
  <2>2. r.x0 \in Quarter /\ r.y0 \in Quarter /\ r.x1 \in Quarter /\ r.y1 \in Quarter
    BY <2>1, RequestAssumption DEF Quarter
  <2>3. Diff(r.x0, r.x0) = 0 /\ Diff(r.y0, r.y0) = 0
    <3>1. r.x0 \in Nat /\ r.y0 \in Nat
      BY <2>2 DEF Quarter
    <3> QED
      BY <2>2, <3>1, DiffIsDistance
  <2>4. LineDx(r) = Diff(r.x1, r.x0) /\ LineDy(r) = Diff(r.y1, r.y0)
        /\ LineDx(r) \in Nat /\ LineDy(r) \in Nat
    BY <2>2, DiffIsDistance DEF LineDx, LineDy
  <2> QED
    BY <2>1, <2>3, <2>4
<1> QED
  BY <1>1, <1>2

(* Drawing to pixels keeps to them.                                        *)
LEMMA StoreToPixels ==
  ASSUME OnlyPixelsStored, NEW words \in SUBSET PixelWords, NEW others \in SUBSET PixelWords,
         stored' = stored \cup words \cup others,
         spilled' = (spilled \/ ~(words \cup others \subseteq Word))
  PROVE  OnlyPixelsStored'
BY PixelsInFramebuffer DEF OnlyPixelsStored

(* One iteration of draw_line: the place moves toward the end or stays     *)
(* there, and err follows it.                                              *)
LEMMA LineStep ==
  ASSUME JobType, LineOnCourse, graphics_draw_line
  PROVE  JobType' /\ LineOnCourse'
<1> DEFINE r  == job.req
           dx == Diff(r.x1, r.x0)
           dy == Diff(r.y1, r.y0)
           mx == Diff(job.x, r.x0)
           my == Diff(job.y, r.y0)
<1>1. job # Idle /\ job.at = "line" /\ job \in LineJobs
  BY DEF graphics_draw_line, JobType, OnceJobs, CircleJobs, TextJobs
<1>2. CASE job.x = r.x1 /\ job.y = r.y1
  <2>1. job' = [job EXCEPT !.at = "done"]
    BY <1>2 DEF graphics_draw_line
  <2>2. job' \in LineJobs /\ job'.at = "done"
    BY <1>1, <2>1 DEF LineJobs
  <2> QED
    BY <2>2 DEF JobType, LineOnCourse
<1>3. CASE ~(job.x = r.x1 /\ job.y = r.y1)
  <2>1. /\ r \in Requests /\ r.kind = "line"
        /\ job.x \in Quarter /\ job.y \in Quarter /\ job.err \in Int
    BY <1>1 DEF LineJobs
  <2>2. r.x0 \in Quarter /\ r.y0 \in Quarter /\ r.x1 \in Quarter /\ r.y1 \in Quarter
    BY <2>1, RequestAssumption DEF Quarter
  <2>3. /\ mx + Diff(r.x1, job.x) = dx /\ my + Diff(r.y1, job.y) = dy
        /\ job.err = dx * (my + 1) - dy * (mx + 1)
    BY <1>1 DEF LineOnCourse, LineDx, LineDy
  <2>4. /\ dx \in Nat /\ dy \in Nat /\ mx \in Nat /\ my \in Nat
        /\ mx <= dx /\ my <= dy /\ ~(mx = dx /\ my = dy)
    <3>1. /\ dx \in Nat /\ dy \in Nat /\ mx \in Nat /\ my \in Nat
          /\ Diff(r.x1, job.x) \in Nat /\ Diff(r.y1, job.y) \in Nat
          /\ Diff(r.x1, job.x) = IF r.x1 > job.x THEN r.x1 - job.x ELSE job.x - r.x1
          /\ Diff(r.y1, job.y) = IF r.y1 > job.y THEN r.y1 - job.y ELSE job.y - r.y1
      BY <2>1, <2>2, DiffIsDistance
    <3>2. r.x1 \in Nat /\ job.x \in Nat /\ r.y1 \in Nat /\ job.y \in Nat
      BY <2>1, <2>2 DEF Quarter
    <3> DEFINE a == Diff(r.x1, job.x)
               b == Diff(r.y1, job.y)
    <3>3. ~(a = 0 /\ b = 0)
      BY <1>3, <3>1, <3>2
    <3>4. /\ mx + a = dx /\ my + b = dy
          /\ dx \in Nat /\ dy \in Nat /\ mx \in Nat /\ my \in Nat
          /\ a \in Nat /\ b \in Nat
      BY <2>3, <3>1
    <3> HIDE DEF dx, dy, mx, my, a, b
    <3> QED
      BY <3>3, <3>4
  <2> DEFINE e2 == 2 * job.err
             goX == e2 > -dy
             goY == e2 < dx
             sx == IF goX THEN 1 ELSE 0
             sy == IF goY THEN 1 ELSE 0
             nx == IF goX THEN Add(job.x, StepX(r)) ELSE job.x
             ny == IF goY THEN Add(job.y, StepY(r)) ELSE job.y
             nerr == job.err - (IF sx = 1 THEN dy ELSE 0) + (IF sy = 1 THEN dx ELSE 0)
  <2>5. goX \in BOOLEAN /\ goY \in BOOLEAN /\ (goX => mx < dx) /\ (goY => my < dy)
    <3> HIDE DEF dx, dy, mx, my
    <3> QED
      BY <2>1, <2>3, <2>4, NoOvershoot
  <2>6. job' = [job EXCEPT !.x = nx, !.y = ny, !.err = nerr]
    <3>1. MovesX(e2, r) = goX /\ MovesY(e2, r) = goY /\ LineDx(r) = dx /\ LineDy(r) = dy
      BY DEF MovesX, MovesY, LineDx, LineDy
    <3>2. (sx = 1) = goX /\ (sy = 1) = goY
      OBVIOUS
    <3>3. job' = [job EXCEPT
             !.x   = IF MovesX(e2, r) THEN Add(@, StepX(r)) ELSE @,
             !.y   = IF MovesY(e2, r) THEN Add(@, StepY(r)) ELSE @,
             !.err = @ - (IF MovesX(e2, r) THEN LineDy(r) ELSE 0)
                       + (IF MovesY(e2, r) THEN LineDx(r) ELSE 0)]
      BY <1>3 DEF graphics_draw_line
    <3>4. /\ nx = IF MovesX(e2, r) THEN Add(job.x, StepX(r)) ELSE job.x
          /\ ny = IF MovesY(e2, r) THEN Add(job.y, StepY(r)) ELSE job.y
          /\ nerr = job.err - (IF MovesX(e2, r) THEN LineDy(r) ELSE 0)
                            + (IF MovesY(e2, r) THEN LineDx(r) ELSE 0)
      <4> HIDE DEF goX, goY, e2, r, dx, dy
      <4> QED
        BY <3>1, <3>2
    <3> HIDE DEF nx, ny, nerr, e2, r
    <3> QED
      BY <3>3, <3>4
  <2>7. /\ nx \in Quarter /\ Diff(nx, r.x0) = mx + sx
        /\ Diff(nx, r.x0) + Diff(r.x1, nx) = dx
    <3>1. CASE goX
      <4>1. nx = Add(job.x, IF r.x0 < r.x1 THEN 1 ELSE -1)
        BY <3>1 DEF StepX
      <4>2. mx < dx /\ mx + Diff(r.x1, job.x) = dx
        BY <2>3, <2>5, <3>1
      <4>3. sx = 1
        BY <3>1
      <4> HIDE DEF nx
      <4> QED
        BY <2>1, <2>2, <4>1, <4>2, <4>3, StepCloser
    <3>2. CASE ~goX
      <4>1. nx = job.x /\ sx = 0
        BY <3>2
      <4> HIDE DEF nx, sx
      <4> QED
        BY <2>1, <2>3, <2>4, <4>1
    <3> QED
      BY <3>1, <3>2
  <2>8. /\ ny \in Quarter /\ Diff(ny, r.y0) = my + sy
        /\ Diff(ny, r.y0) + Diff(r.y1, ny) = dy
    <3>1. CASE goY
      <4>1. ny = Add(job.y, IF r.y0 < r.y1 THEN 1 ELSE -1)
        BY <3>1 DEF StepY
      <4>2. my < dy /\ my + Diff(r.y1, job.y) = dy
        BY <2>3, <2>5, <3>1
      <4>3. sy = 1
        BY <3>1
      <4> HIDE DEF ny
      <4> QED
        BY <2>1, <2>2, <4>1, <4>2, <4>3, StepCloser
    <3>2. CASE ~goY
      <4>1. ny = job.y /\ sy = 0
        BY <3>2
      <4> HIDE DEF ny, sy
      <4> QED
        BY <2>1, <2>3, <2>4, <4>1
    <3> QED
      BY <3>1, <3>2
  <2>9. nerr \in Int /\ nerr = dx * (my + sy + 1) - dy * (mx + sx + 1)
    <3>1. sx \in {0, 1} /\ sy \in {0, 1}
      OBVIOUS
    <3> HIDE DEF dx, dy, mx, my, sx, sy
    <3>2. nerr \in Int
      BY <2>1, <2>4
    <3> QED
      BY <2>3, <2>4, <3>1, <3>2, ErrStep
  <2> HIDE DEF nx, ny, nerr, sx, sy, goX, goY
  <2>10. /\ job' \in LineJobs /\ job'.at = "line" /\ job'.req = r
         /\ job'.x = nx /\ job'.y = ny /\ job'.err = nerr
    BY <1>1, <2>6, <2>7, <2>8, <2>9 DEF LineJobs
  <2>11. LineOnCourse'
    <3> SUFFICES /\ Diff(job'.x, job'.req.x0) + Diff(job'.req.x1, job'.x) = LineDx(job'.req)
                 /\ Diff(job'.y, job'.req.y0) + Diff(job'.req.y1, job'.y) = LineDy(job'.req)
                 /\ job'.err = LineDx(job'.req) * (Diff(job'.y, job'.req.y0) + 1)
                                - LineDy(job'.req) * (Diff(job'.x, job'.req.x0) + 1)
      BY DEF LineOnCourse
    <3>1. LineDx(r) = dx /\ LineDy(r) = dy
      BY DEF LineDx, LineDy
    <3> HIDE DEF r, dx, dy, mx, my
    <3> QED
      BY <2>7, <2>8, <2>9, <2>10, <3>1
  <2> QED
    BY <2>10, <2>11 DEF JobType
<1> QED
  BY <1>2, <1>3

(* What Draw and Store leave in the ghosts                                 *)
LEMMA DrawToPixels ==
  ASSUME OnlyPixelsStored, NEW words \in SUBSET PixelWords, Draw(words)
  PROVE  OnlyPixelsStored'
<1>1. /\ stored' = stored \cup words \cup {}
      /\ spilled' = (spilled \/ ~(words \cup {} \subseteq Word))
  BY DEF Draw, Store
<1>2. {} \in SUBSET PixelWords
  OBVIOUS
<1> QED
  BY <1>1, <1>2, StoreToPixels

(* Every step keeps to pixels, and keeps each job's locals in their types. *)
LEMMA DrawInvStep ==
  ASSUME DrawInv, [Next]_vars
  PROVE  DrawInv'
<1> USE DEF DrawInv
<1>1. CASE draw_at_once
  <2>1. /\ job # Idle /\ job.at = "once" /\ Draw(WordsOf(job.req))
        /\ job' = [job EXCEPT !.at = "done"]
    BY <1>1 DEF draw_at_once
  <2>2. job \in OnceJobs
    BY <2>1 DEF JobType, LineJobs, CircleJobs, TextJobs
  <2>3. job' \in OnceJobs /\ job'.at = "done" /\ job.req \in AtOnce
    BY <2>1, <2>2 DEF OnceJobs
  <2>4. OnlyPixelsStored'
    BY <2>1, <2>3, AtOncePixels, DrawToPixels
  <2> QED
    BY <2>3, <2>4 DEF JobType, LineOnCourse
<1>2. CASE graphics_draw_line
  <2>1. JobType' /\ LineOnCourse'
    BY <1>2, LineStep
  <2>2. job # Idle /\ job.at = "line" /\ Draw(PutWords({<<job.x, job.y>>}))
    BY <1>2 DEF graphics_draw_line
  <2>3. job \in LineJobs
    BY <2>2 DEF JobType, OnceJobs, CircleJobs, TextJobs
  <2>4. job.x \in Nat /\ job.y \in Nat
    BY <2>3 DEF LineJobs, Quarter
  <2>5. {<<job.x, job.y>>} \in SUBSET (Nat \X Nat)
    BY <2>4
  <2>6. OnlyPixelsStored'
    BY <2>2, <2>5, PutWordsPixels, DrawToPixels
  <2> QED
    BY <2>1, <2>6
<1>3. CASE graphics_draw_circle
  <2>1. /\ job # Idle /\ job.at = "circle"
        /\ Draw(PutWords(Octants(job.req, job.x, job.y)))
    BY <1>3 DEF graphics_draw_circle
  <2>2. job \in CircleJobs
    BY <2>1 DEF JobType, OnceJobs, LineJobs, TextJobs
  <2>3. /\ job.x \in Int /\ job.y \in Int /\ job.d \in Int
        /\ job.req.cx \in Nat /\ job.req.cy \in Nat
    BY <2>2, RequestAssumption DEF CircleJobs, Round
  <2>4. OnlyPixelsStored'
    BY <2>1, <2>3, OctantPixels, DrawToPixels
  <2>5. NextY(job.d, job.y) \in Int /\ NextD(job.d, job.x, job.y) \in Int
    BY <2>3 DEF NextY, NextD
  <2>6. job' \in CircleJobs /\ job'.at # "line"
    <3>1. CASE job.y < job.x
      <4>1. job' = [job EXCEPT !.at = "done"]
        BY <1>3, <3>1 DEF graphics_draw_circle
      <4> QED
        BY <2>2, <4>1 DEF CircleJobs
    <3>2. CASE ~(job.y < job.x)
      <4>1. job' = [job EXCEPT !.x = job.x + 1, !.y = NextY(job.d, job.y),
                               !.d = NextD(job.d, job.x, job.y)]
        BY <1>3, <3>2 DEF graphics_draw_circle
      <4>2. job.x + 1 \in Int
        BY <2>3
      <4> QED
        BY <2>1, <2>2, <2>5, <4>1, <4>2 DEF CircleJobs
    <3> QED
      BY <3>1, <3>2
  <2> QED
    BY <2>4, <2>6 DEF JobType, LineOnCourse
<1>4. CASE graphics_draw_string
  <2> DEFINE c == job.req.text[job.i]
  <2>1. job # Idle /\ job.at = "string"
    BY <1>4 DEF graphics_draw_string
  <2>2. job \in TextJobs
    BY <2>1 DEF JobType, OnceJobs, LineJobs, CircleJobs
  <2>3. /\ job.i \in Nat /\ job.x \in Nat /\ job.y \in Nat
        /\ job.req \in Requests /\ job.req.kind = "string" /\ job.req.x \in Nat
    BY <2>2, RequestAssumption DEF TextJobs
  <2>4. Add(job.x, GlyphSize) \in Nat /\ Add(job.y, GlyphSize) \in Nat /\ job.i + 1 \in Nat
    <3>1. job.x \in Int /\ job.y \in Int /\ GlyphSize \in Int
      BY <2>3, FontAssumption
    <3>2. Add(job.x, GlyphSize) \in Nat /\ Add(job.y, GlyphSize) \in Nat
      BY <3>1, AddType
    <3>3. job.i + 1 \in Nat
      BY <2>3
    <3> QED
      BY <3>2, <3>3
  <2>5. CASE job' = [job EXCEPT !.at = "done"] /\ UNCHANGED <<fb, stored, spilled>>
    <3>1. job' \in TextJobs /\ job'.at # "line"
      BY <2>2, <2>5 DEF TextJobs
    <3> QED
      BY <2>5, <3>1 DEF JobType, LineOnCourse, OnlyPixelsStored
  <2>6. CASE /\ job' = [job EXCEPT !.i = job.i + 1, !.x = LineX(job.x), !.y = Add(job.y, GlyphSize)]
             /\ UNCHANGED <<fb, stored, spilled>>
    <3>1. job' \in TextJobs /\ job'.at # "line"
      BY <2>1, <2>2, <2>3, <2>4, <2>6 DEF TextJobs, LineX
    <3> QED
      BY <2>6, <3>1 DEF JobType, LineOnCourse, OnlyPixelsStored
  <2>7. CASE /\ graphics_draw_char(job.x, job.y, c)
             /\ job' = [job EXCEPT !.i = job.i + 1, !.x = Add(job.x, GlyphSize)]
    <3>1. job' \in TextJobs /\ job'.at # "line"
      BY <2>1, <2>2, <2>3, <2>4, <2>7 DEF TextJobs
    <3>2. OnlyPixelsStored'
      <4>1. CASE c \notin DOMAIN Font
        BY <2>7, <4>1 DEF graphics_draw_char, OnlyPixelsStored
      <4>2. CASE c \in DOMAIN Font
        <5> DEFINE ink  == PlacedWords(job.x, job.y, Font[c])
                   rest == PlacedWords(job.x, job.y, CellPoints \ Font[c])
        <5>1. Font[c] \in SUBSET CellPoints /\ CellPoints \ Font[c] \in SUBSET CellPoints
          BY <4>2, FontAssumption
        <5>2. ink \in SUBSET PixelWords /\ rest \in SUBSET PixelWords
          BY <2>3, <5>1, PlacedPixels
        <5>3. /\ stored' = stored \cup ink \cup rest
              /\ spilled' = (spilled \/ ~(ink \cup rest \subseteq Word))
          BY <2>7, <4>2 DEF graphics_draw_char, Store
        <5> HIDE DEF ink, rest
        <5> QED
          BY <5>2, <5>3, StoreToPixels
      <4> QED
        BY <4>1, <4>2
    <3> QED
      BY <3>1, <3>2 DEF JobType, LineOnCourse
  <2> QED
    BY <1>4, <2>5, <2>6, <2>7 DEF graphics_draw_string
<1>5. CASE Return
  BY <1>5 DEF Return, JobType, OnlyPixelsStored, LineOnCourse
<1>6. ASSUME NEW r \in Requests, Call(r) PROVE DrawInv'
  <2>1. OnlyPixelsStored'
    BY <1>6 DEF Call, OnlyPixelsStored
  <2>2. CASE initialized
    <3>1. job' = Start(r) /\ r \in Known
      BY <1>6, <2>2 DEF Call, Known
    <3> QED
      BY <2>1, <3>1, LineStarts
  <2>3. CASE ~initialized
    <3>1. job' = Idle
      BY <1>6, <2>3 DEF Call
    <3> QED
      BY <2>1, <3>1 DEF JobType, LineOnCourse
  <2> QED
    BY <2>2, <2>3
<1>7. ASSUME NEW mode \in Modes, graphics_init(mode) PROVE DrawInv'
  <2>1. OnlyPixelsStored'
    BY <1>7 DEF graphics_init, OnlyPixelsStored
  <2>2. CASE mode.linear /\ mode.packed /\ mode.bpp = 32
    <3>1. job' = Start([kind |-> "clear", color |-> Black])
      BY <1>7, <2>2 DEF graphics_init
    <3>2. [kind |-> "clear", color |-> Black] \in Known
      BY DEF Known
    <3> QED
      BY <2>1, <3>1, <3>2, LineStarts
  <2>3. CASE ~(mode.linear /\ mode.packed /\ mode.bpp = 32)
    <3>1. job' = job
      BY <1>7, <2>3 DEF graphics_init
    <3> QED
      BY <2>1, <3>1 DEF JobType, LineOnCourse
  <2> QED
    BY <2>2, <2>3
<1>8. CASE graphics_init_simple \/ graphics_cleanup \/ UNCHANGED vars
  BY <1>8 DEF graphics_init_simple, graphics_cleanup, vars, JobType, OnlyPixelsStored, LineOnCourse
<1> QED
  BY <1>1, <1>2, <1>3, <1>4, <1>5, <1>6, <1>7, <1>8 DEF Next, Step

(* The invariant holds from the start, with nothing drawn.                 *)
LEMMA DrawInvInvariant == Spec => []DrawInv
<1>1. Init => DrawInv
  BY DEF Init, DrawInv, JobType, OnlyPixelsStored, LineOnCourse
<1>2. DrawInv /\ [Next]_vars => DrawInv'
  BY DrawInvStep
<1> QED
  BY <1>1, <1>2, PTL DEF Spec

(* On a screen of any size and padding, no drawing function ever stores    *)
(* outside the framebuffer or to the padding of a line, whatever the       *)
(* coordinates, sizes, texts and fonts, and wherever the sums wrap.        *)
THEOREM OnlyPixelsStoredAlways == Spec => []OnlyPixelsStored
<1>1. DrawInv => OnlyPixelsStored
  BY DEF DrawInv
<1> QED
  BY <1>1, DrawInvInvariant, PTL

(* draw_line is on course for lines of every slope and length: it never    *)
(* leaves the rectangle its ends span, and its error term is exact.        *)
THEOREM LineOnCourseAlways == Spec => []LineOnCourse
<1>1. DrawInv => LineOnCourse
  BY DEF DrawInv
<1> QED
  BY <1>1, DrawInvInvariant, PTL

=============================================================================
