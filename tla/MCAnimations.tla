---------------------------- MODULE MCAnimations ----------------------------
(***************************************************************************)
(* Real screens, odd ones, ones that hardly hold the ball or a rectangle,  *)
(* ones that do not, and one that was not initialised.                     *)
(***************************************************************************)
EXTENDS Animations

Screen(w, h) == [width |-> w, height |-> h, initialized |-> TRUE]

Sizes == {Screen(320, 200), Screen(640, 480), Screen(1024, 768), Screen(81, 75),
          Screen(70, 60), Screen(41, 42), Screen(40, 110), Screen(24, 19)}

Vga == {Screen(640, 480)}

Small == {Screen(10, 3), Screen(2, 17)}

AllScreens ==
  Sizes \cup Small \cup {[width |-> 640, height |-> 480, initialized |-> FALSE]}

Scaled == 2 ^ 24

=============================================================================
