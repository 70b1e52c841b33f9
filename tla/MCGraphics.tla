----------------------------- MODULE MCGraphics -----------------------------
(***************************************************************************)
(* A screen of 5 by 4 pixels with 6 words per line for Graphics, on a      *)
(* plane of 128 by 128.                                                    *)
(***************************************************************************)
EXTENDS Graphics

Rgb(r, g, b, a) == [red |-> r, green |-> g, blue |-> b, alpha |-> a]

BlackDef == Rgb(0, 0, 0, 1)
Ink    == Rgb(1, 0, 0, 0)
Ground == Rgb(0, 1, 0, 1)

(* Coordinates on the screen, at its border, behind it, and, as 127, left  *)
(* of it or above it; sizes up to ones that wrap around                    *)
Rects(kind) ==
  [kind : {kind}, color : {Ink}, x : {1, 127}, y : {2, 126}, width : {0, 1, 3, 127},
   height : {1, 3, 126}]

Dots == [kind : {"pixel"}, color : {Ink}, x : {0, 4, 5}, y : {3, 4, 127}]

Clears == [kind : {"clear"}, color : {Ground}]

Segments ==
  [kind : {"horizontal"}, color : {Ink}, x : {0, 3, 127}, y : {3, 4}, width : {2, 127}]
    \cup [kind : {"vertical"}, color : {Ink}, x : {4, 5}, y : {0, 3, 127}, height : {2, 127}]

Lines ==
  [kind : {"line"}, color : {Ink}, x0 : {0, 3}, y0 : {1}, x1 : {0, 1, 3, 4, 6}, y1 : {0, 1, 4, 6}]
    \cup [kind : {"line"}, color : {Ink}, x0 : {6}, y0 : {4}, x1 : {0, 1, 4}, y1 : {0, 2, 3}]

Rounds(kind, radii) ==
  [kind : {kind}, color : {Ink}, cx : {2, 127}, cy : {1, 5}, radius : radii]

Texts ==
  [kind : {"string"}, color : {Ink}, ground : {Ground}, x : {1, 127}, y : {0, 127},
   text : {<<>>, <<"A", "?", "A">>, <<"A", "newline", "newline", "A">>,
           <<"?", "newline", "A", "A">>}]

RequestsAll ==
  Rects("fill_rect") \cup Rects("draw_rect") \cup Dots \cup Clears \cup Segments \cup Lines
    \cup Rounds("circle", {1, 2, 3, 5}) \cup Rounds("disc", {0, 1, 2, 3, 5}) \cup Texts

(* The modes have blue first, graphics_init_simple assumes red first. *)
Bgr == [red |-> 1, green |-> 2, blue |-> 4]

ModesAll == [linear : BOOLEAN, packed : BOOLEAN, bpp : {24, 32}, unit : {Bgr}]

FontA == [c \in {"A"} |-> {<<0, 0>>, <<1, 1>>}]

=============================================================================
