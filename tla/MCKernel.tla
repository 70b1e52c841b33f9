------------------------------ MODULE MCKernel ------------------------------
(***************************************************************************)
(* Small boots for Kernel: tables of 3 entries, pages of two pixels, an    *)
(* identity map of 9 pages, four frames for page tables.                   *)
(***************************************************************************)
EXTENDS Kernel

CpusAll == [cpuid : BOOLEAN, extended : BOOLEAN, long_mode : BOOLEAN]

Fb(addr, width, height, pitch) ==
  [framebuffer |-> TRUE, type |-> 1, bpp |-> 32,
   addr |-> addr, width |-> width, height |-> height, pitch |-> pitch]

(* Three pages under two directory entries, with a line longer than its    *)
(* pixels: all four frames become tables.                                  *)
FbGood == Fb(136, 2, 2, 12)

(* Two pages under two directory entries of different tables: five tables  *)
(* are needed, one more than there are frames.                             *)
FbShort == Fb(208, 2, 2, 8)

(* A pitch that is no multiple of the pixel, and an odd last page *)
FbOdd == Fb(136, 1, 3, 5)

(* Lines shorter than their pixels: the last one leaves the framebuffer. *)
FbNarrow == Fb(136, 2, 2, 4)

(* An address inside a page *)
FbInside == Fb(140, 2, 1, 8)

(* In the boot identity map *)
FbLow == Fb(56, 1, 1, 4)

(* Larger than MaxFbSize *)
FbHuge == Fb(136, 2, 2, 28)

Refused ==
  {[FbGood EXCEPT !.framebuffer = FALSE], [FbGood EXCEPT !.type = 2],
   [FbGood EXCEPT !.addr = 0], [FbGood EXCEPT !.addr = 16],
   [FbGood EXCEPT !.bpp = 24], [FbGood EXCEPT !.width = 0],
   [FbGood EXCEPT !.height = 0], [FbGood EXCEPT !.pitch = 0]}

Infos == {FbGood, FbShort, FbOdd, FbNarrow, FbInside, FbLow, FbHuge} \cup Refused

LoadersAll ==
  {[magic |-> 7, mbi |-> m] : m \in Infos} \cup {[magic |-> 5, mbi |-> FbGood]}

(* Four free frames, or one.  The bitmap is in frame 6, the start of the   *)
(* huge page FbLow is in: mapping it writes into the bitmap.               *)
BitmapsTwo == {{0, 1, 2, 4, 6}, 0 .. 7}

BitmapInSix == [f \in Ram |-> IF f = 6 THEN Ram ELSE {}]

None == {}
AllPages == 0 .. 35

=============================================================================
