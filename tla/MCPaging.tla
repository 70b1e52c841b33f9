------------------------------ MODULE MCPaging ------------------------------
(***************************************************************************)
(* Small machines for Paging: tables of 3 entries, so 81 virtual pages, an *)
(* identity map of 9 pages, and pages of 2 bytes.                          *)
(***************************************************************************)
EXTENDS Paging

PlainFlags == {"PRESENT", "RW"}

Map(page, frame, flags) ==
  [virt |-> 2 * page + 1, phys |-> 2 * frame, flags |-> flags]

(* Page 11 needs two new tables, page 12 shares one with it, page 30 needs *)
(* three, more than are left after the first two.                          *)
MapsFar ==
  {Map(11, 7, PlainFlags), Map(11, 20, {"PRESENT"}), Map(12, 5, PlainFlags),
   Map(30, 7, PlainFlags), Map(12, 5, {"RW"})}

UnmapsFar == {22, 24, 61}

(* Three bytes in two pages, the second under another pdpt entry, and one  *)
(* of no size.                                                             *)
FbFar == {[phys |-> 34, size |-> 3], [phys |-> 34, size |-> 0]}

FbOne == {[phys |-> 34, size |-> 4]}
None == {}

(* Page 4 is in the identity map, under the huge page that starts at frame *)
(* 3, which holds data.                                                    *)
MapsHuge == {Map(4, 7, PlainFlags)}

(* Four frames free, which all fit under the identity map; or two that do  *)
(* and two that do not.  The bitmap is in frame 5, behind the boot tables. *)
BitmapsTwo == {{0, 1, 2, 4, 5, 9, 10}, 0 .. 6}
BitmapsLow == {0 .. 5}

BitmapInFive == [f \in Ram |-> IF f = 5 THEN Ram ELSE {}]

PagesFar == (0 .. 18) \cup {30, 31, 57}

=============================================================================
