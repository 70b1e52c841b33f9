-------------------------- MODULE MCPhysicalMemory --------------------------
(***************************************************************************)
(* Small machines for PhysicalMemory: pages of 4 bytes, bitmap bytes of 4  *)
(* bits, heap blocks aligned to 2, low memory ending at frame 2 and a      *)
(* kernel whose .bss ends in the middle of frame 2.                        *)
(***************************************************************************)
EXTENDS PhysicalMemory

Entry(base, end, type) == [base |-> base, len |-> end - base, type |-> type]

Map(entries, mods) ==
  [has_map |-> TRUE, mmap |-> entries, upper |-> 0, mods |-> mods]

(* upper is mem_upper in bytes: the field counts KiB above low memory. *)
NoMap(upper, mods) ==
  [has_map |-> FALSE, mmap |-> {}, upper |-> upper, mods |-> mods]

LowMemory == {Entry(0, 7, 1), Entry(7, 8, 2)}

(* 8 frames, a module that straddles frames 4 and 5 *)
MbiModule == Map(LowMemory \cup {Entry(8, 32, 1)}, {[start |-> 17, end |-> 21]})

(* RAM that ends inside frame 3, a hole, and a top that is no page boundary *)
MbiHole == Map(LowMemory \cup {Entry(8, 15, 1), Entry(15, 20, 2), Entry(20, 35, 1)}, {})

(* no memory map: mem_upper only *)
MbiFallback == NoMap(22, {})

(* an available entry that starts inside frame 4 *)
MbiUnaligned == Map(LowMemory \cup {Entry(8, 13, 1), Entry(13, 18, 2), Entry(18, 33, 1)}, {})

(* 10 frames: the bitmap needs three bytes and crosses into frame 3, which *)
(* is a hole on the first machine and RAM on the second.                   *)
MbiWide == Map(LowMemory \cup {Entry(8, 12, 1), Entry(12, 24, 2), Entry(24, 40, 1)}, {})
MbiLarge == Map(LowMemory \cup {Entry(8, 20, 1), Entry(32, 40, 1)}, {})

MbisSafe == {MbiModule, MbiHole, MbiFallback, MbiUnaligned, MbiWide}
MbisLarge == {MbiLarge}

(* An odd size, one of more than a page, and one that wraps the pointer *)
SizesWrap == {3, 9, 60}
SizesSmall == {0, 3}

FreeArgsAll == 0 .. 41

=============================================================================
