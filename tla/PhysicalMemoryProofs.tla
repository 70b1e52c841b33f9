------------------------ MODULE PhysicalMemoryProofs ------------------------
(***************************************************************************)
(* Theorems about the physical memory manager: its state is well typed,    *)
(* frames handed out stay marked and reserved frames stay reserved, and    *)
(* blocks of kmalloc never overlap and lie in reserved frames, for every   *)
(* machine, page size and sequence of calls.                               *)
(***************************************************************************)
EXTENDS PhysicalMemory, NatLemmas

-----------------------------------------------------------------------------
(* What memory_init computes *)

(* The loop that keeps the highest end of an available entry ends with a   *)
(* number, because the ends are below 2^64.                                *)
LEMMA MaxAddrType ==
  ASSUME NEW m \in Mbis
  PROVE  MaxAddr(m) \in Tops(m) /\ MaxAddr(m) \in Nat
<1>1. Tops(m) \in SUBSET Nat /\ Tops(m) # {}
  BY MbiAssumption, UnitsAssumption DEF Tops, Available
<1>2. \E b \in Nat : \A t \in Tops(m) : t <= b
  <2>1. CASE m.has_map
    <3>1. \A e \in Available(m) : e.base + e.len <= AddrSpace
      BY MbiAssumption, UnitsAssumption DEF Available
    <3>2. \A t \in Tops(m) : t <= AddrSpace
      BY <2>1, <3>1, UnitsAssumption DEF Tops
    <3> QED
      BY <3>2, UnitsAssumption
  <2>2. CASE ~m.has_map
    <3>1. Tops(m) = {m.upper + LowTop}
      BY <2>2 DEF Tops
    <3>2. m.upper + LowTop \in Nat
      BY MbiAssumption, UnitsAssumption
    <3> QED
      BY <3>1, <3>2
  <2> QED
    BY <2>1, <2>2
<1>3. \E t \in Tops(m) : \A u \in Tops(m) : u <= t
  BY <1>1, <1>2, GreatestElement
<1> QED
  BY <1>1, <1>3 DEF MaxAddr

(* nframes, the quotient of that number by the page size, is a number.     *)
LEMMA NFramesType ==
  ASSUME NEW m \in Mbis
  PROVE  NFrames(m) \in Nat
BY MaxAddrType, UnitsAssumption, Division DEF NFrames

(* So is bitmap_size, the number of bytes memory_init reserves for the bits. *)
LEMMA BitmapSizeType ==
  ASSUME NEW n \in Nat
  PROVE  BitmapSize(n) \in Nat
BY UnitsAssumption, Division DEF BitmapSize

(* Frame indices are naturals, and the frame of address 0 is reserved: the *)
(* kernel's own range starts there.                                        *)
LEMMA BootBitmapType ==
  ASSUME NEW m \in Mbis
  PROVE  BootBitmap(m) \subseteq Nat /\ 0 \in BootBitmap(m)
<1>1. NFrames(m) \in Nat /\ BitmapSize(NFrames(m)) \in Nat
  BY NFramesType, BitmapSizeType
<1>2. BitmapBits(NFrames(m)) \subseteq Nat
  BY DEF BitmapBits
<1>3. \A lo, hi \in Nat : Pages(lo, hi) \subseteq Nat
  BY UnitsAssumption, Division DEF Pages
<1>4. BitmapFrames(NFrames(m)) \subseteq Nat
  BY <1>1, <1>3, UnitsAssumption DEF BitmapFrames, BitmapEnd
<1>5. KernelFrames \subseteq Nat /\ 0 \in KernelFrames
  <2>1. 0 \div PageSize = 0
    BY UnitsAssumption
  <2>2. 0 \div PageSize <= (BssEnd + PageSize - 1) \div PageSize - 1
    BY PageBelow, UnitsAssumption
  <2>3. (BssEnd + PageSize - 1) \div PageSize \in Nat
    BY UnitsAssumption, Division
  <2> QED
    BY <1>3, <2>1, <2>2, <2>3, UnitsAssumption DEF KernelFrames, Pages
<1>6. ModuleFrames(m) \subseteq Nat
  BY <1>3, MbiAssumption DEF ModuleFrames
<1> QED
  BY <1>2, <1>4, <1>5, <1>6 DEF BootBitmap

-----------------------------------------------------------------------------
(* What the search of frame_alloc finds, and what zeroing a frame touches *)

(* frame_alloc's first-fit search ends at the least free frame, which is one *)
(* that is managed and whose bit is 0.                                     *)
LEMMA FirstFreeType ==
  ASSUME nframes \in Nat, FreeFrames # {}
  PROVE  /\ FirstFree \in FreeFrames
         /\ FirstFree \in 0 .. (nframes - 1)
         /\ FirstFree \notin bitmap
<1>1. FreeFrames \in SUBSET Nat
  BY DEF FreeFrames
<1>2. \E i \in FreeFrames : \A j \in FreeFrames : i <= j
  BY <1>1, LeastElement
<1>3. FirstFree \in FreeFrames
  BY <1>2 DEF FirstFree
<1> QED
  BY <1>3 DEF FreeFrames

(* Only a frame that holds a part of the bitmap holds bits of it. *)
LEMMA BitsInBitmapFrames ==
  ASSUME nframes \in Nat, NEW i, BitsIn(i) # {}
  PROVE  i \in BitmapFrames(nframes)
<1> DEFINE size == BitmapSize(nframes)
<1>1. size \in Nat
  BY BitmapSizeType
<1>2. PICK b \in BitmapBits(nframes) : (BssEnd + b \div ByteBits) \div PageSize = i
  BY DEF BitsIn
<1>3. b \in Nat /\ b < ByteBits * size
  BY <1>1, <1>2, UnitsAssumption DEF BitmapBits
<1>4. b \div ByteBits \in Nat /\ b \div ByteBits < size
  <2>1. /\ b \div ByteBits \in Nat
        /\ b % ByteBits \in 0 .. (ByteBits - 1)
        /\ b = ByteBits * (b \div ByteBits) + (b % ByteBits)
    BY <1>3, Division, UnitsAssumption
  <2>2. ByteBits * (b \div ByteBits) \in Int
    BY <2>1, UnitsAssumption
  <2>3. ByteBits * (b \div ByteBits) < ByteBits * ((size - 1) + 1)
    <3> HIDE DEF size
    <3>1. (size - 1) + 1 = size
      BY <1>1
    <3>2. ByteBits * size \in Int
      BY <1>1, UnitsAssumption
    <3> QED
      BY <1>3, <2>1, <2>2, <3>1, <3>2
  <2>4. b \div ByteBits <= size - 1
    BY <1>1, <2>1, <2>3, Multiples, UnitsAssumption
  <2> QED
    BY <1>1, <2>1, <2>4
<1> DEFINE a == BssEnd + b \div ByteBits
<1>5. a \in Nat /\ BssEnd <= a /\ a < BssEnd + size
  BY <1>1, <1>4, UnitsAssumption
<1>6. BssEnd \div PageSize <= a \div PageSize
  BY <1>5, DivMonotone, UnitsAssumption
<1>7. a \div PageSize <= (BssEnd + size + PageSize - 1) \div PageSize - 1
  BY <1>1, <1>5, PageBelow, UnitsAssumption
<1>8. /\ BssEnd \div PageSize \in Nat
      /\ a \div PageSize \in Nat
      /\ (BssEnd + size + PageSize - 1) \div PageSize \in Nat
  <2>1. BssEnd + size + PageSize - 1 \in Nat
    BY <1>1, UnitsAssumption
  <2> QED
    BY <2>1, <1>5, Division, UnitsAssumption
<1>9. BitmapFrames(nframes)
        = (BssEnd \div PageSize) .. ((BssEnd + size + PageSize - 1) \div PageSize - 1)
  BY DEF BitmapFrames, BitmapEnd, Pages
<1> QED
  <2> DEFINE lo == BssEnd \div PageSize
             hi == (BssEnd + size + PageSize - 1) \div PageSize
             q  == a \div PageSize
  <2>1. q \in lo .. (hi - 1)
    <3>1. lo \in Nat /\ q \in Nat /\ hi \in Nat /\ lo <= q /\ q <= hi - 1
      BY <1>6, <1>7, <1>8
    <3> HIDE DEF lo, hi, q
    <3> QED
      BY <3>1
  <2> QED
    BY <1>2, <1>9, <2>1

-----------------------------------------------------------------------------
(* Types *)

TypeInv == TypeOK /\ FramesKnown

(* The rounding in kmalloc gives a natural number, also where it wraps.    *)
LEMMA RoundUpType ==
  ASSUME NEW a \in Nat, NEW n \in Nat \ {0}
  PROVE  RoundUp(a, n) \in Nat
<1> DEFINE s == (a + n - 1) % AddrSpace
<1>1. s \in Nat
  <2>1. a + n - 1 \in Nat
    OBVIOUS
  <2> QED
    BY <2>1, Division, UnitsAssumption
<1>2. s \div n \in Nat
  BY <1>1, Division
<1>3. (s \div n) * n \in Nat
  BY <1>2
<1> QED
  BY <1>3 DEF RoundUp, RoundDown

(* kmalloc's first heap address, its next heap pointer and the frames of a *)
(* new block are natural numbers for every request.                        *)
LEMMA HeapType ==
  ASSUME TypeInv, NEW size \in Nat
  PROVE  /\ HeapStart \in Nat
         /\ HeapNext(size) \in Nat
         /\ HeapSpan(size) \subseteq Nat
<1>1. HeapStart \in Nat
  <2>1. BitmapEnd(nframes) \in Nat
    <3>1. BitmapSize(nframes) \in Nat
      BY BitmapSizeType DEF TypeInv, TypeOK
    <3> QED
      BY <3>1, UnitsAssumption DEF BitmapEnd
  <2>2. RoundUp(BitmapEnd(nframes), HeapAlign) \in Nat
    BY <2>1, RoundUpType, UnitsAssumption
  <2> QED
    BY <2>2 DEF HeapStart, TypeInv, TypeOK
<1>2. HeapNext(size) \in Nat
  <2>1. HeapStart + RoundUp(size, HeapAlign) \in Nat
    BY <1>1, RoundUpType, UnitsAssumption
  <2> QED
    BY <2>1, Division, UnitsAssumption DEF HeapNext
<1>3. HeapStart \div PageSize \in Nat
  BY <1>1, Division, UnitsAssumption
<1> QED
  BY <1>1, <1>2, <1>3 DEF HeapSpan

(* Every call leaves well-typed state behind, and nobody ever holds a      *)
(* frame outside the managed range: frame_alloc's search stops at nframes. *)
LEMMA TypeInvStep ==
  ASSUME TypeInv, [Next]_vars
  PROVE  TypeInv'
<1> USE DEF TypeInv, TypeOK, FramesKnown
<1>1. ASSUME NEW m \in Mbis, memory_init(m) PROVE TypeInv'
  <2>1. nframes = 0 /\ owned = {} /\ tables = {}
    BY <1>1 DEF memory_init, ManagedFrames
  <2>2. nframes' \in Nat /\ bitmap' \subseteq Nat
    BY <1>1, NFramesType, BootBitmapType DEF memory_init
  <2> QED
    BY <1>1, <2>1, <2>2, CallsAssumption DEF memory_init, ManagedFrames
<1>2. CASE frame_alloc
  <2>1. CASE FreeFrames # {}
    <3>1. FirstFree \in 0 .. (nframes - 1)
      BY <2>1, FirstFreeType
    <3>2. FirstFree * PageSize \in Nat
      BY <3>1, UnitsAssumption
    <3>3. bitmap' \subseteq Nat /\ ret' \in Nat
      <4>1. bitmap' \subseteq bitmap \cup {FirstFree} /\ ret' = FirstFree * PageSize
        BY <1>2, <2>1 DEF frame_alloc
      <4>2. FirstFree \in Nat /\ bitmap \subseteq Nat
        BY <3>1
      <4> QED
        BY <3>2, <4>1, <4>2
    <3>4. owned' \subseteq 0 .. (nframes - 1)
      BY <1>2, <2>1, <3>1 DEF frame_alloc, ManagedFrames, Returned
    <3>5. UNCHANGED <<mbi, nframes, heap_ptr, tables, blocks, collided>>
      BY <1>2 DEF frame_alloc
    <3> QED
      BY <3>3, <3>4, <3>5 DEF ManagedFrames
  <2>2. CASE FreeFrames = {}
    <3>1. ret' = 0 /\ UNCHANGED <<mbi, bitmap, nframes, heap_ptr, owned, tables, blocks, collided>>
      BY <1>2, <2>2 DEF frame_alloc
    <3> QED
      BY <3>1 DEF ManagedFrames
  <2> QED
    BY <2>1, <2>2
<1>3. CASE alloc_page_table
  <2>1. CASE FreeFrames # {}
    <3>1. FirstFree \in 0 .. (nframes - 1)
      BY <2>1, FirstFreeType
    <3>2. FirstFree * PageSize \in Nat
      BY <3>1, UnitsAssumption
    <3>3. bitmap' \subseteq Nat /\ ret' \in Nat
      <4>1. bitmap' \subseteq bitmap \cup {FirstFree} /\ ret' = FirstFree * PageSize
        BY <1>3, <2>1 DEF alloc_page_table
      <4>2. FirstFree \in Nat /\ bitmap \subseteq Nat
        BY <3>1
      <4> QED
        BY <3>2, <4>1, <4>2
    <3>4. tables' \subseteq 0 .. (nframes - 1)
      BY <1>3, <2>1, <3>1 DEF alloc_page_table, ManagedFrames, Returned
    <3>5. UNCHANGED <<mbi, nframes, heap_ptr, owned, blocks, collided>>
      BY <1>3 DEF alloc_page_table
    <3> QED
      BY <3>3, <3>4, <3>5 DEF ManagedFrames
  <2>2. CASE FreeFrames = {}
    <3>1. ret' = 0 /\ UNCHANGED <<mbi, bitmap, nframes, heap_ptr, owned, tables, blocks, collided>>
      BY <1>3, <2>2 DEF alloc_page_table
    <3> QED
      BY <3>1 DEF ManagedFrames
  <2> QED
    BY <2>1, <2>2
<1>4. ASSUME NEW paddr \in FreeArgs, frame_free(paddr) PROVE TypeInv'
  BY <1>4 DEF frame_free, ManagedFrames
<1>5. ASSUME NEW size \in Sizes, kmalloc(size) PROVE TypeInv'
  <2>1. size \in Nat
    BY CallsAssumption
  <2>2. /\ HeapStart \in Nat
        /\ HeapNext(size) \in Nat
        /\ HeapSpan(size) \subseteq Nat
    BY <2>1, HeapType
  <2>3. blocks' \in Seq([ptr : Nat, size : Nat])
    BY <1>5, <2>1, <2>2 DEF kmalloc
  <2> QED
    BY <1>5, <2>2, <2>3 DEF kmalloc, ManagedFrames
<1>6. CASE UNCHANGED vars
  BY <1>6 DEF vars, ManagedFrames
<1> QED
  BY <1>1, <1>2, <1>3, <1>4, <1>5, <1>6 DEF Next

(* The memory manager's variables keep their types, and every frame that   *)
(* is held is a managed one.                                               *)
LEMMA TypeInvHolds == Spec => []TypeInv
<1>1. Init => TypeInv
  BY DEF Init, TypeInv, TypeOK, FramesKnown
<1>2. TypeInv /\ [Next]_vars => TypeInv'
  BY TypeInvStep
<1> QED
  BY <1>1, <1>2, PTL DEF Spec

(* The bitmap, the heap pointer and the blocks keep their types through    *)
(* every sequence of calls, also where kmalloc's sums wrap.                *)
THEOREM TypeCorrect == Spec => []TypeOK
<1>1. TypeInv => TypeOK
  BY DEF TypeInv
<1> QED
  BY <1>1, TypeInvHolds, PTL

-----------------------------------------------------------------------------
(* Frames in use stay in use *)

(* HeldFramesMarked alone is not inductive: alloc_page_table zeroes the    *)
(* frame it gets, and that leaves the bitmap alone only because the frames *)
(* of the bitmap are among the reserved ones, which is BootFramesKept.     *)
FramesMarked ==
  /\ Held \subseteq bitmap
  /\ owned \cap tables = {}
  /\ BootBitmap(mbi) \subseteq bitmap
  /\ BootBitmap(mbi) \cap Held = {}

FrameInv == BitmapSafe => FramesMarked

(* A frame the search finds is not the answer for failure and holds no     *)
(* part of the bitmap, when memory_init reserved the bitmap's frames.      *)
LEMMA FoundFrame ==
  ASSUME TypeInv, FrameInv, BitmapSafe, FreeFrames # {}
  PROVE  /\ FirstFree \in ManagedFrames \ bitmap
         /\ FirstFree # 0
         /\ FirstFree \notin BootBitmap(mbi)
         /\ BitsIn(FirstFree) = {}
<1>1. nframes \in Nat /\ mbi \in Mbis /\ nframes = NFrames(mbi)
  BY DEF TypeInv, TypeOK, FramesKnown, BitmapSafe
<1>2. FirstFree \in 0 .. (nframes - 1) /\ FirstFree \notin bitmap
  BY <1>1, FirstFreeType
<1>3. FirstFree \notin BootBitmap(mbi)
  BY <1>2 DEF FrameInv, FramesMarked
<1>4. FirstFree # 0
  BY <1>1, <1>3, BootBitmapType
<1>5. BitsIn(FirstFree) = {}
  <2>1. FirstFree \notin BitmapFrames(nframes)
    BY <1>1, <1>3 DEF BitmapSafe
  <2> QED
    BY <1>1, <2>1, BitsInBitmapFrames
<1> QED
  BY <1>2, <1>3, <1>4, <1>5 DEF ManagedFrames

(* Every call preserves FrameInv: reserved frames stay marked and unheld,  *)
(* held frames stay marked, and no frame has two kinds of holder.          *)
LEMMA FrameInvStep ==
  ASSUME TypeInv, FrameInv, [Next]_vars
  PROVE  FrameInv'
<1> SUFFICES ASSUME BitmapSafe' PROVE FramesMarked'
  BY DEF FrameInv
<1>1. UNCHANGED mbi => BitmapSafe /\ FramesMarked
  BY DEF BitmapSafe, FrameInv
<1>2. ASSUME NEW m \in Mbis, memory_init(m) PROVE FramesMarked'
  <2>1. owned' = {} /\ tables' = {} /\ bitmap' = BootBitmap(mbi')
    BY <1>2 DEF memory_init, TypeInv, TypeOK, FramesKnown, ManagedFrames
  <2> QED
    BY <2>1 DEF FramesMarked, Held
<1>3. CASE frame_alloc
  <2>1. CASE FreeFrames # {}
    <3>1. FirstFree \notin bitmap /\ FirstFree \notin BootBitmap(mbi)
      BY <1>1, <1>3, <2>1, FoundFrame DEF frame_alloc
    <3>2. /\ mbi' = mbi /\ tables' = tables
          /\ bitmap' = bitmap \cup {FirstFree}
          /\ owned' \subseteq owned \cup {FirstFree}
      BY <1>3, <2>1 DEF frame_alloc, Returned
    <3> QED
      BY <1>1, <3>1, <3>2 DEF FramesMarked, Held
  <2>2. CASE FreeFrames = {}
    BY <1>1, <1>3, <2>2 DEF frame_alloc, FramesMarked, Held
  <2> QED
    BY <2>1, <2>2
<1>4. CASE alloc_page_table
  <2>1. CASE FreeFrames # {}
    <3>1. /\ FirstFree \notin bitmap /\ FirstFree \notin BootBitmap(mbi)
          /\ BitsIn(FirstFree) = {}
      BY <1>1, <1>4, <2>1, FoundFrame DEF alloc_page_table
    <3>2. /\ mbi' = mbi /\ owned' = owned
          /\ bitmap' = bitmap \cup {FirstFree}
          /\ tables' \subseteq tables \cup {FirstFree}
      BY <1>4, <2>1, <3>1 DEF alloc_page_table, Returned
    <3> QED
      BY <1>1, <3>1, <3>2 DEF FramesMarked, Held
  <2>2. CASE FreeFrames = {}
    BY <1>1, <1>4, <2>2 DEF alloc_page_table, FramesMarked, Held
  <2> QED
    BY <2>1, <2>2
<1>5. ASSUME NEW paddr \in FreeArgs, frame_free(paddr) PROVE FramesMarked'
  <2>1. CASE Accepted(paddr)
    <3>1. paddr \div PageSize \in owned
      <4>1. paddr \div PageSize \in Nat /\ nframes \in Nat
        BY CallsAssumption, UnitsAssumption, Division DEF TypeInv, TypeOK
      <4> QED
        BY <1>5, <2>1, <4>1 DEF frame_free, MayFree, Accepted
    <3> QED
      BY <1>1, <1>5, <2>1, <3>1 DEF frame_free, FramesMarked, Held
  <2>2. CASE ~Accepted(paddr)
    BY <1>1, <1>5, <2>2 DEF frame_free, FramesMarked, Held
  <2> QED
    BY <2>1, <2>2
<1>6. ASSUME NEW size \in Sizes, kmalloc(size) PROVE FramesMarked'
  BY <1>1, <1>6 DEF kmalloc, FramesMarked, Held
<1>7. CASE UNCHANGED vars
  BY <1>1, <1>7 DEF vars, FramesMarked, Held
<1> QED
  BY <1>2, <1>3, <1>4, <1>5, <1>6, <1>7 DEF Next

(* The inductive invariant holds in every state of the allocator.          *)
THEOREM FrameInvHolds == Spec => []FrameInv
<1>1. Init => FrameInv
  BY DEF Init, FrameInv, BitmapSafe
<1>2. TypeInv /\ FrameInv /\ [Next]_vars => FrameInv'
  BY FrameInvStep
<1> QED
  BY <1>1, <1>2, TypeInvHolds, PTL DEF Spec

(* frame_alloc and alloc_page_table never hand a frame out twice: on every *)
(* machine whose bitmap lies in reserved frames, a held frame is marked    *)
(* used, and no frame is both an allocation and a page table.              *)
THEOREM HeldFramesMarkedHolds == Spec => []HeldFramesMarked
<1>1. FrameInv => HeldFramesMarked
  BY DEF FrameInv, FramesMarked, HeldFramesMarked
<1> QED
  BY <1>1, FrameInvHolds, PTL

(* What memory_init reserved stays reserved through every sequence of      *)
(* allocations, frees and kmallocs.                                        *)
THEOREM BootFramesKeptHolds == Spec => []BootFramesKept
<1>1. FrameInv => BootFramesKept
  BY DEF FrameInv, FramesMarked, BootFramesKept
<1> QED
  BY <1>1, FrameInvHolds, PTL

(* An allocation that answers 0 found no free frame: frame 0 is reserved,  *)
(* so the address 0 is never a success.                                    *)
THEOREM AllocFailsHolds == Spec => AllocFailsOnlyWhenFull
<1>1. ASSUME TypeInv, FrameInv, [Next]_vars
      PROVE  [BitmapSafe /\ (frame_alloc \/ alloc_page_table) /\ ret' = 0
                => FreeFrames = {}]_vars
  <2> SUFFICES ASSUME BitmapSafe, frame_alloc \/ alloc_page_table, FreeFrames # {}
               PROVE  ret' # 0
    OBVIOUS
  <2>1. ret' = FirstFree * PageSize
    BY DEF frame_alloc, alloc_page_table
  <2>2. FirstFree \in Nat /\ FirstFree # 0
    <3>1. nframes \in Nat
      BY <1>1 DEF TypeInv, TypeOK
    <3> QED
      BY <3>1, <1>1, FoundFrame DEF ManagedFrames
  <2>3. FirstFree * PageSize # 0
    BY <2>2, UnitsAssumption
  <2> QED
    BY <2>1, <2>3
<1> QED
  BY <1>1, TypeInvHolds, FrameInvHolds, PTL DEF Spec, AllocFailsOnlyWhenFull

-----------------------------------------------------------------------------
(* Free and held frames are RAM *)

(* A frame the boot pass frees for an available entry that is page aligned *)
(* (memory.cpp:95-100) has all its bytes in that entry.                    *)
LEMMA EntryFrameIsRam ==
  ASSUME NEW base \in Nat, NEW len \in Nat, base % PageSize = 0, NEW f \in Int,
         f \in (base \div PageSize) .. (base \div PageSize + len \div PageSize - 1)
  PROVE  base <= f * PageSize /\ (f + 1) * PageSize <= base + len
<1> DEFINE b == base \div PageSize
           l == len \div PageSize
<1>1. b \in Nat /\ base = PageSize * b
  <2>1. base = PageSize * b + (base % PageSize)
    BY Division, UnitsAssumption
  <2>2. b \in Nat
    BY Division, UnitsAssumption
  <2>3. PageSize * b \in Nat
    BY <2>2, UnitsAssumption
  <2> HIDE DEF b
  <2> QED
    BY <2>1, <2>2, <2>3
<1>2. l \in Nat /\ PageSize * l \in Nat /\ PageSize * l <= len
  <2>1. l \in Nat /\ len % PageSize \in Nat /\ len = PageSize * l + (len % PageSize)
    BY Division, UnitsAssumption
  <2>2. PageSize * l \in Nat
    BY <2>1, UnitsAssumption
  <2> HIDE DEF l
  <2> QED
    BY <2>1, <2>2
<1>3. b <= f /\ f + 1 <= b + l
  BY <1>1, <1>2
<1> HIDE DEF b, l
<1>4. PageSize * b <= PageSize * f /\ PageSize * (f + 1) <= PageSize * (b + l)
  BY <1>1, <1>2, <1>3, UnitsAssumption
<1>5. PageSize * (b + l) = PageSize * b + PageSize * l
  BY <1>1, <1>2, UnitsAssumption
<1>6. f * PageSize = PageSize * f /\ (f + 1) * PageSize = PageSize * (f + 1)
      /\ PageSize * f \in Int /\ PageSize * (f + 1) \in Int
  BY UnitsAssumption
<1> QED
  BY <1>1, <1>2, <1>4, <1>5, <1>6

(* When the loader's map starts its entries on page boundaries, a frame    *)
(* that is free or handed out lies entirely in available RAM: it was freed *)
(* at boot, and the boot pass only frees whole frames of available entries.*)
THEOREM FramesAreRamHolds == Spec => []FramesAreRam
<1>1. ASSUME TypeInv, FrameInv PROVE FramesAreRam
  <2> SUFFICES ASSUME BitmapSafe, AlignedMap(mbi), NEW f \in FreeFrames \cup Held
               PROVE  IsRam(mbi, f)
    BY DEF FramesAreRam
  <2>1. mbi \in Mbis /\ nframes = NFrames(mbi) /\ nframes \in Nat
    BY <1>1 DEF TypeInv, TypeOK, FramesKnown, BitmapSafe
  <2>2. f \in 0 .. (nframes - 1) /\ f \notin BootBitmap(mbi)
    BY <1>1 DEF TypeInv, TypeOK, FrameInv, FramesMarked, FreeFrames, Held, ManagedFrames
  <2>3. f \in FreedAtBoot(mbi)
    <3>1. BitmapSize(nframes) \in Nat /\ nframes <= ByteBits * BitmapSize(nframes)
      <4> DEFINE c == nframes + ByteBits - 1
      <4>1. c \in Nat
        BY <2>1, UnitsAssumption
      <4>2. /\ c \div ByteBits \in Nat
            /\ c % ByteBits \in 0 .. (ByteBits - 1)
            /\ c = ByteBits * (c \div ByteBits) + (c % ByteBits)
        BY <4>1, Division, UnitsAssumption
      <4>3. ByteBits * (c \div ByteBits) \in Nat
        BY <4>2, UnitsAssumption
      <4>4. nframes <= ByteBits * (c \div ByteBits)
        BY <2>1, <4>2, <4>3, UnitsAssumption
      <4> QED
        BY <4>2, <4>4 DEF BitmapSize
    <3>2. ByteBits * BitmapSize(nframes) \in Nat
      BY <3>1, UnitsAssumption
    <3>3. f \in 0 .. (ByteBits * BitmapSize(nframes) - 1)
      BY <2>1, <2>2, <3>1, <3>2
    <3> QED
      BY <2>1, <2>2, <3>3 DEF BootBitmap, BitmapBits
  <2>4. CASE mbi.has_map
    <3>1. PICK e \in Available(mbi) : f \in EntryFrames(e)
      BY <2>3, <2>4 DEF FreedAtBoot
    <3>2. e.base \in Nat /\ e.len \in Nat /\ e.base % PageSize = 0
      BY <2>1, <3>1, MbiAssumption DEF Available, AlignedMap
    <3>3. e.base <= f * PageSize /\ (f + 1) * PageSize <= e.base + e.len
      BY <2>2, <3>1, <3>2, EntryFrameIsRam DEF EntryFrames
    <3> QED
      BY <2>4, <3>1, <3>3 DEF IsRam
  <2>5. CASE ~mbi.has_map
    <3> DEFINE upper == mbi.upper
               top   == upper + LowTop
    <3>1. upper \in Nat /\ top \in Nat
      BY <2>1, MbiAssumption, UnitsAssumption
    <3>2. nframes = top \div PageSize
      <4>1. MaxAddr(mbi) = top
        BY <2>1, <2>5, MaxAddrType DEF Tops
      <4> QED
        BY <2>1, <4>1 DEF NFrames
    <3>3. LowTop \div PageSize <= f /\ f + 1 <= top \div PageSize
      <4>1. LowTop \div PageSize \in Nat
        BY Division, UnitsAssumption
      <4>2. f \in (LowTop \div PageSize) .. (nframes - 1)
        BY <2>1, <2>3, <2>5 DEF FreedAtBoot
      <4> QED
        BY <2>1, <3>2, <4>1, <4>2
    <3> HIDE DEF top
    <3>4. LowTop <= f * PageSize
      <4> DEFINE q == LowTop \div PageSize
      <4>1. q \in Nat /\ LowTop = PageSize * q + (LowTop % PageSize)
        BY Division, UnitsAssumption
      <4>2. q <= f /\ f \in Int
        BY <2>2, <3>3
      <4> HIDE DEF q
      <4>3. PageSize * q <= f * PageSize /\ PageSize * q \in Int /\ f * PageSize \in Int
        BY <4>1, <4>2, UnitsAssumption
      <4>4. LowTop = PageSize * q
        <5>1. LowTop % PageSize = 0
          BY UnitsAssumption
        <5> QED
          BY <4>1, <4>3, <5>1
      <4> QED
        BY <4>3, <4>4
    <3>5. (f + 1) * PageSize <= top
      <4> DEFINE q == top \div PageSize
      <4>1. /\ q \in Nat
            /\ top % PageSize \in 0 .. (PageSize - 1)
            /\ top = PageSize * q + (top % PageSize)
        BY <3>1, Division, UnitsAssumption
      <4>2. f + 1 <= q /\ f \in Int
        BY <2>2, <3>3
      <4> HIDE DEF q
      <4>3. /\ (f + 1) * PageSize <= PageSize * q
            /\ PageSize * q \in Int
            /\ (f + 1) * PageSize \in Int
        BY <4>1, <4>2, UnitsAssumption
      <4>4. PageSize * q <= top
        BY <3>1, <4>1, <4>3, UnitsAssumption
      <4> QED
        BY <3>1, <4>3, <4>4
    <3> QED
      BY <2>5, <3>1, <3>4, <3>5, UnitsAssumption DEF IsRam, top
  <2> QED
    BY <2>4, <2>5
<1> QED
  BY <1>1, TypeInvHolds, FrameInvHolds, PTL

-----------------------------------------------------------------------------
(* The allocator implements the frame pool *)

(* One call of the allocator is one step of the frame pool, or leaves the  *)
(* pool as it is (a rejected free, a kmalloc in frames already marked).    *)
LEMMA PoolStep ==
  ASSUME TypeInv, FrameInv, mbi # NoMbi => BitmapSafe, [Next]_vars
  PROVE  [Pool!Next]_(Pool!vars)
<1> USE DEF Pool!vars
<1>1. (mbi = NoMbi => FreeFrames = {} /\ Held = {}) /\ nframes \in Nat
  BY DEF TypeInv, TypeOK, FramesKnown, FreeFrames, Held, ManagedFrames
<1>2. 0 \div PageSize = 0
  BY UnitsAssumption
<1>3. ASSUME FreeFrames # {}, ret' = FirstFree * PageSize,
             bitmap' = bitmap \cup {FirstFree}, Held' = Held \cup {FirstFree},
             UNCHANGED <<mbi, nframes>>
      PROVE  Pool!Allocate
  <2>1. FreeFrames' = FreeFrames \ {FirstFree}
    BY <1>3 DEF FreeFrames
  <2>2. FirstFree \in FreeFrames /\ FirstFree \in Nat
    BY <1>1, <1>3, FirstFreeType
  <2>3. ret' \div PageSize = FirstFree
    <3>1. /\ FirstFree * PageSize = PageSize * FirstFree
          /\ PageSize * (FirstFree + 1) = PageSize * FirstFree + PageSize
          /\ PageSize * FirstFree \in Nat
      BY <2>2, UnitsAssumption
    <3>2. PageSize * FirstFree < PageSize * (FirstFree + 1)
      BY <3>1, UnitsAssumption
    <3> QED
      BY <1>3, <2>2, <3>1, <3>2, QuotientUnique, UnitsAssumption
  <2> QED
    BY <1>3, <2>1, <2>2, <2>3 DEF Pool!Allocate
<1>4. ASSUME NEW m \in Mbis, memory_init(m) PROVE Pool!Next
  <2>1. FreeFrames' \subseteq Nat \ {0}
    <3>1. mbi' \in Mbis /\ nframes' \in Nat /\ bitmap' = BootBitmap(mbi')
      BY <1>4, NFramesType DEF memory_init
    <3>2. 0 \in bitmap'
      BY <3>1, BootBitmapType
    <3> QED
      BY <3>1, <3>2 DEF FreeFrames
  <2>2. Held' = Held /\ mbi = NoMbi /\ mbi' # NoMbi /\ ret' = ret
    BY <1>4, CallsAssumption DEF memory_init, Held
  <2>3. Pool!Open
    BY <2>1, <2>2 DEF Pool!Open
  <2> QED
    BY <2>3 DEF Pool!Next
<1>5. CASE frame_alloc
  <2>1. CASE FreeFrames # {}
    <3>1. FirstFree # 0
      BY <1>1, <2>1, FoundFrame
    <3>2. Held' = Held \cup {FirstFree}
      BY <1>5, <2>1, <3>1 DEF frame_alloc, Held, Returned
    <3> QED
      BY <1>3, <1>5, <2>1, <3>2 DEF frame_alloc, Pool!Next
  <2>2. CASE FreeFrames = {}
    BY <1>2, <1>5, <2>2 DEF frame_alloc, FreeFrames, Held, Pool!Next, Pool!Fail
  <2> QED
    BY <2>1, <2>2
<1>6. CASE alloc_page_table
  <2>1. CASE FreeFrames # {}
    <3>1. FirstFree # 0 /\ BitsIn(FirstFree) = {}
      BY <1>1, <2>1, FoundFrame
    <3>2. Held' = Held \cup {FirstFree} /\ bitmap' = bitmap \cup {FirstFree}
      BY <1>6, <2>1, <3>1 DEF alloc_page_table, Held, Returned
    <3> QED
      BY <1>3, <1>6, <2>1, <3>2 DEF alloc_page_table, Pool!Next
  <2>2. CASE FreeFrames = {}
    BY <1>2, <1>6, <2>2 DEF alloc_page_table, FreeFrames, Held, Pool!Next, Pool!Fail
  <2> QED
    BY <2>1, <2>2
<1>7. ASSUME NEW paddr \in FreeArgs, frame_free(paddr) PROVE [Pool!Next]_(Pool!vars)
  <2> DEFINE f == paddr \div PageSize
  <2>1. CASE Accepted(paddr)
    <3>1. f \in Nat
      BY CallsAssumption, UnitsAssumption, Division
    <3>2. f \in owned /\ f \in ManagedFrames
      BY <1>1, <1>7, <2>1, <3>1
         DEF frame_free, MayFree, Accepted, TypeInv, TypeOK
    <3>3. mbi # NoMbi /\ owned \cap tables = {}
      BY <1>1, <3>2 DEF Held, FrameInv, FramesMarked
    <3>4. FreeFrames' = FreeFrames \cup {f}
      BY <1>7, <2>1, <3>2 DEF frame_free, FreeFrames, ManagedFrames
    <3>5. Held' = Held \ {f}
      BY <1>7, <2>1, <3>2, <3>3 DEF frame_free, Held
    <3>6. Pool!GiveBack
      BY <1>7, <3>2, <3>4, <3>5 DEF frame_free, Held, Pool!GiveBack
    <3> QED
      BY <3>6 DEF Pool!Next
  <2>2. CASE ~Accepted(paddr)
    BY <1>7, <2>2 DEF frame_free, FreeFrames, Held
  <2> QED
    BY <2>1, <2>2
<1>8. ASSUME NEW size \in Sizes, kmalloc(size) PROVE Pool!Next
  BY <1>8 DEF kmalloc, FreeFrames, Held, Pool!Next, Pool!Claim
<1>9. CASE UNCHANGED vars
  BY <1>9 DEF vars, FreeFrames, Held
<1> QED
  BY <1>4, <1>5, <1>6, <1>7, <1>8, <1>9 DEF Next

(* On machines whose bitmap memory_init leaves reserved, frame_alloc,      *)
(* alloc_page_table, frame_free and kmalloc implement the frame pool.      *)
THEOREM PoolImplemented ==
  ASSUME \A m \in Mbis : BitmapFrames(NFrames(m)) \subseteq BootBitmap(m)
  PROVE  Spec => PoolSpec
<1>1. TypeInv => (mbi # NoMbi => BitmapSafe)
  BY DEF TypeInv, TypeOK, BitmapSafe
<1>2. Init => Pool!Init
  BY UnitsAssumption DEF Init, Pool!Init, FreeFrames, Held
<1>3. TypeInv /\ FrameInv /\ [Next]_vars => [Pool!Next]_(Pool!vars)
  BY <1>1, PoolStep
<1> QED
  BY <1>2, <1>3, TypeInvHolds, FrameInvHolds, PTL DEF Spec, PoolSpec, Pool!Spec

-----------------------------------------------------------------------------
(* Rounding *)

(* A multiple of n leaves no remainder.                                    *)
LEMMA MultipleRemainder ==
  ASSUME NEW q \in Nat, NEW n \in Nat \ {0}
  PROVE  (q * n) % n = 0
<1> DEFINE a == q * n
<1>1. a \in Nat /\ a = n * q /\ n * (q + 1) = n * q + n
  OBVIOUS
<1>2. a < n * (q + 1)
  BY <1>1
<1>3. n * q <= a
  BY <1>1
<1> HIDE DEF a
<1>4. a \div n = q
  BY <1>1, <1>2, <1>3, QuotientUnique
<1>5. a % n \in 0 .. (n - 1) /\ a = n * (a \div n) + (a % n)
  BY <1>1, Division
<1>6. a % n = 0
  BY <1>1, <1>4, <1>5
<1> QED
  BY <1>6 DEF a

(* Where the sum does not wrap, the result is the next multiple.           *)
LEMMA RoundUpUp ==
  ASSUME NEW a \in Nat, NEW n \in Nat \ {0}, a + n <= AddrSpace
  PROVE  /\ RoundUp(a, n) \in Nat
         /\ a <= RoundUp(a, n) /\ RoundUp(a, n) < a + n
         /\ RoundUp(a, n) % n = 0
<1> DEFINE s == a + n - 1
           q == s \div n
<1>1. s \in Nat /\ s % AddrSpace = s
  <2>1. s \in Nat /\ s < AddrSpace
    BY UnitsAssumption
  <2> HIDE DEF s
  <2> QED
    BY <2>1, UnitsAssumption
<1>2. q \in Nat /\ s % n \in 0 .. (n - 1) /\ s = n * q + (s % n)
  BY <1>1, Division
<1>3. RoundUp(a, n) = q * n
  BY <1>1 DEF RoundUp, RoundDown
<1>4. (q * n) % n = 0
  BY <1>2, MultipleRemainder
<1>5. q * n \in Nat /\ q * n = n * q
  BY <1>2
<1>6. a <= q * n /\ q * n < a + n
  <2> DEFINE r == s % n
             m == n * q
  <2>1. m \in Nat /\ r \in Nat /\ r <= n - 1 /\ a + n - 1 = m + r
    BY <1>2, <1>5
  <2> HIDE DEF r, m
  <2>2. a <= m /\ m < a + n
    BY <2>1
  <2> QED
    BY <2>2, <1>5 DEF m
<1> QED
  BY <1>3, <1>4, <1>5, <1>6

(* The sum of two multiples is one.                                        *)
LEMMA MultiplesAdd ==
  ASSUME NEW n \in Nat \ {0}, NEW a \in Nat, NEW b \in Nat, a % n = 0, b % n = 0
  PROVE  (a + b) % n = 0
<1> DEFINE p == a \div n
           q == b \div n
<1>1. p \in Nat /\ a = n * p + (a % n)
  BY Division
<1>2. q \in Nat /\ b = n * q + (b % n)
  BY Division
<1> HIDE DEF p, q
<1>3. n * p \in Nat /\ n * q \in Nat /\ n * p + n * q = (p + q) * n /\ p + q \in Nat
  BY <1>1, <1>2
<1>4. a + b = (p + q) * n
  BY <1>1, <1>2, <1>3
<1> QED
  BY <1>3, <1>4, MultipleRemainder

-----------------------------------------------------------------------------
(* Blocks *)

(* The bitmap's end, rounded up, is an address.                            *)
HeapFits == \A m \in Mbis : BitmapEnd(NFrames(m)) + HeapAlign <= AddrSpace

NoneWraps == \A i \in DOMAIN blocks : NoWrap(blocks[i])

(* The heap pointer is behind every block, aligned, and not the 0 that     *)
(* means no heap.                                                          *)
HeapBehind ==
  blocks # <<>> =>
    /\ heap_ptr # 0
    /\ heap_ptr % HeapAlign = 0
    /\ BitmapEnd(nframes) <= heap_ptr
    /\ \A i \in DOMAIN blocks : blocks[i].ptr + blocks[i].size <= heap_ptr

HeapInv ==
  /\ mbi = NoMbi => blocks = <<>>
  /\ blocks = <<>> => heap_ptr = 0
  /\ NoneWraps => HeapBehind
  /\ BlocksDisjoint

(* The bitmap ends behind .bss, at a positive address.                     *)
LEMMA BitmapEndType ==
  ASSUME TypeInv
  PROVE  BitmapEnd(nframes) \in Nat \ {0}
<1>1. BitmapSize(nframes) \in Nat
  BY BitmapSizeType DEF TypeInv, TypeOK
<1> QED
  BY <1>1, UnitsAssumption DEF BitmapEnd

(* Where the next block starts.                                            *)
LEMMA NextStart ==
  ASSUME HeapFits, TypeInv, HeapInv, NoneWraps, mbi # NoMbi
  PROVE  /\ HeapStart \in Nat \ {0}
         /\ HeapStart % HeapAlign = 0
         /\ BitmapEnd(nframes) <= HeapStart
         /\ \A i \in DOMAIN blocks : blocks[i].ptr + blocks[i].size <= HeapStart
<1>1. CASE blocks = <<>>
  <2>1. mbi \in Mbis /\ nframes = NFrames(mbi)
    BY DEF TypeInv, TypeOK, FramesKnown
  <2>2. BitmapEnd(nframes) \in Nat \ {0} /\ BitmapEnd(nframes) + HeapAlign <= AddrSpace
    BY <2>1, BitmapEndType DEF HeapFits
  <2>3. HeapStart = RoundUp(BitmapEnd(nframes), HeapAlign)
    BY <1>1 DEF HeapStart, HeapInv
  <2>4. /\ HeapStart \in Nat /\ HeapStart % HeapAlign = 0
        /\ BitmapEnd(nframes) <= HeapStart
    BY <2>2, <2>3, RoundUpUp, UnitsAssumption
  <2>5. HeapStart # 0
    BY <2>2, <2>4
  <2>6. DOMAIN blocks = {}
    BY <1>1
  <2> QED
    BY <2>4, <2>5, <2>6
<1>2. CASE blocks # <<>>
  <2>1. HeapBehind /\ heap_ptr \in Nat
    BY DEF HeapInv, TypeInv, TypeOK
  <2> QED
    BY <1>2, <2>1 DEF HeapBehind, HeapStart
<1> QED
  BY <1>1, <1>2

(* And where it ends.                                                      *)
LEMMA NextEnd ==
  ASSUME NEW start \in Nat \ {0}, start % HeapAlign = 0, NEW size \in Nat,
         start + size + HeapAlign + PageSize <= AddrSpace, HeapStart = start
  PROVE  /\ HeapNext(size) \in Nat \ {0}
         /\ HeapNext(size) % HeapAlign = 0
         /\ start + size <= HeapNext(size)
         /\ HeapNext(size) < start + size + HeapAlign
         /\ HeapNext(size) + PageSize <= AddrSpace
<1> DEFINE r == RoundUp(size, HeapAlign)
<1>1. size + HeapAlign <= AddrSpace
  BY UnitsAssumption
<1>2. r \in Nat /\ size <= r /\ r < size + HeapAlign /\ r % HeapAlign = 0
  BY <1>1, RoundUpUp, UnitsAssumption
<1> HIDE DEF r
<1>3. start + r \in Nat /\ start + r + PageSize <= AddrSpace
  BY <1>2, UnitsAssumption
<1>4. (start + r) % AddrSpace = start + r
  <2> DEFINE e == start + r
  <2>1. e \in Nat /\ e < AddrSpace
    BY <1>3, UnitsAssumption
  <2> HIDE DEF e
  <2>2. e % AddrSpace = e
    BY <2>1, UnitsAssumption
  <2> QED
    BY <2>2 DEF e
<1>5. HeapNext(size) = start + r
  BY <1>4 DEF HeapNext, r
<1>6. (start + r) % HeapAlign = 0
  BY <1>2, MultiplesAdd, UnitsAssumption
<1>7. /\ start + r \in Nat \ {0} /\ start + size <= start + r
      /\ start + r < start + size + HeapAlign
  BY <1>2, UnitsAssumption
<1> QED
  BY <1>3, <1>5, <1>6, <1>7

(* Every call preserves HeapInv; only kmalloc moves the heap pointer.      *)
LEMMA HeapInvStep ==
  ASSUME HeapFits, TypeInv, HeapInv, [Next]_vars
  PROVE  HeapInv'
<1> DEFINE heap == <<blocks, heap_ptr, nframes, mbi>>
<1>1. CASE UNCHANGED heap
  BY <1>1 DEF HeapInv, NoneWraps, HeapBehind, BlocksDisjoint
<1>2. ASSUME NEW m \in Mbis, memory_init(m) PROVE HeapInv'
  <2>1. mbi = NoMbi /\ blocks' = blocks /\ heap_ptr' = heap_ptr
    BY <1>2 DEF memory_init
  <2>2. blocks' = <<>> /\ heap_ptr' = 0
    BY <2>1 DEF HeapInv
  <2>3. DOMAIN blocks' = {}
    BY <2>2
  <2> QED
    BY <2>2, <2>3 DEF HeapInv, HeapBehind, BlocksDisjoint
<1>3. ASSUME NEW size \in Sizes, kmalloc(size) PROVE HeapInv'
  <2> DEFINE b == [ptr |-> HeapStart, size |-> size]
             n == Len(blocks) + 1
  <2>1. /\ mbi # NoMbi /\ mbi' = mbi /\ nframes' = nframes
        /\ heap_ptr' = HeapNext(size)
        /\ blocks' = Append(blocks, b)
    BY <1>3 DEF kmalloc
  <2>2. blocks \in Seq([ptr : Nat, size : Nat]) /\ size \in Nat
    BY CallsAssumption DEF TypeInv, TypeOK
  <2>3. /\ DOMAIN blocks' = 1 .. n /\ DOMAIN blocks = 1 .. (n - 1) /\ n \in Nat
        /\ blocks'[n] = b
        /\ \A i \in 1 .. (n - 1) : blocks'[i] = blocks[i]
    BY <2>1, <2>2
  <2>4. blocks' # <<>>
    BY <2>3
  <2>5. ASSUME NoneWraps' PROVE HeapBehind' /\ BlocksDisjoint'
    <3>1. NoneWraps
      BY <2>3, <2>5 DEF NoneWraps, NoWrap
    <3>2. /\ HeapStart \in Nat \ {0}
          /\ HeapStart % HeapAlign = 0
          /\ BitmapEnd(nframes) <= HeapStart
          /\ \A i \in DOMAIN blocks : blocks[i].ptr + blocks[i].size <= HeapStart
      BY <2>1, <3>1, NextStart
    <3>3. HeapStart + size + HeapAlign + PageSize <= AddrSpace
      BY <2>3, <2>5 DEF NoneWraps, NoWrap
    <3>4. /\ HeapNext(size) \in Nat \ {0}
          /\ HeapNext(size) % HeapAlign = 0
          /\ HeapStart + size <= HeapNext(size)
      BY <2>2, <3>2, <3>3, NextEnd
    <3>5. BitmapEnd(nframes) \in Nat
      BY BitmapEndType
    <3>6. ASSUME NEW i \in DOMAIN blocks
          PROVE  blocks[i].ptr \in Nat /\ blocks[i].size \in Nat
      <4> HIDE DEF b, n
      <4> DEFINE R == [ptr : Nat, size : Nat]
      <4>1. blocks \in Seq(R)
        BY <2>2
      <4> HIDE DEF R
      <4>2. blocks[i] \in R
        BY <4>1
      <4> QED
        BY <4>2 DEF R
    <3>7. \A i \in 1 .. n : blocks'[i].ptr + blocks'[i].size <= HeapNext(size)
      <4>1. blocks'[n].ptr + blocks'[n].size <= HeapNext(size)
        BY <2>3, <3>4
      <4>2. ASSUME NEW i \in 1 .. (n - 1)
            PROVE  blocks'[i].ptr + blocks'[i].size <= HeapNext(size)
        <5>1. i \in DOMAIN blocks /\ blocks'[i] = blocks[i]
          BY <2>3
        <5>2. blocks[i].ptr + blocks[i].size <= HeapStart
          BY <3>2, <5>1
        <5>3. blocks[i].ptr + blocks[i].size \in Nat
          BY <3>6, <5>1
        <5>4. HeapStart <= HeapNext(size)
          BY <2>2, <3>2, <3>4
        <5> HIDE DEF n
        <5> QED
          BY <3>2, <3>4, <5>1, <5>2, <5>3, <5>4
      <4> QED
        BY <2>3, <4>1, <4>2
    <3>8. HeapBehind'
      <4>1. heap_ptr' # 0 /\ heap_ptr' % HeapAlign = 0
        BY <2>1, <3>4
      <4>2. BitmapEnd(nframes') <= heap_ptr'
        <5> HIDE DEF b, n
        <5>1. HeapStart <= HeapNext(size)
          BY <2>2, <3>2, <3>4
        <5> QED
          BY <2>1, <3>2, <3>4, <3>5, <5>1
      <4>3. \A i \in DOMAIN blocks' : blocks'[i].ptr + blocks'[i].size <= heap_ptr'
        <5> HIDE DEF b, n
        <5>1. DOMAIN blocks' = 1 .. n /\ heap_ptr' = HeapNext(size)
          BY <2>1, <2>3
        <5> QED
          BY <3>7, <5>1
      <4> QED
        BY <4>1, <4>2, <4>3 DEF HeapBehind
    <3>9. BlocksDisjoint'
      <4>1. BlocksDisjoint
        BY DEF HeapInv
      <4>2. ASSUME NEW i \in 1 .. n
            PROVE  /\ blocks'[i].ptr % HeapAlign = 0
                   /\ BitmapEnd(nframes) <= blocks'[i].ptr
                   /\ \A j \in 1 .. (i - 1) :
                        blocks'[j].ptr + blocks'[j].size <= blocks'[i].ptr
        <5>1. CASE i = n
          BY <2>3, <3>2, <5>1
        <5>2. CASE i # n
          <6>1. i \in 1 .. (n - 1) /\ \A j \in 1 .. (i - 1) : j \in 1 .. (n - 1)
            BY <2>3, <5>2
          <6> QED
            BY <2>3, <3>1, <4>1, <6>1 DEF BlocksDisjoint, NoneWraps
        <5> QED
          BY <5>1, <5>2
      <4> QED
        BY <2>1, <2>3, <4>2 DEF BlocksDisjoint
    <3> QED
      BY <3>8, <3>9
  <2>6. ~NoneWraps' => BlocksDisjoint'
    BY DEF NoneWraps, BlocksDisjoint
  <2> QED
    BY <2>1, <2>4, <2>5, <2>6 DEF HeapInv
<1>4. CASE frame_alloc \/ alloc_page_table \/ \E paddr \in FreeArgs : frame_free(paddr)
  <2>1. UNCHANGED heap
    BY <1>4 DEF frame_alloc, alloc_page_table, frame_free
  <2> QED
    BY <1>1, <2>1
<1>5. CASE UNCHANGED vars
  BY <1>1, <1>5 DEF vars
<1> QED
  BY <1>2, <1>3, <1>4, <1>5 DEF Next

(* kmalloc's blocks are aligned, lie behind the bitmap and are disjoint,   *)
(* until a request makes the heap pointer wrap, wherever a bitmap ends     *)
(* that leaves room for the alignment.                                     *)
THEOREM BlocksDisjointHolds ==
  ASSUME HeapFits
  PROVE  Spec => []BlocksDisjoint
<1>1. Init => HeapInv
  BY DEF Init, HeapInv, HeapBehind, BlocksDisjoint
<1>2. TypeInv /\ HeapInv /\ [Next]_vars => HeapInv'
  BY HeapInvStep
<1>3. HeapInv => BlocksDisjoint
  BY DEF HeapInv
<1> QED
  BY <1>1, <1>2, <1>3, TypeInvHolds, PTL DEF Spec

-----------------------------------------------------------------------------
(* The frames under the blocks *)

(* A block that fits ends at or before the next heap pointer.              *)
LEMMA BlockEnds ==
  ASSUME NEW start \in Nat, NEW size \in Nat,
         start + size + HeapAlign + PageSize <= AddrSpace, HeapStart = start
  PROVE  /\ HeapNext(size) \in Nat
         /\ start + size <= HeapNext(size)
         /\ HeapNext(size) + PageSize <= AddrSpace
<1> DEFINE r == RoundUp(size, HeapAlign)
<1>1. size + HeapAlign <= AddrSpace
  BY UnitsAssumption
<1>2. r \in Nat /\ size <= r /\ r < size + HeapAlign
  BY <1>1, RoundUpUp, UnitsAssumption
<1> HIDE DEF r
<1> DEFINE e == start + r
<1>3. e \in Nat /\ e + PageSize <= AddrSpace /\ start + size <= e
  BY <1>2, UnitsAssumption
<1>4. HeapNext(size) = e % AddrSpace
  BY DEF HeapNext, r
<1> HIDE DEF e
<1>5. e < AddrSpace
  BY <1>3, UnitsAssumption
<1>6. e % AddrSpace = e
  BY <1>3, <1>5, UnitsAssumption
<1> QED
  BY <1>3, <1>4, <1>6

(* The frames kmalloc marks include all frames of its block.               *)
LEMMA SpanCoversBlock ==
  ASSUME NEW start \in Nat, NEW size \in Nat,
         start + size + HeapAlign + PageSize <= AddrSpace, HeapStart = start
  PROVE  Pages(start, start + size) \subseteq HeapSpan(size)
<1> DEFINE e == HeapNext(size)
           s == e + PageSize - 1
           q == s \div PageSize
           t == start + size + PageSize - 1
           u == t \div PageSize
           lo == start \div PageSize
<1>1. e \in Nat /\ start + size <= e /\ e + PageSize <= AddrSpace
  BY BlockEnds
<1>2. HeapSpan(size) = lo .. (RoundUp(e, PageSize) \div PageSize - 1)
  BY DEF HeapSpan
<1> HIDE DEF e
<1>3. s \in Nat /\ s < AddrSpace /\ t \in Nat /\ t <= s
  BY <1>1, UnitsAssumption
<1>4. RoundUp(e, PageSize) = ((s % AddrSpace) \div PageSize) * PageSize
  BY DEF RoundUp, RoundDown
<1>5. Pages(start, start + size) = lo .. (u - 1)
  BY DEF Pages
<1> HIDE DEF s, t
<1>6. s % AddrSpace = s
  BY <1>3, UnitsAssumption
<1>7. q \in Nat /\ u \in Nat /\ u <= q /\ lo \in Nat
  BY <1>3, DivMonotone, Division, UnitsAssumption
<1>8. (q * PageSize) \div PageSize = q
  <2> HIDE DEF q
  <2> DEFINE a == q * PageSize
  <2>1. a \in Nat /\ a = PageSize * q /\ PageSize * (q + 1) = PageSize * q + PageSize
    BY <1>7, UnitsAssumption
  <2>2. a < PageSize * (q + 1) /\ PageSize * q <= a
    BY <2>1, UnitsAssumption
  <2> HIDE DEF a
  <2>3. a \div PageSize = q
    BY <1>7, <2>1, <2>2, QuotientUnique, UnitsAssumption
  <2> QED
    BY <2>3 DEF a
<1>9. HeapSpan(size) = lo .. (q - 1)
  BY <1>2, <1>4, <1>6, <1>8
<1> HIDE DEF q, u, lo
<1> QED
  BY <1>5, <1>7, <1>9

(* No heap before memory_init; with it, the frames under the blocks.       *)
ReservedInv ==
  /\ mbi = NoMbi => blocks = <<>>
  /\ HeapReserved

(* frame_alloc and alloc_page_table find unmarked frames, frame_free takes *)
(* back frames that were held: none of the three meets a heap frame, and   *)
(* kmalloc meets a held one only where collided says so.                   *)
LEMMA ReservedInvStep ==
  ASSUME TypeInv, FrameInv, ReservedInv, [Next]_vars
  PROVE  ReservedInv'
<1> DEFINE Kept(f) == f \in bitmap \ Held => f \in (bitmap \ Held)'
<1>1. ASSUME UNCHANGED <<mbi, blocks, collided>>,
             BitmapSafe => \A f : Kept(f)
      PROVE  ReservedInv'
  <2>1. BitmapSafe' => BitmapSafe
    BY <1>1 DEF BitmapSafe
  <2>2. (mbi = NoMbi => blocks = <<>>)'
    BY <1>1 DEF ReservedInv
  <2>3. ASSUME BitmapSafe', collided' = {}, NEW i \in DOMAIN blocks', NoWrap(blocks'[i])
        PROVE  BlockFrames(blocks'[i]) \subseteq (bitmap \ Held)'
    <3>1. BlockFrames(blocks[i]) \subseteq bitmap \ Held
      BY <1>1, <2>1, <2>3 DEF ReservedInv, HeapReserved
    <3> QED
      BY <1>1, <2>1, <2>3, <3>1
  <2> QED
    BY <2>2, <2>3 DEF ReservedInv, HeapReserved
<1>2. ASSUME NEW m \in Mbis, memory_init(m) PROVE ReservedInv'
  <2>1. blocks' = <<>>
    BY <1>2 DEF memory_init, ReservedInv
  <2>2. DOMAIN blocks' = {}
    BY <2>1
  <2> QED
    BY <2>1, <2>2 DEF ReservedInv, HeapReserved
<1>3. CASE frame_alloc
  <2>1. UNCHANGED <<mbi, blocks, collided, tables>>
    BY <1>3 DEF frame_alloc
  <2>2. ASSUME BitmapSafe, NEW f PROVE Kept(f)
    <3>1. CASE FreeFrames # {}
      <4>1. FirstFree \notin bitmap
        BY <2>2, <3>1, FoundFrame
      <4>2. /\ bitmap' = bitmap \cup {FirstFree}
            /\ owned' \subseteq owned \cup {FirstFree}
        BY <1>3, <3>1 DEF frame_alloc, Returned
      <4> QED
        BY <2>1, <4>1, <4>2 DEF Held
    <3>2. CASE FreeFrames = {}
      BY <1>3, <2>1, <3>2 DEF frame_alloc, Held
    <3> QED
      BY <3>1, <3>2
  <2> QED
    BY <1>1, <2>1, <2>2
<1>4. CASE alloc_page_table
  <2>1. UNCHANGED <<mbi, blocks, collided, owned>>
    BY <1>4 DEF alloc_page_table
  <2>2. ASSUME BitmapSafe, NEW f PROVE Kept(f)
    <3>1. CASE FreeFrames # {}
      <4>1. FirstFree \notin bitmap /\ BitsIn(FirstFree) = {}
        BY <2>2, <3>1, FoundFrame
      <4>2. /\ bitmap' = bitmap \cup {FirstFree}
            /\ tables' \subseteq tables \cup {FirstFree}
        BY <1>4, <3>1, <4>1 DEF alloc_page_table, Returned
      <4> QED
        BY <2>1, <4>1, <4>2 DEF Held
    <3>2. CASE FreeFrames = {}
      BY <1>4, <2>1, <3>2 DEF alloc_page_table, Held
    <3> QED
      BY <3>1, <3>2
  <2> QED
    BY <1>1, <2>1, <2>2
<1>5. ASSUME NEW paddr \in FreeArgs, frame_free(paddr) PROVE ReservedInv'
  <2>1. UNCHANGED <<mbi, blocks, collided, tables>>
    BY <1>5 DEF frame_free
  <2>2. ASSUME BitmapSafe, NEW f PROVE Kept(f)
    <3>1. CASE Accepted(paddr)
      <4>1. paddr \div PageSize \in Nat /\ nframes \in Nat
        BY CallsAssumption, UnitsAssumption, Division DEF TypeInv, TypeOK
      <4>2. paddr \div PageSize \in owned
        BY <1>5, <3>1, <4>1 DEF frame_free, MayFree, Accepted
      <4> QED
        BY <1>5, <2>1, <3>1, <4>2 DEF frame_free, Held
    <3>2. CASE ~Accepted(paddr)
      BY <1>5, <2>1, <3>2 DEF frame_free, Held
    <3> QED
      BY <3>1, <3>2
  <2> QED
    BY <1>1, <2>1, <2>2
<1>6. ASSUME NEW size \in Sizes, kmalloc(size) PROVE ReservedInv'
  <2> DEFINE b == [ptr |-> HeapStart, size |-> size]
             n == Len(blocks) + 1
  <2>1. /\ mbi # NoMbi /\ mbi' = mbi /\ owned' = owned /\ tables' = tables
        /\ bitmap' = bitmap \cup HeapSpan(size)
        /\ blocks' = Append(blocks, b)
        /\ collided' = collided \cup (HeapSpan(size) \cap Held)
    BY <1>6 DEF kmalloc, Held
  <2>2. blocks \in Seq([ptr : Nat, size : Nat]) /\ size \in Nat /\ HeapStart \in Nat
    BY CallsAssumption, HeapType DEF TypeInv, TypeOK
  <2>3. /\ DOMAIN blocks' = 1 .. n /\ DOMAIN blocks = 1 .. (n - 1) /\ n \in Nat
        /\ blocks'[n] = b
        /\ \A i \in 1 .. (n - 1) : blocks'[i] = blocks[i]
    BY <2>1, <2>2
  <2>4. ASSUME BitmapSafe', collided' = {}, NEW i \in 1 .. n, NoWrap(blocks'[i])
        PROVE  BlockFrames(blocks'[i]) \subseteq (bitmap \ Held)'
    <3>1. BitmapSafe /\ collided = {} /\ HeapSpan(size) \cap Held = {} /\ Held' = Held
      BY <2>1, <2>4 DEF BitmapSafe, Held
    <3>2. CASE i = n
      <4>1. HeapStart + size + HeapAlign + PageSize <= AddrSpace
        BY <2>3, <2>4, <3>2 DEF NoWrap
      <4>2. Pages(HeapStart, HeapStart + size) \subseteq HeapSpan(size)
        BY <2>2, <4>1, SpanCoversBlock
      <4>3. BlockFrames(blocks'[i]) = Pages(HeapStart, HeapStart + size)
        BY <2>3, <3>2 DEF BlockFrames
      <4> QED
        BY <2>1, <3>1, <4>2, <4>3
    <3>3. CASE i # n
      <4>1. i \in 1 .. (n - 1)
        BY <2>3, <3>3
      <4>2. i \in DOMAIN blocks /\ blocks'[i] = blocks[i]
        BY <2>3, <4>1
      <4>3. BlockFrames(blocks[i]) \subseteq bitmap \ Held
        BY <2>4, <3>1, <4>2 DEF ReservedInv, HeapReserved
      <4> QED
        BY <2>1, <3>1, <4>2, <4>3
    <3> QED
      BY <3>2, <3>3
  <2> QED
    BY <2>1, <2>3, <2>4 DEF ReservedInv, HeapReserved
<1>7. CASE UNCHANGED vars
  BY <1>1, <1>7 DEF vars, Held
<1> QED
  BY <1>2, <1>3, <1>4, <1>5, <1>6, <1>7 DEF Next

(* The frames under kmalloc's blocks stay marked and are handed to nobody, *)
(* as long as the heap never grew into a frame that was held: the frames   *)
(* kmalloc marks cover its block, whatever the alignment and page size.    *)
THEOREM HeapReservedHolds == Spec => []HeapReserved
<1>1. Init => ReservedInv
  BY DEF Init, ReservedInv, HeapReserved, BitmapSafe
<1>2. Init => FrameInv
  BY DEF Init, FrameInv, BitmapSafe
<1>3. TypeInv /\ FrameInv /\ [Next]_vars => FrameInv'
  BY FrameInvStep
<1>4. TypeInv /\ FrameInv /\ ReservedInv /\ [Next]_vars => ReservedInv'
  BY ReservedInvStep
<1>5. ReservedInv => HeapReserved
  BY DEF ReservedInv
<1> QED
  BY <1>1, <1>2, <1>3, <1>4, <1>5, TypeInvHolds, PTL DEF Spec

-----------------------------------------------------------------------------
(* The bounds of the bitmap *)

(* A multiple that is less than n below another one is not below it.       *)
LEMMA NextMultiple ==
  ASSUME NEW n \in Nat \ {0}, NEW a \in Nat, NEW b \in Nat, a % n = 0, b % n = 0, a < b + n
  PROVE  a <= b
<1> DEFINE p == a \div n
           q == b \div n
<1>1. p \in Nat /\ a = n * p + (a % n) /\ q \in Nat /\ b = n * q + (b % n)
  BY Division
<1> HIDE DEF p, q
<1>2. a = n * p /\ b = n * q
  BY <1>1
<1>3. n * p < n * (q + 1)
  <2>1. n * (q + 1) = n * q + n
    BY <1>1
  <2> QED
    BY <1>2, <2>1
<1>4. p <= q
  BY <1>1, <1>3, Multiples
<1>5. n * p <= n * q
  BY <1>1, <1>4
<1> QED
  BY <1>2, <1>5

(* A multiple of a multiple is one.                                        *)
LEMMA MultipleOfMultiple ==
  ASSUME NEW n \in Nat \ {0}, NEW m \in Nat, m % n = 0, NEW c \in Nat
  PROVE  (c * m) % n = 0
<1> DEFINE p == m \div n
<1>1. p \in Nat /\ m = n * p + (m % n)
  BY Division
<1> HIDE DEF p
<1>2. m = n * p
  BY <1>1
<1>3. c * p \in Nat /\ c * m = (c * p) * n
  BY <1>1, <1>2
<1> QED
  BY <1>3, MultipleRemainder

(* If heap blocks are aligned so that one more aligned end fits in a page, *)
(* kmalloc marks no frame but those of its block.                          *)
LEMMA SpanIsBlock ==
  ASSUME PageSize % HeapAlign = 0, NEW start \in Nat \ {0}, start % HeapAlign = 0,
         NEW size \in Nat, start + size + HeapAlign + PageSize <= AddrSpace, HeapStart = start
  PROVE  HeapSpan(size) \subseteq Pages(start, start + size)
<1> DEFINE e == HeapNext(size)
           s == e + PageSize - 1
           q == s \div PageSize
           t == start + size + PageSize - 1
           u == t \div PageSize
           lo == start \div PageSize
<1>1. e \in Nat /\ e % HeapAlign = 0 /\ e < start + size + HeapAlign /\ e + PageSize <= AddrSpace
  BY NextEnd
<1>2. HeapSpan(size) = lo .. (RoundUp(e, PageSize) \div PageSize - 1)
  BY DEF HeapSpan
<1>3. Pages(start, start + size) = lo .. (u - 1)
  BY DEF Pages
<1> HIDE DEF e
<1>4. s \in Nat /\ s < AddrSpace /\ t \in Nat
  BY <1>1, UnitsAssumption
<1>5. u \in Nat /\ t % PageSize \in 0 .. (PageSize - 1) /\ t = PageSize * u + (t % PageSize)
  <2> HIDE DEF t
  <2> QED
    BY <1>4, Division, UnitsAssumption
<1>6. PageSize * u = u * PageSize /\ u * PageSize \in Nat /\ PageSize * (u + 1) = PageSize * u + PageSize
  <2> HIDE DEF u
  <2> QED
    BY <1>5, UnitsAssumption
<1>7. start + size <= u * PageSize
  <2> DEFINE r == t % PageSize
             v == u * PageSize
  <2>1. t = v + r /\ r \in Nat /\ r <= PageSize - 1 /\ v \in Nat
    BY <1>5, <1>6, UnitsAssumption
  <2>2. t = start + size + PageSize - 1
    OBVIOUS
  <2> HIDE DEF r, v, t, u
  <2>3. start + size <= v
    BY <2>1, <2>2, UnitsAssumption
  <2> QED
    BY <2>3 DEF v
<1>8. e <= u * PageSize
  <2> HIDE DEF u
  <2>1. (u * PageSize) % HeapAlign = 0
    BY <1>5, MultipleOfMultiple, UnitsAssumption
  <2> DEFINE v == u * PageSize
  <2>2. v \in Nat /\ v % HeapAlign = 0 /\ e < v + HeapAlign
    BY <1>1, <1>6, <1>7, <2>1, UnitsAssumption
  <2> HIDE DEF v
  <2>3. e <= v
    BY <1>1, <2>2, NextMultiple, UnitsAssumption
  <2> QED
    BY <2>3 DEF v
<1>9. q \in Nat /\ q <= u
  <2>1. q \in Nat /\ s % PageSize \in 0 .. (PageSize - 1) /\ s = PageSize * q + (s % PageSize)
    <3> HIDE DEF s
    <3> QED
      BY <1>4, Division, UnitsAssumption
  <2>2. s < PageSize * (u + 1)
    <3> DEFINE v == u * PageSize
    <3>1. e <= v /\ PageSize * (u + 1) = v + PageSize /\ v \in Nat
      BY <1>6, <1>8
    <3> HIDE DEF v, u
    <3> QED
      BY <1>1, <3>1, UnitsAssumption
  <2>3. PageSize * q < PageSize * (u + 1)
    <3> DEFINE w == PageSize * q
               x == PageSize * (u + 1)
               r == s % PageSize
    <3>1. s = w + r /\ r \in Nat /\ s < x /\ w \in Nat /\ x \in Nat
      BY <1>5, <2>1, <2>2, UnitsAssumption
    <3> HIDE DEF w, x, r, s
    <3>2. w < x
      BY <3>1
    <3> QED
      BY <3>2 DEF w, x
  <2> HIDE DEF q, u
  <2> QED
    BY <1>5, <2>1, <2>3, Multiples, UnitsAssumption
<1>10. RoundUp(e, PageSize) = ((s % AddrSpace) \div PageSize) * PageSize
  BY DEF RoundUp, RoundDown
<1> HIDE DEF s, t, u
<1>11. s % AddrSpace = s
  BY <1>4, UnitsAssumption
<1>12. (q * PageSize) \div PageSize = q
  <2> HIDE DEF q
  <2> DEFINE a == q * PageSize
  <2>1. a \in Nat /\ a = PageSize * q /\ PageSize * (q + 1) = PageSize * q + PageSize
    BY <1>9, UnitsAssumption
  <2>2. a < PageSize * (q + 1) /\ PageSize * q <= a
    BY <2>1, UnitsAssumption
  <2> HIDE DEF a
  <2>3. a \div PageSize = q
    BY <1>9, <2>1, <2>2, QuotientUnique, UnitsAssumption
  <2> QED
    BY <2>3 DEF a
<1>13. HeapSpan(size) = lo .. (q - 1)
  BY <1>2, <1>10, <1>11, <1>12
<1> HIDE DEF q, lo
<1>14. lo \in Nat
  BY Division, UnitsAssumption DEF lo
<1> QED
  BY <1>3, <1>5, <1>9, <1>13, <1>14

(* The bitmap has a bit for every managed frame.                           *)
LEMMA BitsForFrames ==
  ASSUME NEW n \in Nat
  PROVE  0 .. (n - 1) \subseteq BitmapBits(n)
<1> DEFINE size == BitmapSize(n)
           t == n + ByteBits - 1
<1>1. t \in Nat /\ ByteBits \in Nat \ {0} /\ size = t \div ByteBits
  BY UnitsAssumption DEF BitmapSize
<1>2. /\ size \in Nat /\ t % ByteBits \in 0 .. (ByteBits - 1)
      /\ t = ByteBits * size + (t % ByteBits)
  <2> HIDE DEF t, size
  <2> QED
    BY <1>1, Division
<1> DEFINE a == ByteBits * size
           r == t % ByteBits
<1>3. a \in Nat /\ t = a + r /\ r \in Nat /\ r <= ByteBits - 1
  <2> HIDE DEF t, size
  <2> QED
    BY <1>1, <1>2
<1>4. t = n + ByteBits - 1
  OBVIOUS
<1> HIDE DEF t, size, r
<1>5. a \in Nat /\ n <= a
  <2> HIDE DEF a
  <2> QED
    BY <1>1, <1>3, <1>4
<1>6. BitmapBits(n) = 0 .. (a - 1)
  BY DEF BitmapBits, a, size
<1> HIDE DEF a
<1> QED
  BY <1>5, <1>6

(* Bits that may be set before there is a heap                             *)
Reserved ==
  BitmapBits(nframes) \cup KernelFrames \cup BitmapFrames(nframes) \cup ModuleFrames(mbi)

(* A call of kmalloc marks frames of the new block only.                   *)
LEMMA BoundsKmalloc ==
  ASSUME HeapFits, PageSize % HeapAlign = 0, TypeInv, HeapInv, BitmapInBounds,
         NEW size \in Sizes, kmalloc(size)
  PROVE  BitmapInBounds'
<1> DEFINE b == [ptr |-> HeapStart, size |-> size]
           n == Len(blocks) + 1
<1>1. /\ mbi # NoMbi /\ mbi' = mbi /\ nframes' = nframes
      /\ bitmap' = bitmap \cup HeapSpan(size)
      /\ blocks' = Append(blocks, b)
  BY DEF kmalloc
<1>2. blocks \in Seq([ptr : Nat, size : Nat]) /\ size \in Nat /\ nframes \in Nat
  BY CallsAssumption DEF TypeInv, TypeOK
<1>3. /\ DOMAIN blocks' = 1 .. n /\ DOMAIN blocks = 1 .. (n - 1) /\ n \in Nat \ {0}
      /\ blocks'[n] = b
      /\ \A i \in 1 .. (n - 1) : blocks'[i] = blocks[i]
  BY <1>1, <1>2
<1> HIDE DEF n
<1>4. ASSUME NoneWraps'
      PROVE  bitmap' \subseteq Reserved \cup HeapFrames'
  <2>1. NoneWraps
    BY <1>3, <1>4 DEF NoneWraps, NoWrap
  <2>2. HeapStart \in Nat \ {0} /\ HeapStart % HeapAlign = 0
    BY <1>1, <2>1, NextStart
  <2>3. HeapStart + size + HeapAlign + PageSize <= AddrSpace
    BY <1>3, <1>4 DEF NoneWraps, NoWrap
  <2>4. HeapSpan(size) \subseteq BlockFrames(b)
    BY <1>2, <2>2, <2>3, SpanIsBlock DEF BlockFrames
  <2>5. HeapFrames' = UNION {BlockFrames(blocks'[i]) : i \in 1 .. n}
    BY <1>3 DEF HeapFrames, BlockFrames, Pages
  <2>6. BlockFrames(b) \subseteq HeapFrames' /\ HeapFrames \subseteq HeapFrames'
    <3>1. BlockFrames(blocks'[n]) \subseteq HeapFrames'
      BY <1>3, <2>5
    <3>2. \A i \in DOMAIN blocks : BlockFrames(blocks[i]) \subseteq HeapFrames'
      BY <1>3, <2>5
    <3> QED
      BY <1>3, <3>1, <3>2 DEF HeapFrames
  <2>7. bitmap \subseteq Reserved \cup HeapFrames
    BY <1>1, <2>1 DEF BitmapInBounds, NoneWraps, Reserved
  <2> QED
    BY <1>1, <2>4, <2>6, <2>7
<1>5. Reserved' = Reserved
  BY <1>1 DEF Reserved, BitmapBits, KernelFrames, BitmapFrames, ModuleFrames, Pages, BitmapEnd,
        BitmapSize
<1> QED
  BY <1>4, <1>5 DEF BitmapInBounds, NoneWraps, Reserved

(* Every call keeps the bits in the bitmap.                                *)
LEMMA BoundsStep ==
  ASSUME HeapFits, PageSize % HeapAlign = 0, TypeInv, HeapInv, BitmapInBounds, [Next]_vars
  PROVE  BitmapInBounds'
<1>1. ASSUME NEW m \in Mbis, memory_init(m) PROVE BitmapInBounds'
  <2>1. mbi' = m /\ nframes' = NFrames(m) /\ bitmap' = BootBitmap(m)
    BY <1>1 DEF memory_init
  <2>2. Reserved' = BitmapBits(NFrames(m)) \cup KernelFrames \cup BitmapFrames(NFrames(m))
                      \cup ModuleFrames(m)
    BY <2>1 DEF Reserved, BitmapBits, KernelFrames, BitmapFrames, ModuleFrames, Pages, BitmapEnd,
          BitmapSize
  <2>3. bitmap' \subseteq Reserved'
    BY <2>1, <2>2 DEF BootBitmap
  <2> QED
    BY <2>3 DEF BitmapInBounds, Reserved
<1>2. ASSUME UNCHANGED <<mbi, nframes, blocks>>,
             bitmap' \subseteq bitmap \cup FreeFrames
      PROVE  BitmapInBounds'
  <2>1. FreeFrames \subseteq BitmapBits(nframes)
    BY BitsForFrames DEF TypeInv, TypeOK, FreeFrames, ManagedFrames
  <2>2. HeapFrames' = HeapFrames /\ NoneWraps' = NoneWraps
    BY <1>2 DEF HeapFrames, BlockFrames, Pages, NoneWraps, NoWrap
  <2>3. Reserved' = Reserved
    BY <1>2 DEF Reserved, BitmapBits, KernelFrames, BitmapFrames, ModuleFrames, Pages, BitmapEnd,
          BitmapSize
  <2>4. FreeFrames \subseteq Reserved
    BY <2>1 DEF Reserved
  <2>5. mbi' # NoMbi /\ NoneWraps' => bitmap \subseteq Reserved \cup HeapFrames
    BY <1>2, <2>2 DEF BitmapInBounds, NoneWraps, Reserved
  <2>6. mbi' # NoMbi /\ NoneWraps' => bitmap' \subseteq Reserved' \cup HeapFrames'
    BY <1>2, <2>2, <2>3, <2>4, <2>5
  <2> QED
    BY <2>6 DEF BitmapInBounds, NoneWraps, Reserved
<1>3. CASE frame_alloc \/ alloc_page_table
  <2>1. UNCHANGED <<mbi, nframes, blocks>>
    BY <1>3 DEF frame_alloc, alloc_page_table
  <2>2. nframes \in Nat
    BY DEF TypeInv, TypeOK
  <2>3. FreeFrames # {} => FirstFree \in FreeFrames
    BY <2>2, FirstFreeType
  <2>4. \/ bitmap' = bitmap
        \/ FreeFrames # {} /\ bitmap' \subseteq bitmap \cup {FirstFree}
    BY <1>3 DEF frame_alloc, alloc_page_table
  <2> QED
    BY <1>2, <2>1, <2>3, <2>4
<1>4. ASSUME NEW paddr \in FreeArgs, frame_free(paddr) PROVE BitmapInBounds'
  <2>1. UNCHANGED <<mbi, nframes, blocks>> /\ bitmap' \subseteq bitmap
    BY <1>4 DEF frame_free
  <2> QED
    BY <1>2, <2>1
<1>5. ASSUME NEW size \in Sizes, kmalloc(size) PROVE BitmapInBounds'
  BY <1>5, BoundsKmalloc
<1>6. CASE UNCHANGED vars
  BY <1>2, <1>6 DEF vars
<1> QED
  BY <1>1, <1>3, <1>4, <1>5, <1>6 DEF Next

(* No bit behind the bitmap's own bytes is set but for a frame of kernel,  *)
(* bitmap, a module or a block of the heap that lies that far: every frame *)
(* handed out has its bit in the bitmap, the rounding up of its size sees  *)
(* to that, and kmalloc, which rounds the size to the heap's alignment and *)
(* the end to a page, marks no frame that holds no byte of the block, if   *)
(* the alignment divides the page.                                         *)
THEOREM BitmapInBoundsHolds ==
  ASSUME HeapFits, PageSize % HeapAlign = 0
  PROVE  Spec => []BitmapInBounds
<1>1. Init => HeapInv /\ BitmapInBounds
  BY DEF Init, HeapInv, HeapBehind, BlocksDisjoint, BitmapInBounds
<1>2. TypeInv /\ HeapInv /\ BitmapInBounds /\ [Next]_vars => (HeapInv /\ BitmapInBounds)'
  BY HeapInvStep, BoundsStep
<1> QED
  BY <1>1, <1>2, TypeInvHolds, PTL DEF Spec

=============================================================================
