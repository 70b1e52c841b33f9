--------------------------- MODULE PhysicalMemory ---------------------------
(***************************************************************************)
(* The physical memory manager of src/memory.cpp: memory_init builds the   *)
(* frame bitmap from the Multiboot information, frame_alloc and frame_free *)
(* hand 4 KiB frames out and take them back, kmalloc is the bump heap that *)
(* starts behind the bitmap.  alloc_page_table of src/paging.cpp, the      *)
(* allocator's only caller in the kernel, is modelled here as well because *)
(* it writes to the frame it gets, and the bitmap lives in frames too.     *)
(*                                                                         *)
(* Addresses are bytes, as in the code; `x & ~(n-1)' of the code is        *)
(* RoundDown(x, n), which is the same for the powers of two used there.    *)
(* An operator named Op_Bug is Op with a plausible bug; the specification  *)
(* uses none of them, they show which properties would notice.             *)
(*                                                                         *)
(* The kernel is single threaded and runs with interrupts disabled, so     *)
(* each call is one step; what interleaves is the callers' sequences of    *)
(* calls.                                                                  *)
(***************************************************************************)
EXTENDS Integers, Sequences

CONSTANTS
  PageSize,    \* bytes per frame (4096)
  ByteBits,    \* bits per bitmap byte (8)
  HeapAlign,   \* alignment of heap blocks (8)
  AddrSpace,   \* 2^64: arithmetic on uintptr_t and size_t is modulo this
  LowTop,      \* first byte above low memory (0x100000)
  BssEnd,      \* address of __bss_end: the bitmap is placed there
  Mbis,        \* the Multiboot informations a loader may pass
  Sizes,       \* the sizes kmalloc is called with
  FreeArgs,    \* the addresses frame_free is called with
  MaxBlocks,   \* bound: number of kmalloc calls of a behaviour
  NoMbi        \* mbi before memory_init

ASSUME UnitsAssumption ==
  /\ PageSize \in Nat \ {0}
  /\ ByteBits \in Nat \ {0}
  /\ HeapAlign \in Nat \ {0}
  /\ AddrSpace \in Nat \ {0}
  /\ LowTop \in Nat \ {0}
  /\ LowTop % PageSize = 0
  /\ BssEnd \in Nat \ {0}

(* The fields of a Multiboot information.  No entry of the memory map ends *)
(* past the 64-bit address space, so the code's sums do not wrap.          *)
ASSUME MbiAssumption ==
  \A m \in Mbis :
    /\ m.has_map \in BOOLEAN
    /\ \A e \in m.mmap :
         e.base \in Nat /\ e.len \in Nat /\ e.base + e.len < AddrSpace
    /\ m.upper \in Nat
    /\ \A d \in m.mods : d.start \in Nat /\ d.end \in Nat

ASSUME CallsAssumption ==
  /\ Sizes \subseteq Nat
  /\ FreeArgs \subseteq Nat
  /\ MaxBlocks \in Nat
  /\ NoMbi \notin Mbis

VARIABLES
  mbi,        \* the Multiboot information memory_init was called with
  bitmap,     \* indices of the set bits of frame_bitmap: frames in use
  nframes,    \* number of frames managed
  heap_ptr,   \* next free heap byte, 0 before the first kmalloc
  ret,        \* what the last frame_alloc returned
  owned,      \* frames frame_alloc returned and nobody freed (ghost)
  tables,     \* frames that became page tables (ghost)
  blocks,     \* blocks kmalloc returned, in order (ghost)
  collided    \* frames the heap ran into while they were held (ghost)

vars == <<mbi, bitmap, nframes, heap_ptr, ret, owned, tables, blocks, collided>>

-----------------------------------------------------------------------------
(* Address arithmetic. *)

RoundDown(a, n) == (a \div n) * n

(* (a + n - 1) & ~(n - 1), the sum taken in 64 bits *)
RoundUp(a, n) == RoundDown((a + n - 1) % AddrSpace, n)

(* The frames a loop over [lo, hi) in page steps visits: from the page of  *)
(* lo up to hi rounded up, excluded.                                       *)
Pages(lo, hi) == (lo \div PageSize) .. ((hi + PageSize - 1) \div PageSize - 1)

-----------------------------------------------------------------------------
(* memory_init *)

(* type 1 entries of the memory map are available RAM *)
Available(m) == {e \in m.mmap : e.type = 1}

(* Candidates for max_addr: the loop starts from 0. *)
Tops(m) ==
  IF m.has_map THEN {0} \cup {e.base + e.len : e \in Available(m)}
               ELSE {m.upper + LowTop}

MaxAddr(m) == CHOOSE t \in Tops(m) : \A u \in Tops(m) : u <= t

NFrames(m) == MaxAddr(m) \div PageSize

BitmapSize_Truncated(n) == n \div ByteBits

BitmapSize(n) == (n + ByteBits - 1) \div ByteBits

(* Bits the bitmap has room for; the ones from n on are padding. *)
BitmapBits(n) == 0 .. (ByteBits * BitmapSize(n) - 1)

BitmapEnd(n) == BssEnd + BitmapSize(n)

BitmapFrames(n) == Pages(BssEnd, BitmapEnd(n))

(* Every whole page counted from an entry's base is freed, as the frame    *)
(* that holds its first byte.                                              *)
EntryFrames_PartialPage(e) ==
  (e.base \div PageSize) .. ((e.base + e.len + PageSize - 1) \div PageSize - 1)

EntryFrames(e) ==
  (e.base \div PageSize) .. (e.base \div PageSize + e.len \div PageSize - 1)

FreedAtBoot(m) ==
  IF m.has_map THEN UNION {EntryFrames(e) : e \in Available(m)}
               ELSE (LowTop \div PageSize) .. (NFrames(m) - 1)

KernelFrames_HighOnly == Pages(LowTop, BssEnd)

KernelFrames == Pages(0, BssEnd)

ModuleFrames(m) == UNION {Pages(d.start, d.end) : d \in m.mods}

(* The passes of memory_init in their order: all used, bitmap reserved,    *)
(* available frames freed, kernel and modules reserved.                    *)
BootBitmap(m) ==
  ((BitmapBits(NFrames(m)) \cup BitmapFrames(NFrames(m))) \ FreedAtBoot(m))
     \cup KernelFrames \cup ModuleFrames(m)

memory_init(m) ==
  /\ mbi = NoMbi
  /\ mbi' = m
  /\ nframes' = NFrames(m)
  /\ bitmap' = BootBitmap(m)
  /\ UNCHANGED <<heap_ptr, ret, owned, tables, blocks, collided>>

-----------------------------------------------------------------------------
(* frame_alloc, frame_free and the page tables *)

FreeFrames_PastEnd == (0 .. nframes) \ bitmap

FreeFrames == (0 .. (nframes - 1)) \ bitmap

FirstFree == CHOOSE i \in FreeFrames : \A j \in FreeFrames : i <= j

(* The caller cannot tell frame 0 from the failure value: it holds what    *)
(* was returned only if that is not 0.                                     *)
Returned(i) == IF i = 0 THEN {} ELSE {i}

frame_alloc_NotMarked ==
  /\ ret' = IF FreeFrames # {} THEN FirstFree * PageSize ELSE 0
  /\ owned' = IF FreeFrames # {} THEN owned \cup Returned(FirstFree) ELSE owned
  /\ UNCHANGED <<mbi, bitmap, nframes, heap_ptr, tables, blocks, collided>>

frame_alloc ==
  /\ IF FreeFrames # {}
       THEN /\ bitmap' = bitmap \cup {FirstFree}
            /\ ret' = FirstFree * PageSize
            /\ owned' = owned \cup Returned(FirstFree)
       ELSE /\ ret' = 0
            /\ UNCHANGED <<bitmap, owned>>
  /\ UNCHANGED <<mbi, nframes, heap_ptr, tables, blocks, collided>>

(* Bits of the bitmap stored in frame i: zeroing the frame clears them. *)
BitsIn(i) ==
  {b \in BitmapBits(nframes) : (BssEnd + b \div ByteBits) \div PageSize = i}

alloc_page_table ==
  /\ IF FreeFrames # {}
       THEN /\ ret' = FirstFree * PageSize
            /\ bitmap' = (bitmap \cup {FirstFree})
                            \ (IF FirstFree = 0 THEN {} ELSE BitsIn(FirstFree))
            /\ tables' = tables \cup Returned(FirstFree)
       ELSE /\ ret' = 0
            /\ UNCHANGED <<bitmap, tables>>
  /\ UNCHANGED <<mbi, nframes, heap_ptr, owned, blocks, collided>>

(* memory.h: free a previously allocated frame.  A caller never passes the *)
(* address of a managed frame it does not hold; the addresses the code     *)
(* rejects, unaligned or out of range, may come.                           *)
MayFree(paddr) ==
  \/ paddr % PageSize # 0
  \/ paddr \div PageSize >= nframes
  \/ paddr \div PageSize \in owned

Accepted_Unaligned(paddr) == paddr \div PageSize < nframes

Accepted(paddr) == paddr % PageSize = 0 /\ paddr \div PageSize < nframes

frame_free(paddr) ==
  /\ MayFree(paddr)
  /\ IF Accepted(paddr)
       THEN /\ bitmap' = bitmap \ {paddr \div PageSize}
            /\ owned' = owned \ {paddr \div PageSize}
       ELSE UNCHANGED <<bitmap, owned>>
  /\ UNCHANGED <<mbi, nframes, heap_ptr, ret, tables, blocks, collided>>

-----------------------------------------------------------------------------
(* kmalloc *)

(* The heap starts behind the bitmap when it is used first. *)
HeapStart ==
  IF heap_ptr = 0 THEN RoundUp(BitmapEnd(nframes), HeapAlign) ELSE heap_ptr

HeapNext_Unaligned(size) == (HeapStart + size) % AddrSpace

HeapNext(size) == (HeapStart + RoundUp(size, HeapAlign)) % AddrSpace

(* Frames the call marks used, whoever holds them. *)
HeapSpan_EndTruncated(size) ==
  (HeapStart \div PageSize) .. (HeapNext(size) \div PageSize - 1)

HeapSpan(size) ==
  (HeapStart \div PageSize) .. (RoundUp(HeapNext(size), PageSize) \div PageSize - 1)

kmalloc(size) ==
  /\ mbi # NoMbi
  /\ Len(blocks) < MaxBlocks
  /\ bitmap' = bitmap \cup HeapSpan(size)
  /\ heap_ptr' = HeapNext(size)
  /\ blocks' = Append(blocks, [ptr |-> HeapStart, size |-> size])
  /\ collided' = collided \cup (HeapSpan(size) \cap (owned \cup tables))
  /\ UNCHANGED <<mbi, nframes, ret, owned, tables>>

-----------------------------------------------------------------------------
(* kernel_main calls memory_init before anything else uses the allocator;  *)
(* before it, nframes = 0 and frame_alloc answers 0.                       *)

Init ==
  /\ mbi = NoMbi
  /\ bitmap = {}
  /\ nframes = 0
  /\ heap_ptr = 0
  /\ ret = 0
  /\ owned = {}
  /\ tables = {}
  /\ blocks = <<>>
  /\ collided = {}

Next ==
  \/ \E m \in Mbis : memory_init(m)
  \/ frame_alloc
  \/ alloc_page_table
  \/ \E paddr \in FreeArgs : frame_free(paddr)
  \/ \E size \in Sizes : kmalloc(size)

Spec == Init /\ [][Next]_vars

-----------------------------------------------------------------------------
(* Properties *)

ManagedFrames == 0 .. (nframes - 1)

(* Types; whoever holds a frame holds one the allocator manages. *)
TypeOK ==
  /\ mbi \in Mbis \cup {NoMbi}
  /\ bitmap \subseteq Nat
  /\ nframes \in Nat
  /\ heap_ptr \in Nat
  /\ ret \in Nat
  /\ owned \subseteq ManagedFrames
  /\ tables \subseteq ManagedFrames
  /\ blocks \in Seq([ptr : Nat, size : Nat])
  /\ collided \subseteq Nat

(* The number of frames is what memory_init computed, 0 before it. *)
FramesKnown == nframes = IF mbi = NoMbi THEN 0 ELSE NFrames(mbi)

Held == owned \cup tables

(* memory_init left no byte of the bitmap in a frame it freed.  This is    *)
(* not so on every machine: see BitmapFramesReserved.                      *)
BitmapSafe == mbi # NoMbi /\ BitmapFrames(NFrames(mbi)) \subseteq BootBitmap(mbi)

(* A frame that was handed out stays marked used until its holder frees    *)
(* it, so frame_alloc cannot hand it out a second time, and no frame is    *)
(* both a page table and somebody's allocation.                            *)
HeldFramesMarked ==
  BitmapSafe => Held \subseteq bitmap /\ owned \cap tables = {}

(* What memory_init reserved (kernel, modules, holes of the memory map,    *)
(* padding bits) never becomes free and is never handed out.               *)
BootFramesKept ==
  BitmapSafe => BootBitmap(mbi) \subseteq bitmap /\ BootBitmap(mbi) \cap Held = {}

(* frame_alloc's answer 0 means what memory.h says, failure: an allocation *)
(* answers 0 only when no frame is free.                                   *)
AllocFailsOnlyWhenFull ==
  [][BitmapSafe /\ (frame_alloc \/ alloc_page_table) /\ ret' = 0
       => FreeFrames = {}]_vars

AlignedMap(m) == \A e \in Available(m) : e.base % PageSize = 0

(* Frame f is entirely RAM the memory map (or mem_upper) offers. *)
IsRam(m, f) ==
  IF m.has_map
    THEN \E e \in Available(m) :
           e.base <= f * PageSize /\ (f + 1) * PageSize <= e.base + e.len
    ELSE LowTop <= f * PageSize /\ (f + 1) * PageSize <= LowTop + m.upper

(* Every frame that is free or handed out is entirely RAM, if the loader's *)
(* memory map starts its entries on page boundaries.                       *)
FramesAreRam ==
  BitmapSafe /\ AlignedMap(mbi) => \A f \in FreeFrames \cup Held : IsRam(mbi, f)

(* Bytes of a block, as frames. *)
BlockFrames(b) == Pages(b.ptr, b.ptr + b.size)

(* The rounded size and the end of the block, rounded up to a page, fit in *)
(* 64 bits.                                                                *)
NoWrap(b) == b.ptr + b.size + HeapAlign + PageSize <= AddrSpace

HeapFrames == UNION {BlockFrames(blocks[i]) : i \in DOMAIN blocks}

(* kmalloc marks the frames under its blocks, and they stay marked and     *)
(* unowned, as long as the heap never grew into a frame already held.      *)
HeapReserved ==
  BitmapSafe /\ collided = {} =>
    \A i \in DOMAIN blocks :
      NoWrap(blocks[i]) =>
        BlockFrames(blocks[i]) \subseteq bitmap \ Held

(* Blocks are aligned, lie behind the bitmap and never overlap, unless a   *)
(* request made the 64-bit heap pointer wrap.                              *)
BlocksDisjoint ==
  (\A i \in DOMAIN blocks : NoWrap(blocks[i])) =>
    \A i \in DOMAIN blocks :
      /\ blocks[i].ptr % HeapAlign = 0
      /\ BitmapEnd(nframes) <= blocks[i].ptr
      /\ \A j \in 1 .. (i - 1) : blocks[j].ptr + blocks[j].size <= blocks[i].ptr

(* The code sets no bit behind the bitmap's own bytes but those of the     *)
(* frames of kernel, bitmap, modules and heap that lie above the managed   *)
(* ones, which it does not check; frames handed out, and page tables, have *)
(* their bits in the bitmap, and kmalloc marks no frame but the block's.   *)
BitmapInBounds ==
  mbi # NoMbi /\ (\A i \in DOMAIN blocks : NoWrap(blocks[i])) =>
    bitmap \subseteq BitmapBits(nframes) \cup KernelFrames \cup BitmapFrames(nframes)
                       \cup ModuleFrames(mbi) \cup HeapFrames

(* The allocator implements the frame pool, frame 0 being the answer of a  *)
(* failed allocation.                                                      *)
Pool == INSTANCE FramePool WITH
  Frame <- Nat \ {0}, NoFrame <- 0,
  open <- mbi # NoMbi, pool <- FreeFrames, held <- Held, last <- ret \div PageSize

PoolSpec == Pool!Spec

(* memory.cpp:80 reserves the frames occupied by the bitmap itself, so     *)
(* after memory_init they are marked used.                                 *)
BitmapFramesReserved == mbi # NoMbi => BitmapFrames(nframes) \subseteq bitmap

(* memory.cpp:167: kmalloc reserves the frames underlying its blocks, so   *)
(* no frame is both under the heap and held by a caller of frame_alloc.    *)
HeapExclusive == HeapFrames \cap Held = {}

=============================================================================
