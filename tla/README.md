# XG OS in TLA+

XG OS is a small 64-bit kernel: GRUB loads it through Multiboot 1, `boot.asm`
builds the first page tables and enters long mode, and `kernel_main` sets up
physical memory and paging, looks for a linear framebuffer, and either runs an
animation on it or prints a greeting on the VGA text console. This directory
holds its specification: TLA+ modules translated from the source, TLC runs over
small machines, and TLAPS proofs.

The kernel has one CPU, no threads, no interrupt handlers and no IDT. Nothing
in it runs concurrently except the hardware: the processor's page walker reads
the page tables while the code changes them and caches what it finds. What is
hard in this code is therefore

* *sequences of legal calls* that share one array of frames: the frame bitmap,
  the heap, page tables and modules all live in it, and no layer checks another;
* *partial failure*: frames may run out in the middle of a call, and several
  callers ignore it;
* *numeric edges*: 0 as both an address and an error, sizes that end inside a
  page or a bitmap byte, sums that wrap;
* *hardware reading half-made data structures*, and stale TLB entries.

## 1. Inventory

| Component | Source | State | Operations | Used by |
|---|---|---|---|---|
| Boot entry | `boot.asm`, `init.cpp` | saved magic and Multiboot address, stack | `_start`, CPU checks, `long_mode_start`, `init_global_ctors` | loader |
| Boot page tables | `boot.asm` | `p4_table`, `p3_table`, `p2_table` | `setup_page_tables` | everything, as the map it runs on |
| Physical memory | `memory.cpp` | `frame_bitmap`, `nframes`, `bitmap_size`, `heap_ptr` | `memory_init`, `frame_alloc`, `frame_free`, `kmalloc` | paging, kernel |
| Page tables | `paging.cpp` | `pml4_table`, the tables in memory | `paging_init`, `paging_map_page`, `paging_unmap_page`, `paging_get_physical`, `paging_map_framebuffer` | kernel |
| Framebuffer detection | `memory.cpp` | none (reads the Multiboot information) | `framebuffer_detect`, `framebuffer_get_info` | kernel |
| Kernel main | `kernel.cpp` | position of `early_print` | `kernel_main` | boot entry |
| Text console | `console.cpp` | cursor, colour, VGA buffer | `kputc`, `kprintf`, `panic`, `clear`, `set_color`, `set_cursor`, ... | all, for logging |
| Graphics | `graphics.cpp` | `g_graphics_ctx`, the framebuffer | `graphics_init_simple`, `graphics_init`, drawing primitives | kernel, animations |
| Math | `math.cpp` | none | `math_sin`, `math_cos`, `math_abs`, `math_min`, `math_max`, `math_clamp` | animations |
| Animations | `graphics_demo.cpp` | locals of the animation loops | `graphics_animate_*` | kernel |

How they interact. Everything is a direct call on one stack. `memory_init`
places the bitmap right behind `.bss`; `kmalloc` starts its heap right behind
the bitmap; `alloc_page_table` of `paging.cpp` takes a frame from the bitmap
and zeroes it *through its physical address*, that is, through the boot
identity map that `paging.cpp` itself edits. The only shared state is memory.

What makes each component correct:

* **Physical memory**: a frame has at most one holder; what `memory_init`
  reserved stays reserved; what is handed out is RAM; an allocation fails only
  when nothing is left; heap blocks are disjoint and their frames reserved; no
  bit outside the bitmap's bytes is touched.
* **Page tables**: a call changes the translation of the page it was asked for
  and no other, also between two of its memory accesses; tables form a tree;
  the identity map the kernel runs on is never lost; the TLB holds nothing
  outdated; the software walk agrees with the hardware's.
* **Kernel main**: the framebuffer is touched only after it was validated and
  mapped, and every outcome of the initialisation ends in one of the two
  terminal loops.
* **Console**: the cursor stays inside the buffer, the buffer shows the last 25
  lines written.
* **Graphics**: every store lies inside the framebuffer, and exactly the pixels
  of the shape that lie on the screen are written.
* **Math, animations**: sine and cosine stay on a circle, shapes stay on the screen
  and move as they should, every animation ends.
* **Formatted output**: what is asked for is printed, inside the digit buffers and
  the format; nothing follows a panic.

## 2. Modules

| Module | Role |
|---|---|
| `FramePool` | what `memory.h` promises of the frame allocator: a pool, holders, failure only when empty |
| `PhysicalMemory` | `memory.cpp`'s allocator and heap, and `alloc_page_table`; implements `FramePool` |
| `PhysicalMemoryProofs` | TLAPS proofs about `PhysicalMemory`, for all values of its constants: frames, heap, bitmap, and that it implements `FramePool` |
| `NatLemmas` | the arithmetic the proofs share, as lemmas: least and greatest elements, integer division, products |
| `AddressSpace` | what `paging.h` promises: one translation per page, a call changes one of them or none |
| `Paging` | `paging.cpp` and `setup_page_tables`, one memory access per action, beside the page walker and the TLB; implements `AddressSpace` |
| `PagingProofs` | proofs about `Paging`: types, `paging_get_physical`, identity map, TLB, the tree of tables, the framebuffer's pages, and that it implements `AddressSpace` |
| `Kernel` | `boot.asm` from `_start`, `kernel_main`, framebuffer detection and the start of graphics; composed with `Paging` |
| `KernelProofs` | proofs about `Kernel`: the loader's parameters, where a boot ends, that the framebuffer drawn on is mapped |
| `Terminal` | what a text console promises: paper that scrolls, a carriage, ink |
| `Console` | `console.cpp` without `kprintf`: `kputc`, cursor, colour, VGA buffer; implements `Terminal` |
| `ConsoleProofs` | TLAPS proofs about `Console`, for screens of every size, and that it implements `Terminal` |
| `Kprintf` | `kprintf` and `panic`: the scan of the format, the digit loops, their buffers |
| `KprintfProofs` | TLAPS proofs that `kprintf` prints what it is asked for and stays in its format and its digit buffers, for every format, argument and width of the integers |
| `Canvas` | what a screen promises: the shapes drawn on it and nothing else |
| `Graphics` | the framebuffer and the drawing functions of `graphics.cpp`; implements `Canvas` |
| `GraphicsProofs` | proofs about `Graphics`: only pixels are stored, lines keep their course |
| `Math` | `math_sin` and `math_cos`, as functions |
| `Animations` | the three animations of `graphics_demo.cpp`, on top of `Math` |
| `AnimationsProofs` | TLAPS proofs about the ball's path, the rectangles' places, sine and cosine |
| `MC*` | small instances for TLC |

### PhysicalMemory

| Variable | Code |
|---|---|
| `mbi` | the `multiboot_info_t` passed to `memory_init` (which entries, modules and `mem_upper` it has) |
| `bitmap` | the set of indices whose bit in `frame_bitmap` is 1 |
| `nframes`, `heap_ptr` | the statics of the same name |
| `ret` | the value the last `frame_alloc` returned |
| `owned`, `tables`, `blocks`, `collided` | ghosts: who holds which frame, what the heap handed out |

Each function is one action, because nothing interleaves with it. `memory_init`
computes its result with one operator per pass (`BitmapFrames`, `FreedAtBoot`,
`KernelFrames`, `ModuleFrames`) composed in the order of the code in
`BootBitmap`. `alloc_page_table` is here as well as in `Paging`, since it
*clears the bits of the bitmap stored in the frame it zeroes* (`BitsIn`). The
address arithmetic of `kmalloc` wraps at `AddrSpace`, as `uintptr_t` does at
2^64. The heap's effect on frames is the code's: it marks them, whoever holds
them. `frame_free` may be called with any address the code rejects, and with
the address of a frame the caller holds (`MayFree`, the contract in
`memory.h:80`).

Multiboot informations are quantified over the constant `Mbis`, whose members
satisfy `MbiAssumption`: entries with natural bounds that do not wrap the
address space.

### Paging

Page tables are data in frames: `mem` holds every RAM frame as an array of
entries, garbage where nobody wrote. `op` is the call in progress with its
program counter, level and table pointer; `fb` the loop of
`paging_map_framebuffer`; `tlb` what the processor has cached. A walk down one
level (`Descend`), an allocation with its zeroing (`AllocTable`), the store of
the new table's address (`LinkTable`), the store of the final entry
(`SetEntry`) and `invlpg` (`Invlpg`) are separate actions, and `TlbFill` may
run between any two of them. The code uses the
physical address of a table as a pointer, so what an access reaches is the frame
that page translates to by the *current* tables (`Behind`): the table's own frame
in the identity map, another frame where a caller has mapped that page of RAM to
one, which the code then zeroes or writes instead. Where the page translates to
nothing (`Addressable` fails) the access faults (`Fault`), and with no IDT the
machine stops there. A frame may also hold a part of the allocator's bitmap
(`BitsIn`, a constant: where the bitmap lies is `PhysicalMemory`'s subject).
Zeroing it frees the frames whose bits it holds (`AllocTable`), an entry stored
into it leaves those bits at anything (`Scribbled`). `frame_alloc` answers 0 for
frame 0 as for no frame, and `alloc_page_table` gives up on both (`NoFrame`).

`paging_map_page` does not look at `PAGE_HUGE`, nor does the model: in the boot
identity map it takes the data of a 2 MiB page for a page table.

Both walks are modelled apart: `Walk` is the processor's, with the rights
combined over the levels (external: the x86-64 architecture), and
`paging_get_physical` is the code's. It too reads tables through their addresses;
the model reads their frames, which is the same as long as `TablesFormTree`
holds, by which every table's page translates to the table.

### Kernel

`Kernel` EXTENDS `Paging`: the boot writes the page tables `Paging` works on,
and a call of `paging_map_framebuffer` is `Paging`'s sequence of memory
accesses, with the walker between them. `pc` is the place the boot has reached.

| Action | Code |
|---|---|
| `save_multiboot`, `check_cpuid`, `check_long_mode`, `setup_page_tables`, `enable_paging`, `long_mode_start`, `init_global_ctors` | the routines of `boot.asm`, in the order `EntryOrder` of the calls in `_start`; a register a routine overwrites becomes `Junk` |
| `check_magic`, `call_memory_init`, `call_paging_init`, `framebuffer_detect`, `bad_parameters`, `call_map_framebuffer`, `mapping`, `graphics_init_simple` | the decisions of `kernel_main`, each with the code of the function it calls |
| `graphics_test_framebuffer`, `draw`, `text` | the stores to the framebuffer and to the VGA buffer: they fault unless the tables map every page touched |

`memory_init` is represented by its result, one of `BootBitmaps`; its
computation is `PhysicalMemory`'s subject. `Words` are the framebuffer words
the two address computations in `graphics.cpp` reach (`put_pixel` divides the
whole offset by 4, the other primitives divide the pitch first). The argument
registers are pairs of 32-bit halves, because `long_mode_start` loads 64 bits
from 32-bit variables and only the truncations in `kernel_main` make the upper
halves harmless.

### Console

`Console` has the statics of `console.cpp` (`cursor_row`, `cursor_col`,
`current_color`), the VGA buffer, and what the CRT controller was told.
`kputc` is one action: store, wrap, scroll and cursor update together. The
attribute byte of a character from 128 on is all ones, because the code
extends a signed `char` before it combines it with the colour.

The refinement of `Terminal` needs the lines that have left the screen; the
ghost `scrolled` keeps them. `set_cursor` accepts any position; the ghost `bad`
counts calls with one off the screen, and `strays` the stores outside the
buffer that follow.

### Kprintf

| Variable | Code |
|---|---|
| `program` | the calls still to come; a call of `panic` may be among them |
| `panicking` | `panic` was called, whose loop never ends |
| `stack` | calls of `kprintf` that have not returned: the format and what follows it in memory, the position `p`, the arguments left |
| `number` | the digit loop that runs: `v`, base, table, size of `buf` and the digits in it |
| `pending` | characters on their way to `kputc` |
| `pieces`, `put` | ghosts: how the format was written, and what `kputc` got |

One action per directive, one per round of a digit loop (`Divide`), one per
character (`Put`). `%p` calls `kprintf` again, so there is a stack. A format is
given as the list of pieces it was written from, and what it should print
(`Asked`) is computed from the pieces; the code reads the concatenated text.
That way a scan that takes an argument too many, or the letter after a
directive for a part of it, shows. `IsPiece` says what a piece may be (a text
without percent sign, `%%`, an unknown directive, or a directive with one
argument of its type), and `ProgramsAssumption` that calls are lists of such
pieces over an `Alphabet` without the terminator, as string literals are; the
last piece may be one that breaks off. `Beyond` is what may lie behind a format in
memory: a format that ends in `%` or `%l` makes the scan step over the
terminator and go on there, and the properties exclude exactly those formats.
Negating the smallest integer overflows; it wraps, as the machine's negation
does, and is then read as unsigned.

### Math and Animations

`Math` has the division of C, which truncates toward zero, and the two
functions with the order of their tests: special angles first, then the
normalisation. `Animations` keeps the locals of the loops (`ball`, `frame`,
`index`) and, in `drawn`, the calls of the primitives since the screen was
cleared. The unsigned arithmetic is kept: `distance` is unsigned, so the product
with a negative sine wraps at `Wrap` = 2^32 before it is divided. All constants
are those of the code.

### Graphics

`fb` is the framebuffer as 32-bit words, `job` the drawing function that runs
with its locals. Coordinates are unsigned and wrap at `Wrap` = 2^32, and so does
`Canvas`'s plane: a rectangle at x = 2^32 - 1 starts one column left of the
screen. Functions whose loops carry no state are one set of words
(`FillWords`, `FrameWords`, `DiscWords`, ...); `graphics_draw_line`,
`graphics_draw_circle` and `graphics_draw_string` make one step per iteration.
`unit` is the
channel order the last initialisation set: `graphics_init_simple` assumes red
in the highest byte, `graphics_init` takes the order from the mode, and both
store and read colours with it from then on.
Both address computations of the source are kept: `PutWord` for `put_pixel` and
`get_pixel`, `Stride` for the rest.

`Canvas` says what a shape is in plane geometry, without the algorithms: a line
is the points at most half a pixel away from it, a text is its characters'
cells, placed by counting characters and lines before them. While a shape is
drawn only its points may change; when the call returns, all of it must be on
the screen. A shape that reaches beyond the end of the plane may stay incomplete,
because `x + width` wraps. Of a circle `Canvas` says less than of the other
shapes: no point lies more than half a point beyond it, and it goes around its
centre, with a point on each side of the centre in every row and column. Whether
it is filled is left open: the comment at `graphics.cpp:489` says "draw a filled
circle using midpoint algorithm", while the code draws an outline, which need
not be next to the circle either (section 5).

## 3. Runs

| Run | Question | Answer |
|---|---|---|
| `physical_memory` | Does any order of allocations, page tables, frees and heap requests break the allocator's invariants, or its refinement of `FramePool`? | holds |
| `bitmap_reserved` | Are the bitmap's own frames reserved after `memory_init` (`memory.cpp:80`)? | violated |
| `heap_exclusive` | Does `kmalloc` reserve the frames under its blocks (`memory.cpp:167`), that is, are they its own? | violated |
| `paging` | Do calls outside the identity map implement `AddressSpace`, with frames running out or out of reach and the walker interleaved? | holds |
| `paging_huge` | Does mapping take effect inside the boot identity map (`paging.h:14`)? | violated |
| `paging_fb_success` | Does 0 from `paging_map_framebuffer` mean mapped (`kernel.cpp:62`)? | violated when frames run out |
| `kernel` | Does every boot end where it should, and draw only on what is mapped? | holds, for consistent geometry and enough frames |
| `console` | Does the screen show what was printed? | holds while `set_cursor` stays on the screen |
| `graphics` | Does the screen show what was drawn, whatever is clipped or wraps, under either channel order? | holds |
| `kprintf` | Is printed what a format asks for, inside its buffers, its format and its arguments, and nothing after a panic? | holds, for formats that do not break off within a directive |
| `animations` | Does the ball bounce, do the rectangles stay on the screen and follow sines that are not negative, do sine and cosine stay on a circle? | holds, with nothing said of 30 degrees |
| `animations_rects` | Do the rectangles rotate (`graphics_demo.cpp:95`)? | violated where a sine is negative |

Properties are conditional where the code is. `BitmapSafe` says that
`memory_init` left the bitmap's frames reserved, which `bitmap_reserved` shows
is not always so; every machine of `physical_memory` satisfies it.
`HeapReserved` excludes behaviours in which the heap already ran into a held
frame (`collided`), which `heap_exclusive` shows can happen. `FramebufferReady`
assumes that a screen line is long enough for its pixels, that the framebuffer
starts on a page and that no frame was missing: `kernel_main` checks none of
these, and the run contains a loader, or a bitmap, that breaks each, after
which the boot ends in `fault`. `TerminalSpec` speaks of steps up to the first
`set_cursor` off the screen; `StraysPaidFor` and `CursorComesBack` say how
little can go wrong after it.

### Bounds

* `physical_memory`: pages of 4 bytes, bitmap bytes of 4 bits, heap alignment 2,
  an address space of 64 bytes. Ratios matter, not sizes: a page holds several
  bitmap bytes, a bitmap byte several frames, and the kernel ends inside a
  page. The five memory maps are: a module that straddles two frames; a hole
  and a top that is no page boundary, so the last bitmap byte has padding; no
  map, only `mem_upper`; an entry that starts inside a page; and ten frames,
  whose bitmap crosses into a second frame, which is a hole of the map. All
  have at most ten frames, so the run exhausts them. Request sizes are odd (3),
  more than a page (9), one that wraps the address space (60); `MaxBlocks` = 2
  heap blocks, which is enough for overlap. `frame_free` gets every address up
  to 41, past the last frame. `bitmap_reserved` has the ten frames with RAM
  behind the kernel instead of the hole.
* `paging`: tables of 3 entries (so 81 virtual pages, an identity map of 9
  pages), pages of 2 bytes and eleven frames of RAM, the last two above the
  identity map. Four frames are free, on one machine all in reach, on the other
  two of them above the identity map: one call can create three tables and the
  next fail, or fault, in the middle. Pages 11 and 12 share a page table, page
  30 is under another directory, the framebuffer's two pages cross a directory
  boundary. The bitmap is in frame 5, which no huge page starts at; nor does one
  start at a boot table (frames 1, 2 and 4), so that what `paging_huge` and
  `paging_fb_success` show does not depend on the layout. `TlbPages` bounds whose translations the processor caches: an
  identity page, a mapped page and a framebuffer page. Deadlock is not an
  error here or in `kernel`: after a fault, or in a terminal loop, the machine
  does stop.
* `kernel`: the same tables, pages of two pixels, nine frames. Every processor
  (`cpuid`, extended leaves, long mode or not) with sixteen loaders: no
  Multiboot, eight framebuffers refused for one reason each, a usable one that
  needs all four free frames, one that needs five, one whose pitch is no
  multiple of a pixel, one whose lines are too short, one that starts inside a
  page, one in the boot identity map, one too large; and a bitmap with four free frames or
  with one. The bitmap is in frame 6, where the huge page starts whose frame the code
  takes for a table when it maps the framebuffer in the identity map: the entry written
  there leaves the bitmap at anything.
* `console`: a screen of two lines of two characters, where every wrap, scroll
  and clear meets every cursor position; two colours, one character below 128
  and one above. `MaxScroll` = 1 line of paper above the screen and `MaxBad` = 1
  bad cursor: lines only move up one at a time, so a second one adds no case.

* `graphics`: a screen of 5 by 4 with one padding word per line, on a plane of
  128 by 128; glyphs of 2 by 2. Coordinates lie on the screen, on its border,
  behind it and, by wrapping, before it; sizes go from 0 to ones that wrap.
  Lines of every slope from two starting points and back, circles of
  radius 1 to 5 and discs of radius 0 to 5 with centres on and off the screen, texts with empty lines and
  characters without glyph. `MaxCalls` = 2: one call may paint over another, and
  no drawing function reads what is on the screen, so a third adds nothing. A
  `graphics_init` that succeeds clears the screen and counts as a call; its modes
  have blue first. A screen may be opened again under another order: `Canvas`
  then lets the colours on it change, but not the shapes.
* `kprintf`: an int of 10 bits and a long of 14, whose longest numerals are one
  shorter than their buffers, as with 32 and 64 bits. Formats have up to three
  pieces: every pair of directives and texts, every triple of a text and two
  directives, a text and a directive that breaks off, and every piece before
  and behind a panic. Two directives show what one leaves for the next.
  Arguments are 0, the ends of the ranges, and values where a digit is added.
  Deadlock is no error: the program ends, or `panic` loops.
* `animations`: eight screens from 1024 by 768 down to one smaller than the ball
  (an odd one, one that just holds the ball, one where the ball starts behind
  the wall), one uninitialised context, and two of 30 and 34 pixels for the
  wave, whose 500 frames run over all pixels. `Wrap` is 2^24: the largest
  product is 170000, so it only has to be much larger than that. All frames of
  every animation are run. `animations_rects` has one screen of 640 by 480. Deadlock is no error: an uninitialised context starts
  nothing.

### Fairness

`FairSpec` of `Paging` assumes weak fairness of `Steps`: once a call has begun,
the processor goes on executing it. `FairKSpec` of `Kernel` assumes the same of
the boot's own steps. The kernel runs with no scheduler and interrupts
disabled, so nothing can keep it from doing so. Calls from outside and TLB fills
are under no fairness. `CallsReturn` and `EveryBootEnds` hold because each loop
has a bound: three levels of tables, and an offset that grows by a page.
`DrawingEnds` assumes the same of `Graphics`' `Step`; it is not obvious for
lines, whose loop stops at the end point and nowhere else, and `LineOnCourse`
is the reason it holds. `kprintfReturns` and `PanicHasLastWord` assume weak
fairness of `Kprintf`'s `Next`, `AnimationsEnd` of the steps within an
animation, for the same reason.

## 4. Proofs

`PhysicalMemoryProofs` proves for every page size, memory map and sequence of
calls allowed by the assumptions of `PhysicalMemory`:

* `TypeCorrect`: the types; the invariant behind it, `TypeInv`, adds that held
  frames are below `nframes`, which is what `memory_init` computed;
* `HeldFramesMarkedHolds`, `BootFramesKeptHolds`: a frame handed out stays
  marked and has one kind of holder; what was reserved at boot is never free
  and never handed out, on every machine where `BitmapSafe` holds;
* `AllocFailsHolds`: answer 0 means that no frame is free;
* `FramesAreRamHolds`: free and held frames are RAM when the memory map's
  entries are page aligned;
* `PoolImplemented`: the refinement of `FramePool`, if on every machine of
  `Mbis` the bitmap lies in frames `memory_init` left reserved.

The argument. `HeldFramesMarked` is not inductive: `alloc_page_table` zeroes
its frame, and if the frame held a part of the bitmap, other frames would become
unmarked. The inductive invariant `FrameInv` therefore adds that the boot
reservation stays a subset of the bitmap and disjoint from held frames; with
`BitmapSafe`, a free frame then holds no byte of the bitmap, `BitsIn` is empty,
and zeroing is harmless. `BitsIn` and `BitmapFrames` meet in the lemma
`PageBelow`: a byte between two addresses lies in a page between theirs. That
frame 0 is never free, so that 0 can mean failure, follows from the kernel's
reservation starting at address 0. `FirstFree` is a `CHOOSE`; `LeastElement`
gives the witness.

Assumptions: the constants' `UnitsAssumption`, `MbiAssumption` and
`CallsAssumption` (TLC evaluates them in each run), and for `PoolImplemented`
the condition on `Mbis` stated in the theorem.

Of `kmalloc` it proves

* `BlocksDisjointHolds`: blocks are aligned, lie behind the bitmap and share no
  byte, as long as no request made the heap pointer wrap (`NoneWraps`, the
  property's own condition). The invariant `HeapInv` says that the heap pointer is
  aligned and behind every block; `HeapFits` assumes that each machine's bitmap
  ends where the first alignment does not wrap.
* `HeapReservedHolds`: the frames under a block stay marked and are handed to
  nobody (`ReservedInv`), provided no request grew into a frame that was already
  taken, which `kmalloc` does not test and `HeapExclusive` shows to happen. The
  step that needs arithmetic is `SpanCoversBlock`: the frames `kmalloc` marks,
  counted from the rounded ends, are all the frames a byte of the block lies in.
* `BitmapInBoundsHolds`: a bit outside the bitmap's bytes is set for no frame but
  those of kernel, bitmap, modules and heap blocks that lie above the managed
  ones, which the code does not check for. Every frame handed out has its bit
  inside (`BitsForFrames`, by the rounding up of the bitmap's size), and `kmalloc`
  marks no frame in which its block has no byte. It assumes `HeapFits` and that
  the heap's alignment (8) divides a page (4096): otherwise `kmalloc` may mark
  a frame more than its block has bytes in (`SpanIsBlock`).

`PagingProofs` proves `WalksAgreeHolds` for tables of every size and every set of
calls: `paging_get_physical` and the processor read the same entries, and
`OffsetInPage` shows that the offset the code takes from the whole address, in a
page or a huge page, is the one the walk has. The other theorems have conditions
the kernel meets:

* `CallsOutside`: no call names a page of the identity map, and none maps a page
  of RAM to another frame than its own (`InPlace`), because tables are written
  through their frames' own pages;
* `BitmapReserved`: on every machine the bitmap lies in frames that are used, so
  that no table is made of a part of it (`bitmap_reserved` shows that
  `memory_init` does not see to that).

Under these it proves `TypeCorrect`, `IdentityKeptHolds` and `TlbCoherentHolds`.
Types need them too: a store into the bitmap might free the frame a call has
just taken. Their invariant `TreeInv`
gives each frame that is a table a level and the prefix of the pages it
translates: an entry of a table leads to one of the level below whose prefix is
longer by the entry's index. So a walk passes at each level through a table with
the page's own prefix, a page outside the identity map never descends into the
huge pages of `P2` (their prefix is 0, `IdentityPrefix`), the table
`alloc_page_table` zeroes has no level yet, and an entry written in a last table
is read by one page's walk only (`PageFromPrefix`). A cached translation then
stays right because every entry its walk read stays as it was (`WalkKept`). The
first condition is needed: `paging_huge` shows what a call within the identity map does.
That a table's page translates to the table (`Behind`) follows from the identity map
for frames in it, and from `InPlace` for those above.

`SpaceImplemented` proves that the tables implement `AddressSpace`, with the walker
looking on between any two accesses, for calls outside the identity map that ask
neither for `USER` nor for `HUGE` (`CallsPlain`; section 5 says what becomes of
`USER`). Two parts join the invariant: `PathInv`, that a call has come as far
as the walk of its page would, so that what it writes is what the walk reads; and
`ResultInv`, that between the write and the flush the page translates as asked.
Of the steps of a call only `SetEntry` changes a translation, that of its own page
(`SetEntrySpace`); `AllocTable` and `LinkTable` change none, because the new table
is zeroed before it is linked where no entry was (`AllocInv`, `LinkInv`); a call
that gives up does so for want of a frame, or because there is nothing to unmap
(`ReturnSpace`).

Two more theorems are about the same calls. `FramebufferMappedHolds` needs an
invariant of the loop of `paging_map_framebuffer` (`FbMapInv`): the pages before
the offset reached are mapped to themselves and writable, and stay so while
later pages are given tables, or a frame was missing. `TablesFormTreeHolds` is
about which frames can become tables: only those of the identity map, because
`alloc_page_table` zeroes a frame through its physical address and faults where
that page translates to nothing. The invariant behind it (`OwnInv`) is that no frame of RAM
beyond the identity map has a page of its own, which fails as soon as a caller
maps RAM to itself there. `TablesLow` assumes that nobody does, and that the boot
tables are in reach: the kernel maps nothing but the framebuffer, which is
device memory, and is linked to 1 MiB, boot tables included.

`KernelProofs` proves about the whole boot, on top of `PagingProofs`,

* `LoaderParametersKeptHolds`: from `_start` to `kernel_main` no routine
  overwrites eax or ebx before they are saved, nor the words and registers they
  are saved in (`LoaderInv`);
* `EndsAsExpectedHolds`, `FramebufferReadyHolds`: the boot ends in the loop that
  processor, loader and framebuffer call for, and a store to the framebuffer
  faults only where the geometry is inconsistent or a frame was missing. Both assume
  `TablesApart` and `BitmapReserved`.

`KernelInv` joins four invariants, each by the place the boot has reached:
`LoaderInv`, `CpuInv` (what the checks have found), `MemInv` (the tables are
empty, then the boot tables, then what `PagingInv` and `FbMapInv` say) and
`CtxInv` (what `framebuffer_detect` and the tests of `kernel_main` have let
pass). The boot tables satisfy `PagingInv` (`TablesBuilt` and the lemmas behind
it), so the proof goes on where the one about `Paging` starts. A loader may put
its framebuffer inside the identity map, where `PagingInv` is lost: the code
then takes the frame a huge page starts at for a table and writes an entry into
it. For that case `LowMapInv` says that the tables stay what they were, and the
framebuffer is mapped as it always was; `TablesApart` assumes that no huge page
starts at a boot table or at a part of the bitmap, which lie behind the kernel's
code in the first one.
`Ctors = 0` assumes no global constructors, which `init_global_ctors` would call
while the parameters are in registers nobody saves; the kernel has none.

`GraphicsProofs` proves for every screen, pitch and font, and every request
within the ranges of `RequestAssumption`

* `OnlyPixelsStoredAlways`: what the clipping of each primitive leaves is a word
  of a pixel (`PixelWord`), whatever wrapped before;
* `LineOnCourseAlways`: the error term of `draw_line` is a function of the
  distances gone (`ErrStep`); its two tests then cannot both fail before the end
  (`StepCloser`) nor one step pass the end of its axis (`NoOvershoot`). The
  quarter of the plane that bounds a line is what makes distances computed
  modulo 2^32 true distances (`DiffIsDistance`).

`ConsoleProofs` proves for every size of the screen (`ConsoleAssumption`: a
width below 2^16, so that the controller's position is a function of row and
column) `TypeCorrect`, `StraysPaidForAlways` and `CursorComesBackAlways`.
`TypeOK` and `StraysPaidFor` are each inductive only with the other: that the
column is on the screen after every character bounds the stores outside the
buffer, and while none happened the row is on it too. `IInv` joins them.

`TerminalImplemented` proves that the console is a terminal, up to the first
`set_cursor` off the screen. The refinement joins the lines scrolled off and the
lines of the buffer to one sheet of paper (`PaperMapping`), so the proof is about
where a place of the buffer is on the paper, before and after a scroll
(`PlaceUnique`, `ScrolledPaper`): a character becomes the mark in one place, a
line fed at the end of the paper adds a blank one, and nothing else moves.

`KprintfProofs` proves `BuffersHoldAlways` for every width of int and long and
every table of buffer sizes large enough for it (`Room`). The invariant
`NumberFits` adds to the property the bases, tables and types of the digit loop;
the step rests on one fact: a value below b^(n+1) divided by b is below b^n.

It also proves `PrintsAsAskedAlways` and `StaysInFormatAlways`, for every list of
calls whose formats are written from pieces. Both follow from one invariant,
`ScanInv`, which ties the position of the scan to the pieces it cannot see:

* the scan is always at a *place* of its format (`Place`): at the boundary of a
  piece or inside a text, with the arguments of the pieces before it taken and
  those behind it left. A place knows what was asked for so far, which is the
  beginning of all that is asked for (`PlaceSaid`), and lies in front of the
  terminator (`PlaceBound`); at the terminator everything was asked for and no
  argument is left (`AtTerminator`). The scan goes from place to place because
  the characters in memory at a place are those of its piece (`PlaceMoves`), of
  which the first, and after `%` and `%l` the next, tell which directive it is;
* what was printed, what is on its way to `kputc` and the numeral being made are
  together what was asked for so far (`Scans`, `ToPrint`). A numeral is made from
  its last digit on: the digits in the buffer are the last ones of a value
  (`Converting`) whose quotient is left, so that at quotient 0 the buffer,
  reversed, is the numeral (`DivideConverts`);
* while `%p` has called `kprintf`, there are two scans: the caller's has already
  asked for the pointer, and what is printed is what was asked for before it and
  what the inner call was asked for so far (`Nested`). The inner format is fixed
  and has no `%p` of its own (`PointerFormat`), so two is the most there are.

While `%p` runs, the caller's place is thus ahead of what was printed; elsewhere
`put` and `pending` catch up with the place of the one call.

`AnimationsProofs` proves for every screen an unsigned int can hold

* `BallLeavesWallsAlways`: a coordinate is at its start or between the walls and
  leaving them (`OnTrack`); the start has to be in the invariant, because it may
  lie behind a wall, and one frame leads from there to the rest (`BounceStep`);
* `RectsOnScreenAlways`: the product with the sine may be anything, also a
  wrapped one, since the clamp comes after it (`ClampedInside`); `RectsInv` adds
  that only the five rectangles of the loop are drawn. It rests on the sine
  being an integer at every angle, that is, on the denominator of the formula
  being positive (`BhaskaraType`);
* `RectsTurnForwardAlways`: where a sine is not negative the product does not
  wrap (`OffsetForward`), and the clamp moves a rectangle no further than to the
  nearest place on the screen (`ClampedValue`);
* `BallMirroredAlways`: the ball's place is a function of the way it went
  (`Mirrored`). Its invariant `PathInv` gives the phase between the walls and the
  direction that goes with it, so that one frame is one step of the phase;
* `OnUnitCircleAlways`, which says nothing at 30 degrees: `AngleInv` adds that the rectangles come to even angles
  only. What the sine is at the 45 even angles of a quarter is evaluated one by
  one (`QuarterOnCircle`), the other quarters follow by reflection; the bytes of
  the wave's colours follow from the bound of the sine (`SineBound`).

Only model-checked: `CanvasSpec`; and for good all liveness (`CallsReturn`,
`EveryBootEnds`, `DrawingEnds`, `kprintfReturns`, `PanicHasLastWord`,
`AnimationsEnd`), since liveness under fairness is out of the prover's reach.

## 5. Findings

* `memory_init` reserves the bitmap's frames before it frees all available RAM,
  so only the part up to `__bss_end` rounded up stays reserved (`memory.cpp:81`
  against the comment at line 80). On a machine whose bitmap is longer than the
  rest of the kernel's last page, `frame_alloc` hands the bitmap out.
* `kmalloc` does not test the frames it grows into (`memory.cpp:180`, comment
  at line 167).
* `paging_map_page` ignores huge pages (`paging.cpp:112`), so it writes an entry
  over what the 2 MiB page holds, and `paging_map_framebuffer` answers success for
  pages it could not map (`paging.cpp:202`).
* The rectangles do not rotate about the centre (`graphics_demo.cpp:115`, against
  the comments at lines 95 and 113): `distance` is unsigned, so where a sine is
  negative they sit at the right or the lower border (`animations_rects`).
  `RectsTurnForward` is what holds.

Some more disagreements have no run. No property that holds rests on what the
code does there; each is left open or left out:

* `math_sin(30)` is 0 (`math.cpp:12`: `1 / 2` is an integer division, against the
  comment "sin(30°) = 1/2" on the same line), while `math_sin(390)` is 500;
  `OnUnitCircle` says nothing at that angle.
* `graphics_draw_circle` is "a filled circle using midpoint algorithm"
  (`graphics.cpp:489`), but draws an outline. Nor is it that of the midpoint
  algorithm, whose points are half a point away: the decision variable is updated
  with the coordinates of the next point (`graphics.cpp:512`), by which points come
  up to 1.35 inside. With radius 0 it draws the four diagonal
  neighbours of the centre besides the centre. `Canvas` measures no point inside
  a circle, and `RequestAssumption` leaves radius 0 out.
* `PAGE_USER` has no effect (`paging.cpp:90`, `100`, `110`, against "with given
  flags", `paging.h:14`): tables are linked with `PAGE_PRESENT` and `PAGE_RW`
  alone. The calls of the runs do not ask for it, nor do those of the theorem
  (`CallsPlain`).

One limit is no disagreement with the text but worth knowing: a frame for a
table that lies above the identity map (1 GiB) cannot be written through its
physical address (`paging.cpp:42`). The kernel faults before it links such a
table, which `TablesFormTree` confirms.

## 6. Not modelled, and the plan

What is left to prove is the refinement of `Canvas`, one shape at a time:

* the frame of the proof: the words of two pixels differ (`PixelWord` gives the
  word of each), a colour stored is the colour read back for every order of the
  channels, a running function has stored only points of its shape, in its
  colours. `Requests` then need assumptions their types give them: coordinates
  below `Wrap`, components in `Channel`, texts shorter than the plane;
* rectangles, frames and discs are exact and done in one step: arithmetic
  modulo `Wrap`;
* the line: `LineOnCourse` and that twice the distance to the line stays at most
  the longer side; every column passed has a point;
* the text: a character's place is the count of those before it on its line;
* the circle last: `d` differs from the textbook's by 4 for every step along
  either axis, so the points come inside the circle, by up to 1.35 points for
  large radii. `InCircle` and `CircleComplete` are what is to prove.

Left out for good: `math_abs`, `math_min`, `math_max` and `math_clamp`, which
nothing calls; the widths of a colour's channels in bits (a channel is one
component of a word); the text of messages, the font's bitmaps, the port writes
that place the hardware cursor, delays, `memory_dump_map` (it only prints), and
the scripts, which have no run-time behaviour. Where the loader may place its
own structures is not known to the code either, so that the bitmap overwrites
none of them (`memory.cpp:79`) is assumed.
