------------------------------- MODULE Paging -------------------------------
(***************************************************************************)
(* The 4-level page tables: setup_page_tables of src/boot.asm builds the   *)
(* first ones, src/paging.cpp changes them.  The tables are data in        *)
(* physical frames, the kernel writes them through the very translation    *)
(* they define, and the processor's page walker reads them at any moment,  *)
(* also in the middle of a call.  So a call is modelled step by step:      *)
(* each memory access of paging_map_page and paging_unmap_page is an       *)
(* action, and the walker may fill the TLB between two of them.            *)
(*                                                                         *)
(* An operator named Op_Bug is Op with a plausible bug; the specification  *)
(* uses none of them, they show which properties would notice.             *)
(*                                                                         *)
(* Only one call runs at a time: the kernel has one CPU, no interrupts and *)
(* no threads.  A table pointer of the code is its frame number here, and  *)
(* 9-bit indices are digits in base E.                                     *)
(***************************************************************************)
EXTENDS Integers

CONSTANTS
  E,           \* entries per table (512)
  PageSize,    \* bytes per page (4096)
  RamFrames,   \* frames the allocator manages
  BootBitmaps, \* frames in use before paging_init, on each machine
  P4, P3, P2,  \* frames of p4_table, p3_table, p2_table
  BitsIn,      \* frames whose bits of the allocator's bitmap lie in a frame
  Pages,       \* virtual pages the properties look at
  MapArgs,     \* calls of paging_map_page: [virt, phys, flags]
  UnmapArgs,   \* calls of paging_unmap_page: virtual addresses
  FbArgs,      \* calls of paging_map_framebuffer: [phys, size]
  TlbPages     \* bound: pages whose translation the processor caches

Flag == {"PRESENT", "RW", "USER", "CACHE_DISABLE", "HUGE"}

Frame == 0 .. (E * E * E * E - 1)
Ram   == 0 .. (RamFrames - 1)

(* Addresses are canonical: bits above the four indices are zero. *)
Address == 0 .. (E * E * E * E * PageSize - 1)

ASSUME SizesAssumption ==
  /\ E \in Nat \ {0}
  /\ PageSize \in Nat \ {0}
  /\ RamFrames \in Nat /\ RamFrames <= E * E * E * E
  /\ Pages \subseteq Frame
  /\ TlbPages \subseteq Pages

ASSUME BootAssumption ==
  /\ {P4, P3, P2} \subseteq Ram
  /\ \A used0 \in BootBitmaps : {0, P4, P3, P2} \subseteq used0 /\ used0 \subseteq Ram
  /\ P4 # P3 /\ P4 # P2 /\ P3 # P2

(* The bitmap lies behind .bss, where the boot tables are. *)
ASSUME BitmapAssumption ==
  /\ BitsIn \in [Ram -> SUBSET Ram]
  /\ \A f \in {P4, P3, P2} : BitsIn[f] = {}

ASSUME CallsAssumption ==
  /\ MapArgs \subseteq [virt : Address, phys : Address, flags : SUBSET Flag]
  /\ UnmapArgs \subseteq Address
  /\ \A a \in FbArgs : a.phys \in Nat /\ a.size \in Nat /\ a.phys + a.size \in Address

VARIABLES
  mem,       \* contents of RAM as table entries: [Ram -> [0 .. E-1 -> Entry]]
  used,      \* frames the allocator's bitmap marks used
  pml4,      \* pml4_table: NoTable before paging_init
  op,        \* the map or unmap call in progress, or Idle
  fb,        \* the paging_map_framebuffer call in progress, or NoFb
  claimed,   \* the framebuffer a call just reported as mapped (ghost)
  tlb        \* translations the processor has cached: [page, target]

vars == <<mem, used, pml4, op, fb, claimed, tlb>>

NoTable == -1
NoFb    == [offset |-> -1]
NoClaim == [size |-> -1]
Idle    == [pc |-> "idle"]

-----------------------------------------------------------------------------
(* Entries and walks *)

Entry == [addr : Frame, flags : SUBSET Flag]
Zero  == [addr |-> 0, flags |-> {}]
Present(e) == "PRESENT" \in e.flags
Huge(e)    == "HUGE" \in e.flags

ZeroTable == [i \in 0 .. (E - 1) |-> Zero]

PageOf(a) == a \div PageSize

Power(level) == IF level = 0 THEN 1 ELSE IF level = 1 THEN E
                ELSE IF level = 2 THEN E * E ELSE E * E * E

(* pml4_index, pdpt_index, pd_index and pt_index of a page: level 3 to 0 *)
Index(page, level) == (page \div Power(level)) % E

(* Entry i of the table in frame f; nothing answers outside RAM. *)
Cell(f, i) == IF f \in Ram THEN mem[f][i] ELSE Zero

(* The entry a walk of page n reads at each level. *)
Entry3(n) == Cell(P4, Index(n, 3))
Entry2(n) == Cell(Entry3(n).addr, Index(n, 2))
Entry1(n) == Cell(Entry2(n).addr, Index(n, 1))
Entry0(n) == Cell(Entry1(n).addr, Index(n, 0))

NoPage == [frame |-> -1]

(* The frame the walk ends at and the rights it has there: RW and USER     *)
(* hold only if the entries of all levels give them.                       *)
Leaf(e, base, offset, uppers) ==
  [frame |-> base + offset,
   flags |-> {g \in e.flags \ {"HUGE"} :
                g \in {"RW", "USER"} => \A u \in uppers : g \in u.flags}]

(* The processor's page walk from CR3, which boot.asm loaded with p4_table *)
Walk(n) ==
  IF ~Present(Entry3(n)) \/ ~Present(Entry2(n)) THEN NoPage
  ELSE IF Huge(Entry2(n))
    THEN Leaf(Entry2(n), Entry2(n).addr, n % Power(2), {Entry3(n)})
  ELSE IF ~Present(Entry1(n)) THEN NoPage
  ELSE IF Huge(Entry1(n))
    THEN Leaf(Entry1(n), Entry1(n).addr, n % Power(1), {Entry3(n), Entry2(n)})
  ELSE IF ~Present(Entry0(n)) THEN NoPage
  ELSE Leaf(Entry0(n), Entry0(n).addr, 0, {Entry3(n), Entry2(n), Entry1(n)})

(* paging_get_physical: its own walk, which ends in an address or in 0 *)
Found_NoHugeCheck(n) ==
  Present(Entry3(n)) /\ Present(Entry2(n)) /\ Present(Entry1(n)) /\ Present(Entry0(n))

Found(n) ==
  /\ Present(Entry3(n))
  /\ Present(Entry2(n))
  /\ \/ Huge(Entry2(n))
     \/ Present(Entry1(n)) /\ (Huge(Entry1(n)) \/ Present(Entry0(n)))

paging_get_physical(a) ==
  LET n == PageOf(a)
  IN  IF pml4 = NoTable \/ ~Found(n) THEN 0
      ELSE IF Huge(Entry2(n)) THEN Entry2(n).addr * PageSize + (a % (Power(2) * PageSize))
      ELSE IF Huge(Entry1(n)) THEN Entry1(n).addr * PageSize + (a % (Power(1) * PageSize))
      ELSE Entry0(n).addr * PageSize + (a % PageSize)

-----------------------------------------------------------------------------
(* Frames for tables, and the kernel's access to them *)

FreeFrames == Ram \ used

FirstFree == CHOOSE f \in FreeFrames : \A g \in FreeFrames : f <= g

Marked_Not(f) == used

Marked(f) == used \cup {f}

(* The code uses a frame's physical address as a pointer, so it reads and  *)
(* writes the frame that page translates to, if there is one.              *)
Addressable(f) == Walk(f) # NoPage

Behind(f) == Walk(f).frame

(* Part of the allocator's bitmap may lie in a frame: zeroing the frame    *)
(* clears its bits, an entry stored there leaves them at anything.         *)
Bits(f) == IF f \in Ram THEN BitsIn[f] ELSE {}

Scribbled(f) == {(used \ Bits(f)) \cup b : b \in SUBSET Bits(f)}

ZeroFrame_Skipped(f) == mem

ZeroFrame(f) == IF f \in Ram THEN [mem EXCEPT ![f] = ZeroTable] ELSE mem

TableEntry_ReadOnly(f) == [addr |-> f, flags |-> {"PRESENT"}]

TableEntry(f) == [addr |-> f, flags |-> {"PRESENT", "RW"}]

Store(f, i, e) == IF f \in Ram THEN [mem EXCEPT ![f][i] = e] ELSE mem

-----------------------------------------------------------------------------
(* Calls.  With pml4_table still null each of them returns at once, and    *)
(* changes nothing.                                                        *)

MayCall == op = Idle /\ fb = NoFb /\ pml4 # NoTable

Begin(kind, virt, phys, flags) ==
  [pc |-> "walk", kind |-> kind, virt |-> virt, phys |-> phys, flags |-> flags,
   level |-> 3, table |-> pml4, new |-> 0]

paging_init ==
  /\ op = Idle /\ fb = NoFb
  /\ pml4 = NoTable
  /\ pml4' = P4
  /\ UNCHANGED <<mem, used, op, fb, claimed, tlb>>

paging_map_page(virt, phys, flags) ==
  /\ MayCall
  /\ op' = Begin("map", virt, phys, flags)
  /\ claimed' = NoClaim
  /\ UNCHANGED <<mem, used, pml4, fb, tlb>>

paging_unmap_page(virt) ==
  /\ MayCall
  /\ op' = Begin("unmap", virt, 0, {})
  /\ claimed' = NoClaim
  /\ UNCHANGED <<mem, used, pml4, fb, tlb>>

RoundedSize_Down(size) == (size \div PageSize) * PageSize

RoundedSize(size) == ((size + PageSize - 1) \div PageSize) * PageSize

paging_map_framebuffer(phys, size) ==
  /\ MayCall
  /\ fb' = [phys |-> phys, size |-> size, offset |-> 0, short |-> FALSE,
            end |-> RoundedSize(size)]
  /\ claimed' = NoClaim
  /\ UNCHANGED <<mem, used, pml4, op, tlb>>

-----------------------------------------------------------------------------
(* The steps of paging_map_page and paging_unmap_page *)

Walking(level) == op # Idle /\ op.pc = "walk" /\ op.level \in level

Slot == Index(PageOf(op.virt), op.level)

(* The entry the table pointer of the code points to *)
Current == Cell(Behind(op.table), Slot)

Descend ==
  /\ Walking(1 .. 3)
  /\ Addressable(op.table)
  /\ Present(Current)
  /\ op' = [op EXCEPT !.table = Current.addr, !.level = @ - 1]
  /\ UNCHANGED <<mem, used, pml4, fb, claimed, tlb>>

NeedsTable_Always ==
  Walking(1 .. 3) /\ op.kind = "map" /\ Addressable(op.table)

NeedsTable ==
  Walking(1 .. 3) /\ op.kind = "map" /\ Addressable(op.table) /\ ~Present(Current)

(* frame_alloc answers 0 for want of a frame, and for frame 0. *)
NoFrame == FreeFrames = {} \/ 0 \in FreeFrames

(* alloc_page_table: take the first free frame and zero it *)
AllocTable ==
  /\ NeedsTable
  /\ ~NoFrame
  /\ Addressable(FirstFree)
  /\ used' = Marked(FirstFree) \ Bits(Behind(FirstFree))
  /\ mem' = ZeroFrame(Behind(FirstFree))
  /\ op' = [op EXCEPT !.pc = "link", !.new = FirstFree]
  /\ UNCHANGED <<pml4, fb, claimed, tlb>>

LinkTable ==
  /\ op # Idle
  /\ op.pc = "link"
  /\ Addressable(op.table)
  /\ mem' = Store(Behind(op.table), Slot, TableEntry(op.new))
  /\ used' \in Scribbled(Behind(op.table))
  /\ op' = [op EXCEPT !.pc = "walk", !.table = op.new, !.level = @ - 1]
  /\ UNCHANGED <<pml4, fb, claimed, tlb>>

(* No frame for a table: the call returns, the tables it linked stay, and  *)
(* paging_map_framebuffer does not notice.                                 *)
AllocFails ==
  /\ NeedsTable
  /\ NoFrame
  /\ used' = used \cup (FreeFrames \cap {0})
  /\ op' = Idle
  /\ fb' = IF fb = NoFb THEN fb ELSE [fb EXCEPT !.short = TRUE]
  /\ UNCHANGED <<mem, pml4, claimed, tlb>>

NothingToUnmap ==
  /\ Walking(1 .. 3)
  /\ op.kind = "unmap"
  /\ Addressable(op.table)
  /\ ~Present(Current)
  /\ op' = Idle
  /\ UNCHANGED <<mem, used, pml4, fb, claimed, tlb>>

SetEntry ==
  /\ Walking({0})
  /\ Addressable(op.table)
  /\ mem' = Store(Behind(op.table), Slot,
              IF op.kind = "map" THEN [addr |-> PageOf(op.phys), flags |-> op.flags]
                                 ELSE Zero)
  /\ used' \in Scribbled(Behind(op.table))
  /\ op' = [op EXCEPT !.pc = "flush"]
  /\ UNCHANGED <<pml4, fb, claimed, tlb>>

Flushed_Not == tlb

Flushed == {t \in tlb : t.page # PageOf(op.virt)}

Invlpg ==
  /\ op # Idle
  /\ op.pc = "flush"
  /\ tlb' = Flushed
  /\ op' = Idle
  /\ UNCHANGED <<mem, used, pml4, fb, claimed>>

(* A table at a page that translates to nothing: the access faults, no     *)
(* handler is installed, and the machine stops.                            *)
Fault ==
  /\ \/ op # Idle /\ op.pc \in {"walk", "link"} /\ ~Addressable(op.table)
     \/ NeedsTable /\ ~NoFrame /\ ~Addressable(FirstFree)
  /\ op' = [op EXCEPT !.pc = "fault"]
  /\ UNCHANGED <<mem, used, pml4, fb, claimed, tlb>>

(* The loop of paging_map_framebuffer *)
NextOffset_Stuck == fb.offset

NextOffset == fb.offset + PageSize

FbPage ==
  /\ op = Idle
  /\ fb # NoFb
  /\ fb.offset < fb.end
  /\ op' = Begin("map", fb.phys + fb.offset, fb.phys + fb.offset,
                 {"PRESENT", "RW", "CACHE_DISABLE"})
  /\ fb' = [fb EXCEPT !.offset = NextOffset]
  /\ UNCHANGED <<mem, used, pml4, claimed, tlb>>

(* It answers 0, whatever became of the pages. *)
FbReturn ==
  /\ op = Idle
  /\ fb # NoFb
  /\ fb.offset >= fb.end
  /\ claimed' = [phys |-> fb.phys, size |-> fb.size, short |-> fb.short]
  /\ fb' = NoFb
  /\ UNCHANGED <<mem, used, pml4, op, tlb>>

-----------------------------------------------------------------------------
(* The processor may cache a translation whenever the tables give one. *)
TlbFill(n) ==
  /\ Walk(n) # NoPage
  /\ \A t \in tlb : t.page # n
  /\ tlb' = tlb \cup {[page |-> n, target |-> Walk(n)]}
  /\ UNCHANGED <<mem, used, pml4, op, fb, claimed>>

-----------------------------------------------------------------------------
(* RAM nobody cleared holds anything; here, entries that look valid. *)
Garbage == [addr |-> 0, flags |-> {"PRESENT", "RW"}]

(* setup_page_tables *)
HugeEntry(i) == [addr |-> i * E, flags |-> {"PRESENT", "RW", "HUGE"}]

BootTables ==
  [f \in Ram |-> [i \in 0 .. (E - 1) |->
     IF f = P4 THEN (IF i = 0 THEN TableEntry(P3) ELSE Zero)
     ELSE IF f = P3 THEN (IF i = 0 THEN TableEntry(P2) ELSE Zero)
     ELSE IF f = P2 THEN HugeEntry(i)
     ELSE Garbage]]

Init ==
  /\ mem = BootTables
  /\ used \in BootBitmaps
  /\ pml4 = NoTable
  /\ op = Idle
  /\ fb = NoFb
  /\ claimed = NoClaim
  /\ tlb = {}

Calls ==
  \/ paging_init
  \/ \E a \in MapArgs : paging_map_page(a.virt, a.phys, a.flags)
  \/ \E a \in UnmapArgs : paging_unmap_page(a)
  \/ \E a \in FbArgs : paging_map_framebuffer(a.phys, a.size)

(* What the processor executes once a call has begun *)
Steps ==
  \/ Descend \/ AllocTable \/ LinkTable \/ AllocFails \/ NothingToUnmap
  \/ SetEntry \/ Invlpg \/ Fault \/ FbPage \/ FbReturn

Next ==
  \/ Calls
  \/ Steps
  \/ \E n \in TlbPages : TlbFill(n)

Spec == Init /\ [][Next]_vars

(* The processor does not stop between two instructions. *)
FairSpec == Spec /\ WF_vars(Steps)

-----------------------------------------------------------------------------
(* Properties *)

Op == [pc : {"walk", "link", "flush", "fault"}, kind : {"map", "unmap"},
       virt : Address, phys : Address, flags : SUBSET Flag,
       level : 0 .. 3, table : Frame, new : Ram]

(* Types; tables are allocated from frames the allocator marks used. *)
TypeOK ==
  /\ mem \in [Ram -> [0 .. (E - 1) -> Entry]]
  /\ used \subseteq Ram
  /\ pml4 \in {NoTable, P4}
  /\ op \in Op \cup {Idle}
  /\ op # Idle => op.new \in used
  /\ fb # NoFb => fb.offset \in Nat /\ fb.end \in Nat /\ fb.short \in BOOLEAN
  /\ \A t \in tlb : t.page \in TlbPages /\ t.target # NoPage

(* Frames of the tables of each level, reached from CR3 *)
Children(S) ==
  {c \in Frame : \E t \in S, i \in 0 .. (E - 1) :
     Present(Cell(t, i)) /\ ~Huge(Cell(t, i)) /\ Cell(t, i).addr = c}

Tables2 == Children({P4})
Tables1 == Children(Tables2)
Tables0 == Children(Tables1)

Links ==
  {l \in ({P4} \cup Tables2 \cup Tables1) \X (0 .. (E - 1)) :
     Present(Cell(l[1], l[2])) /\ ~Huge(Cell(l[1], l[2]))}

(* The page of the frame translates to the frame itself. *)
Reachable(f) == Walk(f) # NoPage /\ Walk(f).frame = f

(* The tables form a tree: each table hangs from one entry only, none is   *)
(* the root, the allocator will not hand one out again, and the kernel can *)
(* address it: on a machine with more RAM than the identity map covers,    *)
(* zeroing a table faults before it is linked.                             *)
TablesFormTree ==
  /\ \A l, k \in Links : Cell(l[1], l[2]).addr = Cell(k[1], k[2]).addr => l = k
  /\ \A l \in Links : Cell(l[1], l[2]).addr \in used \ {P4}
  /\ \A t \in Tables2 \cup Tables1 \cup Tables0 : Reachable(t)

IdentityPages == 0 .. (E * E - 1)

(* No call ever changes the identity map the kernel itself runs on. *)
IdentityKept ==
  \A n \in IdentityPages \cap Pages :
    Walk(n) = [frame |-> n, flags |-> {"PRESENT", "RW"}]

(* The processor uses no outdated translation: a cached one is what the    *)
(* tables say, except for the page being flushed.                          *)
TlbCoherent ==
  \A t \in tlb :
    \/ Walk(t.page) = t.target
    \/ op # Idle /\ op.pc = "flush" /\ t.page = PageOf(op.virt)

(* paging_get_physical agrees with the processor's walk, offsets included. *)
WalksAgree ==
  pml4 # NoTable =>
    \A n \in Pages, o \in 0 .. (PageSize - 1) :
      paging_get_physical(n * PageSize + o) =
        IF Walk(n) = NoPage THEN 0 ELSE Walk(n).frame * PageSize + o

ClaimedPages == PageOf(claimed.phys) .. PageOf(claimed.phys + claimed.size - 1)

(* A framebuffer reported as mapped can be written through its physical    *)
(* address, all of it, if it starts on a page and no allocation failed.    *)
FramebufferMapped ==
  claimed # NoClaim /\ ~claimed.short /\ claimed.phys % PageSize = 0 =>
    \A n \in ClaimedPages :
      Walk(n) = [frame |-> n, flags |-> {"PRESENT", "RW", "CACHE_DISABLE"}]

(* A call never leaves a page half mapped or another page changed: the     *)
(* page tables implement the address space of AddressSpace.                *)
Space == INSTANCE AddressSpace WITH
  Page <- Pages, Target <- [frame : Frame, flags : SUBSET Flag],
  NoTarget <- NoPage, NoRequest <- Idle,
  translation <- [n \in Pages |-> Walk(n)],
  request <- IF op = Idle THEN Idle
             ELSE [page |-> PageOf(op.virt),
                   target |-> IF op.kind = "map" /\ "PRESENT" \in op.flags
                                THEN [frame |-> PageOf(op.phys), flags |-> op.flags]
                                ELSE NoPage],
  room <- FreeFrames # {}

SpaceSpec == Space!Spec

Faulted == op # Idle /\ op.pc = "fault"

(* Every call returns, the framebuffer's loop included, or faults. *)
CallsReturn == (op # Idle \/ fb # NoFb) ~> ((op = Idle /\ fb = NoFb) \/ Faulted)

(* paging.h:14: paging_map_page maps a virtual address to a physical       *)
(* address, so once the entry is set the page translates to that frame.    *)
MapTakesEffect ==
  op # Idle /\ op.pc = "flush" /\ op.kind = "map" /\ "PRESENT" \in op.flags =>
    Walk(PageOf(op.virt)) # NoPage /\ Walk(PageOf(op.virt)).frame = PageOf(op.phys)

(* kernel.cpp:62-64 takes the answer 0 for a mapped framebuffer. *)
SuccessMeansMapped ==
  claimed # NoClaim =>
    \A n \in ClaimedPages : Walk(n) # NoPage /\ Walk(n).frame = n

=============================================================================
