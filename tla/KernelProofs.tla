---------------------------- MODULE KernelProofs ----------------------------
(***************************************************************************)
(* Theorems about the boot: what the loader left in the registers reaches  *)
(* kernel_main, the boot ends where processor, loader and framebuffer say, *)
(* and the framebuffer the kernel draws on is mapped, for every processor, *)
(* loader and framebuffer, tables and memories of every size.              *)
(***************************************************************************)
EXTENDS Kernel, PagingProofs

-----------------------------------------------------------------------------
(* The way from _start to kernel_main *)

(* The step after each, in the order of boot.asm                           *)
LEMMA NextStep ==
  ASSUME Continue
  PROVE  /\ pc = "save" => pc' = "check_cpuid"
         /\ pc = "check_cpuid" => pc' = "check_long_mode"
         /\ pc = "check_long_mode" => pc' = "setup_page_tables"
         /\ pc = "setup_page_tables" => pc' = "enable_paging"
         /\ pc = "enable_paging" => pc' = "long_mode_start"
         /\ pc = "long_mode_start" => pc' = "init_global_ctors"
         /\ pc = "init_global_ctors" => pc' = "kernel_main"
<1>1. PICK i \in 1 .. (Len(EntryOrder) - 1) : EntryOrder[i] = pc /\ pc' = EntryOrder[i + 1]
  BY DEF Continue
<1>2. Len(EntryOrder) = 8
  BY DEF EntryOrder
<1>3. /\ EntryOrder[1] = "save" /\ EntryOrder[2] = "check_cpuid"
      /\ EntryOrder[3] = "check_long_mode" /\ EntryOrder[4] = "setup_page_tables"
      /\ EntryOrder[5] = "enable_paging" /\ EntryOrder[6] = "long_mode_start"
      /\ EntryOrder[7] = "init_global_ctors" /\ EntryOrder[8] = "kernel_main"
  BY DEF EntryOrder
<1>4. i \in 1 .. 7
  BY <1>1, <1>2
<1> QED
  BY <1>1, <1>3, <1>4

(* Where the loader's values are, step by step: in eax and ebx, in the     *)
(* saved words, in the argument registers.                                 *)
Saved == {"check_cpuid", "check_long_mode", "setup_page_tables", "enable_paging",
          "long_mode_start"}

Passed == {"init_global_ctors", "kernel_main"}

Started == {"memory_init", "paging_init", "framebuffer_detect", "map", "mapping",
            "graphics_init", "test", "draw", "text", "spin_graphics", "spin_text", "fault"}

LoaderInv ==
  /\ pc \in {"save", "error", "spin_bad_magic"} \cup Saved \cup Passed \cup Started
  /\ cpu \in Cpus /\ boot \in Loaders
  /\ pc = "save" => eax = boot.magic /\ ebx = boot.mbi
  /\ pc \in Saved => multiboot_magic = boot.magic /\ multiboot_info = boot.mbi
  /\ pc \in Passed \cup Started => rdi.low = boot.magic /\ rsi.low = boot.mbi
  /\ pc \in Started => boot.magic = MULTIBOOT_MAGIC
  /\ pc = "spin_bad_magic" => boot.magic # MULTIBOOT_MAGIC

(* No step on the way loses them: the checks and the page table code       *)
(* overwrite eax and ebx only after they are saved, and without a global   *)
(* constructor nothing runs between the loads and the call.                *)
LEMMA LoaderInvStep ==
  ASSUME Ctors = 0, LoaderInv, [Boot \/ KernelMain \/ walker]_allvars
  PROVE  LoaderInv'
<1> USE DEF LoaderInv, Saved, Passed, Started, machine, regs, saved
<1>1. CASE save_multiboot
  BY <1>1, NextStep DEF save_multiboot, At
<1>2. CASE check_cpuid
  BY <1>2, NextStep DEF check_cpuid, At
<1>3. CASE check_long_mode
  BY <1>3, NextStep DEF check_long_mode, At
<1>4. CASE setup_page_tables
  BY <1>4, NextStep DEF setup_page_tables, At
<1>5. CASE enable_paging
  BY <1>5, NextStep DEF enable_paging, At
<1>6. CASE long_mode_start
  BY <1>6, NextStep DEF long_mode_start, At
<1>7. CASE init_global_ctors
  <2>1. rdi' = rdi /\ rsi' = rsi
    BY <1>7 DEF init_global_ctors
  <2> QED
    BY <1>7, <2>1, NextStep DEF init_global_ctors, At
<1>8. CASE check_magic
  BY <1>8 DEF check_magic, At
<1>9. CASE call_memory_init \/ call_paging_init \/ framebuffer_detect \/ bad_parameters
           \/ call_map_framebuffer \/ mapping
  BY <1>9 DEF call_memory_init, call_paging_init, framebuffer_detect, bad_parameters,
     call_map_framebuffer, mapping, At
<1>10. CASE graphics_init_simple \/ graphics_test_framebuffer \/ draw \/ text
  BY <1>10 DEF graphics_init_simple, graphics_test_framebuffer, draw, text, At
<1>11. CASE walker \/ UNCHANGED allvars
  BY <1>11 DEF walker, allvars, kvars
<1> QED
  BY <1>1, <1>2, <1>3, <1>4, <1>5, <1>6, <1>7, <1>8, <1>9, <1>10, <1>11 DEF Boot, KernelMain

(* A boot starts with them in the loader's registers.                      *)
LEMMA LoaderInvAlways == ASSUME Ctors = 0 PROVE KSpec => []LoaderInv
<1>1. KInit => LoaderInv
  <2>1. EntryOrder[1] = "save"
    BY DEF EntryOrder
  <2> QED
    BY <2>1 DEF KInit, LoaderInv, Saved, Passed, Started
<1>2. LoaderInv /\ [Boot \/ KernelMain \/ walker]_allvars => LoaderInv'
  BY LoaderInvStep
<1> QED
  BY <1>1, <1>2, PTL DEF KSpec

(* kernel_main gets the magic number and the information the loader left   *)
(* in eax and ebx, on every processor: the order of _start is right.  A    *)
(* build without global constructors is assumed, as this one is.           *)
THEOREM LoaderParametersKeptHolds == ASSUME Ctors = 0 PROVE KSpec => []LoaderParametersKept
<1>1. LoaderInv => LoaderParametersKept
  BY DEF LoaderInv, LoaderParametersKept, Passed
<1> QED
  BY <1>1, LoaderInvAlways, PTL

-----------------------------------------------------------------------------
(* A framebuffer in the identity map *)

(* No frame a huge page of the boot tables starts at is one of the tables  *)
(* or holds bits of the bitmap: they lie inside of the first huge page.    *)
TablesApart ==
  \A i \in 0 .. (E - 1) : i * E \notin {P4, P3, P2} /\ Bits(i * E) = {}

(* paging_map_page does not look for huge pages: for a page of the         *)
(* identity map it walks down the boot tables, takes the frame the huge    *)
(* page starts at for a table, and writes an entry into it.                *)
LowOp ==
  op # Idle =>
    /\ op \in Op /\ PageOf(op.virt) \in IdentityPages
    /\ op.pc \in {"walk", "flush", "fault"}
    /\ op.pc = "walk" =>
         \/ op.level = 3 /\ op.table = P4
         \/ op.level = 2 /\ op.table = P3
         \/ op.level = 1 /\ op.table = P2
         \/ /\ op.level = 0 /\ op.table \notin {P4, P3, P2}
            /\ op.table \in IdentityPages /\ Bits(op.table) = {}

(* Meanwhile the tables stay what they were, and all pages so far are in   *)
(* the identity map.                                                       *)
LowMapInv ==
  /\ MemType /\ BootTree /\ TlbInv
  /\ pml4 = P4 /\ fb # NoFb /\ claimed = NoClaim
  /\ FbType /\ LoopInv /\ LowOp

(* The upper two indices of its pages are 0.                               *)
LEMMA IdentityIndex ==
  ASSUME NEW n \in Frame, n \in IdentityPages
  PROVE  Index(n, 3) = 0 /\ Index(n, 2) = 0
<1>1. /\ Index(n, 3) \in 0 .. (E - 1) /\ Prefix(n, 2) = Prefix(n, 3) * E + Index(n, 3)
      /\ Index(n, 2) \in 0 .. (E - 1) /\ Prefix(n, 1) = Prefix(n, 2) * E + Index(n, 2)
      /\ Prefix(n, 2) \in Nat
  <2>1. 3 - 1 = 2 /\ 2 - 1 = 1 /\ 3 \in 1 .. 3 /\ 2 \in 1 .. 3
    OBVIOUS
  <2> QED
    BY <2>1, PrefixStep
<1>2. Prefix(n, 3) = 0 /\ Prefix(n, 1) = 0 /\ E \in Nat \ {0}
  BY IdentityPrefix, SizesAssumption DEF Prefix
<1>3. ASSUME NEW a \in Nat, NEW i \in 0 .. (E - 1), a * E + i = 0
      PROVE  a = 0 /\ i = 0
  <2>1. a * E \in Nat
    BY <1>2
  <2>2. i = 0 /\ a * E = 0
    <3> DEFINE b == a * E
    <3>1. b \in Nat /\ b + i = 0 /\ i \in Nat
      BY <1>2, <1>3, <2>1
    <3> HIDE DEF b
    <3>2. b = 0 /\ i = 0
      BY <3>1
    <3> QED
      BY <3>2 DEF b
  <2>3. a = 0
    BY <1>2, <2>2
  <2> QED
    BY <2>2, <2>3
<1>4. Prefix(n, 2) = 0 /\ Index(n, 2) = 0
  BY <1>1, <1>2, <1>3
<1>5. 0 \in Nat /\ 0 * E + Index(n, 3) = 0
  BY <1>1, <1>2, <1>4
<1>6. Index(n, 3) = 0
  BY <1>1, <1>3, <1>5
<1> QED
  BY <1>4, <1>6

(* A huge page of the boot tables starts in the identity map.              *)
LEMMA HugeLow ==
  ASSUME NEW i \in 0 .. (E - 1)
  PROVE  i * E \in IdentityPages /\ i * E \in Frame
<1>1. E \in Nat \ {0} /\ i \in Nat /\ i <= E - 1
  BY SizesAssumption
<1> DEFINE u == i * E
           w == (E - 1) * E
           s == E * E
<1>2. u \in Nat /\ w \in Nat /\ s \in Nat /\ u <= w /\ w = s - E
  BY <1>1
<1>3. 0 \in 0 .. (E - 1) /\ u + 0 = u
  BY <1>1, <1>2
<1>4. i * E + 0 \in Frame
  BY <1>3, HugeFrame
<1>5. IdentityPages = 0 .. (s - 1)
  BY DEF IdentityPages
<1> HIDE DEF u, w, s
<1>6. u \in IdentityPages
  BY <1>1, <1>2, <1>5
<1> QED
  BY <1>3, <1>4, <1>6 DEF u

(* Such a call reads and writes the table it has come to, if any.          *)
LEMMA LowTable ==
  ASSUME LowMapInv, op # Idle, op.pc = "walk", Addressable(op.table)
  PROVE  Behind(op.table) = op.table /\ Current = Cell(op.table, Slot)
<1>1. op \in Op
  BY DEF LowMapInv, LowOp
<1>2. PICK lvl, pre : TreeOf(lvl, pre)
  BY DEF LowMapInv, BootTree
<1>3. P4 \in Ram /\ P3 \in Ram /\ P2 \in Ram
  BY BootAssumption
<1>4. op.table \in Ram \/ op.table \in IdentityPages
  BY <1>3 DEF LowMapInv, LowOp
<1>5. CASE op.table \in Ram
  BY <1>2, <1>5, DirectWalk DEF Addressable, Behind, Current
<1>6. CASE op.table \in IdentityPages
  <2>1. op.table \in Frame
    BY <1>1 DEF Op
  <2>2. Walk(op.table) = [frame |-> op.table, flags |-> {"PRESENT", "RW"}]
    BY <1>2, <1>6, <2>1, IdentityWalk
  <2> QED
    BY <2>2 DEF Behind, Current
<1> QED
  BY <1>4, <1>5, <1>6

(* What such a call reads on the way down                                  *)
LEMMA LowCurrent ==
  ASSUME LowMapInv, op # Idle, op.pc = "walk", Addressable(op.table)
  PROVE  /\ op \in Op /\ PageOf(op.virt) \in Frame /\ Slot \in 0 .. (E - 1)
         /\ op.level = 3 => Current = TableEntry(P3)
         /\ op.level = 2 => Current = TableEntry(P2)
         /\ op.level = 1 => Current = HugeEntry(Slot)
         /\ op.level \in 1 .. 3 => Present(Current)
<1>1. op \in Op /\ PageOf(op.virt) \in IdentityPages
  BY DEF LowMapInv, LowOp
<1>2. PageOf(op.virt) \in Frame
  BY <1>1, FrameType DEF Op
<1>3. Slot \in 0 .. (E - 1)
  BY <1>1, <1>2, IndexType DEF Slot, Op
<1>4. PICK lvl, pre : TreeOf(lvl, pre)
  BY DEF LowMapInv, BootTree
<1>5. P4 \in Ram /\ P3 \in Ram /\ P2 \in Ram
  BY BootAssumption
<1>10. Current = Cell(op.table, Slot)
  BY LowTable
<1>6. op.level = 3 => Current = TableEntry(P3)
  <2> SUFFICES ASSUME op.level = 3 PROVE Current = TableEntry(P3)
    OBVIOUS
  <2>1. op.table = P4 /\ Slot = 0
    BY <1>1, <1>2, IdentityIndex DEF LowMapInv, LowOp, Slot
  <2> QED
    BY <1>4, <1>5, <1>10, <2>1 DEF TreeOf, Cell
<1>7. op.level = 2 => Current = TableEntry(P2)
  <2> SUFFICES ASSUME op.level = 2 PROVE Current = TableEntry(P2)
    OBVIOUS
  <2>1. op.table = P3 /\ Slot = 0
    BY <1>1, <1>2, IdentityIndex DEF LowMapInv, LowOp, Slot
  <2> QED
    BY <1>4, <1>5, <1>10, <2>1 DEF TreeOf, Cell
<1>8. op.level = 1 => Current = HugeEntry(Slot)
  <2> SUFFICES ASSUME op.level = 1 PROVE Current = HugeEntry(Slot)
    OBVIOUS
  <2>1. op.table = P2
    BY DEF LowMapInv, LowOp
  <2> QED
    BY <1>3, <1>4, <1>5, <1>10, <2>1 DEF TreeOf, Cell
<1>9. op.level \in 1 .. 3 => Present(Current)
  BY <1>6, <1>7, <1>8 DEF Present, TableEntry, HugeEntry
<1> QED
  BY <1>1, <1>2, <1>3, <1>6, <1>7, <1>8, <1>9

(* While the boot tables stay, so do all walks.                            *)
LEMMA BootTreeKept ==
  ASSUME BootTree, used' = used, mem'[P4] = mem[P4], mem'[P3] = mem[P3], mem'[P2] = mem[P2]
  PROVE  BootTree' /\ \A n \in Frame : Walk(n)' = Walk(n)
<1>1. PICK lvl \in [Ram -> 0 .. 4], pre \in [Ram -> Nat] :
        TreeOf(lvl, pre) /\ \A f \in Ram : lvl[f] # 4 => f \in {P4, P3, P2}
  BY DEF BootTree
<1>2. ASSUME NEW f \in Ram, lvl[f] # 4
      PROVE  mem'[f] = mem[f]
  BY <1>1, <1>2
<1>3. TreeOf(lvl, pre)'
  <2>1. ASSUME NEW f \in Ram, NEW i \in 0 .. (E - 1),
               lvl[f] \in 1 .. 3, f # P2, Present(mem[f][i])'
        PROVE  Leads(lvl, pre, f, i)'
    <3>1. lvl[f] # 4
      BY <2>1
    <3>2. mem'[f] = mem[f]
      BY <1>2, <3>1
    <3>3. Present(mem[f][i])
      BY <2>1, <3>2 DEF Present
    <3>4. Leads(lvl, pre, f, i)
      BY <1>1, <2>1, <3>3 DEF TreeOf
    <3> QED
      BY <3>2, <3>4 DEF Leads, TableEntry, Ram
  <2>2. mem'[P4][0] = TableEntry(P3) /\ mem'[P3][0] = TableEntry(P2)
        /\ \A i \in 0 .. (E - 1) : mem'[P2][i] = HugeEntry(i)
    BY <1>1 DEF TreeOf
  <2>3. /\ \A f \in Ram : lvl[f] # 4 => f \in used' /\ BitsIn[f] = {}
        /\ \A f \in Ram : BitsIn[f] # {} => f \in used'
        /\ 0 \in used'
    BY <1>1 DEF TreeOf
  <2>4. \A f \in Ram : lvl[f] # 0
    <3>1. \A f \in {P4, P3, P2} : lvl[f] # 0
      BY <1>1 DEF TreeOf
    <3> QED
      BY <1>1, <3>1
  <2> QED
    BY <1>1, <2>1, <2>2, <2>3, <2>4 DEF TreeOf, TableEntry, HugeEntry, Ram
<1>4. BootTree'
  BY <1>1, <1>3 DEF BootTree, Ram
<1>5. ASSUME NEW n \in Frame PROVE Walk(n)' = Walk(n)
  <2>1. \A f \in Ram, k \in 0 .. 3 :
          lvl[f] = k /\ pre[f] = Prefix(n, k) => mem'[f][Index(n, k)] = mem[f][Index(n, k)]
    BY <1>2
  <2> QED
    BY <1>1, <2>1, WalkKept
<1> QED
  BY <1>4, <1>5

(* A descent reaches the next boot table, and at last a frame a huge page  *)
(* starts at.                                                              *)
LEMMA LowDescend == ASSUME TablesApart, LowMapInv, Descend PROVE LowMapInv'
<1>1. op # Idle /\ op.pc = "walk" /\ op.level \in 1 .. 3 /\ Addressable(op.table)
  BY DEF Descend, Walking
<1>2. /\ op \in Op /\ PageOf(op.virt) \in Frame /\ Slot \in 0 .. (E - 1)
      /\ op.level = 3 => Current = TableEntry(P3)
      /\ op.level = 2 => Current = TableEntry(P2)
      /\ op.level = 1 => Current = HugeEntry(Slot)
  BY <1>1, LowCurrent
<1>3. /\ op' = [op EXCEPT !.table = Current.addr, !.level = op.level - 1]
      /\ mem' = mem /\ used' = used /\ pml4' = pml4 /\ fb' = fb /\ claimed' = claimed
      /\ tlb' = tlb
  BY DEF Descend
<1>4. MemType /\ BootTree /\ TlbInv /\ FbType /\ LoopInv /\ LowOp /\ pml4 = P4 /\ fb # NoFb
      /\ claimed = NoClaim
  BY DEF LowMapInv
<1>5. Current.addr \in Frame
  <2>1. Current \in Entry
    BY <1>2, <1>4, CellType DEF Current
  <2> QED
    BY <2>1 DEF Entry
<1>6. op' \in Op
  <2>1. op.level - 1 \in 0 .. 3
    BY <1>1
  <2> QED
    BY <1>2, <1>3, <1>5, <2>1 DEF Op
<1>7. op'.pc = "walk" /\ op'.table = Current.addr /\ op'.level = op.level - 1
      /\ op'.virt = op.virt /\ op'.phys = op.phys /\ op'.kind = op.kind /\ op'.flags = op.flags
      /\ op' # Idle
  BY <1>1, <1>2, <1>3 DEF Op, Idle
<1>8. /\ op.level = 3 => op'.level = 2 /\ op'.table = P3
      /\ op.level = 2 => op'.level = 1 /\ op'.table = P2
      /\ op.level = 1 => /\ op'.level = 0 /\ op'.table \notin {P4, P3, P2}
                         /\ op'.table \in IdentityPages /\ Bits(op'.table) = {}
  <2>1. op.level = 1 => op'.table = Slot * E
    BY <1>2, <1>7 DEF HugeEntry
  <2>2. Slot * E \in IdentityPages /\ Slot * E \notin {P4, P3, P2} /\ Bits(Slot * E) = {}
    BY <1>2, HugeLow DEF TablesApart
  <2> QED
    BY <1>2, <1>7, <2>1, <2>2 DEF TableEntry
<1>9. LowOp'
  BY <1>1, <1>4, <1>6, <1>7, <1>8 DEF LowOp, IdentityPages, PageOf, Bits, Ram
<1>10. \A n \in Frame : Walk(n)' = Walk(n)
  BY <1>3, WalkStays
<1>11. TlbInv'
  BY <1>1, <1>3, <1>4, <1>10, TlbStays DEF Flushing
<1>12. BootTree' /\ MemType'
  BY <1>3, <1>4, BootTreeKept DEF MemType, Ram, Entry, Frame
<1>13. LoopInv'
  <2>1. ClaimInv
    BY <1>4 DEF ClaimInv
  <2> QED
    BY <1>1, <1>3, <1>4, <1>7, <1>10, <2>1, GoesOn
<1>14. FbType' /\ pml4' = P4 /\ fb' # NoFb /\ claimed' = NoClaim
  BY <1>3, <1>4 DEF FbType, Address
<1> QED
  BY <1>9, <1>11, <1>12, <1>13, <1>14 DEF LowMapInv

(* The entry goes to a frame that is none of the tables: no walk changes,  *)
(* and the page is mapped, if not as asked.                                *)
LEMMA LowSet == ASSUME LowMapInv, SetEntry PROVE LowMapInv'
<1>1. op # Idle /\ op.pc = "walk" /\ op.level = 0 /\ Addressable(op.table)
  BY DEF SetEntry, Walking
<1>2. op \in Op /\ PageOf(op.virt) \in Frame /\ Slot \in 0 .. (E - 1)
  BY <1>1, LowCurrent
<1>13. Behind(op.table) = op.table /\ Bits(op.table) = {}
  BY <1>1, LowTable DEF LowMapInv, LowOp
<1>14. used' = used
  BY <1>13 DEF SetEntry, Scribbled
<1>3. /\ op' = [op EXCEPT !.pc = "flush"]
      /\ used' = used /\ pml4' = pml4 /\ fb' = fb /\ claimed' = claimed /\ tlb' = tlb
  BY <1>14 DEF SetEntry
<1>4. MemType /\ BootTree /\ TlbInv /\ FbType /\ LoopInv /\ LowOp /\ pml4 = P4 /\ fb # NoFb
      /\ claimed = NoClaim
  BY DEF LowMapInv
<1>5. op.table \notin {P4, P3, P2} /\ PageOf(op.virt) \in IdentityPages
  BY <1>1, <1>4 DEF LowOp
<1>6. MemType' /\ mem'[P4] = mem[P4] /\ mem'[P3] = mem[P3] /\ mem'[P2] = mem[P2]
  <2> DEFINE e == IF op.kind = "map" THEN [addr |-> PageOf(op.phys), flags |-> op.flags]
                                     ELSE Zero
  <2>1. mem' = Store(op.table, Slot, e)
    BY <1>13 DEF SetEntry
  <2>2. e \in Entry
    <3>1. PageOf(op.phys) \in Frame /\ op.flags \in SUBSET Flag
      BY <1>2, FrameType DEF Op
    <3>2. 0 \in Frame
      <4>1. 0 \in Ram
        BY BootAssumption, SizesAssumption DEF Ram
      <4> QED
        BY <4>1, FrameType
    <3> QED
      BY <3>1, <3>2 DEF Entry, Zero
  <2> HIDE DEF e
  <2>3. MemType'
    BY <1>2, <1>4, <2>1, <2>2, StoreType
  <2>4. \A f : f # op.table => mem'[f] = mem[f]
    BY <1>4, <2>1 DEF Store, MemType
  <2> QED
    BY <1>5, <2>3, <2>4
<1>7. BootTree' /\ \A n \in Frame : Walk(n)' = Walk(n)
  BY <1>3, <1>4, <1>6, BootTreeKept
<1>8. op' \in Op /\ op'.pc = "flush" /\ op' # Idle /\ op'.virt = op.virt /\ op'.phys = op.phys
      /\ op'.kind = op.kind /\ op'.flags = op.flags
  BY <1>2, <1>3 DEF Op, Idle
<1>9. TlbInv'
  BY <1>1, <1>3, <1>4, <1>7, TlbStays DEF Flushing
<1>10. LoopInv'
  <2>1. PICK m \in Frame : m = PageOf(op.virt)
    BY <1>2
  <2>2. Mine(m)'
    BY <1>5, <2>1 DEF Mine, IdentityPages
  <2> QED
    BY <1>1, <1>3, <1>4, <1>7, <1>8, <2>1, <2>2, PageMine
<1>11. LowOp'
  BY <1>5, <1>8 DEF LowOp, IdentityPages, PageOf
<1>12. FbType' /\ pml4' = P4 /\ fb' # NoFb /\ claimed' = NoClaim
  BY <1>3, <1>4 DEF FbType, Address
<1> QED
  BY <1>6, <1>7, <1>9, <1>10, <1>11, <1>12 DEF LowMapInv

(* The call ends, or faults.                                               *)
LEMMA LowEnds == ASSUME LowMapInv, Invlpg \/ Fault PROVE LowMapInv'
<1>1. op # Idle /\ mem' = mem /\ used' = used /\ pml4' = pml4 /\ fb' = fb /\ claimed' = claimed
  BY DEF Invlpg, Fault, Walking, NeedsTable
<1>2. MemType /\ BootTree /\ TlbInv /\ FbType /\ LoopInv /\ LowOp /\ pml4 = P4 /\ fb # NoFb
      /\ claimed = NoClaim /\ op \in Op /\ PageOf(op.virt) \in IdentityPages
  BY <1>1 DEF LowMapInv, LowOp
<1>3. \A n \in Frame : Walk(n)' = Walk(n)
  BY <1>1, WalkStays
<1>4. BootTree' /\ MemType'
  BY <1>1, <1>2, BootTreeKept DEF MemType, Ram, Entry, Frame
<1>5. FbType' /\ pml4' = P4 /\ fb' # NoFb /\ claimed' = NoClaim
  BY <1>1, <1>2 DEF FbType, Address
<1>6. ClaimInv
  BY <1>2 DEF ClaimInv
<1>7. CASE Invlpg
  <2>1. op' = Idle /\ op.pc = "flush" /\ tlb' = {t \in tlb : t.page # PageOf(op.virt)}
    BY <1>7 DEF Invlpg, Flushed
  <2>2. LoopInv'
    BY <1>1, <1>2, <1>3, <1>6, <2>1, GoesOn
  <2>3. TlbInv'
    <3>1. \A t \in tlb' : t \in tlb /\ t.page \in TlbPages /\ t.target # NoPage
                          /\ Walk(t.page) = t.target
      BY <1>2, <2>1 DEF TlbInv, TlbCoherent
    <3>2. \A t \in tlb' : Walk(t.page)' = t.target
      BY <1>3, <3>1, SizesAssumption
    <3> QED
      BY <3>1, <3>2 DEF TlbInv, TlbCoherent, NoPage
  <2> QED
    BY <1>4, <1>5, <2>1, <2>2, <2>3 DEF LowMapInv, LowOp
<1>8. CASE Fault
  <2>1. op' = [op EXCEPT !.pc = "fault"] /\ tlb' = tlb /\ op.pc # "flush"
    BY <1>8, FaultPlain DEF Fault
  <2>2. op' \in Op /\ op'.pc = "fault" /\ op' # Idle /\ op'.virt = op.virt /\ op'.phys = op.phys
        /\ op'.kind = op.kind /\ op'.flags = op.flags
    BY <1>2, <2>1 DEF Op, Idle
  <2>3. LoopInv'
    BY <1>1, <1>2, <1>3, <1>6, <2>1, <2>2, GoesOn
  <2>4. TlbInv'
    BY <1>2, <1>3, <2>1, TlbStays DEF Flushing
  <2>5. LowOp'
    BY <1>2, <2>2 DEF LowOp, IdentityPages, PageOf
  <2> QED
    BY <1>4, <1>5, <2>3, <2>4, <2>5 DEF LowMapInv
<1> QED
  BY <1>7, <1>8

(* Between two calls the invariant of Paging holds, but for the page to    *)
(* come.                                                                   *)
LEMMA LowPaging ==
  ASSUME LowMapInv, op = Idle, PageOf(fb.phys + fb.offset) \notin IdentityPages
  PROVE  PagingInv
<1>1. TreeInv
  BY DEF TreeInv, LowMapInv, BootTree, OpOnTree
<1>2. FbInv /\ OpInv
  BY DEF FbInv, OpInv, LowMapInv
<1> QED
  BY <1>1, <1>2 DEF PagingInv, LowMapInv

(* The loop goes on in the identity map or leaves it for good.             *)
LEMMA LowPage ==
  ASSUME LowMapInv, FbPage
  PROVE  LowMapInv' \/ (PagingInv' /\ FbMapInv')
<1>1. MemType /\ BootTree /\ TlbInv /\ FbType /\ LoopInv /\ LowOp /\ pml4 = P4 /\ fb # NoFb
      /\ claimed = NoClaim
  BY DEF LowMapInv
<1>2. op = Idle /\ fb # NoFb /\ mem' = mem /\ used' = used /\ pml4' = pml4
      /\ claimed' = claimed /\ tlb' = tlb
  BY DEF FbPage
<1>3. FbMapInv'
  <2>1. ClaimInv
    BY <1>1 DEF ClaimInv
  <2> QED
    BY <1>1, <2>1, FbPageMap
<1>4. CASE PageOf(fb.phys + fb.offset) \notin IdentityPages
  <2>1. PagingInv
    BY <1>2, <1>4, LowPaging
  <2>2. PagingInv'
    BY <2>1, StepsInv DEF Steps
  <2> QED
    BY <1>3, <2>2
<1>5. CASE PageOf(fb.phys + fb.offset) \in IdentityPages
  <2>1. fb.phys + fb.offset \in Address /\ FbType'
    BY <1>1, FbPageStep
  <2> DEFINE a == fb.phys + fb.offset
  <2>2. PICK b \in Address : b = a
    BY <2>1
  <2>3. op' = [pc |-> "walk", kind |-> "map", virt |-> b, phys |-> b, flags |-> FbFlags,
               level |-> 3, table |-> P4, new |-> 0]
    BY <1>1, <2>2 DEF FbPage, Begin, FbFlags
  <2>4. op' \in Op /\ op'.pc = "walk" /\ op'.level = 3 /\ op'.table = P4 /\ op'.virt = b
        /\ op' # Idle
    <3>1. 0 \in Ram /\ P4 \in Frame
      BY BootAssumption, SizesAssumption, FrameType DEF Ram
    <3>2. FbFlags \in SUBSET Flag
      BY DEF FbFlags, Flag
    <3> QED
      BY <2>3, <3>1, <3>2 DEF Op, Idle
  <2>5. LowOp'
    BY <1>5, <2>2, <2>4 DEF LowOp, IdentityPages, PageOf
  <2>6. \A n \in Frame : Walk(n)' = Walk(n)
    BY <1>2, WalkStays
  <2>7. TlbInv'
    BY <1>1, <1>2, <2>6, TlbStays DEF Flushing
  <2>8. BootTree' /\ MemType'
    BY <1>1, <1>2, BootTreeKept DEF MemType, Ram, Entry, Frame
  <2>9. fb' # NoFb
    <3>1. fb' = [fb EXCEPT !.offset = fb.offset + PageSize]
      BY DEF FbPage, NextOffset
    <3>2. fb \in [phys : Nat, size : Nat, offset : Nat, short : BOOLEAN, end : Nat]
      BY <1>1 DEF FbType
    <3>3. fb'.offset = fb.offset + PageSize /\ fb.offset \in Nat
      BY <3>1, <3>2
    <3>4. fb'.offset # -1
      BY <3>3, SizesAssumption
    <3> QED
      BY <3>4 DEF NoFb
  <2> QED
    BY <1>1, <1>2, <1>3, <2>1, <2>5, <2>7, <2>8, <2>9 DEF LowMapInv, FbMapInv
<1> QED
  BY <1>4, <1>5

(* The loop may end there.                                                 *)
LEMMA LowReturn == ASSUME LowMapInv, FbReturn PROVE PagingInv' /\ FbMapInv'
<1>1. MemType /\ BootTree /\ TlbInv /\ FbType /\ LoopInv /\ pml4 = P4
  BY DEF LowMapInv
<1>2. op = Idle /\ fb' = NoFb /\ mem' = mem /\ used' = used /\ pml4' = pml4 /\ op' = op
      /\ tlb' = tlb
  BY DEF FbReturn
<1>3. FbMapInv'
  BY <1>1, FbReturnMap
<1>4. MemType' /\ pml4' = P4 /\ OpInv' /\ FbInv'
  BY <1>1, <1>2 DEF MemType, Ram, Entry, Frame, OpInv, FbInv, FbType
<1>5. TreeInv'
  <2>1. TreeInv
    BY <1>1, <1>2 DEF TreeInv, BootTree, OpOnTree
  <2> QED
    BY <1>2, <2>1, TreeStays
<1>6. TlbInv'
  <2>1. \A n \in Frame : Walk(n)' = Walk(n)
    BY <1>2, WalkStays
  <2> QED
    BY <1>1, <1>2, <2>1, TlbStays DEF Flushing
<1> QED
  BY <1>3, <1>4, <1>5, <1>6 DEF PagingInv

(* What the call does, step by step: no step needs a frame.                *)
LEMMA LowSteps ==
  ASSUME TablesApart, LowMapInv, Steps
  PROVE  LowMapInv' \/ (PagingInv' /\ FbMapInv')
<1>1. CASE Descend
  BY <1>1, LowDescend
<1>2. CASE AllocTable \/ AllocFails \/ NothingToUnmap
  <2>1. /\ op # Idle /\ op.pc = "walk" /\ op.level \in 1 .. 3 /\ ~Present(Current)
        /\ Addressable(op.table)
    BY <1>2 DEF AllocTable, AllocFails, NothingToUnmap, NeedsTable, Walking
  <2> QED
    BY <2>1, LowCurrent
<1>3. CASE LinkTable
  <2>1. op # Idle /\ op.pc = "link"
    BY <1>3 DEF LinkTable
  <2> QED
    BY <2>1 DEF LowMapInv, LowOp
<1>4. CASE SetEntry
  BY <1>4, LowSet
<1>5. CASE Invlpg \/ Fault
  BY <1>5, LowEnds
<1>6. CASE FbPage
  BY <1>6, LowPage
<1>7. CASE FbReturn
  BY <1>7, LowReturn
<1> QED
  BY <1>1, <1>2, <1>3, <1>4, <1>5, <1>6, <1>7 DEF Steps

-----------------------------------------------------------------------------
(* The whole boot *)

EmptyTables ==
  [f \in Ram |-> IF f \in {P4, P3, P2} THEN ZeroTable ELSE [i \in 0 .. (E - 1) |-> Garbage]]

Early == {"save", "check_cpuid", "check_long_mode", "setup_page_tables"}

Booted == {"enable_paging", "long_mode_start", "init_global_ctors", "kernel_main",
           "spin_bad_magic", "memory_init", "paging_init"}

Ready == {"framebuffer_detect", "map"}

Mapped == {"graphics_init", "test", "draw", "text", "spin_graphics", "spin_text", "fault"}

LongMode == cpu.cpuid /\ cpu.extended /\ cpu.long_mode

(* A processor fails the first check or the second, or has long mode.      *)
CpuInv ==
  /\ pc = "check_long_mode" => cpu.cpuid
  /\ pc \in (Early \ {"setup_page_tables"}) \/ (pc = "error" <=> ~LongMode)

(* The call of paging_map_framebuffer, for the loader's framebuffer        *)
MapCall ==
  /\ fb # NoFb /\ fb.phys = boot.mbi.addr /\ fb.size = boot.mbi.pitch * boot.mbi.height
  /\ LowMapInv \/ (PagingInv /\ FbMapInv)

(* What it has reported                                                    *)
Claims ==
  /\ claimed # NoClaim
  /\ claimed.phys = boot.mbi.addr /\ claimed.size = boot.mbi.pitch * boot.mbi.height

(* Until the call the tables are those boot.asm built, afterwards the      *)
(* invariant of Paging holds.                                              *)
MemInv ==
  /\ pc \in Early => mem = EmptyTables /\ tlb = {}
  /\ pc \in Booted \cup Ready => mem = BootTables /\ TlbInv
  /\ pc \in Early \cup Booted => pml4 = NoTable
  /\ pc \in Early \cup Booted \cup Ready => op = Idle /\ fb = NoFb /\ claimed = NoClaim
  /\ pc \in Ready \cup {"paging_init"} => used \in BootBitmaps
  /\ pc \in Ready => pml4 = P4
  /\ pc = "mapping" => MapCall
  /\ pc \in Mapped => PagingInv /\ FbMapInv /\ op = Idle /\ fb = NoFb
  /\ pc = "graphics_init" => Claims

(* The framebuffer is in use.                                              *)
Drawing ==
  /\ ctx = [initialized |-> TRUE, framebuffer |-> boot.mbi.addr, width |-> boot.mbi.width,
            height |-> boot.mbi.height, pitch |-> boot.mbi.pitch]
  /\ Usable(boot.mbi) /\ Claims

(* It is used if it is usable, and given up only if it does not answer.    *)
CtxInv ==
  /\ pc = "map" => boot.mbi.framebuffer /\ boot.mbi.type = 1 /\ boot.mbi.addr # 0
  /\ pc \in {"mapping", "graphics_init"} =>
       /\ boot.mbi.framebuffer /\ boot.mbi.type = 1 /\ boot.mbi.addr # 0
       /\ boot.mbi.bpp = 32 /\ LowLimit <= boot.mbi.addr
       /\ boot.mbi.width # 0 /\ boot.mbi.height # 0 /\ boot.mbi.pitch # 0
  /\ pc \in {"test", "draw", "spin_graphics", "fault"} => Drawing
  /\ pc \in {"text", "spin_text"} => Drawing \/ (ctx = NoContext /\ ~Usable(boot.mbi))
  /\ pc \notin {"test", "draw", "spin_graphics", "fault", "text", "spin_text"} =>
       ctx = NoContext
  /\ pc = "fault" => ~(Consistent(boot.mbi) /\ ~claimed.short)

KernelInv == LoaderInv /\ CpuInv /\ MemInv /\ CtxInv

(* setup_page_tables completes what the loader zeroed to the boot tables.  *)
LEMMA TablesBuilt == ASSUME mem = EmptyTables, setup_page_tables PROVE mem' = BootTables
<1>1. mem' = [mem EXCEPT ![P4][0] = TableEntry(P3),
                        ![P3][0] = TableEntry(P2),
                        ![P2] = [i \in 0 .. (E - 1) |-> HugeEntry(i)]]
  BY DEF setup_page_tables
<1>2. /\ P4 \in Ram /\ P3 \in Ram /\ P2 \in Ram /\ P4 # P3 /\ P4 # P2 /\ P3 # P2
      /\ 0 \in 0 .. (E - 1)
  BY BootAssumption, SizesAssumption
<1>3. /\ mem[P4] = ZeroTable /\ mem[P3] = ZeroTable /\ DOMAIN mem = Ram
      /\ \A f \in Ram : f \notin {P4, P3, P2} => mem[f] = [i \in 0 .. (E - 1) |-> Garbage]
  BY <1>2 DEF EmptyTables
<1>4. DOMAIN mem' = Ram /\ mem' = [f \in Ram |-> mem'[f]]
  BY <1>1, <1>3
<1>5. mem'[P4] = [i \in 0 .. (E - 1) |-> IF i = 0 THEN TableEntry(P3) ELSE Zero]
  <2>1. mem'[P4] = [ZeroTable EXCEPT ![0] = TableEntry(P3)]
    BY <1>1, <1>2, <1>3
  <2> QED
    BY <1>2, <2>1 DEF ZeroTable
<1>6. mem'[P3] = [i \in 0 .. (E - 1) |-> IF i = 0 THEN TableEntry(P2) ELSE Zero]
  <2>1. mem'[P3] = [ZeroTable EXCEPT ![0] = TableEntry(P2)]
    BY <1>1, <1>2, <1>3
  <2> QED
    BY <1>2, <2>1 DEF ZeroTable
<1>7. mem'[P2] = [i \in 0 .. (E - 1) |-> HugeEntry(i)]
  BY <1>1, <1>2, <1>3
<1>8. ASSUME NEW f \in Ram, f \notin {P4, P3, P2}
      PROVE  mem'[f] = [i \in 0 .. (E - 1) |-> Garbage]
  <2>1. mem'[f] = mem[f]
    BY <1>1, <1>3, <1>8
  <2> QED
    BY <1>3, <1>8, <2>1
<1>9. ASSUME NEW f \in Ram
      PROVE  mem'[f] = BootTables[f]
  <2>1. CASE f = P4
    BY <1>2, <1>5, <2>1 DEF BootTables
  <2>2. CASE f = P3
    BY <1>2, <1>6, <2>2 DEF BootTables
  <2>3. CASE f = P2
    BY <1>2, <1>7, <2>3 DEF BootTables
  <2>4. CASE f \notin {P4, P3, P2}
    BY <1>8, <2>4 DEF BootTables
  <2> QED
    BY <2>1, <2>2, <2>3, <2>4
<1>10. BootTables = [f \in Ram |-> BootTables[f]]
  BY DEF BootTables
<1> QED
  BY <1>4, <1>9, <1>10

(* Over the boot tables the invariants of Paging hold when nothing runs.   *)
LEMMA ReadyInv ==
  ASSUME BitmapReserved, mem = BootTables, used \in BootBitmaps, pml4 \in {NoTable, P4},
         op = Idle, fb = NoFb, claimed = NoClaim, TlbInv
  PROVE  PagingInv /\ FbMapInv
<1>1. MemType /\ BootTree
  BY BootTablesTree
<1>2. TreeInv
  BY <1>1 DEF TreeInv, BootTree, OpOnTree
<1>3. PagingInv
  BY <1>1, <1>2 DEF PagingInv, OpInv, FbInv, FbType
<1> QED
  BY <1>3 DEF FbMapInv, PathInv, LoopInv, ClaimInv

(* The steps of a call keep its framebuffer, and its return reports it.    *)
LEMMA CallKeeps ==
  ASSUME FbType, fb # NoFb, Steps
  PROVE  \/ fb' # NoFb /\ fb'.phys = fb.phys /\ fb'.size = fb.size
         \/ /\ FbReturn /\ fb' = NoFb /\ op' = Idle
            /\ claimed' # NoClaim /\ claimed'.phys = fb.phys /\ claimed'.size = fb.size
<1>1. fb \in [phys : Nat, size : Nat, offset : Nat, short : BOOLEAN, end : Nat]
  BY DEF FbType
<1>2. CASE fb' = fb
  BY <1>2
<1>3. CASE AllocFails
  <2>1. fb' = [fb EXCEPT !.short = TRUE]
    BY <1>3 DEF AllocFails
  <2>2. fb'.phys = fb.phys /\ fb'.size = fb.size /\ fb'.offset = fb.offset /\ fb.offset # -1
    BY <1>1, <2>1
  <2> QED
    BY <2>2 DEF NoFb
<1>4. CASE FbPage
  <2>1. fb' = [fb EXCEPT !.offset = fb.offset + PageSize]
    BY <1>4 DEF FbPage, NextOffset
  <2>2. fb'.phys = fb.phys /\ fb'.size = fb.size /\ fb'.offset = fb.offset + PageSize
        /\ fb.offset \in Nat
    BY <1>1, <2>1
  <2>3. fb'.offset # -1
    BY <2>2, SizesAssumption
  <2> QED
    BY <2>2, <2>3 DEF NoFb
<1>5. CASE FbReturn
  <2>1. claimed' = [phys |-> fb.phys, size |-> fb.size, short |-> fb.short] /\ fb' = NoFb
        /\ op' = Idle
    BY <1>5 DEF FbReturn
  <2>2. claimed'.size = fb.size /\ claimed'.phys = fb.phys /\ fb.size # -1
    BY <1>1, <2>1
  <2> QED
    BY <1>5, <2>1, <2>2 DEF NoClaim
<1> QED
  BY <1>2, <1>3, <1>4, <1>5
  DEF Steps, Descend, AllocTable, LinkTable, NothingToUnmap, SetEntry, Invlpg, Fault

(* The call begins.                                                        *)
LEMMA CallStarts ==
  ASSUME BitmapReserved, KernelInv, call_map_framebuffer
  PROVE  MapCall'
<1>1. pc = "map" /\ paging_map_framebuffer(mbi.addr, FbSize) /\ boot' = boot
      /\ boot \in Loaders /\ mbi = boot.mbi
  BY DEF call_map_framebuffer, At, KernelInv, LoaderInv, Started, machine, mbi
<1>2. PICK phys \in Nat, size \in Nat :
        phys = boot.mbi.addr /\ size = boot.mbi.pitch * boot.mbi.height
  <2>1. boot.mbi.addr \in Nat /\ boot.mbi.pitch \in Nat /\ boot.mbi.height \in Nat
    BY <1>1, LoaderAssumption
  <2>2. \A a \in Nat, b \in Nat : a * b \in Nat
    OBVIOUS
  <2>3. boot.mbi.pitch * boot.mbi.height \in Nat
    BY <2>1, <2>2
  <2> QED
    BY <2>1, <2>3
<1>3. paging_map_framebuffer(phys, size)
  BY <1>1, <1>2 DEF FbSize
<1>4. phys + size \in Address
  <2>1. phys + size + PageSize \in Address
    BY <1>1, <1>2, LoaderAssumption
  <2>2. phys + size \in Nat /\ phys + size <= phys + size + PageSize
    BY SizesAssumption
  <2> QED
    BY <2>1, <2>2, AddressDownwards
<1>5. mem = BootTables /\ used \in BootBitmaps /\ pml4 = P4 /\ op = Idle /\ fb = NoFb
      /\ claimed = NoClaim /\ TlbInv
  BY <1>1 DEF KernelInv, MemInv, Ready
<1>6. PagingInv /\ FbMapInv
  BY <1>5, ReadyInv
<1>7. FbType' /\ fb'.phys = phys /\ FbMapInv'
  BY <1>3, <1>4, <1>6, FbStart, FbMapCall
<1>8. /\ fb' = [phys |-> phys, size |-> size, offset |-> 0, short |-> FALSE,
               end |-> RoundedSize(size)]
      /\ mem' = mem /\ used' = used /\ pml4' = pml4 /\ op' = op /\ tlb' = tlb
      /\ claimed' = NoClaim
  BY <1>3 DEF paging_map_framebuffer
<1>9. fb' # NoFb /\ fb'.size = size
  <2>1. fb'.offset = 0 /\ fb'.size = size
    BY <1>8
  <2> QED
    BY <2>1 DEF NoFb
<1>10. CASE PageOf(phys) \notin IdentityPages
  <2>1. PagingInv'
    BY <1>3, <1>4, <1>6, <1>10, FbCallInv
  <2> QED
    BY <1>1, <1>2, <1>7, <1>9, <2>1 DEF MapCall
<1>11. CASE PageOf(phys) \in IdentityPages
  <2>1. MemType /\ BootTree
    BY <1>5, BootTablesTree
  <2>2. \A n \in Frame : Walk(n)' = Walk(n)
    BY <1>8, WalkStays
  <2>3. TlbInv'
    BY <1>5, <1>8, <2>2, TlbStays DEF Flushing
  <2>4. BootTree' /\ MemType'
    BY <1>8, <2>1, BootTreeKept DEF MemType, Ram, Entry, Frame
  <2>5. LowMapInv'
    BY <1>5, <1>7, <1>8, <1>9, <2>3, <2>4 DEF LowMapInv, LowOp, FbMapInv
  <2> QED
    BY <1>1, <1>2, <1>7, <1>9, <2>5 DEF MapCall
<1> QED
  BY <1>10, <1>11

(* It goes on, and the tables with it.                                     *)
LEMMA CallGoesOn ==
  ASSUME TablesApart, KernelInv, mapping
  PROVE  /\ fb' # NoFb => pc' = "mapping" /\ MapCall'
         /\ fb' = NoFb => /\ pc' = "graphics_init" /\ PagingInv' /\ FbMapInv' /\ op' = Idle
                          /\ Claims'
<1>1. pc = "mapping" /\ Steps /\ boot' = boot /\ pc' = (IF fb' = NoFb THEN "graphics_init" ELSE pc)
  BY DEF mapping, At, machine
<1>2. MapCall
  BY <1>1 DEF KernelInv, MemInv
<1>3. FbType
  BY <1>2 DEF MapCall, LowMapInv, PagingInv, FbInv
<1>4. LowMapInv' \/ (PagingInv' /\ FbMapInv')
  <2>1. CASE LowMapInv
    BY <1>1, <2>1, LowSteps
  <2>2. CASE PagingInv /\ FbMapInv
    BY <1>1, <2>2, StepsInv, FbMapSteps
  <2> QED
    BY <1>2, <2>1, <2>2 DEF MapCall
<1>5. \/ fb' # NoFb /\ fb'.phys = fb.phys /\ fb'.size = fb.size
      \/ /\ fb' = NoFb /\ op' = Idle
         /\ claimed' # NoClaim /\ claimed'.phys = fb.phys /\ claimed'.size = fb.size
  BY <1>1, <1>2, <1>3, CallKeeps DEF MapCall
<1>6. fb' # NoFb => MapCall'
  BY <1>1, <1>2, <1>4, <1>5 DEF MapCall
<1>7. fb' = NoFb => PagingInv' /\ FbMapInv' /\ op' = Idle /\ Claims'
  BY <1>1, <1>2, <1>4, <1>5 DEF MapCall, Claims, LowMapInv
<1> QED
  BY <1>1, <1>6, <1>7

(* A word that starts in a line before or at its pixel x ends within the   *)
(* lines, if a line is long enough for its pixels.                         *)
LEMMA WordInside ==
  ASSUME NEW pixel \in Nat \ {0}, NEW pitch \in Nat, NEW height \in Nat, NEW width \in Nat,
         width * pixel <= pitch, NEW x \in 0 .. (width - 1), NEW y \in 0 .. (height - 1),
         NEW w \in Nat, w * pixel <= y * pitch + x * pixel
  PROVE  w * pixel + pixel <= pitch * height
<1>1. x + 1 \in Nat /\ x + 1 <= width /\ y + 1 \in Nat /\ y + 1 <= height /\ x \in Nat /\ y \in Nat
  OBVIOUS
<1>2. (x + 1) * pixel \in Nat /\ width * pixel \in Nat /\ (x + 1) * pixel <= width * pixel
  BY <1>1, TimesMonotone
<1>3. (y + 1) * pitch \in Nat /\ height * pitch \in Nat /\ (y + 1) * pitch <= height * pitch
  BY <1>1, TimesMonotone
<1>4. (x + 1) * pixel = x * pixel + pixel /\ (y + 1) * pitch = y * pitch + pitch
      /\ height * pitch = pitch * height
  BY <1>1
<1>5. x * pixel \in Nat /\ y * pitch \in Nat /\ w * pixel \in Nat /\ pitch * height \in Nat
  <2>1. \A i \in Nat, j \in Nat : i * j \in Nat
    OBVIOUS
  <2> QED
    BY <1>1, <2>1
<1> DEFINE xp == x * pixel
           yp == y * pitch
           wp == w * pixel
           ph == pitch * height
           wd == width * pixel
<1>6. /\ xp \in Nat /\ yp \in Nat /\ wp \in Nat /\ ph \in Nat /\ wd \in Nat
      /\ xp + pixel <= wd /\ yp + pitch <= ph /\ wd <= pitch /\ wp <= yp + xp
  BY <1>2, <1>3, <1>4, <1>5
<1> HIDE DEF xp, yp, wp, ph, wd
<1>7. wp + pixel <= ph
  BY <1>6
<1> QED
  BY <1>7 DEF wp, ph

(* Every word the drawing functions store to lies in the framebuffer,      *)
(* whichever way its place is computed.                                    *)
LEMMA WordsInside ==
  ASSUME boot \in Loaders, Drawing, Consistent(boot.mbi), NEW w \in Words
  PROVE  w \in Nat /\ w * PixelBytes + PixelBytes <= boot.mbi.pitch * boot.mbi.height
<1>1. /\ boot.mbi.addr \in Nat /\ boot.mbi.pitch \in Nat /\ boot.mbi.height \in Nat
      /\ boot.mbi.width \in Nat /\ PixelBytes \in Nat \ {0}
  BY LoaderAssumption, KernelAssumption
<1>2. ctx.pitch = boot.mbi.pitch /\ ctx.width = boot.mbi.width /\ ctx.height = boot.mbi.height
  BY DEF Drawing
<1>3. boot.mbi.width > 0 /\ boot.mbi.height > 0 /\ boot.mbi.width * PixelBytes <= boot.mbi.pitch
  BY DEF Drawing, Usable, Consistent
<1> DEFINE pitch == boot.mbi.pitch
           width == boot.mbi.width
           height == boot.mbi.height
<1>4. pitch \in Nat /\ width \in Nat /\ height \in Nat /\ width > 0 /\ height > 0
      /\ width * PixelBytes <= pitch
  BY <1>1, <1>3
<1>5. \/ w = 0
      \/ \E x \in 0 .. (width - 1), y \in 0 .. (height - 1) :
           \/ w = (y * pitch) \div PixelBytes + x
           \/ w = y * (pitch \div PixelBytes) + x
  BY <1>2 DEF Words
<1> HIDE DEF pitch, width, height
<1>6. CASE w = 0
  <2>1. 0 \in 0 .. (width - 1) /\ 0 \in 0 .. (height - 1)
    BY <1>4
  <2>2. 0 \in Nat /\ 0 * PixelBytes = 0 /\ 0 * pitch = 0 /\ 0 <= 0 * pitch + 0 * PixelBytes
    BY <1>1, <1>4
  <2>3. 0 * PixelBytes + PixelBytes <= pitch * height
    BY <1>1, <1>4, <2>1, <2>2, WordInside
  <2> QED
    BY <1>6, <2>3 DEF pitch, height
<1>7. ASSUME NEW x \in 0 .. (width - 1), NEW y \in 0 .. (height - 1),
             w = (y * pitch) \div PixelBytes + x
      PROVE  w \in Nat /\ w * PixelBytes <= y * pitch + x * PixelBytes
  <2>1. y \in Nat /\ x \in Nat /\ y * pitch \in Nat
    <3>1. y \in Nat /\ x \in Nat
      BY <1>4
    <3>2. \A i \in Nat, j \in Nat : i * j \in Nat
      OBVIOUS
    <3> QED
      BY <1>4, <3>1, <3>2
  <2> DEFINE yp == y * pitch
             q == yp \div PixelBytes
             r == yp % PixelBytes
  <2>2. q \in Nat /\ r \in 0 .. (PixelBytes - 1) /\ yp = PixelBytes * q + r
    BY <1>1, <2>1, Division
  <2>3. w = q + x /\ yp \in Nat
    BY <1>7, <2>1
  <2> HIDE DEF q, r, yp
  <2>4. (q + x) * PixelBytes = PixelBytes * q + x * PixelBytes
    BY <1>1, <2>1, <2>2
  <2>5. x * PixelBytes \in Nat /\ PixelBytes * q \in Nat
    <3>1. \A i \in Nat, j \in Nat : i * j \in Nat
      OBVIOUS
    <3> QED
      BY <1>1, <2>1, <2>2, <3>1
  <2> DEFINE xb == x * PixelBytes
             qb == PixelBytes * q
  <2>6. xb \in Nat /\ qb \in Nat /\ yp = qb + r /\ w * PixelBytes = qb + xb
    BY <2>2, <2>3, <2>4, <2>5
  <2> HIDE DEF xb, qb
  <2>7. qb + xb <= yp + xb
    BY <1>1, <2>2, <2>6
  <2>8. w \in Nat
    BY <2>1, <2>2, <2>3
  <2> QED
    BY <2>6, <2>7, <2>8 DEF yp, xb
<1>8. ASSUME NEW x \in 0 .. (width - 1), NEW y \in 0 .. (height - 1),
             w = y * (pitch \div PixelBytes) + x
      PROVE  w \in Nat /\ w * PixelBytes <= y * pitch + x * PixelBytes
  <2>1. y \in Nat /\ x \in Nat
    BY <1>4
  <2> DEFINE q == pitch \div PixelBytes
             r == pitch % PixelBytes
  <2>2. q \in Nat /\ r \in 0 .. (PixelBytes - 1) /\ pitch = PixelBytes * q + r
    BY <1>1, <1>4, Division
  <2>3. w = y * q + x
    BY <1>8
  <2> HIDE DEF q, r
  <2>4. PixelBytes * q \in Nat /\ y * q \in Nat /\ x * PixelBytes \in Nat
    <3>1. \A i \in Nat, j \in Nat : i * j \in Nat
      OBVIOUS
    <3> QED
      BY <1>1, <2>1, <2>2, <3>1
  <2>5. PixelBytes * q <= pitch
    <3> DEFINE qb == PixelBytes * q
    <3>1. qb \in Nat /\ pitch = qb + r
      BY <2>2, <2>4
    <3> HIDE DEF qb
    <3>2. qb <= pitch
      BY <1>1, <2>2, <3>1
    <3> QED
      BY <3>2 DEF qb
  <2>6. (PixelBytes * q) * y <= pitch * y
    BY <1>4, <2>1, <2>4, <2>5, TimesMonotone
  <2>7. (y * q + x) * PixelBytes = (PixelBytes * q) * y + x * PixelBytes
        /\ pitch * y = y * pitch
    <3> DEFINE yq == y * q
    <3>1. yq \in Nat
      BY <2>4
    <3>2. (PixelBytes * q) * y = yq * PixelBytes
      BY <1>1, <2>1, <2>2
    <3> HIDE DEF yq
    <3>3. (yq + x) * PixelBytes = yq * PixelBytes + x * PixelBytes
      BY <1>1, <2>1, <3>1
    <3>4. pitch * y = y * pitch
      BY <1>4, <2>1
    <3> QED
      BY <3>2, <3>3, <3>4 DEF yq
  <2> DEFINE a == (PixelBytes * q) * y
             b == y * pitch
             xb == x * PixelBytes
  <2>8. a \in Nat /\ b \in Nat /\ xb \in Nat /\ a <= b /\ w * PixelBytes = a + xb
    <3>1. \A i \in Nat, j \in Nat : i * j \in Nat
      OBVIOUS
    <3> QED
      BY <1>4, <2>1, <2>3, <2>4, <2>6, <2>7, <3>1
  <2> HIDE DEF a, b, xb
  <2>9. a + xb <= b + xb
    BY <2>8
  <2>10. w \in Nat
    BY <2>1, <2>3, <2>4
  <2> QED
    BY <2>8, <2>9, <2>10 DEF b, xb
<1>9. ASSUME NEW x \in 0 .. (width - 1), NEW y \in 0 .. (height - 1),
             w \in Nat, w * PixelBytes <= y * pitch + x * PixelBytes
      PROVE  w * PixelBytes + PixelBytes <= pitch * height
  BY <1>1, <1>4, <1>9, WordInside
<1>10. w \in Nat /\ w * PixelBytes + PixelBytes <= pitch * height
  BY <1>5, <1>6, <1>7, <1>8, <1>9 DEF pitch, height
<1> QED
  BY <1>10 DEF pitch, height

(* Such a word can be written at its physical address: the call has mapped *)
(* its pages, or they are in the identity map.                             *)
LEMMA WordReady ==
  ASSUME PagingInv, FbMapInv, boot \in Loaders, Drawing, Consistent(boot.mbi), ~claimed.short,
         NEW w \in Words, NEW n \in WordPages(w)
  PROVE  Writable(n) /\ Walk(n).frame = n
<1>1. w \in Nat /\ w * PixelBytes + PixelBytes <= boot.mbi.pitch * boot.mbi.height
  BY WordsInside
<1>2. /\ boot.mbi.addr \in Nat /\ boot.mbi.pitch \in Nat /\ boot.mbi.height \in Nat
      /\ PixelBytes \in Nat \ {0}
  BY LoaderAssumption, KernelAssumption
<1>3. /\ claimed # NoClaim /\ claimed.phys = boot.mbi.addr
      /\ claimed.size = boot.mbi.pitch * boot.mbi.height
      /\ ctx.framebuffer = boot.mbi.addr /\ boot.mbi.addr % PageSize = 0
  BY DEF Drawing, Claims, Consistent
<1> DEFINE addr == boot.mbi.addr
           size == boot.mbi.pitch * boot.mbi.height
           wb == w * PixelBytes
<1>4. size \in Nat /\ wb \in Nat
  <2>1. \A i \in Nat, j \in Nat : i * j \in Nat
    OBVIOUS
  <2> QED
    BY <1>1, <1>2, <2>1
<1>5. addr \in Nat /\ wb + PixelBytes <= size
  BY <1>1, <1>2
<1>6. n \in PageOf(addr + wb) .. PageOf(addr + wb + PixelBytes - 1)
  BY <1>3 DEF WordPages
<1>7. ClaimedPages = PageOf(addr) .. PageOf(addr + size - 1)
  BY <1>3 DEF ClaimedPages
<1> HIDE DEF addr, size, wb
<1>8. addr <= addr + wb /\ addr + wb \in Nat /\ addr + wb + PixelBytes - 1 \in Nat
      /\ addr + size - 1 \in Nat /\ addr + wb + PixelBytes - 1 <= addr + size - 1
  BY <1>2, <1>4, <1>5
<1>9. /\ PageOf(addr) <= PageOf(addr + wb)
      /\ PageOf(addr + wb + PixelBytes - 1) <= PageOf(addr + size - 1)
      /\ PageOf(addr) \in Nat /\ PageOf(addr + wb) \in Nat
      /\ PageOf(addr + wb + PixelBytes - 1) \in Nat /\ PageOf(addr + size - 1) \in Nat
  BY <1>5, <1>8, SizesAssumption, DivMonotone, Division DEF PageOf
<1>10. n \in ClaimedPages
  BY <1>6, <1>7, <1>9
<1>11. Mine(n) /\ n \in Frame
  <2>1. ClaimInv
    BY DEF FbMapInv
  <2> QED
    BY <1>3, <1>10, <2>1, ClaimedMine
<1>12. n # -1
  BY <1>11, SizesAssumption DEF Frame
<1>13. CASE n \in IdentityPages
  <2>1. PICK lvl, pre : TreeOf(lvl, pre)
    BY DEF PagingInv, TreeInv
  <2>2. Walk(n) = [frame |-> n, flags |-> {"PRESENT", "RW"}]
    BY <1>11, <1>13, <2>1, IdentityWalk
  <2>3. Walk(n).frame = n /\ "RW" \in Walk(n).flags
    BY <2>2
  <2> QED
    BY <1>12, <2>3 DEF Writable, NoPage
<1>14. CASE Walk(n) = [frame |-> n, flags |-> FbFlags]
  <2>1. Walk(n).frame = n /\ "RW" \in Walk(n).flags
    BY <1>14 DEF FbFlags
  <2> QED
    BY <1>12, <2>1 DEF Writable, NoPage
<1> QED
  BY <1>11, <1>13, <1>14 DEF Mine

(* Reading CPUID tells a processor apart in two steps.                     *)
LEMMA CpuInvStep ==
  ASSUME KernelInv, Boot \/ KernelMain
  PROVE  CpuInv'
<1>1. cpu' = cpu
  BY DEF Boot, KernelMain, save_multiboot, check_cpuid, check_long_mode, setup_page_tables,
     enable_paging, long_mode_start, init_global_ctors, check_magic, call_memory_init,
     call_paging_init, framebuffer_detect, bad_parameters, call_map_framebuffer, mapping,
     graphics_init_simple, graphics_test_framebuffer, draw, text, machine
<1> USE <1>1 DEF KernelInv, CpuInv, LongMode, Early, At
<1>2. CASE save_multiboot
  BY <1>2, NextStep DEF save_multiboot
<1>3. CASE check_cpuid
  BY <1>3, NextStep DEF check_cpuid
<1>4. CASE check_long_mode
  BY <1>4, NextStep DEF check_long_mode
<1>5. CASE setup_page_tables \/ enable_paging \/ long_mode_start \/ init_global_ctors
  BY <1>5, NextStep DEF setup_page_tables, enable_paging, long_mode_start, init_global_ctors
<1>6. CASE KernelMain
  BY <1>6 DEF KernelMain, check_magic, call_memory_init, call_paging_init, framebuffer_detect,
     bad_parameters, call_map_framebuffer, mapping, graphics_init_simple,
     graphics_test_framebuffer, draw, text
<1> QED
  BY <1>2, <1>3, <1>4, <1>5, <1>6 DEF Boot

(* The invariants of Paging and the claim stay while nothing of it moves.  *)
LEMMA MappedStays ==
  ASSUME PagingInv, FbMapInv, op = Idle, fb = NoFb, UNCHANGED vars
  PROVE  PagingInv' /\ FbMapInv' /\ op' = Idle /\ fb' = NoFb
BY PagingInvStays, FbMapStays DEF vars

(* So does the TLB.                                                        *)
LEMMA TlbKept ==
  ASSUME TlbInv, op = Idle, op' = Idle, mem' = mem, tlb' = tlb
  PROVE  TlbInv'
<1>1. \A n \in Frame : Walk(n)' = Walk(n)
  BY WalkStays
<1> QED
  BY <1>1, TlbStays DEF Flushing

(* boot.asm builds the tables and nothing in kernel_main before the call   *)
(* of paging_map_framebuffer touches them.                                 *)
LEMMA BootMem ==
  ASSUME KernelInv, Boot
  PROVE  MemInv' /\ CtxInv'
<1>1. LoaderInv /\ MemInv /\ CtxInv
  BY DEF KernelInv
<1> USE DEF Early, Booted, Ready, Mapped, At, Claims
<1>2. CASE setup_page_tables
  <2>1. pc = "setup_page_tables" /\ pc' = "enable_paging" /\ boot' = boot /\ ctx' = ctx
        /\ UNCHANGED <<used, pml4, op, fb, claimed, tlb>>
    BY <1>2, NextStep DEF setup_page_tables, machine
  <2>2. mem = EmptyTables /\ tlb = {} /\ pml4 = NoTable /\ op = Idle /\ fb = NoFb
        /\ claimed = NoClaim /\ ctx = NoContext
    BY <1>1, <2>1 DEF MemInv, CtxInv
  <2>3. mem' = BootTables
    BY <1>2, <2>2, TablesBuilt
  <2>4. TlbInv'
    BY <2>1, <2>2 DEF TlbInv, TlbCoherent
  <2>5. BootTables' = BootTables
    BY DEF BootTables, Ram, TableEntry, HugeEntry, Garbage, Zero
  <2>6. MemInv'
    BY <2>1, <2>2, <2>3, <2>4, <2>5 DEF MemInv
  <2> QED
    BY <2>1, <2>2, <2>6 DEF CtxInv
<1>3. CASE ~setup_page_tables
  <2>1. UNCHANGED vars /\ boot' = boot /\ ctx' = ctx
    BY <1>3 DEF Boot, save_multiboot, check_cpuid, check_long_mode, enable_paging,
       long_mode_start, init_global_ctors, machine
  <2>2. /\ pc \in {"save", "check_cpuid", "check_long_mode", "enable_paging",
                   "long_mode_start", "init_global_ctors"}
        /\ pc \in {"save", "check_cpuid", "check_long_mode"} =>
             pc' \in {"check_cpuid", "check_long_mode", "setup_page_tables", "error"}
        /\ pc \in {"enable_paging", "long_mode_start", "init_global_ctors"} =>
             pc' \in {"long_mode_start", "init_global_ctors", "kernel_main"}
    BY <1>3, NextStep DEF Boot, save_multiboot, check_cpuid, check_long_mode, enable_paging,
       long_mode_start, init_global_ctors
  <2>3. UNCHANGED <<mem, used, pml4, op, fb, claimed, tlb>>
    BY <2>1 DEF vars
  <2>4. CASE pc \in {"save", "check_cpuid", "check_long_mode"}
    <3>1. mem = EmptyTables /\ tlb = {} /\ pml4 = NoTable /\ op = Idle /\ fb = NoFb
          /\ claimed = NoClaim /\ ctx = NoContext
      BY <1>1, <2>4 DEF MemInv, CtxInv
    <3>2. EmptyTables' = EmptyTables
      BY DEF EmptyTables, Ram, ZeroTable, Garbage, Zero
    <3>3. MemInv'
      BY <2>2, <2>3, <2>4, <3>1, <3>2 DEF MemInv
    <3> QED
      BY <2>1, <2>2, <2>4, <3>1, <3>3 DEF CtxInv
  <2>5. CASE pc \in {"enable_paging", "long_mode_start", "init_global_ctors"}
    <3>1. mem = BootTables /\ TlbInv /\ pml4 = NoTable /\ op = Idle /\ fb = NoFb
          /\ claimed = NoClaim /\ ctx = NoContext
      BY <1>1, <2>5 DEF MemInv, CtxInv
    <3>2. BootTables' = BootTables
      BY DEF BootTables, Ram, TableEntry, HugeEntry, Garbage, Zero
    <3>3. TlbInv'
      BY <2>3, <3>1, TlbKept
    <3>4. MemInv'
      BY <2>2, <2>3, <2>5, <3>1, <3>2, <3>3 DEF MemInv
    <3> QED
      BY <2>1, <2>2, <2>5, <3>1, <3>4 DEF CtxInv
  <2> QED
    BY <2>2, <2>4, <2>5
<1> QED
  BY <1>2, <1>3

(* kernel_main up to the call finds the boot tables untouched.             *)
LEMMA StartMem ==
  ASSUME KernelInv, check_magic \/ call_memory_init \/ call_paging_init
  PROVE  MemInv' /\ CtxInv'
<1>1. LoaderInv /\ MemInv /\ CtxInv
  BY DEF KernelInv
<1> USE DEF Early, Booted, Ready, Mapped, At, Claims
<1>2. /\ pc \in {"kernel_main", "memory_init", "paging_init"}
      /\ pc' \in {"memory_init", "spin_bad_magic", "paging_init", "framebuffer_detect"}
      /\ boot' = boot /\ ctx' = ctx /\ UNCHANGED <<mem, op, fb, claimed, tlb>>
  BY DEF check_magic, call_memory_init, call_paging_init, paging_init, machine, vars
<1>3. mem = BootTables /\ TlbInv /\ pml4 = NoTable /\ op = Idle /\ fb = NoFb
      /\ claimed = NoClaim /\ ctx = NoContext
  BY <1>1, <1>2 DEF MemInv, CtxInv
<1>4. BootTables' = BootTables
  BY DEF BootTables, Ram, TableEntry, HugeEntry, Garbage, Zero
<1>5. TlbInv'
  BY <1>2, <1>3, TlbKept
<1>6. CtxInv'
  BY <1>2, <1>3 DEF CtxInv
<1>7. CASE check_magic
  <2>1. pc' \in {"memory_init", "spin_bad_magic"} /\ pml4' = pml4
    BY <1>7 DEF check_magic, vars
  <2> QED
    BY <1>2, <1>3, <1>4, <1>5, <1>6, <2>1 DEF MemInv
<1>8. CASE call_memory_init
  <2>1. pc' = "paging_init" /\ pml4' = pml4 /\ used' \in BootBitmaps
    BY <1>8 DEF call_memory_init
  <2> QED
    BY <1>2, <1>3, <1>4, <1>5, <1>6, <2>1 DEF MemInv
<1>9. CASE call_paging_init
  <2>1. pc = "paging_init" /\ pc' = "framebuffer_detect" /\ pml4' = P4 /\ used' = used
    BY <1>9 DEF call_paging_init, paging_init
  <2>2. used \in BootBitmaps
    BY <1>1, <2>1 DEF MemInv
  <2> QED
    BY <1>2, <1>3, <1>4, <1>5, <1>6, <2>1, <2>2 DEF MemInv
<1> QED
  BY <1>7, <1>8, <1>9

(* What the loader offers is refused where it is not usable, and mapped    *)
(* where it may be.                                                        *)
LEMMA DetectMem ==
  ASSUME TablesApart, BitmapReserved, KernelInv,
         framebuffer_detect \/ bad_parameters \/ call_map_framebuffer \/ mapping
  PROVE  MemInv' /\ CtxInv'
<1>1. LoaderInv /\ MemInv /\ CtxInv
  BY DEF KernelInv
<1> USE DEF Early, Booted, Ready, Mapped, At
<1>2. /\ pc \in {"framebuffer_detect", "map", "mapping"} /\ boot' = boot /\ ctx' = ctx
      /\ mbi = boot.mbi /\ ctx = NoContext /\ boot \in Loaders
  BY <1>1 DEF framebuffer_detect, bad_parameters, call_map_framebuffer, mapping, machine,
     LoaderInv, Started, mbi, CtxInv
<1>3. /\ boot.mbi.width \in Nat /\ boot.mbi.height \in Nat /\ boot.mbi.pitch \in Nat
      /\ boot.mbi.framebuffer \in BOOLEAN
  BY <1>2, LoaderAssumption
<1>4. CASE framebuffer_detect \/ bad_parameters
  <2>1. /\ pc \in {"framebuffer_detect", "map"} /\ pc' \in {"map", "text"}
        /\ UNCHANGED vars
    BY <1>4 DEF framebuffer_detect, bad_parameters
  <2>2. mem = BootTables /\ used \in BootBitmaps /\ pml4 = P4 /\ op = Idle /\ fb = NoFb
        /\ claimed = NoClaim /\ TlbInv
    BY <1>1, <2>1 DEF MemInv
  <2>3. UNCHANGED <<mem, used, pml4, op, fb, claimed, tlb>>
    BY <2>1 DEF vars
  <2>4. PagingInv' /\ FbMapInv' /\ op' = Idle /\ fb' = NoFb
    BY <2>1, <2>2, ReadyInv, MappedStays
  <2>5. TlbInv' /\ BootTables' = BootTables
    BY <2>2, <2>3, TlbKept DEF BootTables, Ram, TableEntry, HugeEntry, Garbage, Zero
  <2>6. MemInv'
    BY <2>1, <2>2, <2>3, <2>4, <2>5 DEF MemInv
  <2>7. pc' = "map" => boot.mbi.framebuffer /\ boot.mbi.type = 1 /\ boot.mbi.addr # 0
    BY <1>2, <1>4 DEF framebuffer_detect, Detected, bad_parameters
  <2>8. pc' = "text" => ~Usable(boot.mbi)
    <3>1. CASE framebuffer_detect
      BY <1>2, <1>3, <3>1 DEF framebuffer_detect, Detected, Usable
    <3>2. CASE bad_parameters
      BY <1>2, <1>3, <3>2 DEF bad_parameters, Valid, Usable
    <3> QED
      BY <1>4, <3>1, <3>2
  <2>9. CtxInv'
    BY <1>2, <2>1, <2>7, <2>8 DEF CtxInv, Usable
  <2> QED
    BY <2>6, <2>9
<1>5. CASE call_map_framebuffer
  <2>1. pc = "map" /\ pc' = "mapping" /\ Valid
    BY <1>5 DEF call_map_framebuffer
  <2>2. MapCall'
    BY <1>5, CallStarts
  <2>3. MemInv'
    BY <2>1, <2>2 DEF MemInv
  <2>4. CtxInv'
    BY <1>1, <1>2, <2>1 DEF CtxInv, Valid
  <2> QED
    BY <2>3, <2>4
<1>6. CASE mapping
  <2>1. pc = "mapping"
    BY <1>6 DEF mapping
  <2>2. CASE fb' # NoFb
    <3>1. pc' = "mapping" /\ MapCall'
      BY <1>6, <2>2, CallGoesOn
    <3>2. MemInv'
      BY <3>1 DEF MemInv
    <3>3. CtxInv'
      BY <1>1, <1>2, <2>1, <3>1 DEF CtxInv
    <3> QED
      BY <3>2, <3>3
  <2>3. CASE fb' = NoFb
    <3>1. pc' = "graphics_init" /\ PagingInv' /\ FbMapInv' /\ op' = Idle /\ Claims'
      BY <1>6, <2>3, CallGoesOn
    <3>2. MemInv'
      BY <2>3, <3>1 DEF MemInv
    <3>3. CtxInv'
      BY <1>1, <1>2, <2>1, <3>1 DEF CtxInv
    <3> QED
      BY <3>2, <3>3
  <2> QED
    BY <2>2, <2>3
<1> QED
  BY <1>4, <1>5, <1>6

(* The kernel draws on a framebuffer it has mapped; a store faults only    *)
(* where the geometry is inconsistent or a frame was missing, and the text *)
(* buffer is in the identity map.                                          *)
LEMMA DrawMem ==
  ASSUME KernelInv, graphics_init_simple \/ graphics_test_framebuffer \/ draw \/ text
  PROVE  MemInv' /\ CtxInv'
<1>1. LoaderInv /\ MemInv /\ CtxInv
  BY DEF KernelInv
<1> USE DEF Early, Booted, Ready, Mapped, At
<1>2. /\ pc \in {"graphics_init", "test", "draw", "text"} /\ boot' = boot /\ UNCHANGED vars
      /\ pc' \in {"test", "draw", "text", "spin_graphics", "spin_text", "fault"}
      /\ mbi = boot.mbi /\ boot \in Loaders
  BY <1>1 DEF graphics_init_simple, graphics_test_framebuffer, draw, text, machine, LoaderInv,
     Started, mbi
<1>3. PagingInv /\ FbMapInv /\ op = Idle /\ fb = NoFb
  BY <1>1, <1>2 DEF MemInv
<1>4. MemInv'
  <2>1. PagingInv' /\ FbMapInv' /\ op' = Idle /\ fb' = NoFb
    BY <1>2, <1>3, MappedStays
  <2> QED
    BY <1>2, <2>1 DEF MemInv
<1>5. claimed' = claimed
  BY <1>2 DEF vars
<1>6. CASE graphics_init_simple
  <2>1. Claims /\ ctx = NoContext /\ pc = "graphics_init"
        /\ boot.mbi.framebuffer /\ boot.mbi.type = 1 /\ boot.mbi.addr # 0
        /\ boot.mbi.bpp = 32 /\ LowLimit <= boot.mbi.addr
        /\ boot.mbi.width # 0 /\ boot.mbi.height # 0 /\ boot.mbi.pitch # 0
    BY <1>1, <1>6 DEF graphics_init_simple, MemInv, CtxInv
  <2>2. /\ boot.mbi.width \in Nat /\ boot.mbi.height \in Nat /\ boot.mbi.pitch \in Nat
    BY <1>2, LoaderAssumption
  <2>3. CASE SizeOk(FbSize)
    <3>1. Usable(boot.mbi)
      BY <1>2, <2>1, <2>2, <2>3 DEF SizeOk, FbSize, Usable
    <3>2. pc' = "test"
          /\ ctx' = [initialized |-> TRUE, framebuffer |-> boot.mbi.addr,
                     width |-> boot.mbi.width, height |-> boot.mbi.height,
                     pitch |-> boot.mbi.pitch]
      BY <1>2, <1>6, <2>1, <2>3 DEF graphics_init_simple
    <3>3. Drawing'
      BY <1>2, <1>5, <2>1, <3>1, <3>2 DEF Drawing, Claims, NoClaim, Usable
    <3> QED
      BY <1>4, <3>2, <3>3 DEF CtxInv
  <2>4. CASE ~SizeOk(FbSize)
    <3>1. ~Usable(boot.mbi)
      BY <1>2, <2>4 DEF SizeOk, FbSize, Usable
    <3>2. pc' = "text" /\ ctx' = NoContext
      BY <1>6, <2>1, <2>4 DEF graphics_init_simple
    <3> QED
      BY <1>2, <1>4, <3>1, <3>2 DEF CtxInv, Usable, NoContext
  <2> QED
    BY <2>3, <2>4
<1>7. CASE graphics_test_framebuffer \/ draw
  <2>1. Drawing /\ ctx' = ctx
    BY <1>1, <1>7 DEF graphics_test_framebuffer, draw, CtxInv
  <2>2. Drawing'
    BY <1>2, <1>5, <2>1 DEF Drawing, Claims, NoClaim, Usable
  <2>3. ASSUME Consistent(boot.mbi), ~claimed.short
        PROVE  \A w \in Words : \A n \in WordPages(w) : Writable(n)
    BY <1>2, <1>3, <2>1, <2>3, WordReady
  <2>4. 0 \in Words
    BY DEF Words
  <2>5. pc' = "fault" => ~(Consistent(boot.mbi) /\ ~claimed.short)
    BY <1>7, <2>3, <2>4 DEF graphics_test_framebuffer, draw
  <2>6. pc' \in {"draw", "text", "spin_graphics", "fault"}
    BY <1>7 DEF graphics_test_framebuffer, draw
  <2>7. pc' = "fault" => ~(Consistent(boot.mbi) /\ ~claimed.short)'
    BY <1>2, <1>5, <2>5 DEF Consistent
  <2> QED
    BY <1>4, <2>2, <2>6, <2>7 DEF CtxInv
<1>8. CASE text
  <2>1. Addressable(VgaFrame)
    <3>1. VgaFrame \in IdentityPages /\ VgaFrame \in Frame
      <4>1. VgaFrame \in 0 .. (E * E - 1)
        BY KernelAssumption
      <4>2. E * E \in Nat /\ E * E * E * E \in Nat /\ E * E <= E * E * E * E
        <5>1. E \in Nat \ {0}
          BY SizesAssumption
        <5>2. E * E \in Nat /\ 1 <= E * E
          BY <5>1
        <5>3. PICK q \in Nat : q = E * E
          BY <5>2
        <5>4. 1 * q <= q * q /\ q * q \in Nat
          BY <5>2, <5>3, TimesMonotone
        <5>5. E * E * E * E = q * q
          BY <5>1, <5>3
        <5> QED
          BY <5>3, <5>4, <5>5
      <4> QED
        BY <4>1, <4>2 DEF IdentityPages, Frame
    <3>2. PICK lvl, pre : TreeOf(lvl, pre)
      BY <1>3 DEF PagingInv, TreeInv
    <3>3. Walk(VgaFrame) = [frame |-> VgaFrame, flags |-> {"PRESENT", "RW"}]
      BY <3>1, <3>2, IdentityWalk
    <3>4. Walk(VgaFrame).frame = VgaFrame /\ VgaFrame # -1
      BY <3>1, <3>3 DEF Frame
    <3> QED
      BY <3>4 DEF Addressable, NoPage
  <2>2. pc = "text" /\ pc' = "spin_text" /\ ctx' = ctx
    BY <1>8, <2>1 DEF text
  <2>3. Drawing \/ (ctx = NoContext /\ ~Usable(boot.mbi))
    BY <1>1, <2>2 DEF CtxInv
  <2>4. Drawing' \/ (ctx' = NoContext /\ ~Usable(boot.mbi)')
    BY <1>2, <1>5, <2>2, <2>3 DEF Drawing, Claims, NoClaim, Usable, NoContext
  <2> QED
    BY <1>4, <2>2, <2>4 DEF CtxInv, NoContext
<1> QED
  BY <1>6, <1>7, <1>8

(* What stays while only the TLB may change                                *)
LEMMA TablesRest ==
  ASSUME KernelInv,
         UNCHANGED <<pc, cpu, boot, ctx, mem, used, pml4, op, fb, claimed>>,
         TlbInv => TlbInv', PagingInv => PagingInv', pc \in Early => tlb' = tlb
  PROVE  CpuInv' /\ MemInv' /\ CtxInv'
<1>1. CpuInv /\ MemInv /\ CtxInv
  BY DEF KernelInv
<1>2. pc' = pc /\ cpu' = cpu /\ boot' = boot /\ ctx' = ctx
  OBVIOUS
<1>3. UNCHANGED <<mem, used, pml4, op, fb, claimed>>
  OBVIOUS
<1>4. CpuInv'
  BY <1>1, <1>2 DEF CpuInv, LongMode, Early
<1>5. CtxInv'
  BY <1>1, <1>2, <1>3 DEF CtxInv, Drawing, Claims, Usable, Consistent, NoContext, NoClaim
<1>6. TlbInv => TlbInv'
  OBVIOUS
<1>7. PagingInv /\ FbMapInv => PagingInv' /\ FbMapInv'
  BY <1>3, FbMapStays
<1>8. LowMapInv => LowMapInv'
  <2> SUFFICES ASSUME LowMapInv PROVE LowMapInv'
    OBVIOUS
  <2>1. MemType /\ BootTree /\ TlbInv /\ FbType /\ LoopInv /\ LowOp /\ pml4 = P4 /\ fb # NoFb
        /\ claimed = NoClaim
    BY DEF LowMapInv
  <2>2. BootTree' /\ MemType' /\ \A m \in Frame : Walk(m)' = Walk(m)
    BY <1>3, <2>1, BootTreeKept DEF MemType, Ram, Entry, Frame
  <2>3. FbType' /\ LowOp' /\ pml4' = P4 /\ fb' # NoFb /\ claimed' = NoClaim
    BY <1>3, <2>1 DEF FbType, LowOp, Address, IdentityPages, PageOf
  <2>4. LoopInv'
    <3>1. Done' = Done
      BY <1>3 DEF Done
    <3> QED
      BY <1>3, <2>1, <2>2, <3>1, LoopKept
  <2> QED
    BY <1>6, <2>1, <2>2, <2>3, <2>4 DEF LowMapInv
<1>9. MapCall => MapCall'
  BY <1>2, <1>3, <1>7, <1>8 DEF MapCall, NoFb
<1>10. BootTables' = BootTables
  BY DEF BootTables, Ram, TableEntry, HugeEntry, Garbage, Zero
<1>11. Claims => Claims'
  BY <1>2, <1>3 DEF Claims, NoClaim
<1>12. pc \in Early => mem' = EmptyTables' /\ tlb' = {}
  <2>1. EmptyTables' = EmptyTables
    BY DEF EmptyTables, Ram, ZeroTable, Garbage, Zero
  <2> QED
    BY <1>1, <1>3, <2>1 DEF MemInv
<1>13. MemInv'
  <2>1. pc \in Booted \cup Ready => mem' = BootTables' /\ TlbInv'
    BY <1>1, <1>3, <1>6, <1>10 DEF MemInv
  <2>2. pc \in Mapped => PagingInv' /\ FbMapInv' /\ op' = Idle /\ fb' = NoFb
    BY <1>1, <1>3, <1>7 DEF MemInv
  <2>3. /\ pc \in Early \cup Booted => pml4' = NoTable
        /\ pc \in Early \cup Booted \cup Ready => op' = Idle /\ fb' = NoFb /\ claimed' = NoClaim
        /\ pc \in Ready \cup {"paging_init"} => used' \in BootBitmaps
        /\ pc \in Ready => pml4' = P4
    BY <1>1, <1>3 DEF MemInv
  <2>4. (pc = "mapping" => MapCall') /\ (pc = "graphics_init" => Claims')
    BY <1>1, <1>9, <1>11 DEF MemInv
  <2> QED
    BY <1>2, <1>12, <2>1, <2>2, <2>3, <2>4
    DEF MemInv, Early, Booted, Ready, Mapped
<1> QED
  BY <1>4, <1>5, <1>13

(* The processor's walker changes the TLB only.                            *)
LEMMA WalkerKeeps ==
  ASSUME KernelInv, walker
  PROVE  CpuInv' /\ MemInv' /\ CtxInv'
<1>1. PICK n \in TlbPages : TlbFill(n)
  BY DEF walker
<1>2. UNCHANGED <<pc, cpu, boot, ctx, mem, used, pml4, op, fb, claimed>> /\ pc \notin Early
  BY <1>1 DEF walker, kvars, TlbFill, BeforePaging, Early
<1>3. (TlbInv => TlbInv') /\ (PagingInv => PagingInv')
  BY <1>1, FillTlb, FillInv
<1> QED
  BY <1>2, <1>3, TablesRest

(* Every step of the boot keeps its invariant.                             *)
LEMMA KernelInvStep ==
  ASSUME Ctors = 0, TablesApart, BitmapReserved, KernelInv,
         [Boot \/ KernelMain \/ walker]_allvars
  PROVE  KernelInv'
<1>1. LoaderInv'
  BY LoaderInvStep DEF KernelInv
<1>2. CASE Boot
  BY <1>1, <1>2, CpuInvStep, BootMem DEF KernelInv
<1>3. CASE KernelMain
  BY <1>1, <1>3, CpuInvStep, StartMem, DetectMem, DrawMem DEF KernelInv, KernelMain
<1>4. CASE walker
  BY <1>1, <1>4, WalkerKeeps DEF KernelInv
<1>5. CASE UNCHANGED allvars
  <2>1. UNCHANGED <<pc, cpu, boot, ctx, mem, used, pml4, op, fb, claimed, tlb>>
    BY <1>5 DEF allvars, kvars, vars
  <2>2. TlbInv => TlbInv'
    <3>1. \A n \in Frame : Walk(n)' = Walk(n)
      BY <2>1, WalkStays
    <3>2. \A t \in tlb : t.page \in TlbPages => t.page \in Frame
      BY SizesAssumption
    <3> QED
      BY <2>1, <3>1, <3>2 DEF TlbInv, TlbCoherent, PageOf, Idle, NoPage
  <2>3. PagingInv => PagingInv'
    BY <2>1, PagingInvStays
  <2> QED
    BY <1>1, <2>1, <2>2, <2>3, TablesRest DEF KernelInv
<1> QED
  BY <1>2, <1>3, <1>4, <1>5

(* The loader zeroed .bss, and nothing else has happened.                  *)
LEMMA KernelInvInit == KInit => KernelInv
<1> SUFFICES ASSUME KInit PROVE KernelInv
  OBVIOUS
<1>1. pc = "save"
  BY DEF KInit, EntryOrder
<1>2. LoaderInv
  BY <1>1 DEF KInit, LoaderInv, Saved, Passed, Started
<1>3. MemInv
  BY <1>1 DEF KInit, MemInv, Early, Booted, Ready, Mapped, EmptyTables
<1>4. CpuInv /\ CtxInv
  BY <1>1 DEF KInit, CpuInv, CtxInv, Early
<1> QED
  BY <1>2, <1>3, <1>4 DEF KernelInv

(* So it holds throughout.                                                *)
LEMMA KernelInvAlways ==
  ASSUME Ctors = 0, TablesApart, BitmapReserved
  PROVE  KSpec => []KernelInv
<1>1. KernelInv /\ [Boot \/ KernelMain \/ walker]_allvars => KernelInv'
  BY KernelInvStep
<1> QED
  BY <1>1, KernelInvInit, PTL DEF KSpec

(* The boot ends where processor, loader and framebuffer say, and in no    *)
(* other loop.                                                             *)
THEOREM EndsAsExpectedHolds ==
  ASSUME Ctors = 0, TablesApart, BitmapReserved
  PROVE  KSpec => []EndsAsExpected
<1>1. KernelInv => EndsAsExpected
  <2> SUFFICES ASSUME KernelInv PROVE EndsAsExpected
    OBVIOUS
  <2>1. LoaderInv /\ CpuInv /\ MemInv /\ CtxInv
    BY DEF KernelInv
  <2>2. pc = "error" <=> pc \in Ends /\ ~(cpu.cpuid /\ cpu.extended /\ cpu.long_mode)
    BY <2>1 DEF CpuInv, LongMode, Early, Ends
  <2>3. pc = "spin_bad_magic" =>
          boot.magic # MULTIBOOT_MAGIC /\ mem = BootTables /\ pml4 = NoTable
    BY <2>1 DEF LoaderInv, MemInv, Booted
  <2>4. pc = "spin_text" =>
          boot.magic = MULTIBOOT_MAGIC /\ (Usable(boot.mbi) => ctx.initialized)
    BY <2>1 DEF LoaderInv, Started, CtxInv, Drawing
  <2>5. pc \in {"test", "draw", "spin_graphics", "fault"} =>
          boot.magic = MULTIBOOT_MAGIC /\ Usable(boot.mbi)
    BY <2>1 DEF LoaderInv, Started, CtxInv, Drawing
  <2> QED
    BY <2>2, <2>3, <2>4, <2>5 DEF EndsAsExpected
<1> QED
  BY <1>1, KernelInvAlways, PTL

(* The framebuffer the kernel draws on is mapped to itself and writable,   *)
(* every word of it, wherever it lies and whatever its lines are, if the   *)
(* geometry is consistent and no frame was missing: no store faults.       *)
THEOREM FramebufferReadyHolds ==
  ASSUME Ctors = 0, TablesApart, BitmapReserved
  PROVE  KSpec => []FramebufferReady
<1>1. KernelInv => FramebufferReady
  <2> SUFFICES ASSUME KernelInv, ctx.initialized, Consistent(boot.mbi), ~claimed.short
               PROVE  /\ pc # "fault"
                      /\ \A w \in Words : \A n \in WordPages(w) :
                           Writable(n) /\ Walk(n).frame = n
    BY DEF FramebufferReady
  <2>1. LoaderInv /\ MemInv /\ CtxInv
    BY DEF KernelInv
  <2>2. ctx # NoContext
    BY DEF NoContext
  <2>3. Drawing /\ pc \in Mapped
    BY <2>1, <2>2 DEF CtxInv, Mapped
  <2>4. PagingInv /\ FbMapInv /\ boot \in Loaders
    BY <2>1, <2>3 DEF MemInv, LoaderInv
  <2>5. pc # "fault"
    BY <2>1 DEF CtxInv
  <2> QED
    BY <2>3, <2>4, <2>5, WordReady
<1> QED
  BY <1>1, KernelInvAlways, PTL

=============================================================================
