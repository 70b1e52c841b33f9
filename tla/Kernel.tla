------------------------------- MODULE Kernel -------------------------------
(***************************************************************************)
(* One boot of the kernel: boot.asm from _start, kernel_main of kernel.cpp *)
(* and what it asks of the loader, of paging.cpp and of graphics.cpp, down *)
(* to one of the loops nobody leaves.  The module extends Paging: a call   *)
(* of paging_map_framebuffer runs there, one memory access at a time, and  *)
(* whether an access to the framebuffer faults is decided by the page      *)
(* tables that call has left.                                              *)
(*                                                                         *)
(* The frame bitmap is Paging's `used': memory_init, whose computation is  *)
(* PhysicalMemory's subject, sets it to one of BootBitmaps.  Messages are  *)
(* left out.                                                               *)
(***************************************************************************)
EXTENDS Paging, Sequences

CONSTANTS
  Cpus,             \* processors: [cpuid, extended, long_mode : BOOLEAN]
  Loaders,          \* what the loader leaves: [magic, mbi] in eax and ebx
  MULTIBOOT_MAGIC,  \* 0x2BADB002
  Junk,             \* a register whose value nobody defined
  Ctors,            \* global constructors; this build has none
  PixelBytes,       \* bytes per pixel (4)
  LowLimit,         \* lowest address of a framebuffer (0x100000)
  MaxFbSize,        \* largest size of a framebuffer (0x10000000)
  VgaFrame          \* frame of the VGA text buffer (0xB8)

ASSUME KernelAssumption ==
  /\ \A c \in Cpus : {c.cpuid, c.extended, c.long_mode} \subseteq BOOLEAN
  /\ Ctors \in Nat
  /\ PixelBytes \in Nat \ {0}
  /\ LowLimit \in Nat /\ MaxFbSize \in Nat
  /\ VgaFrame \in 0 .. (E * E - 1)

(* The fields of the Multiboot information framebuffer_detect reads; the   *)
(* framebuffer lies in the address space.                                  *)
ASSUME LoaderAssumption ==
  \A l \in Loaders :
    /\ l.mbi.framebuffer \in BOOLEAN
    /\ {l.mbi.addr, l.mbi.width, l.mbi.height, l.mbi.pitch} \subseteq Nat
    /\ l.mbi.addr + l.mbi.pitch * l.mbi.height + PageSize \in Address

VARIABLES
  pc,               \* where the boot has got to
  cpu,              \* the processor of this boot
  boot,             \* the loader of this boot
  eax, ebx,         \* registers
  multiboot_magic,  \* eax and ebx as saved in .data
  multiboot_info,
  rdi, rsi,         \* arguments of kernel_main: [low, high], 32 bits each
  ctx               \* g_graphics_ctx: the framebuffer in use, or NoContext

regs    == <<eax, ebx, rdi, rsi>>
saved   == <<multiboot_magic, multiboot_info>>
kvars   == <<pc, cpu, boot, regs, saved, ctx>>
machine == <<cpu, boot>>
allvars == <<kvars, vars>>

NoContext == [initialized |-> FALSE]

-----------------------------------------------------------------------------
(* boot.asm *)

EntryOrder_SaveLate ==
  <<"check_cpuid", "check_long_mode", "save", "setup_page_tables",
    "enable_paging", "long_mode_start", "init_global_ctors", "kernel_main">>

(* _start saves the loader's registers before anything else: the checks    *)
(* below overwrite them.                                                   *)
EntryOrder ==
  <<"save", "check_cpuid", "check_long_mode", "setup_page_tables",
    "enable_paging", "long_mode_start", "init_global_ctors", "kernel_main">>

At(step) == pc = step

Continue ==
  \E i \in 1 .. (Len(EntryOrder) - 1) :
    EntryOrder[i] = pc /\ pc' = EntryOrder[i + 1]

save_multiboot ==
  /\ At("save")
  /\ multiboot_magic' = eax
  /\ multiboot_info' = ebx
  /\ Continue
  /\ UNCHANGED <<machine, regs, ctx, vars>>

(* Flips the ID bit of EFLAGS, with eax and ecx as scratch *)
check_cpuid ==
  /\ At("check_cpuid")
  /\ eax' = Junk
  /\ IF cpu.cpuid THEN Continue ELSE pc' = "error"
  /\ UNCHANGED <<machine, ebx, rdi, rsi, saved, ctx, vars>>

(* The cpuid instruction writes eax, ebx, ecx and edx. *)
check_long_mode ==
  /\ At("check_long_mode")
  /\ eax' = Junk
  /\ ebx' = Junk
  /\ IF cpu.extended /\ cpu.long_mode THEN Continue ELSE pc' = "error"
  /\ UNCHANGED <<machine, rdi, rsi, saved, ctx, vars>>

(* Entry 0 of the upper tables and all of p2_table are written; the rest   *)
(* is .bss, which the loader zeroed.                                       *)
setup_page_tables ==
  /\ At("setup_page_tables")
  /\ mem' = [mem EXCEPT ![P4][0] = TableEntry(P3),
                        ![P3][0] = TableEntry(P2),
                        ![P2] = [i \in 0 .. (E - 1) |-> HugeEntry(i)]]
  /\ eax' = Junk
  /\ Continue
  /\ UNCHANGED <<machine, ebx, rdi, rsi, saved, ctx, used, pml4, op, fb, claimed, tlb>>

enable_paging ==
  /\ At("enable_paging")
  /\ eax' = Junk
  /\ Continue
  /\ UNCHANGED <<machine, ebx, rdi, rsi, saved, ctx, vars>>

(* Both loads are of 64 bits from variables of 32: the upper half is       *)
(* whatever follows, for multiboot_magic that is multiboot_info.           *)
long_mode_start ==
  /\ At("long_mode_start")
  /\ rdi' = [low |-> multiboot_magic, high |-> multiboot_info]
  /\ rsi' = [low |-> multiboot_info, high |-> Junk]
  /\ Continue
  /\ UNCHANGED <<machine, eax, ebx, saved, ctx, vars>>

(* A constructor is a function like any other: it need not preserve the    *)
(* argument registers.                                                     *)
init_global_ctors ==
  /\ At("init_global_ctors")
  /\ rdi' \in {rdi} \cup (IF Ctors = 0 THEN {} ELSE {[low |-> Junk, high |-> Junk]})
  /\ rsi' \in {rsi} \cup (IF Ctors = 0 THEN {} ELSE {[low |-> Junk, high |-> Junk]})
  /\ Continue
  /\ UNCHANGED <<machine, eax, ebx, saved, ctx, vars>>

-----------------------------------------------------------------------------
(* kernel_main *)

(* Only the lower half of the first argument counts. *)
check_magic ==
  /\ At("kernel_main")
  /\ pc' = IF rdi.low = MULTIBOOT_MAGIC THEN "memory_init" ELSE "spin_bad_magic"
  /\ UNCHANGED <<machine, regs, saved, ctx, vars>>

(* From here on the second argument, truncated, is a usable pointer. *)
mbi == rsi.low

call_memory_init ==
  /\ At("memory_init")
  /\ used' \in BootBitmaps
  /\ pc' = "paging_init"
  /\ UNCHANGED <<machine, regs, saved, ctx, mem, pml4, op, fb, claimed, tlb>>

call_paging_init ==
  /\ At("paging_init")
  /\ paging_init
  /\ pc' = "framebuffer_detect"
  /\ UNCHANGED <<machine, regs, saved, ctx>>

Detected == mbi.framebuffer /\ mbi.type = 1 /\ mbi.addr # 0

framebuffer_detect ==
  /\ At("framebuffer_detect")
  /\ pc' = IF Detected THEN "map" ELSE "text"
  /\ UNCHANGED <<machine, regs, saved, ctx, vars>>

(* The parameters framebuffer_get_info copied are validated. *)
Valid ==
  /\ LowLimit <= mbi.addr
  /\ mbi.width # 0
  /\ mbi.height # 0
  /\ mbi.pitch # 0
  /\ mbi.bpp = 32

FbSize_FromWidth == mbi.width * mbi.height * PixelBytes

FbSize == mbi.pitch * mbi.height

bad_parameters ==
  /\ At("map")
  /\ ~Valid
  /\ pc' = "text"
  /\ UNCHANGED <<machine, regs, saved, ctx, vars>>

call_map_framebuffer ==
  /\ At("map")
  /\ Valid
  /\ paging_map_framebuffer(mbi.addr, FbSize)
  /\ pc' = "mapping"
  /\ UNCHANGED <<machine, regs, saved, ctx>>

(* The steps of paging.cpp; its return is the one step kernel_main sees. *)
mapping ==
  /\ At("mapping")
  /\ Steps
  /\ pc' = IF fb' = NoFb THEN "graphics_init" ELSE pc
  /\ UNCHANGED <<machine, regs, saved, ctx>>

(* graphics_init_simple, called with the framebuffer's own address: the    *)
(* one thing kernel_main has not tested is the size.                       *)
SizeOk_Unchecked(size) == TRUE

SizeOk(size) == size <= MaxFbSize

graphics_init_simple ==
  /\ At("graphics_init")
  /\ IF mbi.addr # 0 /\ mbi.bpp = 32 /\ LowLimit <= mbi.addr /\ SizeOk(FbSize)
       THEN /\ ctx' = [initialized |-> TRUE, framebuffer |-> mbi.addr, width |-> mbi.width,
                       height |-> mbi.height, pitch |-> mbi.pitch]
            /\ pc' = "test"
       ELSE pc' = "text" /\ UNCHANGED ctx
  /\ UNCHANGED <<machine, regs, saved, vars>>

(* Words of the framebuffer the drawing functions store to: put_pixel and  *)
(* the other primitives compute the place of a pixel differently.          *)
Words ==
  {0} \cup
  UNION {{(y * ctx.pitch) \div PixelBytes + x, y * (ctx.pitch \div PixelBytes) + x} :
           x \in 0 .. (ctx.width - 1), y \in 0 .. (ctx.height - 1)}

WordPages(w) ==
  PageOf(ctx.framebuffer + w * PixelBytes)
    .. PageOf(ctx.framebuffer + w * PixelBytes + PixelBytes - 1)

Writable(n) == Walk(n) # NoPage /\ "RW" \in Walk(n).flags

(* Reads, overwrites and restores word 0, and compares what it reads back: *)
(* the device may not answer.                                              *)
graphics_test_framebuffer ==
  /\ At("test")
  /\ IF \A n \in WordPages(0) : Writable(n)
       THEN pc' \in {"draw", "text"}
       ELSE pc' = "fault"
  /\ UNCHANGED <<machine, regs, saved, ctx, vars>>

(* Clears the screen, draws, runs the animation, draws the final screen. *)
draw ==
  /\ At("draw")
  /\ pc' = IF \A w \in Words : \A n \in WordPages(w) : Writable(n)
             THEN "spin_graphics" ELSE "fault"
  /\ UNCHANGED <<machine, regs, saved, ctx, vars>>

(* clear, set_color and the greeting, on the text console *)
text ==
  /\ At("text")
  /\ pc' = IF Addressable(VgaFrame) THEN "spin_text" ELSE "fault"
  /\ UNCHANGED <<machine, regs, saved, ctx, vars>>

-----------------------------------------------------------------------------
Boot ==
  \/ save_multiboot \/ check_cpuid \/ check_long_mode \/ setup_page_tables
  \/ enable_paging \/ long_mode_start \/ init_global_ctors

KernelMain ==
  \/ check_magic \/ call_memory_init \/ call_paging_init \/ framebuffer_detect
  \/ bad_parameters \/ call_map_framebuffer \/ mapping \/ graphics_init_simple
  \/ graphics_test_framebuffer \/ draw \/ text

(* .bss is zeroed, and before memory_init there is no free frame. *)
KInit ==
  /\ pc = EntryOrder[1]
  /\ cpu \in Cpus
  /\ boot \in Loaders
  /\ eax = boot.magic
  /\ ebx = boot.mbi
  /\ multiboot_magic = 0 /\ multiboot_info = 0
  /\ rdi = [low |-> Junk, high |-> Junk] /\ rsi = [low |-> Junk, high |-> Junk]
  /\ ctx = NoContext
  /\ mem = [f \in Ram |-> IF f \in {P4, P3, P2} THEN ZeroTable
                          ELSE [i \in 0 .. (E - 1) |-> Garbage]]
  /\ used = Ram
  /\ pml4 = NoTable
  /\ op = Idle /\ fb = NoFb /\ claimed = NoClaim
  /\ tlb = {}

BeforePaging ==
  {"save", "check_cpuid", "check_long_mode", "setup_page_tables", "enable_paging", "error"}

walker ==
  /\ pc \notin BeforePaging
  /\ \E n \in TlbPages : TlbFill(n)
  /\ UNCHANGED kvars

KSpec == KInit /\ [][Boot \/ KernelMain \/ walker]_allvars

(* The processor executes the one thread of control there is. *)
FairKSpec == KSpec /\ WF_allvars(Boot \/ KernelMain)

-----------------------------------------------------------------------------
(* Properties *)

Ends == {"error", "spin_bad_magic", "spin_graphics", "spin_text", "fault"}

(* kernel_main receives what the loader left in eax and ebx: no check on   *)
(* the way, and no call before it, loses them.                             *)
LoaderParametersKept ==
  pc = "kernel_main" => rdi.low = boot.magic /\ rsi.low = boot.mbi

(* A screen line is long enough for its pixels, and starts on a page. *)
Consistent(m) == m.width * PixelBytes <= m.pitch /\ m.addr % PageSize = 0

(* Every word of the framebuffer the kernel draws on is mapped to itself,  *)
(* writable, if the loader's geometry is consistent and no frame was       *)
(* missing for the page tables; otherwise the store faults.                *)
FramebufferReady ==
  ctx.initialized /\ Consistent(boot.mbi) /\ ~claimed.short =>
    /\ pc # "fault"
    /\ \A w \in Words : \A n \in WordPages(w) : Writable(n) /\ Walk(n).frame = n

(* What the loader offers is a framebuffer the kernel can draw on. *)
Usable(m) ==
  /\ m.framebuffer /\ m.type = 1 /\ m.bpp = 32
  /\ m.width > 0 /\ m.height > 0 /\ m.pitch > 0
  /\ LowLimit <= m.addr /\ m.addr # 0
  /\ m.pitch * m.height <= MaxFbSize

(* The boot ends where processor, loader and framebuffer say: with an      *)
(* error code on a processor without long mode, in the first loop without  *)
(* Multiboot, as text on an unusable framebuffer, which is never touched,  *)
(* or on one that does not answer, else with graphics.                     *)
EndsAsExpected ==
  /\ pc = "error" <=> pc \in Ends /\ ~(cpu.cpuid /\ cpu.extended /\ cpu.long_mode)
  /\ pc = "spin_bad_magic" =>
       boot.magic # MULTIBOOT_MAGIC /\ mem = BootTables /\ pml4 = NoTable
  /\ pc = "spin_text" =>
       boot.magic = MULTIBOOT_MAGIC /\ (Usable(boot.mbi) => ctx.initialized)
  /\ pc \in {"test", "draw", "spin_graphics", "fault"} =>
       boot.magic = MULTIBOOT_MAGIC /\ Usable(boot.mbi)

(* Every boot ends in one of the terminal loops, with an error code, or in *)
(* a fault, whatever the loader passed and however many frames there are.  *)
EveryBootEnds == <>(pc \in Ends \/ Faulted)

=============================================================================
