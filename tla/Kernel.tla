-------------------------------- MODULE Kernel --------------------------------
(***************************************************************************)
(* The machine from power on to the shell: kernel_setup() (kernel.c) over  *)
(* the FAT32 driver, the page frame manager and the MMU, and the way into  *)
(* ring 3, with power lost at any step; and, while the machine is off, the *)
(* inserter (ch2/external-inserter), which runs the same driver on a copy  *)
(* of the storage in the host's memory and saves the copy whole.  (One     *)
(* that does not get as far as saving might as well not have run.)         *)
(*                                                                         *)
(* Interrupts touch neither files nor paging, so they are let in between   *)
(* the calls kernel_setup() makes, and in the program.                     *)
(***************************************************************************)
EXTENDS FAT32Crash, FAT32Store, Traps

CONSTANTS
  SHELL, KAIKAI, LAIN, TXT, \* the names and the extension kernel.c uses
  KERNEL_PAGE, PAGE_FRAME_MAX_COUNT,
  InserterNames,            \* the files the inserter is asked for
  InserterLoads,            \* and what it has read from them
  KernelText,               \* the block kernel_setup() prepares for each file
  Leftovers                 \* what the uninitialised cbuf[1] may hold

(* The buffer kernel_setup() gives to write(), whose size makes write()    *)
(* take two blocks of it, and the size it gives to read().                 *)
TextLoad(n, b) ==
  [size |-> CLUSTER_SIZE, buf |-> [k \in 0 .. 1 |-> IF k = 0 THEN KernelText[n] ELSE b]]

SHELL_SIZE == CLUSTER_MAP_SIZE * CLUSTER_SIZE

(* The calls of the kernel and of the inserter are among those that FAT32  *)
(* lets callers make; and page 0 is not the kernel's.                      *)
ASSUME KernelAssumption ==
  /\ {SHELL, KAIKAI, LAIN} \cup InserterNames \subseteq Names
  /\ {NO_EXT, TXT} \subseteq Exts /\ TXT # NO_EXT
  /\ InserterLoads \subseteq Loads
  /\ \A n \in {KAIKAI, LAIN}, b \in Leftovers : TextLoad(n, b) \in Loads
  /\ SHELL_SIZE \in ReadSizes
  /\ KERNEL_PAGE # 0
  /\ PAGE_FRAME_MAX_COUNT \in Nat /\ 2 <= PAGE_FRAME_MAX_COUNT

KEYBOARD == 33

VARIABLES
  at,      \* where kernel_setup(), or the inserter, is
  table, frameMap, freeCount, tlb, ppc, page, new, \* paging
  mem,     \* what the kernel has copied into each frame, block by block
  cbuf,    \* the uninitialised half of kernel_setup()'s buffer
  shell,   \* history: what the storage keeps of the first shell inserted
  settled  \* history: a boot has got as far as the shell

pagingVars == <<table, frameMap, freeCount, tlb, ppc, page, new>>
storageVars == <<crashVars, shell, settled>>
kernelVars == <<storageVars, trapVars, pagingVars, at, mem, cbuf>>

P == INSTANCE Paging WITH
  Pages <- {0, KERNEL_PAGE}, pc <- ppc, lost <- {}

KernelInit ==
  /\ CrashInit /\ TrapsInit /\ P!Init
  /\ at = "off"
  /\ mem = [f \in P!Frames |-> << >>]
  /\ cbuf = ZeroImage
  /\ shell = << >> /\ settled = FALSE

(* What a step of the driver leads to when it ends the call.               *)
After ==
  [mount |-> "tss", read |-> "kaikai", kaikai |-> "lain", lain |-> "esp0",
   host_mount |-> "host_write", host_write |-> "host_save"]

Proceed == at' = IF pc' = "idle" THEN After[at] ELSE at

-----------------------------------------------------------------------------
(* The inserter                                                            *)

InserterStart ==
  /\ at = "off" /\ at' = "host_mount"
  /\ UNCHANGED <<storageVars, trapVars, pagingVars, mem, cbuf>>

(* The name's extension is always empty.  A file that is not there gives   *)
(* size 0, which makes a folder.                                           *)
InserterWrite ==
  /\ at = "host_write" /\ pc = "idle"
  /\ \E n \in InserterNames, p \in {ROOT, ROOT + 1} \cap Clusters, l \in InserterLoads :
       \/ /\ WriteStart(n, NO_EXT, p, l)
          /\ shell' = IF n = SHELL /\ p = ROOT /\ l.size # 0 THEN Store!Kept(l) ELSE shell
       \/ WriteRefused(n, NO_EXT, p, l) /\ UNCHANGED shell
  /\ Proceed
  /\ UNCHANGED <<torn, settled, trapVars, pagingVars, mem, cbuf>>

(* The driver's state ends with the process.                               *)
InserterSave ==
  /\ at = "host_save" /\ at' = "off"
  /\ Off
  /\ UNCHANGED <<diskVars, torn, shell, settled, trapVars, pagingVars, mem, cbuf>>

-----------------------------------------------------------------------------
(* Power                                                                   *)

(* GRUB clears the bss and starts the loader, with paging off.             *)
PowerOn ==
  /\ at = "off" /\ at' = "loader"
  /\ cbuf' \in Leftovers
  /\ UNCHANGED <<storageVars, trapVars, pagingVars, mem>>

(* The memory and the CPU are as before power on.                          *)
Reset ==
  /\ at \notin {"off", "host_mount", "host_write", "host_save"}
  /\ PowerLoss \/ (pc = "off" /\ UNCHANGED crashVars) \/ PowerLossInFat
  /\ at' = "off"
  /\ table' = P!FirstTable
  /\ frameMap' = [f \in P!Frames |-> f = 0] /\ freeCount' = PAGE_FRAME_MAX_COUNT - 1
  /\ tlb' = [q \in {0, KERNEL_PAGE} |-> {}] /\ ppc' = "loader" /\ page' = 0 /\ new' = P!BlankEntry
  /\ descriptor' = [low |-> 0, mid |-> 0, high |-> 0] /\ tr' = 0 /\ esp0' = 0
  /\ cpu' \in GrubCpu /\ stack' = <<LOADER>> /\ place' = "run" /\ before' = NoTrap
  /\ mem' = [f \in P!Frames |-> << >>] /\ cbuf' = ZeroImage
  /\ UNCHANGED <<shell, settled>>

-----------------------------------------------------------------------------
(* kernel_setup()                                                          *)

(* The MMU fills its TLB as it likes, until the page has been used.        *)
Mmu ==
  /\ at \in {"loader", "gdt", "mount", "tss", "ltr", "allocate", "read"}
  /\ P!Fill(0) \/ P!Evict(0)
  /\ UNCHANGED <<storageVars, trapVars, at, mem, cbuf>>

PagingSteps ==
  /\ place = "run"
  /\ \/ at = "loader" /\ (P!ClearIdentity \/ P!Flush)
     \/ at = "allocate" /\ (P!Allocate(0) \/ P!StoreFlag \/ P!StoreAddress \/ P!Flush)
  /\ at' = IF ppc' # "idle" THEN at ELSE IF at = "loader" THEN "gdt" ELSE "read"
  /\ UNCHANGED <<storageVars, trapVars, mem, cbuf>>

(* The steps towards ring 3, between the others.                           *)
RingSteps ==
  /\ \/ at = "gdt" /\ LoadGdt /\ at' = "mount"
     \/ at = "tss" /\ GdtInstallTss /\ at' = "ltr"
     \/ at = "ltr" /\ SetTssRegister /\ at' = "allocate"
     \/ at = "esp0" /\ SetTssKernelCurrentStack /\ at' = "jump"
     \/ at = "jump" /\ KernelExecuteUserProgram /\ at' = "user"
  /\ settled' = (settled \/ at = "jump")
  /\ UNCHANGED <<crashVars, shell, pagingVars, mem, cbuf>>

(* The shell is read into page 0.                                          *)
ReadShell ==
  /\ at = "read" /\ place = "run"
  /\ ReadStart(SHELL, NO_EXT, ROOT, SHELL_SIZE) \/ ReadRefused(SHELL, NO_EXT, ROOT, SHELL_SIZE)
  /\ Proceed
  /\ UNCHANGED <<torn, shell, settled, trapVars, pagingVars, mem, cbuf>>

(* What the MMU makes of a page: the translation it holds goes first.      *)
Translations(p) == IF tlb[p] # {} THEN tlb[p] ELSE {table[p]}

CopyBlock ==
  /\ at = "read" /\ place = "run"
  /\ ReadBlock
  /\ \E entry \in Translations(0) :
       /\ entry.flag.present
       /\ mem' = [mem EXCEPT ![entry.frame] = Append(@, disk[cursor].data)]
  /\ Proceed
  /\ UNCHANGED <<torn, shell, settled, trapVars, pagingVars, cbuf>>

(* No code of a call is looked at.                                         *)
WriteText ==
  /\ at \in {"kaikai", "lain"} /\ place = "run"
  /\ LET n == IF at = "kaikai" THEN KAIKAI ELSE LAIN
         l == TextLoad(n, cbuf)
     IN  WriteStart(n, TXT, ROOT, l) \/ WriteRefused(n, TXT, ROOT, l)
  /\ Proceed
  /\ UNCHANGED <<torn, shell, settled, trapVars, pagingVars, mem, cbuf>>

(* The driver at work for the kernel or for the inserter.                  *)
DriverSteps ==
  /\ place = "run"
  /\ \/ at \in {"mount", "host_mount"} /\ Boot
     \/ at \in {"kaikai", "lain", "host_write"} /\ (WriteBlock \/ WriteFat \/ WriteDir)
  /\ Proceed
  /\ UNCHANGED <<torn, shell, settled, trapVars, pagingVars, mem, cbuf>>

(* Interrupts are on once the IDT is loaded; only a program faults.        *)
TrapIn ==
  /\ at \in {"mount", "tss", "ltr", "allocate", "read", "kaikai", "lain", "esp0", "jump", "user"}
  /\ pc \in {"off", "idle"} /\ ppc = "idle"
  /\ \E vector \in Vectors : (vector = KEYBOARD \/ at = "user") /\ Trap(vector)
  /\ UNCHANGED <<storageVars, pagingVars, at, mem, cbuf>>

TrapGoesOn ==
  /\ TrapSteps
  /\ UNCHANGED <<storageVars, pagingVars, at, mem, cbuf>>

-----------------------------------------------------------------------------
Setup == PagingSteps \/ RingSteps \/ ReadShell \/ CopyBlock \/ WriteText \/ DriverSteps

KernelNext ==
  \/ InserterStart \/ InserterWrite \/ InserterSave
  \/ PowerOn \/ Reset
  \/ Setup
  \/ Mmu
  \/ TrapIn \/ TrapGoesOn

(* A handler runs to its end, and between two interrupts the code that was *)
(* interrupted gets on: keys come slower than instructions.                *)
KernelSpec ==
  /\ KernelInit /\ [][KernelNext]_kernelVars
  /\ SF_kernelVars(Setup) /\ WF_kernelVars(TrapGoesOn)

-----------------------------------------------------------------------------
(* When the kernel jumps into page 0, that page holds what the storage     *)
(* keeps of the first shell that was inserted in the root, whatever was    *)
(* inserted, cut off or written since, and nothing if there was none or    *)
(* only a folder of that name; and reading it has written to no other      *)
(* memory, the kernel's own least of all.                                  *)
(* (kernel.c:150-160, 177, kernel-entrypoint.s:50-51)                      *)
JumpHoldsShell ==
  at \in {"jump", "user"} =>
    /\ table[0].flag.present /\ table[0].flag.user
    /\ mem = [f \in P!Frames |-> IF f = table[0].frame THEN shell ELSE << >>]

(* A storage whose formatting was cut stays as it is: neither a boot nor   *)
(* the inserter repairs it or writes to it.  (fat32.c:61-104)              *)
TornStays == [][torn => UNCHANGED diskVars]_kernelVars

(* Once a boot has reached the shell, later boots find both files, or      *)
(* still no room for them, and leave the storage as it is.                 *)
(* (kernel.c:162-173)                                                      *)
BootsSettle ==
  [][settled /\ at \notin {"host_mount", "host_write"} => UNCHANGED diskVars]_kernelVars

(* A boot reaches the shell, whatever is on the storage and whatever the   *)
(* calls return, unless power is lost.  (kernel.c:138-177)                 *)
BootEnds == at = "loader" ~> at \in {"user", "off"}

=============================================================================
