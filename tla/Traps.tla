-------------------------------- MODULE Traps --------------------------------
(***************************************************************************)
(* How the CPU gets from the kernel into a program and out of it again:    *)
(* the segments and the task state of ch0/gdt/gdt.c, load_gdt,             *)
(* set_tss_register and kernel_execute_user_program of                     *)
(* kernel-entrypoint.s, and the stubs of ch1/intsetup/intsetup.s word by   *)
(* word on the kernel's stack.  Interrupts are off in a handler, so one    *)
(* trap is in progress at most.                                            *)
(*                                                                         *)
(* A word is a number nobody computes with, told from the others by its    *)
(* value; esp is the depth of the stack in the kernel, and a register of   *)
(* its own in a program.                                                   *)
(***************************************************************************)
EXTENDS Integers, Sequences

CONSTANTS
  TSS_ADDRESS,   \* of _interrupt_tss_entry
  Vectors,       \* the exceptions and interrupts that may come
  GrubSegments   \* what the boot loader may leave in fs and gs

(* An address has 32 bits.                                                 *)
ASSUME AddressAssumption == TSS_ADDRESS \in Nat \ {0} /\ TSS_ADDRESS \div 16777216 < 256

(* The stubs of 21 and 29 push a code too many; the CPUs the kernel is     *)
(* built for raise neither.                                                *)
ASSUME TrapsAssumption ==
  /\ Vectors \subseteq (0 .. 255) \ {21, 29}
  /\ GrubSegments \subseteq Int

KCODE == 8   \* GDT_KERNEL_CODE_SEGMENT_SELECTOR
KDATA == 16  \* GDT_KERNEL_DATA_SEGMENT_SELECTOR
UCODE == 27  \* GDT_USER_CODE_SEGMENT_SELECTOR | 3
UDATA == 35  \* GDT_USER_DATA_SEGMENT_SELECTOR | 3

PROGRAM_STACK == 4194304 - 4

(* Instructions of the loader, of kernel_setup() and of the stubs; the     *)
(* CPU's error code; a register nobody relies on.                          *)
LOADER       == 2001
KERNEL_SETUP == 2002
STUB         == 2003
CODE         == 3001
ANY          == -1

VARIABLES
  descriptor, \* the base fields of the GDT's TSS descriptor
  tr,         \* the TSS the task register has found, 0 for none
  esp0,       \* _interrupt_tss_entry.esp0
  cpu,        \* the registers
  stack,      \* the kernel's stack, the top last
  place,      \* "run", or how far a trap is
  before      \* history: the registers, stack and vector of the trap

trapVars == <<descriptor, tr, esp0, cpu, stack, place, before>>

(* The descriptors by selector.                                            *)
Gdt == [s \in {8, 16, 24, 32} |->
          [code |-> s \in {8, 24}, privilege |-> IF s \in {8, 16} THEN 0 ELSE 3]]

Ring(selector) == selector % 4

Segment(selector) == Gdt[selector - Ring(selector)]

(* The CPU loads a code segment of the ring it enters, and into the other  *)
(* registers a segment no more privileged than that ring.                  *)
Loadable(regs) ==
  LET ring == Ring(regs.cs)
  IN  /\ \A s \in {regs.cs, regs.ss, regs.ds, regs.es, regs.fs, regs.gs} : s - Ring(s) \in DOMAIN Gdt
      /\ Segment(regs.cs).code /\ Segment(regs.cs).privilege = ring
      /\ Segment(regs.ss).privilege = ring
      /\ \A s \in {regs.ds, regs.es, regs.fs, regs.gs} : Segment(s).privilege >= ring

NoTrap == [cpu |-> << >>, stack |-> << >>, vector |-> 0]

(* The loader's call of kernel_setup() is on the stack.                    *)
GrubCpu ==
  {[eax |-> 1001, ecx |-> 1002, edx |-> 1003, ebx |-> 1004, ebp |-> 1005,
    esi |-> 1006, edi |-> 1007, esp |-> 0, eip |-> KERNEL_SETUP, eflags |-> 514,
    cs |-> KCODE, ss |-> KDATA, ds |-> KDATA, es |-> KDATA, fs |-> s, gs |-> s]
     : s \in GrubSegments}

TrapsInit ==
  /\ descriptor = [low |-> 0, mid |-> 0, high |-> 0]
  /\ tr = 0 /\ esp0 = 0
  /\ cpu \in GrubCpu
  /\ stack = <<LOADER>>
  /\ place = "run" /\ before = NoTrap

-----------------------------------------------------------------------------
(* kernel_setup()'s way into the program                                   *)

(* The fields of a descriptor an address is spread over, and the address   *)
(* the CPU reads from them.  Mutated: the middle byte is not masked out of *)
(* the low half.                                                           *)
MutBaseFields(base) ==
  [low |-> base % 65536, mid |-> (base \div 256) % 256, high |-> (base \div 16777216) % 256]

BaseFields(base) ==
  [low |-> base % 65536, mid |-> (base \div 65536) % 256, high |-> (base \div 16777216) % 256]

BaseOf(fields) == fields.low + fields.mid * 65536 + fields.high * 16777216

(* load_gdt reloads every segment register but fs and gs.                  *)
LoadGdt ==
  /\ place = "run"
  /\ cpu' = [cpu EXCEPT !.cs = KCODE, !.ss = KDATA, !.ds = KDATA, !.es = KDATA]
  /\ UNCHANGED <<descriptor, tr, esp0, stack, place, before>>

GdtInstallTss ==
  /\ place = "run"
  /\ descriptor' = BaseFields(TSS_ADDRESS)
  /\ UNCHANGED <<tr, esp0, cpu, stack, place, before>>

(* ltr takes the descriptor as it is now.                                  *)
SetTssRegister ==
  /\ place = "run"
  /\ tr' = BaseOf(descriptor)
  /\ UNCHANGED <<descriptor, esp0, cpu, stack, place, before>>

(* The value ebp + 8 of the callee is the esp of kernel_setup().           *)
SetTssKernelCurrentStack ==
  /\ place = "run"
  /\ esp0' = Len(stack)
  /\ UNCHANGED <<descriptor, tr, cpu, stack, place, before>>

(* The registers iret hands to the program.                                *)
UserCpu ==
  [cpu EXCEPT !.eax = 0, !.ecx = 0, !.eip = 0, !.esp = PROGRAM_STACK,
              !.cs = UCODE, !.ss = UDATA, !.ds = UDATA, !.es = UDATA, !.fs = UDATA, !.gs = UDATA]

(* The argument and the return address stay on the stack.                  *)
KernelExecuteUserProgram ==
  /\ place = "run"
  /\ cpu' = UserCpu
  /\ stack' = stack \o <<0, KERNEL_SETUP>>
  /\ place' = IF Loadable(UserCpu) THEN "run" ELSE "fault"
  /\ UNCHANGED <<descriptor, tr, esp0, before>>

-----------------------------------------------------------------------------
(* A trap                                                                  *)

CpuCodes == {8, 10, 11, 12, 13, 14, 17, 21, 29, 30}

(* The error code on the stack, whoever pushed it.                         *)
ErrorCode(vector) == IF vector \in CpuCodes THEN CODE ELSE 0

FromProgram(regs) == Ring(regs.cs) = 3

(* Out of a program the CPU goes to the stack that the TSS names, where it *)
(* first saves the program's.                                              *)
TssFound == tr = TSS_ADDRESS /\ esp0 # 0

Switched ==
  IF FromProgram(cpu) THEN SubSeq(stack, 1, esp0) \o <<cpu.ss, cpu.esp>> ELSE stack

Trap(vector) ==
  /\ place = "run"
  /\ before' = [cpu |-> cpu, stack |-> stack, vector |-> vector]
  /\ IF FromProgram(cpu) /\ ~TssFound
       THEN place' = "fault" /\ UNCHANGED <<cpu, stack>>
       ELSE /\ stack' = Switched \o <<cpu.eflags, cpu.cs, cpu.eip>>
                         \o IF vector \in CpuCodes THEN <<CODE>> ELSE << >>
            /\ cpu' = [cpu EXCEPT !.cs = KCODE, !.ss = KDATA, !.eip = STUB]
            /\ place' = "stub"
  /\ UNCHANGED <<descriptor, tr, esp0>>

(* The vectors whose stub pushes no error code of its own.  Mutated: that  *)
(* of the page fault pushes one.                                           *)
MutCodeStubs == {8, 10, 11, 12, 13, 17, 30}

CodeStubs == {8, 10, 11, 12, 13, 14, 17, 30}

PushStub(s) == s \o (IF before.vector \in CodeStubs THEN << >> ELSE <<0>>) \o <<before.vector>>

(* Mutated: in the order of the struct.                                    *)
MutPushSegments(s) == s \o <<cpu.gs, cpu.fs, cpu.es, cpu.ds>>

PushSegments(s) == s \o <<cpu.ds, cpu.es, cpu.fs, cpu.gs>>

PushAll(s) == s \o <<cpu.eax, cpu.ecx, cpu.edx, cpu.ebx, Len(s), cpu.ebp, cpu.esi, cpu.edi>>

CallGenericHandler ==
  /\ place = "stub"
  /\ stack' = PushAll(PushSegments(PushStub(stack)))
  /\ cpu' = [cpu EXCEPT !.ds = KDATA, !.es = KDATA, !.fs = KDATA, !.gs = KDATA]
  /\ place' = "handler"
  /\ UNCHANGED <<descriptor, tr, esp0, before>>

(* C code preserves ebx, ebp, esi and edi.                                 *)
MainInterruptHandler ==
  /\ place = "handler"
  /\ cpu' = [cpu EXCEPT !.eax = ANY, !.ecx = ANY, !.edx = ANY]
  /\ place' = "return"
  /\ UNCHANGED <<descriptor, tr, esp0, stack, before>>

(* The word k places under the top.                                        *)
Word(k) == stack[Len(stack) - k]

(* popad, the segments, add esp, 8 and iret.  popad passes over esp.       *)
Popped ==
  [edi |-> Word(0), esi |-> Word(1), ebp |-> Word(2),
   ebx |-> Word(4), edx |-> Word(5), ecx |-> Word(6), eax |-> Word(7),
   gs |-> Word(8), fs |-> Word(9), es |-> Word(10), ds |-> Word(11),
   eip |-> Word(14), cs |-> Word(15), eflags |-> Word(16),
   esp |-> IF Ring(Word(15)) = 3 THEN Word(17) ELSE cpu.esp,
   ss |-> IF Ring(Word(15)) = 3 THEN Word(18) ELSE cpu.ss]

TrapReturn ==
  /\ place = "return"
  /\ cpu' = Popped
  /\ stack' = SubSeq(stack, 1, Len(stack) - IF FromProgram(Popped) THEN 19 ELSE 17)
  /\ place' = IF Loadable(Popped) THEN "run" ELSE "fault"
  /\ before' = NoTrap
  /\ UNCHANGED <<descriptor, tr, esp0>>

TrapSteps == CallGenericHandler \/ MainInterruptHandler \/ TrapReturn

TrapsNext ==
  \/ LoadGdt \/ GdtInstallTss \/ SetTssRegister \/ SetTssKernelCurrentStack
  \/ KernelExecuteUserProgram
  \/ \E vector \in Vectors : Trap(vector)
  \/ TrapSteps

TrapsSpec == TrapsInit /\ [][TrapsNext]_trapVars

-----------------------------------------------------------------------------
(* main_interrupt_handler() finds in its struct InterruptFrame the state   *)
(* "exactly before interrupt" (interrupt.h:116) of whatever was running,   *)
(* and the right vector and error code; esp and ebp, which pushad pushes   *)
(* the other way round, excepted.  (interrupt.h:73-128, intsetup.s:15-24)  *)
FrameTrue ==
  place = "handler" =>
    LET was == before.cpu
    IN  /\ <<Word(0), Word(1)>> = <<was.edi, was.esi>>
        /\ <<Word(4), Word(5), Word(6), Word(7)>> = <<was.ebx, was.edx, was.ecx, was.eax>>
        /\ <<Word(8), Word(9), Word(10), Word(11)>> = <<was.gs, was.fs, was.es, was.ds>>
        /\ <<Word(12), Word(13)>> = <<before.vector, ErrorCode(before.vector)>>
        /\ <<Word(14), Word(15), Word(16)>> = <<was.eip, was.cs, was.eflags>>

(* A trap gives every register back to what it interrupted, the kernel its *)
(* stack too, however the handler uses registers.  (intsetup.s:38-56)      *)
ContextRestored ==
  [][TrapReturn =>
       /\ cpu' = before.cpu
       /\ FromProgram(before.cpu) \/ stack' = before.stack]_trapVars

(* Neither a trap nor the way into the program makes the CPU load a        *)
(* segment it refuses or look for a task state that is not there.          *)
(* (gdt.c:8-107, kernel-entrypoint.s:83-110, interrupt.c:74-80)            *)
NoFault == place # "fault"

=============================================================================
