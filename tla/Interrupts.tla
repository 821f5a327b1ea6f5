------------------------------ MODULE Interrupts ------------------------------
(***************************************************************************)
(* Interrupts: the master PIC (pic_remap(), pic_ack(),                     *)
(* activate_keyboard_interrupt() of ch1/interrupt/interrupt.c), the IDT    *)
(* (ch1/idt/idt.c), the stubs (ch1/intsetup/intsetup.s) and                *)
(* main_interrupt_handler(), around the keyboard driver.                   *)
(*                                                                         *)
(* Between any two steps of the boot code, of a handler or of the program, *)
(* the keyboard may send a byte and, with interrupts on, the CPU may be    *)
(* interrupted.                                                            *)
(***************************************************************************)
EXTENDS Keyboard

CONSTANTS
  Faults,       \* the exceptions the program may raise
  SoftInts      \* the vectors it may name in an int instruction

KEYBOARD == 33  \* PIC1_OFFSET + IRQ_KEYBOARD
GP_FAULT == 13

(* The vectors for which the stub pushes no error code of its own.         *)
(* Mutated: that of the page fault pushes one.                             *)
MutErrorStubs == {8, 10, 11, 12, 13, 17, 30}

ErrorStubs == {8, 10, 11, 12, 13, 14, 17, 30}

(* The exceptions for which the CPU pushes one (Intel manual, 3a 6.13).    *)
CpuErrors == {8, 10, 11, 12, 13, 14, 17, 21, 29, 30}

ASSUME InterruptsAssumption ==
  /\ Faults \subseteq 0 .. 31 \ {21, 29} /\ GP_FAULT \in Faults
  /\ SoftInts \subseteq 32 .. 63

(* The privilege an int instruction needs.  Mutated: all gates are open to *)
(* user programs.                                                          *)
MutDpl(vector) == 3

Dpl(vector) == IF vector \in 48 .. 63 THEN 3 ELSE 0

(* The interrupt flag behind a gate.  Mutated: trap gates, which leave it. *)
MutGateFlag == TRUE

GateFlag == FALSE

VARIABLES
  masked,  \* the keyboard's bit of the mask register
  irr,     \* its request, latched at the edge of the line
  isr,     \* it is in service
  intFlag,      \* the CPU's interrupt flag
  stack,   \* the handlers begun and not ended
  pc,      \* the boot code, then the program
  copied,  \* what get_keyboard_buffer() has copied
  got,     \* the last character it returned
  missed   \* history: a request was cleared, or handled with input off

vars == <<keyboardVars, masked, irr, isr, intFlag, stack, pc, copied, got, missed>>

(* words: what lies between the return address and the saved registers.    *)
Frame ==
  [vector : Faults \cup SoftInts \cup {KEYBOARD}, intFlag : BOOLEAN, words : Nat,
   at : {"entry", "ack", "return"}]

Words(vector) ==
  (IF vector \in CpuErrors THEN 1 ELSE 0) + (IF vector \in ErrorStubs THEN 1 ELSE 2)

Enter(vector) ==
  /\ stack' = Append(stack, [vector |-> vector, intFlag |-> intFlag, words |-> Words(vector), at |-> "entry"])
  /\ intFlag' = GateFlag

Top == stack[Len(stack)]

Handling == stack # <<>>

MoveTo(place) == stack' = [stack EXCEPT ![Len(stack)].at = place]

(* load_gdt() has cleared the interrupt flag.                              *)
Init ==
  /\ KeyboardInit
  /\ masked = FALSE /\ irr = FALSE /\ isr = FALSE
  /\ intFlag = FALSE /\ stack = <<>>
  /\ pc = "remap" /\ copied = 0 /\ got = 0
  /\ missed = FALSE

-----------------------------------------------------------------------------
(* kernel_setup()                                                          *)

(* The initialisation words clear the request latched so far.              *)
PicRemap ==
  /\ pc = "remap" /\ pc' = "idt"
  /\ masked' = TRUE /\ irr' = FALSE /\ isr' = FALSE
  /\ missed' = full
  /\ UNCHANGED <<keyboardVars, intFlag, stack, copied, got>>

InitializeIdt ==
  /\ pc = "idt" /\ pc' = "unmask"
  /\ intFlag' = TRUE
  /\ UNCHANGED <<keyboardVars, masked, irr, isr, stack, copied, got, missed>>

ActivateKeyboardInterrupt ==
  /\ pc = "unmask" /\ pc' = "idle"
  /\ masked' = FALSE
  /\ UNCHANGED <<keyboardVars, irr, isr, intFlag, stack, copied, got, missed>>

Boot == PicRemap \/ InitializeIdt \/ ActivateKeyboardInterrupt

-----------------------------------------------------------------------------
(* The hardware                                                            *)

SendByte ==
  /\ Load
  /\ irr' = TRUE
  /\ UNCHANGED <<masked, isr, intFlag, stack, pc, copied, got, missed>>

Interruptible == intFlag /\ (pc = "sysflush" => GateFlag)

Dispatch ==
  /\ Interruptible
  /\ irr /\ ~masked /\ ~isr
  /\ irr' = FALSE /\ isr' = TRUE
  /\ Enter(KEYBOARD)
  /\ UNCHANGED <<keyboardVars, masked, pc, copied, got, missed>>

-----------------------------------------------------------------------------
(* The stubs and main_interrupt_handler(), which knows one vector          *)

(* Where keyboard_isr() goes on.  Mutated: the early return of the         *)
(* extended byte forgets pic_ack().                                        *)
MutAfterIsr == IF Takes /\ script[sent] = "extended" THEN "return" ELSE "ack"

AfterIsr == "ack"

HandleKeyboard ==
  /\ Handling /\ Top.at = "entry" /\ Top.vector = KEYBOARD
  /\ KeyboardIsr
  /\ MoveTo(AfterIsr)
  /\ missed' = (missed \/ ~inputOn)
  /\ UNCHANGED <<masked, irr, isr, intFlag, pc, copied, got>>

PicAck ==
  /\ Handling /\ Top.at = "ack"
  /\ isr' = FALSE
  /\ MoveTo("return")
  /\ UNCHANGED <<keyboardVars, masked, irr, intFlag, pc, copied, got, missed>>

HandleOther ==
  /\ Handling /\ Top.at = "entry" /\ Top.vector # KEYBOARD
  /\ MoveTo("return")
  /\ UNCHANGED <<keyboardVars, masked, irr, isr, intFlag, pc, copied, got, missed>>

(* No interrupt can come between sti and the iret after it.                *)
Return ==
  /\ Handling /\ Top.at = "return"
  /\ intFlag' = Top.intFlag
  /\ stack' = SubSeq(stack, 1, Len(stack) - 1)
  /\ UNCHANGED <<keyboardVars, masked, irr, isr, pc, copied, got, missed>>

Handler == HandleKeyboard \/ PicAck \/ HandleOther \/ Return

-----------------------------------------------------------------------------
(* The program: calls of the driver's interface in any order, int          *)
(* instructions and exceptions                                             *)

Activate ==
  /\ pc = "idle" /\ ~Handling
  /\ SetInput(TRUE)
  /\ UNCHANGED <<masked, irr, isr, intFlag, stack, pc, copied, got, missed>>

Deactivate ==
  /\ pc = "idle" /\ ~Handling
  /\ SetInput(FALSE)
  /\ UNCHANGED <<masked, irr, isr, intFlag, stack, pc, copied, got, missed>>

(* get_keyboard_buffer(), called with interrupts on or, as syscall() would *)
(* call it, behind an interrupt gate ("sysflush").                         *)
GetCopy ==
  /\ pc = "idle" /\ ~Handling
  /\ pc' \in {"flush", "sysflush"} /\ copied' = buffer
  /\ UNCHANGED <<keyboardVars, masked, irr, isr, intFlag, stack, got, missed>>

GetFlush ==
  /\ pc \in {"flush", "sysflush"} /\ ~Handling
  /\ FlushBuffer
  /\ pc' = "idle" /\ copied' = 0
  /\ got' = IF copied = 0 THEN got ELSE copied
  /\ UNCHANGED <<masked, irr, isr, intFlag, stack, missed>>

(* The handler of an exception returns to the instruction that raised it.  *)
Fault(vector) ==
  /\ pc' = "fault"
  /\ Enter(vector)
  /\ UNCHANGED <<keyboardVars, masked, irr, isr, copied, got, missed>>

RaiseFault ==
  /\ pc \in {"idle", "fault"} /\ ~Handling
  /\ \E vector \in Faults : Fault(vector)

SoftInt ==
  /\ pc = "idle" /\ ~Handling
  /\ \E vector \in SoftInts :
       IF Dpl(vector) = 3
       THEN /\ Enter(vector)
            /\ UNCHANGED <<keyboardVars, masked, irr, isr, pc, copied, got, missed>>
       ELSE Fault(GP_FAULT)

Program == Activate \/ Deactivate \/ GetCopy \/ GetFlush \/ RaiseFault \/ SoftInt

Next == Boot \/ SendByte \/ Dispatch \/ Handler \/ Program

Spec == Init /\ [][Next]_vars

(* The CPU goes on with the boot code, with a handler and with a call it   *)
(* has begun, and looks for an interrupt before every instruction, even of *)
(* a program that keeps faulting.                                          *)
Fairness == WF_vars(Boot) /\ WF_vars(Handler) /\ WF_vars(GetFlush) /\ SF_vars(Dispatch)

FairSpec == Spec /\ Fairness

-----------------------------------------------------------------------------
TypeOK ==
  /\ KeyboardTypeOK
  /\ masked \in BOOLEAN /\ irr \in BOOLEAN /\ isr \in BOOLEAN /\ intFlag \in BOOLEAN
  /\ stack \in Seq(Frame)
  /\ pc \in {"remap", "idt", "unmask", "idle", "flush", "sysflush", "fault"}
  /\ copied \in 0 .. sent /\ got \in 0 .. sent
  /\ missed \in BOOLEAN

(* Handlers do not nest, however fast bytes come and whatever the program  *)
(* does: the kernel stack holds one frame at most.  (idt.h:12, idt.c:57,   *)
(* intsetup.s:55-56)                                                       *)
OneHandler == Len(stack) <= 1

(* iret finds the return address where the CPU pushed it, with and without *)
(* an error code.  (intsetup.s:48, 68-113)                                 *)
FramesBalanced == \A i \in 1 .. Len(stack) : stack[i].words = 2

(* The keyboard is in service exactly while its handler has not            *)
(* acknowledged, whichever way it returns.  (keyboard.c:64-65, 98)         *)
EoiPaired ==
  isr <=> \E i \in 1 .. Len(stack) : stack[i].vector = KEYBOARD /\ stack[i].at \in {"entry", "ack"}

AtKeyboard == Handling /\ Top.vector = KEYBOARD /\ Top.at = "entry"

(* The handler only runs when a byte waits: it never reads a byte twice.   *)
(* (idt.c:21-25, keyboard.c:60)                                            *)
NoPhantomRead == AtKeyboard => full

(* A byte that waits has an interrupt coming, unless that was spent before *)
(* the driver listened.  (keyboard.c:58-60)                                *)
NoByteStuck == full => irr \/ AtKeyboard \/ missed

(* The program gets the characters in the order of their presses, and no   *)
(* press twice, however it calls.  (keyboard.c:46-47)                      *)
GotInOrder ==
  [][pc' = "idle" /\ pc \in {"flush", "sysflush"} /\ copied # 0 => copied > got]_vars

(* Behind an interrupt gate get_keyboard_buffer() clears no character but  *)
(* the one it returns.  (keyboard.c:46-47, idt.c:57)                       *)
FlushedWasGot ==
  [][pc = "sysflush" /\ pc' = "idle" /\ buffer # 0 => buffer = copied]_vars

(* Every byte is dealt with: the handler comes to it, whatever the program *)
(* does meanwhile, until a byte is missed.  (keyboard.c:56-99)             *)
BytesHandled == full /\ ~missed ~> ~full \/ missed


-----------------------------------------------------------------------------
(* The inductive invariant.                                                *)

(* Interrupts are off in a handler and until the IDT is loaded; the        *)
(* keyboard is masked until the boot code is done.                         *)
FlagOK ==
  /\ Handling => ~intFlag
  /\ pc \in {"remap", "idt"} => ~intFlag
  /\ pc \in {"idt", "unmask"} => masked
  /\ pc \in {"remap", "idt", "unmask"} => ~Handling /\ ~isr

(* A request is for the byte that waits.                                   *)
RequestOK == (irr => full /\ ~AtKeyboard) /\ NoPhantomRead

(* The character in the buffer is newer than those the program has.        *)
GotOK ==
  /\ got <= Taken /\ copied <= Taken /\ buffer <= Taken
  /\ buffer # 0 => got < buffer /\ copied <= buffer
  /\ copied # 0 => got < copied
  /\ pc \notin {"flush", "sysflush"} => copied = 0

(* Behind an interrupt gate nothing comes between copy and flush.          *)
MaskedOK == pc = "sysflush" => ~Handling /\ copied = buffer

InterruptsInv ==
  /\ TypeOK
  /\ OneHandler /\ FramesBalanced /\ EoiPaired
  /\ FlagOK /\ RequestOK /\ NoByteStuck
  /\ ExtendedTracks /\ BufferIsLast
  /\ GotOK /\ MaskedOK

=============================================================================
