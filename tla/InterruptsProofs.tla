--------------------------- MODULE InterruptsProofs ---------------------------
(***************************************************************************)
(* The interrupt path and the keyboard driver behind it keep their         *)
(* promises, for every number of bytes the keyboard sends, every exception *)
(* and every int instruction of the program.                               *)
(***************************************************************************)
EXTENDS Interrupts, TLAPS

(* No handler runs, or one does.                                           *)
LEMMA OneFrame ==
  ASSUME TypeOK, OneHandler
  PROVE  /\ ~Handling => stack = <<>> /\ Len(stack) = 0
         /\ Handling => /\ Len(stack) = 1
                        /\ Top \in Frame /\ Top = stack[1] /\ stack = <<Top>>
<1>1. stack \in Seq(Frame) /\ Len(stack) \in {0, 1}
  <2>1. stack \in Seq(Frame)
    BY DEF TypeOK
  <2>2. Len(stack) \in Nat
    BY <2>1
  <2>3. Len(stack) <= 1
    BY DEF OneHandler
  <2> QED
    BY <2>1, <2>2, <2>3
<1>2. Len(stack) = 0 => stack = <<>>
  BY <1>1
<1>3. Len(stack) = 1 => stack # <<>> /\ stack[1] \in Frame /\ stack = <<stack[1]>>
  BY <1>1
<1> QED
  BY <1>1, <1>2, <1>3 DEF Handling, Top

(* The stub and the CPU push two words between them.                       *)
LEMMA TwoWords ==
  ASSUME NEW vector \in Faults \cup SoftInts \cup {KEYBOARD}
  PROVE  Words(vector) = 2
<1>1. vector \in 0 .. 63 \ {21, 29}
  BY InterruptsAssumption DEF KEYBOARD
<1> QED
  BY <1>1 DEF Words, CpuErrors, ErrorStubs

(* Entering a handler from the program.                                    *)
LEMMA Entered ==
  ASSUME TypeOK, ~Handling, NEW vector \in Faults \cup SoftInts \cup {KEYBOARD}, Enter(vector)
  PROVE  \E frame \in Frame :
           /\ stack' = <<frame>> /\ Len(stack') = 1
           /\ frame.vector = vector /\ frame.at = "entry" /\ frame.words = 2
           /\ intFlag' = FALSE
<1> DEFINE frame == [vector |-> vector, intFlag |-> intFlag, words |-> Words(vector), at |-> "entry"]
<1>1. frame \in Frame
  BY TwoWords DEF Frame, TypeOK
<1>2. stack' = Append(<<>>, frame) /\ intFlag' = FALSE
  BY DEF Enter, Handling, GateFlag
<1>3. stack' = <<frame>> /\ Len(stack') = 1
  BY <1>2
<1> QED
  BY <1>1, <1>2, <1>3, TwoWords

(* The part of the invariant that is about the stack, for one frame.       *)
LEMMA FramePrimed ==
  ASSUME NEW frame \in Frame, stack' = <<frame>>
  PROVE  /\ Handling' /\ Top' = frame /\ OneHandler' /\ stack' \in Seq(Frame)
         /\ FramesBalanced' <=> frame.words = 2
         /\ AtKeyboard' <=> frame.vector = KEYBOARD /\ frame.at = "entry"
         /\ EoiPaired' <=> (isr' <=> frame.vector = KEYBOARD /\ frame.at \in {"entry", "ack"})
<1>1. Len(stack') = 1 /\ stack'[1] = frame /\ stack' # <<>> /\ stack' \in Seq(Frame)
  OBVIOUS
<1>2. Handling' /\ Top' = frame /\ OneHandler'
  BY <1>1 DEF Handling, Top, OneHandler
<1>3. FramesBalanced' <=> frame.words = 2
  BY <1>1 DEF FramesBalanced
<1>4. AtKeyboard' <=> frame.vector = KEYBOARD /\ frame.at = "entry"
  BY <1>2 DEF AtKeyboard
<1>5. EoiPaired' <=> (isr' <=> frame.vector = KEYBOARD /\ frame.at \in {"entry", "ack"})
  BY <1>1 DEF EoiPaired
<1> QED
  BY <1>1, <1>2, <1>3, <1>4, <1>5

LEMMA EmptyPrimed ==
  ASSUME stack' = <<>>
  PROVE  /\ ~Handling' /\ ~AtKeyboard' /\ OneHandler' /\ stack' \in Seq(Frame)
         /\ FramesBalanced'
         /\ EoiPaired' <=> ~isr'
<1>1. Len(stack') = 0 /\ stack' \in Seq(Frame)
  OBVIOUS
<1> QED
  BY <1>1 DEF Handling, AtKeyboard, OneHandler, FramesBalanced, EoiPaired

-----------------------------------------------------------------------------
LEMMA InterruptsInit == Init => InterruptsInv
<1> SUFFICES ASSUME Init PROVE InterruptsInv
  OBVIOUS
<1>1. KeyboardTypeOK
  <2>1. sent = 0 /\ 0 \in 0 .. MAX_BYTES
    BY KeyboardAssumption DEF Init, KeyboardInit
  <2>2. full \in BOOLEAN /\ inputOn \in BOOLEAN /\ extended \in BOOLEAN
    BY DEF Init, KeyboardInit
  <2> QED
    BY <2>1, <2>2 DEF Init, KeyboardInit, KeyboardTypeOK
<1>2. TypeOK
  <2>1. copied \in 0 .. sent /\ got \in 0 .. sent
    BY DEF Init, KeyboardInit
  <2>3. <<>> \in Seq(Frame)
    OBVIOUS
  <2>2. masked \in BOOLEAN /\ irr \in BOOLEAN /\ isr \in BOOLEAN /\ intFlag \in BOOLEAN /\ missed \in BOOLEAN
    BY DEF Init
  <2> QED
    BY <1>1, <2>1, <2>2, <2>3 DEF Init, TypeOK
<1>3. stack = <<>> /\ Len(stack) = 0 /\ ~Handling /\ ~AtKeyboard
  <2>1. stack = <<>>
    BY DEF Init
  <2>2. Len(stack) = 0
    BY <2>1
  <2> QED
    BY <2>1, <2>2 DEF Handling, AtKeyboard
<1>4. OneHandler /\ FramesBalanced /\ EoiPaired
  BY <1>3 DEF Init, OneHandler, FramesBalanced, EoiPaired
<1>5. FlagOK /\ RequestOK /\ NoByteStuck /\ MaskedOK
  BY <1>3 DEF Init, KeyboardInit, FlagOK, RequestOK, NoPhantomRead, NoByteStuck, MaskedOK
<1>6. ExtendedTracks /\ BufferIsLast /\ GotOK
  BY DEF Init, KeyboardInit, ExtendedTracks, BufferIsLast, GotOK, Taken
<1> QED
  BY <1>2, <1>4, <1>5, <1>6 DEF InterruptsInv

(* What a step that leaves the driver and the program's copies alone keeps *)
LEMMA KeyboardUntouched ==
  ASSUME InterruptsInv, UNCHANGED <<keyboardVars, copied, got>>
  PROVE  /\ KeyboardTypeOK' /\ copied' \in 0 .. sent' /\ got' \in 0 .. sent'
         /\ ExtendedTracks' /\ BufferIsLast'
         /\ (pc' \notin {"flush", "sysflush"} => copied = 0) => GotOK'
BY DEF InterruptsInv, TypeOK, keyboardVars, KeyboardTypeOK, Taken, ExtendedTracks, BufferIsLast, GotOK

(* What a step that leaves the stack alone keeps.                          *)
LEMMA StackUntouched ==
  ASSUME InterruptsInv, UNCHANGED <<stack, isr>>
  PROVE  /\ stack' \in Seq(Frame) /\ isr' \in BOOLEAN
         /\ OneHandler' /\ FramesBalanced' /\ EoiPaired'
         /\ Handling' = Handling /\ AtKeyboard' = AtKeyboard
BY DEF InterruptsInv, TypeOK, OneHandler, FramesBalanced, EoiPaired, Handling, AtKeyboard, Top

LEMMA BootKeeps == InterruptsInv /\ Boot => InterruptsInv'
<1> SUFFICES ASSUME InterruptsInv, Boot PROVE InterruptsInv'
  OBVIOUS
<1>1. UNCHANGED <<keyboardVars, stack, copied, got>>
  BY DEF Boot, PicRemap, InitializeIdt, ActivateKeyboardInterrupt
<1>2. ~Handling /\ ~isr /\ isr' = isr /\ copied = 0 /\ ~AtKeyboard /\ pc' \notin {"flush", "sysflush"}
  <2>1. pc \in {"remap", "idt", "unmask"} /\ pc' \notin {"flush", "sysflush"}
    BY DEF Boot, PicRemap, InitializeIdt, ActivateKeyboardInterrupt
  <2>2. ~Handling /\ isr = FALSE /\ copied = 0 /\ ~AtKeyboard
    BY <2>1 DEF InterruptsInv, FlagOK, GotOK, TypeOK, AtKeyboard
  <2>3. isr' = isr
    BY <2>2 DEF Boot, PicRemap, InitializeIdt, ActivateKeyboardInterrupt
  <2> QED
    BY <2>1, <2>2, <2>3
<1>3. TypeOK'
  <2>1. /\ masked' \in BOOLEAN /\ irr' \in BOOLEAN /\ intFlag' \in BOOLEAN /\ missed' \in BOOLEAN
        /\ pc' \in {"remap", "idt", "unmask", "idle", "flush", "sysflush", "fault"}
    <3>1. TypeOK /\ full \in BOOLEAN
      BY DEF InterruptsInv, TypeOK, KeyboardTypeOK
    <3>2. CASE PicRemap
      BY <3>1, <3>2, Zenon DEF PicRemap, TypeOK
    <3>3. CASE InitializeIdt
      BY <3>1, <3>3, Zenon DEF InitializeIdt, TypeOK
    <3>4. CASE ActivateKeyboardInterrupt
      BY <3>1, <3>4, Zenon DEF ActivateKeyboardInterrupt, TypeOK
    <3> QED
      BY <3>2, <3>3, <3>4 DEF Boot
  <2>2. stack' \in Seq(Frame) /\ isr' \in BOOLEAN
    BY <1>1, <1>2, StackUntouched
  <2>3. KeyboardTypeOK' /\ copied' \in 0 .. sent' /\ got' \in 0 .. sent'
    BY <1>1, KeyboardUntouched
  <2> QED
    BY <2>1, <2>2, <2>3 DEF TypeOK
<1>4. FlagOK'
  BY <1>1, <1>2, StackUntouched
  DEF InterruptsInv, FlagOK, Boot, PicRemap, InitializeIdt, ActivateKeyboardInterrupt
<1>5. RequestOK' /\ NoByteStuck'
  BY <1>1, <1>2, StackUntouched
  DEF InterruptsInv, RequestOK, NoPhantomRead, NoByteStuck, keyboardVars, Boot, PicRemap, InitializeIdt, ActivateKeyboardInterrupt
<1>6. MaskedOK'
  BY <1>2 DEF MaskedOK
<1> QED
  BY <1>1, <1>2, <1>3, <1>4, <1>5, <1>6, KeyboardUntouched, StackUntouched DEF InterruptsInv

LEMMA SendKeeps == InterruptsInv /\ SendByte => InterruptsInv'
<1> SUFFICES ASSUME InterruptsInv, SendByte PROVE InterruptsInv'
  OBVIOUS
<1>1. /\ ~full /\ sent < MAX_BYTES /\ sent' = sent + 1 /\ full' = TRUE /\ irr' = TRUE
      /\ UNCHANGED <<script, inputOn, extended, buffer, masked, isr, intFlag, stack, pc, copied, got, missed>>
  BY DEF SendByte, Load
<1>2. KeyboardTypeOK /\ TypeOK
  BY DEF InterruptsInv, TypeOK
<1>3. KeyboardTypeOK'
  BY <1>1, <1>2, KeyboardAssumption DEF KeyboardTypeOK
<1>4. Taken' = Taken /\ Taken = sent
  BY <1>1, <1>2 DEF Taken, KeyboardTypeOK
<1>5. TypeOK'
  BY <1>1, <1>2, <1>3 DEF TypeOK, KeyboardTypeOK
<1>6. ExtendedTracks' /\ BufferIsLast' /\ GotOK'
  BY <1>1, <1>4 DEF InterruptsInv, ExtendedTracks, BufferIsLast, GotOK
<1>7. ~AtKeyboard /\ ~AtKeyboard'
  BY <1>1, StackUntouched DEF InterruptsInv, RequestOK, NoPhantomRead
<1>8. RequestOK' /\ NoByteStuck' /\ FlagOK' /\ MaskedOK'
  BY <1>1, <1>7, StackUntouched DEF InterruptsInv, RequestOK, NoPhantomRead, NoByteStuck, FlagOK, MaskedOK
<1> QED
  BY <1>1, <1>5, <1>6, <1>8, StackUntouched DEF InterruptsInv

LEMMA DispatchKeeps == InterruptsInv /\ Dispatch => InterruptsInv'
<1> SUFFICES ASSUME InterruptsInv, Dispatch PROVE InterruptsInv'
  OBVIOUS
<1>1. /\ intFlag /\ irr /\ ~masked /\ ~isr /\ irr' = FALSE /\ isr' = TRUE
      /\ pc # "sysflush" /\ Enter(KEYBOARD)
      /\ UNCHANGED <<keyboardVars, masked, pc, copied, got, missed>>
  BY DEF Dispatch, Interruptible, GateFlag
<1>2. ~Handling /\ TypeOK /\ full /\ pc \in {"idle", "flush", "fault"}
  BY <1>1 DEF InterruptsInv, FlagOK, RequestOK, TypeOK
<1>3. PICK frame \in Frame :
        /\ stack' = <<frame>> /\ frame.vector = KEYBOARD /\ frame.at = "entry" /\ frame.words = 2
        /\ intFlag' = FALSE
  BY <1>1, <1>2, Entered
<1>4. /\ Handling' /\ OneHandler' /\ stack' \in Seq(Frame) /\ FramesBalanced' /\ AtKeyboard' /\ EoiPaired'
  BY <1>1, <1>3, FramePrimed
<1>5. TypeOK'
  BY <1>1, <1>2, <1>3, <1>4, KeyboardUntouched DEF TypeOK
<1>6. FlagOK' /\ RequestOK' /\ NoByteStuck' /\ MaskedOK'
  BY <1>1, <1>2, <1>3, <1>4 DEF FlagOK, RequestOK, NoPhantomRead, NoByteStuck, MaskedOK, keyboardVars
<1>7. ExtendedTracks' /\ BufferIsLast' /\ GotOK'
  BY <1>1, KeyboardUntouched DEF InterruptsInv, GotOK
<1> QED
  BY <1>4, <1>5, <1>6, <1>7 DEF InterruptsInv

-----------------------------------------------------------------------------
(* The frame of a handler that goes on.                                    *)
LEMMA Moved ==
  ASSUME TypeOK, OneHandler, Handling, NEW place \in {"entry", "ack", "return"}, MoveTo(place)
  PROVE  \E frame \in Frame :
           /\ stack' = <<frame>>
           /\ frame.vector = Top.vector /\ frame.words = Top.words /\ frame.at = place
<1>1. Len(stack) = 1 /\ Top \in Frame /\ stack = <<Top>>
  BY OneFrame
<1>2. stack' = [stack EXCEPT ![1].at = place]
  BY <1>1 DEF MoveTo
<1>3. [Top EXCEPT !.at = place] \in Frame
  BY <1>1 DEF Frame
<1>4. stack' = <<[Top EXCEPT !.at = place]>>
  BY <1>1, <1>2
<1> QED
  BY <1>1, <1>3, <1>4 DEF Frame

(* What the invariant says of a running handler.                           *)
LEMMA Running ==
  ASSUME InterruptsInv, Handling
  PROVE  /\ Top \in Frame /\ Top.words = 2 /\ intFlag = FALSE
         /\ isr <=> Top.vector = KEYBOARD /\ Top.at \in {"entry", "ack"}
         /\ pc \in {"idle", "flush", "fault"} /\ pc # "sysflush"
<1>1. TypeOK /\ OneHandler /\ FramesBalanced /\ EoiPaired /\ FlagOK /\ MaskedOK
  BY DEF InterruptsInv
<1>2. Len(stack) = 1 /\ Top \in Frame /\ Top = stack[1]
  BY <1>1, OneFrame
<1>3. Top.words = 2
  BY <1>1, <1>2 DEF FramesBalanced
<1>4. isr <=> Top.vector = KEYBOARD /\ Top.at \in {"entry", "ack"}
  BY <1>1, <1>2 DEF EoiPaired
<1>5. intFlag = FALSE /\ pc \in {"idle", "flush", "fault"} /\ pc # "sysflush"
  BY <1>1 DEF TypeOK, FlagOK, MaskedOK
<1> QED
  BY <1>2, <1>3, <1>4, <1>5

LEMMA HandleKeyboardKeeps == InterruptsInv /\ HandleKeyboard => InterruptsInv'
<1> SUFFICES ASSUME InterruptsInv, HandleKeyboard PROVE InterruptsInv'
  OBVIOUS
<1>1. /\ Handling /\ Top.at = "entry" /\ Top.vector = KEYBOARD
      /\ KeyboardIsr /\ MoveTo("ack") /\ missed' = (missed \/ ~inputOn)
      /\ UNCHANGED <<masked, irr, isr, intFlag, pc, copied, got>>
      /\ UNCHANGED <<script, sent, inputOn>>
  BY DEF HandleKeyboard, AfterIsr, KeyboardIsr
<1>2. /\ AtKeyboard /\ full = TRUE /\ irr = FALSE /\ isr = TRUE
      /\ TypeOK /\ KeyboardTypeOK /\ OneHandler
  BY <1>1, Running DEF InterruptsInv, AtKeyboard, RequestOK, NoPhantomRead, TypeOK, KeyboardTypeOK
<1>3. sent \in 1 .. MAX_BYTES /\ Taken = sent - 1 /\ script[sent] \in Kinds
  <2>1. sent \in 0 .. MAX_BYTES /\ Taken = sent - 1 /\ Taken >= 0
    BY <1>2 DEF KeyboardTypeOK, Taken, InterruptsInv, GotOK, TypeOK
  <2> QED
    BY <1>2, <2>1, KeyboardAssumption DEF KeyboardTypeOK, Scripts
<1>4. PICK frame \in Frame :
        stack' = <<frame>> /\ frame.vector = KEYBOARD /\ frame.words = 2 /\ frame.at = "ack"
  BY <1>1, <1>2, Moved, Running
<1>5. /\ Handling' /\ OneHandler' /\ stack' \in Seq(Frame) /\ FramesBalanced' /\ ~AtKeyboard' /\ EoiPaired'
  BY <1>1, <1>2, <1>4, FramePrimed
<1>6. FlagOK' /\ RequestOK' /\ MaskedOK'
  BY <1>1, <1>2, <1>5, Running DEF FlagOK, RequestOK, NoPhantomRead, MaskedOK
<1>7. CASE inputOn
  <2>1. /\ full' = FALSE
        /\ extended' \in BOOLEAN /\ (extended' <=> script[sent] = "extended")
        /\ buffer' = IF script[sent] = "extended" \/ extended THEN buffer
                     ELSE IF script[sent] = "make" THEN sent ELSE 0
    BY <1>1, <1>7 DEF KeyboardIsr, Takes, NowExtended, NowBuffer
  <2>2. Taken' = sent
    BY <1>1, <2>1 DEF Taken
  <2>3. KeyboardTypeOK'
    <3>1. buffer' \in {0} \cup {i \in 1 .. sent : script[i] = "make"}
      BY <1>2, <1>3, <2>1 DEF KeyboardTypeOK
    <3> QED
      BY <1>1, <1>2, <2>1, <3>1 DEF KeyboardTypeOK
  <2>4. TypeOK'
    BY <1>1, <1>2, <1>5, <2>3 DEF TypeOK
  <2>5. ExtendedTracks'
    BY <1>1, <1>3, <2>1, <2>2 DEF ExtendedTracks
  <2>6. BufferIsLast'
    <3>1. SUFFICES ASSUME buffer' # 0, NEW i \in buffer' + 1 .. sent
                   PROVE  "extended" \in {script[i - 1], script[i]}
      BY <1>1, <2>2 DEF BufferIsLast
    <3>2. CASE buffer' = sent
      BY <1>3, <3>1, <3>2
    <3>3. CASE buffer' = buffer /\ (script[sent] = "extended" \/ extended)
      <4>1. buffer \in 1 .. sent /\ buffer # 0
        BY <1>2, <3>1, <3>3 DEF KeyboardTypeOK
      <4>2. CASE i = sent
        BY <1>3, <3>3, <4>2 DEF InterruptsInv, ExtendedTracks
      <4>3. CASE i # sent
        <5>1. i \in buffer + 1 .. Taken
          BY <1>3, <3>1, <3>3, <4>1, <4>3
        <5> QED
          BY <4>1, <5>1 DEF InterruptsInv, BufferIsLast
      <4> QED
        BY <4>2, <4>3
    <3> QED
      BY <2>1, <3>1, <3>2, <3>3
  <2>7. GotOK'
    <3>1. got <= Taken /\ copied <= Taken /\ got \in Int /\ copied \in Int
      BY <1>2, <1>3 DEF InterruptsInv, GotOK, TypeOK
    <3>2. got < sent /\ copied < sent
      BY <1>3, <3>1
    <3>3. buffer' # 0 => buffer' = buffer \/ buffer' = sent
      BY <2>1
    <3>4. got <= sent /\ copied <= sent /\ buffer' <= sent
      BY <1>2, <1>3, <2>1, <3>1, <3>2 DEF KeyboardTypeOK
    <3>5. buffer' # 0 => got < buffer' /\ copied <= buffer'
      BY <1>3, <3>1, <3>2, <3>3 DEF InterruptsInv, GotOK
    <3> QED
      BY <1>1, <2>2, <3>4, <3>5 DEF InterruptsInv, GotOK
  <2>8. NoByteStuck'
    BY <2>1 DEF NoByteStuck
  <2> QED
    BY <1>5, <1>6, <2>4, <2>5, <2>6, <2>7, <2>8 DEF InterruptsInv
<1>8. CASE ~inputOn
  <2>1. UNCHANGED <<keyboardVars, copied, got>> /\ missed' = TRUE
    BY <1>1, <1>8 DEF KeyboardIsr, Takes, keyboardVars
  <2>2. TypeOK'
    BY <1>1, <1>2, <1>5, <2>1, KeyboardUntouched DEF TypeOK
  <2>3. NoByteStuck'
    BY <2>1 DEF NoByteStuck
  <2>4. ExtendedTracks' /\ BufferIsLast' /\ GotOK'
    BY <1>1, <2>1, KeyboardUntouched DEF InterruptsInv, GotOK
  <2> QED
    BY <1>5, <1>6, <2>2, <2>3, <2>4 DEF InterruptsInv
<1> QED
  BY <1>7, <1>8

(* The other steps of a handler leave the driver alone.                    *)
LEMMA HandlerKeeps == InterruptsInv /\ (PicAck \/ HandleOther \/ Return) => InterruptsInv'
<1> SUFFICES ASSUME InterruptsInv, PicAck \/ HandleOther \/ Return PROVE InterruptsInv'
  OBVIOUS
<1>1. Handling /\ UNCHANGED <<keyboardVars, masked, irr, pc, copied, got, missed>>
  BY DEF PicAck, HandleOther, Return
<1>2. TypeOK /\ OneHandler
  BY DEF InterruptsInv
<1>3. ~AtKeyboard
  <2>1. Top.at = "entry" => Top.vector # KEYBOARD
    BY DEF PicAck, HandleOther, Return
  <2> QED
    BY <2>1 DEF AtKeyboard
<1>4. /\ stack' \in Seq(Frame) /\ isr' \in BOOLEAN /\ intFlag' \in BOOLEAN
      /\ OneHandler' /\ FramesBalanced' /\ EoiPaired' /\ ~AtKeyboard'
      /\ Handling' => ~intFlag'
  <2>1. CASE PicAck
    <3>1. Top.at = "ack" /\ isr' = FALSE /\ MoveTo("return") /\ intFlag' = intFlag
      BY <2>1 DEF PicAck
    <3>2. PICK frame \in Frame : stack' = <<frame>> /\ frame.words = 2 /\ frame.at = "return"
      BY <1>1, <1>2, <3>1, Moved, Running
    <3> QED
      BY <1>1, <3>1, <3>2, FramePrimed, Running
  <2>2. CASE HandleOther
    <3>1. Top.vector # KEYBOARD /\ isr' = isr /\ MoveTo("return") /\ intFlag' = intFlag
      BY <2>2 DEF HandleOther
    <3>2. PICK frame \in Frame : stack' = <<frame>> /\ frame.words = 2 /\ frame.at = "return"
      BY <1>1, <1>2, <3>1, Moved, Running
    <3>3. isr' = FALSE
      BY <1>1, <1>2, <3>1, Running DEF TypeOK
    <3> QED
      BY <1>1, <3>1, <3>2, <3>3, FramePrimed, Running
  <2>3. CASE Return
    <3>1. Top.at = "return" /\ isr' = isr /\ intFlag' = Top.intFlag
          /\ stack' = SubSeq(stack, 1, Len(stack) - 1)
      BY <2>3 DEF Return
    <3>2. Len(stack) = 1 /\ stack = <<Top>> /\ Top \in Frame
      BY <1>1, <1>2, OneFrame
    <3>3. stack' = <<>>
      BY <3>1, <3>2
    <3>4. isr' = FALSE
      BY <1>1, <1>2, <3>1, Running DEF TypeOK
    <3>5. intFlag' \in BOOLEAN
      BY <3>1, <3>2 DEF Frame
    <3> QED
      BY <3>3, <3>4, <3>5, EmptyPrimed
  <2> QED
    BY <2>1, <2>2, <2>3
<1>5. TypeOK'
  BY <1>1, <1>2, <1>4, KeyboardUntouched DEF TypeOK
<1>6. FlagOK' /\ MaskedOK'
  BY <1>1, <1>4, Running DEF FlagOK, MaskedOK
<1>7. RequestOK' /\ NoByteStuck'
  BY <1>1, <1>3, <1>4 DEF InterruptsInv, RequestOK, NoPhantomRead, NoByteStuck, keyboardVars
<1>8. ExtendedTracks' /\ BufferIsLast' /\ GotOK'
  BY <1>1, KeyboardUntouched DEF InterruptsInv, GotOK
<1> QED
  BY <1>4, <1>5, <1>6, <1>7, <1>8 DEF InterruptsInv

-----------------------------------------------------------------------------
(* An exception or an int instruction enters a handler that only returns.  *)
LEMMA EnterKeeps ==
  ASSUME InterruptsInv, pc \in {"idle", "fault"}, ~Handling,
         NEW vector \in Faults \cup SoftInts, vector # KEYBOARD, Enter(vector),
         pc' \in {"idle", "fault"},
         UNCHANGED <<keyboardVars, masked, irr, isr, copied, got, missed>>
  PROVE  InterruptsInv'
<1>1. TypeOK /\ OneHandler /\ isr = FALSE /\ ~AtKeyboard /\ copied = 0
  <2>1. TypeOK /\ OneHandler /\ EoiPaired /\ ~AtKeyboard /\ copied = 0
    BY DEF InterruptsInv, AtKeyboard, GotOK
  <2>2. Len(stack) = 0
    BY <2>1, OneFrame
  <2>3. isr = FALSE
    BY <2>1, <2>2 DEF EoiPaired, TypeOK
  <2> QED
    BY <2>1, <2>3
<1>2. PICK frame \in Frame :
        /\ stack' = <<frame>> /\ frame.vector = vector /\ frame.at = "entry" /\ frame.words = 2
        /\ intFlag' = FALSE
  BY <1>1, Entered
<1>3. /\ Handling' /\ OneHandler' /\ stack' \in Seq(Frame) /\ FramesBalanced' /\ ~AtKeyboard' /\ EoiPaired'
  BY <1>1, <1>2, FramePrimed
<1>4. TypeOK'
  BY <1>1, <1>2, <1>3, KeyboardUntouched DEF TypeOK
<1>5. FlagOK' /\ RequestOK' /\ NoByteStuck' /\ MaskedOK'
  BY <1>1, <1>2, <1>3
  DEF InterruptsInv, FlagOK, RequestOK, NoPhantomRead, NoByteStuck, MaskedOK, keyboardVars
<1>6. ExtendedTracks' /\ BufferIsLast' /\ GotOK'
  BY <1>1, KeyboardUntouched
<1> QED
  BY <1>3, <1>4, <1>5, <1>6 DEF InterruptsInv

LEMMA CallsKeep ==
  InterruptsInv /\ (Activate \/ Deactivate \/ GetCopy \/ GetFlush) => InterruptsInv'
<1> SUFFICES ASSUME InterruptsInv, Activate \/ Deactivate \/ GetCopy \/ GetFlush
             PROVE  InterruptsInv'
  OBVIOUS
<1>1. /\ ~Handling /\ pc \in {"idle", "flush", "sysflush"} /\ pc' \in {"idle", "flush", "sysflush"}
      /\ UNCHANGED <<script, sent, full, extended, masked, irr, isr, intFlag, stack, missed>>
  BY DEF Activate, Deactivate, GetCopy, GetFlush, SetInput, FlushBuffer, keyboardVars
<1>2. TypeOK /\ KeyboardTypeOK /\ Taken' = Taken
  BY <1>1 DEF InterruptsInv, TypeOK, Taken
<1>3. /\ stack' \in Seq(Frame) /\ OneHandler' /\ FramesBalanced' /\ EoiPaired'
      /\ Handling' = Handling /\ AtKeyboard' = AtKeyboard
  BY <1>1, StackUntouched
<1>4. FlagOK' /\ RequestOK' /\ NoByteStuck' /\ ExtendedTracks'
  BY <1>1, <1>2, <1>3
  DEF InterruptsInv, FlagOK, RequestOK, NoPhantomRead, NoByteStuck, ExtendedTracks
<1>5. inputOn' \in BOOLEAN
  BY <1>2 DEF Activate, Deactivate, GetCopy, GetFlush, SetInput, FlushBuffer, keyboardVars, KeyboardTypeOK
<1>6. CASE Activate \/ Deactivate
  <2>1. UNCHANGED <<buffer, pc, copied, got>>
    BY <1>6 DEF Activate, Deactivate, SetInput
  <2>2. TypeOK'
    BY <1>1, <1>2, <1>3, <1>5, <2>1 DEF TypeOK, KeyboardTypeOK
  <2>3. BufferIsLast' /\ GotOK' /\ MaskedOK'
    BY <1>1, <1>2, <1>3, <2>1 DEF InterruptsInv, BufferIsLast, GotOK, MaskedOK
  <2> QED
    BY <1>3, <1>4, <2>2, <2>3 DEF InterruptsInv
<1>7. CASE GetCopy
  <2>1. /\ pc = "idle" /\ pc' \in {"flush", "sysflush"} /\ copied' = buffer /\ UNCHANGED <<buffer, got>>
    BY <1>7 DEF GetCopy, keyboardVars
  <2>2. buffer <= Taken /\ buffer \in 0 .. sent
    BY <1>2 DEF InterruptsInv, GotOK, KeyboardTypeOK
  <2>3. TypeOK'
    BY <1>1, <1>2, <1>3, <1>5, <2>1, <2>2 DEF TypeOK, KeyboardTypeOK
  <2>4. BufferIsLast' /\ MaskedOK'
    BY <1>1, <1>2, <1>3, <2>1 DEF InterruptsInv, BufferIsLast, MaskedOK
  <2>5. GotOK'
    BY <1>1, <1>2, <2>1, <2>2 DEF InterruptsInv, GotOK, KeyboardTypeOK
  <2> QED
    BY <1>3, <1>4, <2>3, <2>4, <2>5 DEF InterruptsInv
<1>8. CASE GetFlush
  <2>1. /\ pc \in {"flush", "sysflush"} /\ pc' = "idle" /\ copied' = 0 /\ buffer' = 0
        /\ got' = IF copied = 0 THEN got ELSE copied
    BY <1>8 DEF GetFlush, FlushBuffer, FlushedBuffer
  <2>2. TypeOK'
    BY <1>1, <1>2, <1>3, <1>5, <2>1 DEF TypeOK, KeyboardTypeOK
  <2>3. 0 <= Taken
    BY <1>2 DEF InterruptsInv, GotOK, TypeOK, KeyboardTypeOK, Taken
  <2>4. BufferIsLast' /\ MaskedOK' /\ GotOK'
    BY <1>1, <1>2, <2>1, <2>3 DEF InterruptsInv, BufferIsLast, GotOK, MaskedOK
  <2> QED
    BY <1>3, <1>4, <2>2, <2>4 DEF InterruptsInv
<1> QED
  BY <1>6, <1>7, <1>8

LEMMA ProgramKeeps == InterruptsInv /\ Program => InterruptsInv'
<1> SUFFICES ASSUME InterruptsInv, Program PROVE InterruptsInv'
  OBVIOUS
<1>1. CASE Activate \/ Deactivate \/ GetCopy \/ GetFlush
  BY <1>1, CallsKeep
<1>2. \A vector \in Faults : vector # KEYBOARD
  BY InterruptsAssumption DEF KEYBOARD
<1>3. CASE RaiseFault
  <2>1. PICK vector \in Faults : Fault(vector)
    BY <1>3 DEF RaiseFault
  <2> QED
    BY <1>2, <1>3, <2>1, EnterKeeps DEF RaiseFault, Fault
<1>4. CASE SoftInt
  <2>1. PICK vector \in SoftInts :
          IF Dpl(vector) = 3
          THEN /\ Enter(vector)
               /\ UNCHANGED <<keyboardVars, masked, irr, isr, pc, copied, got, missed>>
          ELSE Fault(GP_FAULT)
    BY <1>4 DEF SoftInt
  <2>2. CASE Dpl(vector) = 3
    <3>1. vector # KEYBOARD
      BY <2>2 DEF Dpl, KEYBOARD
    <3> QED
      BY <1>4, <2>1, <2>2, <3>1, EnterKeeps DEF SoftInt
  <2>3. CASE Dpl(vector) # 3
    BY <1>2, <1>4, <2>1, <2>3, EnterKeeps, InterruptsAssumption DEF SoftInt, Fault
  <2> QED
    BY <2>2, <2>3
<1> QED
  BY <1>1, <1>3, <1>4 DEF Program

-----------------------------------------------------------------------------
(* What the interrupt path and the driver keep at every step.              *)
THEOREM InterruptsCorrect == Spec => []InterruptsInv
<1>1. InterruptsInv /\ [Next]_vars => InterruptsInv'
  <2>1. InterruptsInv /\ UNCHANGED vars => InterruptsInv'
    <3> SUFFICES ASSUME InterruptsInv, UNCHANGED vars PROVE InterruptsInv'
      OBVIOUS
    <3>1. UNCHANGED <<keyboardVars, masked, irr, isr, intFlag, stack, pc, copied, got, missed>>
      BY DEF vars
    <3>2. TypeOK'
      BY <3>1, KeyboardUntouched DEF InterruptsInv, TypeOK
    <3>3. FlagOK' /\ RequestOK' /\ NoByteStuck' /\ MaskedOK'
      BY <3>1, StackUntouched
      DEF InterruptsInv, FlagOK, RequestOK, NoPhantomRead, NoByteStuck, MaskedOK, keyboardVars
    <3> QED
      BY <3>1, <3>2, <3>3, KeyboardUntouched, StackUntouched DEF InterruptsInv, GotOK
  <2> QED
    BY <2>1, BootKeeps, SendKeeps, DispatchKeeps, HandleKeyboardKeeps, HandlerKeeps, ProgramKeeps
    DEF Next, Handler
<1> QED
  BY InterruptsInit, <1>1, PTL DEF Spec

(* Handlers do not nest: the kernel stack is bounded.                      *)
THEOREM OneHandlerCorrect == Spec => []OneHandler
<1>1. InterruptsInv => OneHandler
  BY DEF InterruptsInv
<1> QED
  BY <1>1, InterruptsCorrect, PTL

(* Every keyboard interrupt is acknowledged once.                          *)
THEOREM EoiCorrect == Spec => []EoiPaired
<1>1. InterruptsInv => EoiPaired
  BY DEF InterruptsInv
<1> QED
  BY <1>1, InterruptsCorrect, PTL

(* The handler never reads a byte twice.                                   *)
THEOREM PhantomCorrect == Spec => []NoPhantomRead
<1>1. InterruptsInv => NoPhantomRead
  BY DEF InterruptsInv, RequestOK
<1> QED
  BY <1>1, InterruptsCorrect, PTL

(* No byte waits without an interrupt to come, but one missed before.      *)
THEOREM StuckCorrect == Spec => []NoByteStuck
<1>1. InterruptsInv => NoByteStuck
  BY DEF InterruptsInv
<1> QED
  BY <1>1, InterruptsCorrect, PTL

(* Presses reach the program in order and at most once.                    *)
THEOREM OrderCorrect == Spec => GotInOrder
<1>1. InterruptsInv => (pc' = "idle" /\ pc \in {"flush", "sysflush"} /\ copied # 0 => copied > got)
  BY DEF InterruptsInv, GotOK, TypeOK
<1> QED
  BY <1>1, InterruptsCorrect, PTL DEF Spec, GotInOrder

(* Behind an interrupt gate get_keyboard_buffer() loses no character.      *)
THEOREM FlushCorrect == Spec => FlushedWasGot
<1>1. InterruptsInv => (pc = "sysflush" /\ pc' = "idle" /\ buffer # 0 => buffer = copied)
  BY DEF InterruptsInv, MaskedOK
<1> QED
  BY <1>1, InterruptsCorrect, PTL DEF Spec, FlushedWasGot

=============================================================================
