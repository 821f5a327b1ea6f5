----------------------------- MODULE KernelProofs -----------------------------
(***************************************************************************)
(* The machine of module Kernel.  A trap gives back what it found, for     *)
(* every set of vectors and wherever the kernel is when it happens: the    *)
(* invariant says word by word what lies on the stack at each place of a   *)
(* trap.  The machine's storage is one of module FAT32Crash, so that the   *)
(* theorems of CrashProofs hold of it, boots come to leave it alone, and   *)
(* what the kernel reads into page 0 is the shell that was inserted.       *)
(***************************************************************************)
EXTENDS Kernel, CrashProofs, StoreProofs, SequenceTheorems, TLAPS

-----------------------------------------------------------------------------
(* Traps                                                                   *)

Regs ==
  [eax : Int, ecx : Int, edx : Int, ebx : Int, ebp : Int, esi : Int, edi : Int, esp : Int,
   eip : Int, eflags : Int, cs : Int, ss : Int, ds : Int, es : Int, fs : Int, gs : Int]

(* The CPU is in the kernel or in a program, with the stack to match.      *)
RingOK(regs) ==
  \/ regs.cs = KCODE /\ regs.ss = KDATA
  \/ regs.cs = UCODE /\ regs.ss = UDATA

InTrap == place \in {"stub", "handler", "return"}

(* The kernel's stack under what the trap pushes.                          *)
Base(was) == IF FromProgram(was.cpu) THEN SubSeq(was.stack, 1, esp0) ELSE was.stack

(* The words a change of ring adds.                                        *)
Extra(was) == IF FromProgram(was.cpu) THEN 2 ELSE 0

At(s, k) == s[Len(s) - k]

(* What the CPU pushed, from the k-th word under the top of s on.          *)
CpuWords(was, s, k) ==
  /\ s \in Seq(Int)
  /\ Len(s) = Len(Base(was)) + Extra(was) + 3 + k
  /\ \A j \in 1 .. Len(Base(was)) : s[j] = Base(was)[j]
  /\ At(s, k) = was.cpu.eip /\ At(s, k + 1) = was.cpu.cs /\ At(s, k + 2) = was.cpu.eflags
  /\ FromProgram(was.cpu) => At(s, k + 3) = was.cpu.esp /\ At(s, k + 4) = was.cpu.ss

(* The vector and the code, from the k-th word under the top of s on.      *)
StubWords(was, s, k) ==
  /\ CpuWords(was, s, k + 2)
  /\ At(s, k) = was.vector /\ At(s, k + 1) = ErrorCode(was.vector)

SegmentWords(was, s, k) ==
  /\ StubWords(was, s, k + 4)
  /\ At(s, k) = was.cpu.gs /\ At(s, k + 1) = was.cpu.fs
  /\ At(s, k + 2) = was.cpu.es /\ At(s, k + 3) = was.cpu.ds

AllWords(was, s) ==
  /\ SegmentWords(was, s, 8)
  /\ At(s, 0) = was.cpu.edi /\ At(s, 1) = was.cpu.esi /\ At(s, 2) = was.cpu.ebp
  /\ At(s, 4) = was.cpu.ebx /\ At(s, 5) = was.cpu.edx
  /\ At(s, 6) = was.cpu.ecx /\ At(s, 7) = was.cpu.eax

RegsOK ==
  /\ place \in {"run", "stub", "handler", "return", "fault"}
  /\ cpu \in Regs
  /\ stack \in Seq(Int)
  /\ esp0 \in Nat

(* What a trap has found.                                                  *)
BeforeOK(was) ==
  /\ was.cpu \in Regs /\ RingOK(was.cpu)
  /\ was.stack \in Seq(Int) /\ esp0 <= Len(was.stack)
  /\ was.vector \in Vectors

TrapsInv ==
  /\ RegsOK
  /\ place = "run" => RingOK(cpu) /\ esp0 <= Len(stack)
  /\ InTrap => BeforeOK(before) /\ cpu.ss = KDATA /\ cpu.esp = before.cpu.esp
  /\ place = "stub" =>
       /\ cpu = [before.cpu EXCEPT !.cs = KCODE, !.ss = KDATA, !.eip = STUB]
       /\ IF before.vector \in CpuCodes
            THEN CpuWords(before, stack, 1) /\ At(stack, 0) = CODE
            ELSE CpuWords(before, stack, 0)
  /\ place \in {"handler", "return"} => AllWords(before, stack)

-----------------------------------------------------------------------------
(* The address the CPU puts together is the one that was spread.           *)
THEOREM BaseRead ==
  ASSUME NEW base \in Nat, base \div 16777216 < 256
  PROVE  BaseOf(BaseFields(base)) = base
<1> DEFINE q == base \div 65536
           h == base \div 16777216
<1>1. q \in Nat /\ base = q * 65536 + (base % 65536)
  BY SMT
<1>2. h \in Nat /\ h = q \div 256
  BY SMT
<1>3. q = h * 256 + (q % 256) /\ h % 256 = h
  BY <1>1, <1>2, SMT
<1> QED
  BY <1>1, <1>2, <1>3, SMT DEF BaseOf, BaseFields

(* A push leaves what was on the stack, further from the top.              *)
LEMMA Pushed ==
  ASSUME NEW s \in Seq(Int), NEW u \in Seq(Int)
  PROVE  /\ s \o u \in Seq(Int) /\ Len(s \o u) = Len(s) + Len(u)
         /\ \A j \in 1 .. Len(s) : (s \o u)[j] = s[j]
         /\ \A k \in 0 .. Len(u) - 1 : At(s \o u, k) = At(u, k)
         /\ \A k \in 0 .. Len(s) - 1 : At(s \o u, Len(u) + k) = At(s, k)
<1> DEFINE t == s \o u
<1>1. /\ t \in Seq(Int) /\ Len(t) = Len(s) + Len(u)
      /\ \A j \in 1 .. Len(s) : t[j] = s[j]
      /\ \A j \in 1 .. Len(u) : t[Len(s) + j] = u[j]
  OBVIOUS
<1> HIDE DEF t
<1>2. ASSUME NEW k \in 0 .. Len(u) - 1 PROVE At(t, k) = At(u, k)
  <2>1. Len(u) - k \in 1 .. Len(u) /\ Len(t) - k = Len(s) + (Len(u) - k)
    BY <1>1
  <2> QED
    BY <2>1, <1>1 DEF At
<1>3. ASSUME NEW k \in 0 .. Len(s) - 1 PROVE At(t, Len(u) + k) = At(s, k)
  <2>1. Len(s) - k \in 1 .. Len(s) /\ Len(t) - (Len(u) + k) = Len(s) - k
    BY <1>1
  <2> QED
    BY <2>1, <1>1 DEF At
<1> QED
  BY <1>1, <1>2, <1>3 DEF t

LEMMA CutBack ==
  ASSUME NEW s \in Seq(Int), NEW b \in Seq(Int), Len(b) <= Len(s),
         \A j \in 1 .. Len(b) : s[j] = b[j]
  PROVE  SubSeq(s, 1, Len(b)) = b
<1> DEFINE c == SubSeq(s, 1, Len(b))
<1>1. Len(b) \in Nat /\ Len(b) \in 0 .. Len(s)
  OBVIOUS
<1>2. c \in Seq(Int) /\ Len(c) = Len(b) /\ \A j \in 1 .. Len(b) : c[j] = s[j]
  BY <1>1
<1> HIDE DEF c
<1>3. \A j \in 1 .. Len(c) : c[j] = b[j]
  BY <1>2
<1> QED
  BY <1>2, <1>3, SeqEqual DEF c

LEMMA BaseTyped ==
  ASSUME NEW was, esp0 \in Nat, BeforeOK(was)
  PROVE  /\ Base(was) \in Seq(Int) /\ Len(Base(was)) \in Nat
         /\ Extra(was) \in {0, 2} /\ (FromProgram(was.cpu) => Extra(was) = 2)
         /\ FromProgram(was.cpu) => Len(Base(was)) = esp0
<1>1. SubSeq(was.stack, 1, esp0) \in Seq(Int) /\ Len(SubSeq(was.stack, 1, esp0)) = esp0
  BY DEF BeforeOK
<1> QED
  BY <1>1 DEF Base, Extra, BeforeOK

(* Facts of Pushed for the words the trap has pushed.                      *)
LEMMA CpuWordsPushed ==
  ASSUME NEW was, NEW s \in Seq(Int), NEW u \in Seq(Int), NEW k \in Nat, esp0 \in Nat,
         BeforeOK(was), CpuWords(was, s, k)
  PROVE  CpuWords(was, s \o u, k + Len(u))
<1>1. Base(was) \in Seq(Int) /\ Extra(was) \in {0, 2} /\ (FromProgram(was.cpu) => Extra(was) = 2)
  BY BaseTyped
<1> DEFINE t == s \o u
           l == k + Len(u)
<1>2. t \in Seq(Int) /\ Len(t) = Len(s) + Len(u) /\ Len(u) \in Nat
  BY Pushed
<1>3. Len(t) = Len(Base(was)) + Extra(was) + 3 + l
  <2>1. Len(s) = Len(Base(was)) + Extra(was) + 3 + k /\ Len(Base(was)) \in Nat
    BY BaseTyped DEF CpuWords
  <2> QED
    BY <2>1, <1>1, <1>2
<1>4. \A j \in 1 .. Len(Base(was)) : t[j] = Base(was)[j]
  <2>1. /\ Len(s) = Len(Base(was)) + Extra(was) + 3 + k /\ Len(Base(was)) \in Nat
        /\ \A j \in 1 .. Len(Base(was)) : s[j] = Base(was)[j]
    BY BaseTyped DEF CpuWords
  <2>2. \A j \in 1 .. Len(s) : t[j] = s[j]
    BY Pushed
  <2>3. \A j \in 1 .. Len(Base(was)) : j \in 1 .. Len(s)
    BY <2>1, <1>1
  <2> QED
    BY <2>1, <2>2, <2>3
<1>5. \A j \in 0 .. 4 : k + j < Len(s) => At(t, l + j) = At(s, k + j)
  <2> SUFFICES ASSUME NEW j \in 0 .. 4, k + j < Len(s)
               PROVE  At(t, l + j) = At(s, k + j)
    OBVIOUS
  <2>1. k + j \in 0 .. Len(s) - 1 /\ l + j = Len(u) + (k + j)
    BY <1>2
  <2>2. At(s \o u, Len(u) + (k + j)) = At(s, k + j)
    BY <2>1, Pushed, Zenon
  <2> QED
    BY <2>1, <2>2
<1>6. k + 2 < Len(s) /\ (FromProgram(was.cpu) => k + 4 < Len(s))
  <2>1. Len(s) = Len(Base(was)) + Extra(was) + 3 + k
    BY DEF CpuWords
  <2>2. Len(Base(was)) \in Nat
    BY BaseTyped
  <2> QED
    BY <1>1, <2>1, <2>2
<1>7. At(t, l) = was.cpu.eip /\ At(t, l + 1) = was.cpu.cs /\ At(t, l + 2) = was.cpu.eflags
  <2>1. At(t, l + 0) = At(s, k + 0) /\ At(t, l + 1) = At(s, k + 1) /\ At(t, l + 2) = At(s, k + 2)
    BY <1>5, <1>6
  <2> QED
    BY <2>1, <1>2 DEF CpuWords
<1>8. FromProgram(was.cpu) => At(t, l + 3) = was.cpu.esp /\ At(t, l + 4) = was.cpu.ss
  BY <1>5, <1>6 DEF CpuWords
<1> QED
  BY <1>2, <1>3, <1>4, <1>7, <1>8 DEF CpuWords

LEMMA StubWordsPushed ==
  ASSUME NEW was, NEW s \in Seq(Int), NEW u \in Seq(Int), NEW k \in Nat, esp0 \in Nat,
         BeforeOK(was), StubWords(was, s, k)
  PROVE  StubWords(was, s \o u, k + Len(u))
<1> DEFINE t == s \o u
           l == k + Len(u)
<1>1. Len(u) \in Nat
  OBVIOUS
<1>2. CpuWords(was, t, l + 2)
  <2>1. CpuWords(was, t, (k + 2) + Len(u))
    BY CpuWordsPushed DEF StubWords
  <2>2. (k + 2) + Len(u) = l + 2
    BY <1>1
  <2> QED
    BY <2>1, <2>2
<1>3. k + 1 < Len(s)
  <2>1. CpuWords(was, s, k + 2)
    BY DEF StubWords
  <2>2. Len(s) = Len(Base(was)) + Extra(was) + 3 + (k + 2)
    BY <2>1 DEF CpuWords
  <2>3. Len(Base(was)) \in Nat /\ Extra(was) \in {0, 2}
    BY BaseTyped, Zenon
  <2> QED
    BY <2>2, <2>3
<1>4. \A j \in 0 .. 1 : At(t, Len(u) + (k + j)) = At(s, k + j)
  <2> SUFFICES ASSUME NEW j \in 0 .. 1 PROVE At(t, Len(u) + (k + j)) = At(s, k + j)
    OBVIOUS
  <2>1. k + j \in 0 .. Len(s) - 1
    BY <1>3, LenProperties
  <2> QED
    BY <2>1, Pushed, Zenon
<1>5. At(t, Len(u) + (k + 0)) = At(s, k + 0) /\ At(t, Len(u) + (k + 1)) = At(s, k + 1)
  BY <1>4
<1> QED
  BY <1>1, <1>2, <1>5 DEF StubWords

LEMMA SegmentWordsPushed ==
  ASSUME NEW was, NEW s \in Seq(Int), NEW u \in Seq(Int), NEW k \in Nat, esp0 \in Nat,
         BeforeOK(was), SegmentWords(was, s, k)
  PROVE  SegmentWords(was, s \o u, k + Len(u))
<1> DEFINE t == s \o u
           l == k + Len(u)
<1>1. Len(u) \in Nat
  OBVIOUS
<1>2. StubWords(was, t, l + 4)
  <2>1. k + 4 \in Nat /\ StubWords(was, s, k + 4)
    BY DEF SegmentWords
  <2>2. StubWords(was, t, (k + 4) + Len(u))
    BY <2>1, StubWordsPushed
  <2>3. (k + 4) + Len(u) = l + 4
    BY <1>1
  <2> QED
    BY <2>2, <2>3
<1>3. k + 3 < Len(s)
  <2>1. CpuWords(was, s, (k + 4) + 2)
    BY DEF SegmentWords, StubWords
  <2>2. Len(s) = Len(Base(was)) + Extra(was) + 3 + ((k + 4) + 2)
    BY <2>1 DEF CpuWords
  <2>3. Len(Base(was)) \in Nat /\ Extra(was) \in {0, 2}
    BY BaseTyped, Zenon
  <2> QED
    BY <2>2, <2>3
<1>4. \A j \in 0 .. 3 : At(t, Len(u) + (k + j)) = At(s, k + j)
  <2> SUFFICES ASSUME NEW j \in 0 .. 3 PROVE At(t, Len(u) + (k + j)) = At(s, k + j)
    OBVIOUS
  <2>1. k + j \in 0 .. Len(s) - 1
    BY <1>3, LenProperties
  <2> QED
    BY <2>1, Pushed, Zenon
<1>5. /\ At(t, Len(u) + (k + 0)) = At(s, k + 0) /\ At(t, Len(u) + (k + 1)) = At(s, k + 1)
      /\ At(t, Len(u) + (k + 2)) = At(s, k + 2) /\ At(t, Len(u) + (k + 3)) = At(s, k + 3)
  BY <1>4
<1> QED
  BY <1>1, <1>2, <1>5 DEF SegmentWords

-----------------------------------------------------------------------------
(* The CPU's part.                                                         *)
LEMMA TrapFirst ==
  ASSUME RegsOK, RingOK(cpu), esp0 <= Len(stack), NEW vector \in Vectors
  PROVE  LET w == [cpu |-> cpu, stack |-> stack, vector |-> vector]
         IN  BeforeOK(w) /\ CpuWords(w, Switched \o <<cpu.eflags, cpu.cs, cpu.eip>>, 0)
<1> DEFINE w == [cpu |-> cpu, stack |-> stack, vector |-> vector]
           top == <<cpu.eflags, cpu.cs, cpu.eip>>
           more == <<cpu.ss, cpu.esp>>
           s == Switched
           t == s \o top
<1>1. BeforeOK(w)
  BY DEF BeforeOK, RegsOK
<1>2. esp0 \in Nat
  BY DEF RegsOK
<1>3. top \in Seq(Int) /\ Len(top) = 3 /\ top[1] = cpu.eflags /\ top[2] = cpu.cs /\ top[3] = cpu.eip
  BY DEF RegsOK, Regs
<1>4. more \in Seq(Int) /\ Len(more) = 2 /\ more[1] = cpu.ss /\ more[2] = cpu.esp
  BY DEF RegsOK, Regs
<1>5. /\ Base(w) \in Seq(Int) /\ Len(Base(w)) \in Nat /\ Extra(w) \in {0, 2}
      /\ w.cpu = cpu
  BY <1>1, <1>2, BaseTyped
<1> HIDE DEF top, more
<1>6. /\ s \in Seq(Int) /\ Len(s) = Len(Base(w)) + Extra(w)
      /\ \A j \in 1 .. Len(Base(w)) : s[j] = Base(w)[j]
      /\ FromProgram(cpu) => At(s, 0) = cpu.esp /\ At(s, 1) = cpu.ss
  <2>1. CASE FromProgram(cpu)
    <3>1. s = Base(w) \o more /\ Extra(w) = 2
      BY <2>1 DEF Switched, Base, Extra, more
    <3> HIDE DEF s, w
    <3>2. /\ s \in Seq(Int) /\ Len(s) = Len(Base(w)) + 2
          /\ \A j \in 1 .. Len(Base(w)) : s[j] = Base(w)[j]
          /\ \A k \in 0 .. Len(more) - 1 : At(s, k) = At(more, k)
      <4>1. PICK b : b = Base(w)
        OBVIOUS
      <4>2. b \in Seq(Int) /\ s = b \o more
        BY <4>1, <3>1, <1>5
      <4>3. /\ b \o more \in Seq(Int) /\ Len(b \o more) = Len(b) + Len(more)
            /\ \A j \in 1 .. Len(b) : (b \o more)[j] = b[j]
            /\ \A k \in 0 .. Len(more) - 1 : At(b \o more, k) = At(more, k)
        BY <4>2, <1>4, Pushed, Zenon
      <4> QED
        BY <4>1, <4>2, <4>3, <1>4, Zenon
    <3>3. At(more, 0) = cpu.esp /\ At(more, 1) = cpu.ss
      BY <1>4 DEF At
    <3>4. At(s, 0) = cpu.esp /\ At(s, 1) = cpu.ss
      BY <3>2, <3>3, <1>4
    <3> QED
      BY <3>1, <3>2, <3>4
  <2>2. CASE ~FromProgram(cpu)
    <3>1. s = Base(w) /\ Extra(w) = 0
      BY <2>2 DEF Switched, Base, Extra
    <3> QED
      BY <3>1, <2>2, <1>5
  <2> QED
    BY <2>1, <2>2
<1> HIDE DEF s, w
<1>7. /\ t \in Seq(Int) /\ Len(t) = Len(s) + 3
      /\ \A j \in 1 .. Len(s) : t[j] = s[j]
      /\ \A k \in 0 .. 2 : At(t, k) = At(top, k)
      /\ \A k \in 0 .. Len(s) - 1 : At(t, 3 + k) = At(s, k)
  <2>1. /\ t \in Seq(Int) /\ Len(t) = Len(s) + Len(top)
        /\ \A j \in 1 .. Len(s) : t[j] = s[j]
        /\ \A k \in 0 .. Len(top) - 1 : At(t, k) = At(top, k)
        /\ \A k \in 0 .. Len(s) - 1 : At(t, Len(top) + k) = At(s, k)
    BY <1>3, <1>6, Pushed
  <2> HIDE DEF t
  <2> QED
    BY <2>1, <1>3
<1> HIDE DEF t
<1>8. At(top, 0) = cpu.eip /\ At(top, 1) = cpu.cs /\ At(top, 2) = cpu.eflags
  BY <1>3 DEF At
<1>9. At(t, 0) = cpu.eip /\ At(t, 1) = cpu.cs /\ At(t, 2) = cpu.eflags
  BY <1>7, <1>8
<1>10. FromProgram(cpu) => At(t, 3) = cpu.esp /\ At(t, 4) = cpu.ss
  <2> SUFFICES ASSUME FromProgram(cpu) PROVE At(t, 3) = cpu.esp /\ At(t, 4) = cpu.ss
    OBVIOUS
  <2>1. Extra(w) = 2
    BY <1>5 DEF Extra
  <2>2. At(t, 3 + 0) = At(s, 0) /\ At(t, 3 + 1) = At(s, 1)
    BY <2>1, <1>5, <1>6, <1>7
  <2> QED
    BY <2>2, <1>6
<1>11. Len(t) = Len(Base(w)) + Extra(w) + 3 + 0
  BY <1>5, <1>6, <1>7
<1>12. \A j \in 1 .. Len(Base(w)) : t[j] = Base(w)[j]
  BY <1>5, <1>6, <1>7
<1>13. CpuWords(w, t, 0)
  BY <1>5, <1>7, <1>9, <1>10, <1>11, <1>12 DEF CpuWords
<1> QED
  BY <1>1, <1>13 DEF w, t, s, top

LEMMA TrapStep ==
  ASSUME TrapsInv, NEW vector \in Vectors, Trap(vector)
  PROVE  TrapsInv'
<1> DEFINE w == [cpu |-> cpu, stack |-> stack, vector |-> vector]
           s == Switched \o <<cpu.eflags, cpu.cs, cpu.eip>>
<1>1. RegsOK /\ place = "run" /\ RingOK(cpu) /\ esp0 <= Len(stack) /\ esp0 \in Nat
  BY DEF TrapsInv, Trap, RegsOK
<1>2. BeforeOK(w) /\ CpuWords(w, s, 0) /\ s \in Seq(Int)
  <2>1. BeforeOK(w) /\ CpuWords(w, s, 0)
    BY <1>1, TrapFirst
  <2> QED
    BY <2>1 DEF CpuWords
<1>3. before' = w /\ esp0' = esp0
  BY DEF Trap
<1> HIDE DEF w, s
<1>4. CASE place' = "fault"
  <2>1. UNCHANGED <<cpu, stack>>
    BY <1>4, <1>1 DEF Trap
  <2> QED
    BY <2>1, <1>1, <1>3, <1>4 DEF TrapsInv, RegsOK, InTrap
<1>5. CASE place' # "fault"
  <2>1. /\ place' = "stub"
        /\ stack' = s \o IF vector \in CpuCodes THEN <<CODE>> ELSE << >>
        /\ cpu' = [cpu EXCEPT !.cs = KCODE, !.ss = KDATA, !.eip = STUB]
    BY <1>5, <1>1 DEF Trap, s
  <2>2. w.cpu = cpu /\ w.vector = vector
    BY DEF w
  <2>3. cpu' \in Regs /\ cpu'.ss = KDATA /\ cpu'.esp = cpu.esp
    <3>1. KCODE \in Int /\ KDATA \in Int /\ STUB \in Int
      BY DEF KCODE, KDATA, STUB
    <3>2. cpu \in Regs
      BY <1>1 DEF RegsOK
    <3> QED
      BY <2>1, <3>1, <3>2 DEF Regs
  <2>4. IF vector \in CpuCodes THEN CpuWords(w, stack', 1) /\ At(stack', 0) = CODE
                               ELSE CpuWords(w, stack', 0)
    <3>1. CASE vector \in CpuCodes
      <4>1. <<CODE>> \in Seq(Int) /\ Len(<<CODE>>) = 1 /\ At(<<CODE>>, 0) = CODE
        BY DEF CODE, At
      <4>2. CpuWords(w, s \o <<CODE>>, 0 + Len(<<CODE>>))
        BY <1>1, <1>2, <4>1, CpuWordsPushed
      <4> DEFINE u == <<CODE>>
      <4> HIDE DEF u
      <4>3. At(s \o u, 0) = CODE
        <5>1. \A k \in 0 .. Len(u) - 1 : At(s \o u, k) = At(u, k)
          BY <1>2, <4>1, Pushed DEF u
        <5>2. Len(u) = 1 /\ At(u, 0) = CODE
          BY <4>1 DEF u
        <5> QED
          BY <5>1, <5>2
      <4> QED
        BY <2>1, <3>1, <4>1, <4>2, <4>3 DEF u
    <3>2. CASE vector \notin CpuCodes
      <4>1. stack' = s
        BY <2>1, <3>2, <1>2
      <4> QED
        BY <4>1, <3>2, <1>2
    <3> QED
      BY <3>1, <3>2
  <2>5. stack' \in Seq(Int)
    BY <2>4 DEF CpuWords
  <2>6. RegsOK'
    BY <2>1, <2>3, <2>5, <1>1, <1>3 DEF RegsOK
  <2>7. BeforeOK(before)'
    BY <1>2, <1>3 DEF BeforeOK
  <2>8. (IF before.vector \in CpuCodes THEN CpuWords(before, stack, 1) /\ At(stack, 0) = CODE
                                       ELSE CpuWords(before, stack, 0))'
    BY <2>4, <2>2, <1>3 DEF CpuWords, Base, Extra
  <2> QED
    BY <2>1, <2>2, <2>3, <2>6, <2>7, <2>8, <1>3 DEF TrapsInv, InTrap
<1> QED
  BY <1>4, <1>5

-----------------------------------------------------------------------------
(* The stub's part.                                                        *)
LEMMA StubPushed ==
  ASSUME TrapsInv, place = "stub"
  PROVE  StubWords(before, PushStub(stack), 0)
<1> DEFINE v == before.vector
           t == stack \o (IF v \in CodeStubs THEN << >> ELSE <<0>>)
           u == <<v>>
<1>1. BeforeOK(before) /\ esp0 \in Nat /\ stack \in Seq(Int)
  BY DEF TrapsInv, InTrap, RegsOK
<1>2. v \in Int /\ (v \in CodeStubs <=> v \in CpuCodes)
  <2>1. v \in 0 .. 255 /\ v # 21 /\ v # 29
    BY <1>1, TrapsAssumption DEF BeforeOK
  <2> HIDE DEF v
  <2> QED
    BY <2>1 DEF CodeStubs, CpuCodes
<1>3. CpuWords(before, t, 1) /\ At(t, 0) = ErrorCode(v)
  <2>1. CASE v \in CpuCodes
    <3>1. t = stack
      BY <1>1, <1>2, <2>1
    <3> QED
      BY <3>1, <2>1 DEF TrapsInv, ErrorCode
  <2>2. CASE v \notin CpuCodes
    <3> DEFINE z == <<0>>
    <3>1. t = stack \o z
      BY <1>2, <2>2
    <3>2. z \in Seq(Int) /\ Len(z) = 1 /\ At(z, 0) = 0
      BY DEF At
    <3>3. CpuWords(before, stack, 0)
      BY <2>2 DEF TrapsInv
    <3> HIDE DEF t, z
    <3>4. CpuWords(before, stack \o z, 0 + Len(z))
      BY <1>1, <3>2, <3>3, CpuWordsPushed
    <3>5. \A k \in 0 .. Len(z) - 1 : At(stack \o z, k) = At(z, k)
      BY <1>1, <3>2, Pushed
    <3> QED
      BY <3>1, <3>2, <3>4, <3>5, <2>2 DEF ErrorCode
  <2> QED
    BY <2>1, <2>2
<1>4. u \in Seq(Int) /\ Len(u) = 1 /\ At(u, 0) = v
  BY <1>2 DEF At
<1>5. PushStub(stack) = t \o u
  BY DEF PushStub
<1> HIDE DEF t, u
<1>6. t \in Seq(Int) /\ 0 < Len(t)
  <2>1. t \in Seq(Int) /\ Len(t) = Len(Base(before)) + Extra(before) + 3 + 1
    BY <1>3 DEF CpuWords
  <2>2. Len(Base(before)) \in Nat /\ Extra(before) \in {0, 2}
    BY <1>1, BaseTyped
  <2> QED
    BY <2>1, <2>2
<1>7. CpuWords(before, t \o u, 1 + Len(u))
  BY <1>1, <1>3, <1>4, <1>6, CpuWordsPushed
<1>8. /\ \A k \in 0 .. Len(u) - 1 : At(t \o u, k) = At(u, k)
      /\ \A k \in 0 .. Len(t) - 1 : At(t \o u, Len(u) + k) = At(t, k)
  BY <1>4, <1>6, Pushed
<1>9. At(t \o u, 0) = v /\ At(t \o u, 1) = ErrorCode(v)
  <2>1. At(t \o u, 1 + 0) = At(t, 0)
    BY <1>4, <1>6, <1>8
  <2> QED
    BY <2>1, <1>3, <1>4, <1>8
<1> QED
  BY <1>4, <1>5, <1>7, <1>9 DEF StubWords

LEMMA SegmentsPushed ==
  ASSUME RegsOK, BeforeOK(before), NEW s \in Seq(Int), StubWords(before, s, 0),
         <<cpu.ds, cpu.es, cpu.fs, cpu.gs>> = <<before.cpu.ds, before.cpu.es, before.cpu.fs, before.cpu.gs>>
  PROVE  SegmentWords(before, PushSegments(s), 0)
<1> DEFINE u == <<cpu.ds, cpu.es, cpu.fs, cpu.gs>>
<1>1. u \in Seq(Int) /\ Len(u) = 4
  <2>1. cpu.ds \in Int /\ cpu.es \in Int /\ cpu.fs \in Int /\ cpu.gs \in Int
    BY DEF RegsOK, Regs
  <2> QED
    BY <2>1
<1>2. At(u, 0) = before.cpu.gs /\ At(u, 1) = before.cpu.fs /\ At(u, 2) = before.cpu.es /\ At(u, 3) = before.cpu.ds
  BY DEF At
<1>3. PushSegments(s) = s \o u
  BY DEF PushSegments
<1> HIDE DEF u
<1>4. StubWords(before, s \o u, 0 + Len(u))
  BY <1>1, StubWordsPushed DEF RegsOK
<1>5. \A k \in 0 .. Len(u) - 1 : At(s \o u, k) = At(u, k)
  BY <1>1, Pushed
<1> QED
  BY <1>1, <1>2, <1>3, <1>4, <1>5 DEF SegmentWords

LEMMA AllPushed ==
  ASSUME RegsOK, BeforeOK(before), NEW s \in Seq(Int), SegmentWords(before, s, 0),
         <<cpu.eax, cpu.ecx, cpu.edx, cpu.ebx>> = <<before.cpu.eax, before.cpu.ecx, before.cpu.edx, before.cpu.ebx>>,
         <<cpu.ebp, cpu.esi, cpu.edi>> = <<before.cpu.ebp, before.cpu.esi, before.cpu.edi>>
  PROVE  AllWords(before, PushAll(s))
<1> DEFINE u == <<cpu.eax, cpu.ecx, cpu.edx, cpu.ebx, Len(s), cpu.ebp, cpu.esi, cpu.edi>>
<1>1. u \in Seq(Int) /\ Len(u) = 8
  <2>1. /\ cpu.eax \in Int /\ cpu.ecx \in Int /\ cpu.edx \in Int /\ cpu.ebx \in Int
        /\ cpu.ebp \in Int /\ cpu.esi \in Int /\ cpu.edi \in Int
    BY DEF RegsOK, Regs
  <2> QED
    BY <2>1
<1>2. /\ At(u, 0) = before.cpu.edi /\ At(u, 1) = before.cpu.esi /\ At(u, 2) = before.cpu.ebp
      /\ At(u, 4) = before.cpu.ebx /\ At(u, 5) = before.cpu.edx
      /\ At(u, 6) = before.cpu.ecx /\ At(u, 7) = before.cpu.eax
  BY DEF At
<1>3. PushAll(s) = s \o u
  BY DEF PushAll
<1> HIDE DEF u
<1>4. SegmentWords(before, s \o u, 0 + Len(u))
  BY <1>1, SegmentWordsPushed DEF RegsOK
<1>5. \A k \in 0 .. Len(u) - 1 : At(s \o u, k) = At(u, k)
  BY <1>1, Pushed
<1> QED
  BY <1>1, <1>2, <1>3, <1>4, <1>5 DEF AllWords

LEMMA AllWordsKept ==
  ASSUME AllWords(before, stack'), UNCHANGED <<before, esp0>>
  PROVE  AllWords(before, stack)'
  BY DEF AllWords, SegmentWords, StubWords, CpuWords, Base, Extra

LEMMA CallGenericHandlerStep ==
  ASSUME TrapsInv, CallGenericHandler
  PROVE  TrapsInv'
<1>1. /\ place = "stub" /\ place' = "handler" /\ UNCHANGED <<esp0, before>>
      /\ stack' = PushAll(PushSegments(PushStub(stack)))
      /\ cpu' = [cpu EXCEPT !.ds = KDATA, !.es = KDATA, !.fs = KDATA, !.gs = KDATA]
  BY DEF CallGenericHandler
<1>2. /\ RegsOK /\ BeforeOK(before) /\ cpu.ss = KDATA /\ cpu.esp = before.cpu.esp
      /\ cpu = [before.cpu EXCEPT !.cs = KCODE, !.ss = KDATA, !.eip = STUB]
  BY <1>1 DEF TrapsInv, InTrap
<1>3. /\ before.cpu \in Regs /\ cpu \in Regs
  BY <1>2 DEF BeforeOK, RegsOK
<1>4. /\ cpu.eax = before.cpu.eax /\ cpu.ecx = before.cpu.ecx /\ cpu.edx = before.cpu.edx
      /\ cpu.ebx = before.cpu.ebx /\ cpu.ebp = before.cpu.ebp
      /\ cpu.esi = before.cpu.esi /\ cpu.edi = before.cpu.edi
      /\ cpu.ds = before.cpu.ds /\ cpu.es = before.cpu.es
      /\ cpu.fs = before.cpu.fs /\ cpu.gs = before.cpu.gs
  BY <1>2, <1>3 DEF Regs
<1>5. StubWords(before, PushStub(stack), 0) /\ PushStub(stack) \in Seq(Int)
  <2>1. StubWords(before, PushStub(stack), 0)
    BY <1>1, StubPushed
  <2> QED
    BY <2>1 DEF StubWords, CpuWords
<1>6. SegmentWords(before, PushSegments(PushStub(stack)), 0) /\ PushSegments(PushStub(stack)) \in Seq(Int)
  <2>1. SegmentWords(before, PushSegments(PushStub(stack)), 0)
    BY <1>2, <1>4, <1>5, SegmentsPushed
  <2> QED
    BY <2>1 DEF SegmentWords, StubWords, CpuWords
<1>7. AllWords(before, stack')
  BY <1>1, <1>2, <1>4, <1>6, AllPushed
<1>8. AllWords(before, stack)'
  BY <1>1, <1>7, AllWordsKept
<1>9. cpu' \in Regs /\ cpu'.ss = KDATA /\ cpu'.esp = before.cpu.esp
  <2>1. KDATA \in Int
    BY DEF KDATA
  <2> QED
    BY <1>1, <1>2, <1>3, <2>1 DEF Regs
<1>10. RegsOK'
  <2>1. stack' \in Seq(Int)
    BY <1>7 DEF AllWords, SegmentWords, StubWords, CpuWords
  <2> QED
    BY <1>1, <1>2, <1>9, <2>1 DEF RegsOK
<1>11. BeforeOK(before)'
  BY <1>1, <1>2 DEF BeforeOK
<1> QED
  BY <1>1, <1>8, <1>9, <1>10, <1>11 DEF TrapsInv, InTrap

LEMMA MainInterruptHandlerStep ==
  ASSUME TrapsInv, MainInterruptHandler
  PROVE  TrapsInv'
<1>1. /\ place = "handler" /\ place' = "return" /\ UNCHANGED <<esp0, stack, before>>
      /\ cpu' = [cpu EXCEPT !.eax = ANY, !.ecx = ANY, !.edx = ANY]
  BY DEF MainInterruptHandler
<1>2. /\ RegsOK /\ BeforeOK(before) /\ cpu.ss = KDATA /\ cpu.esp = before.cpu.esp
      /\ AllWords(before, stack)
  BY <1>1 DEF TrapsInv, InTrap
<1>3. cpu' \in Regs /\ cpu'.ss = KDATA /\ cpu'.esp = before.cpu.esp
  <2>1. ANY \in Int /\ cpu \in Regs
    BY <1>2 DEF ANY, RegsOK
  <2> QED
    BY <1>1, <1>2, <2>1 DEF Regs
<1>4. AllWords(before, stack)'
  BY <1>1, <1>2, AllWordsKept
<1>5. RegsOK' /\ BeforeOK(before)'
  BY <1>1, <1>2, <1>3 DEF RegsOK, BeforeOK
<1> QED
  BY <1>1, <1>3, <1>4, <1>5 DEF TrapsInv, InTrap

-----------------------------------------------------------------------------
(* The way back.                                                           *)
LEMMA WordsRead ==
  ASSUME AllWords(before, stack)
  PROVE  LET was == before.cpu
         IN  /\ Word(0) = was.edi /\ Word(1) = was.esi /\ Word(2) = was.ebp
             /\ Word(4) = was.ebx /\ Word(5) = was.edx /\ Word(6) = was.ecx /\ Word(7) = was.eax
             /\ Word(8) = was.gs /\ Word(9) = was.fs /\ Word(10) = was.es /\ Word(11) = was.ds
             /\ Word(12) = before.vector /\ Word(13) = ErrorCode(before.vector)
             /\ Word(14) = was.eip /\ Word(15) = was.cs /\ Word(16) = was.eflags
             /\ FromProgram(was) => Word(17) = was.esp /\ Word(18) = was.ss
<1>1. \A k : Word(k) = At(stack, k)
  BY DEF Word, At
<1>2. SegmentWords(before, stack, 8) /\ StubWords(before, stack, 12) /\ CpuWords(before, stack, 14)
  <2>1. SegmentWords(before, stack, 8)
    BY DEF AllWords
  <2>2. StubWords(before, stack, 8 + 4)
    BY <2>1 DEF SegmentWords
  <2>3. CpuWords(before, stack, 12 + 2)
    BY <2>2 DEF StubWords
  <2> QED
    BY <2>1, <2>2, <2>3
<1>3. /\ At(stack, 0) = before.cpu.edi /\ At(stack, 1) = before.cpu.esi /\ At(stack, 2) = before.cpu.ebp
      /\ At(stack, 4) = before.cpu.ebx /\ At(stack, 5) = before.cpu.edx
      /\ At(stack, 6) = before.cpu.ecx /\ At(stack, 7) = before.cpu.eax
  BY DEF AllWords
<1>4. /\ At(stack, 8) = before.cpu.gs /\ At(stack, 8 + 1) = before.cpu.fs
      /\ At(stack, 8 + 2) = before.cpu.es /\ At(stack, 8 + 3) = before.cpu.ds
  BY <1>2 DEF SegmentWords
<1>5. At(stack, 12) = before.vector /\ At(stack, 12 + 1) = ErrorCode(before.vector)
  BY <1>2 DEF StubWords
<1>6. /\ At(stack, 14) = before.cpu.eip /\ At(stack, 14 + 1) = before.cpu.cs
      /\ At(stack, 14 + 2) = before.cpu.eflags
      /\ FromProgram(before.cpu) => At(stack, 14 + 3) = before.cpu.esp /\ At(stack, 14 + 4) = before.cpu.ss
  BY <1>2 DEF CpuWords
<1> QED
  BY <1>1, <1>3, <1>4, <1>5, <1>6

(* All the registers, and the stack as far as the interrupted code used    *)
(* it.                                                                     *)
LEMMA Restored ==
  ASSUME TrapsInv, TrapReturn
  PROVE  cpu' = before.cpu /\ stack' = Base(before)
<1>1. /\ place = "return" /\ cpu' = Popped
      /\ stack' = SubSeq(stack, 1, Len(stack) - IF FromProgram(Popped) THEN 19 ELSE 17)
  BY DEF TrapReturn
<1>2. /\ BeforeOK(before) /\ cpu.ss = KDATA /\ cpu.esp = before.cpu.esp
      /\ AllWords(before, stack) /\ esp0 \in Nat
  BY <1>1 DEF TrapsInv, InTrap, RegsOK
<1>3. Ring(before.cpu.cs) = 3 <=> FromProgram(before.cpu)
  BY DEF FromProgram
<1>4. ~FromProgram(before.cpu) => before.cpu.ss = KDATA
  BY <1>2 DEF BeforeOK, RingOK, FromProgram, Ring, UCODE, KCODE
<1>5. cpu' = before.cpu
  <2> DEFINE was == before.cpu
  <2>1. was = [edi |-> was.edi, esi |-> was.esi, ebp |-> was.ebp,
               ebx |-> was.ebx, edx |-> was.edx, ecx |-> was.ecx, eax |-> was.eax,
               gs |-> was.gs, fs |-> was.fs, es |-> was.es, ds |-> was.ds,
               eip |-> was.eip, cs |-> was.cs, eflags |-> was.eflags,
               esp |-> was.esp, ss |-> was.ss]
    BY <1>2 DEF BeforeOK, Regs
  <2>2. (IF Ring(Word(15)) = 3 THEN Word(17) ELSE cpu.esp) = was.esp
    BY <1>2, <1>3, WordsRead
  <2>3. (IF Ring(Word(15)) = 3 THEN Word(18) ELSE cpu.ss) = was.ss
    BY <1>2, <1>3, <1>4, WordsRead
  <2> HIDE DEF was
  <2>4. /\ Word(0) = was.edi /\ Word(1) = was.esi /\ Word(2) = was.ebp
        /\ Word(4) = was.ebx /\ Word(5) = was.edx /\ Word(6) = was.ecx /\ Word(7) = was.eax
        /\ Word(8) = was.gs /\ Word(9) = was.fs /\ Word(10) = was.es /\ Word(11) = was.ds
        /\ Word(14) = was.eip /\ Word(15) = was.cs /\ Word(16) = was.eflags
    BY <1>2, WordsRead DEF was
  <2>5. Popped = was
    BY <2>1, <2>2, <2>3, <2>4 DEF Popped
  <2> QED
    BY <1>1, <2>5 DEF was
<1>6. stack' = Base(before)
  <2>1. FromProgram(Popped) <=> FromProgram(before.cpu)
    BY <1>1, <1>5
  <2>2. CpuWords(before, stack, 14)
    <3>1. SegmentWords(before, stack, 8)
      BY <1>2 DEF AllWords
    <3>2. StubWords(before, stack, 8 + 4)
      BY <3>1 DEF SegmentWords
    <3>3. CpuWords(before, stack, 12 + 2)
      BY <3>2 DEF StubWords
    <3> QED
      BY <3>3
  <2>3. Base(before) \in Seq(Int) /\ Len(Base(before)) \in Nat
    BY <1>2, BaseTyped
  <2>4. stack' = SubSeq(stack, 1, Len(Base(before)))
    <3>1. Len(stack) = Len(Base(before)) + Extra(before) + 3 + 14
      BY <2>2 DEF CpuWords
    <3>2. Len(stack) - (IF FromProgram(Popped) THEN 19 ELSE 17) = Len(Base(before))
      BY <2>1, <2>3, <3>1 DEF Extra
    <3> QED
      BY <1>1, <3>2
  <2>5. /\ stack \in Seq(Int) /\ Len(Base(before)) <= Len(stack)
        /\ \A j \in 1 .. Len(Base(before)) : stack[j] = Base(before)[j]
    <3>1. Len(stack) = Len(Base(before)) + Extra(before) + 3 + 14 /\ Extra(before) \in {0, 2}
      BY <2>2 DEF CpuWords, Extra
    <3> QED
      BY <2>2, <2>3, <3>1 DEF CpuWords
  <2> QED
    BY <2>3, <2>4, <2>5, CutBack
<1> QED
  BY <1>5, <1>6

LEMMA TrapReturnStep ==
  ASSUME TrapsInv, TrapReturn
  PROVE  TrapsInv'
<1>1. cpu' = before.cpu /\ stack' = Base(before)
  BY Restored
<1>2. place = "return" /\ place' \in {"run", "fault"} /\ esp0' = esp0
  BY DEF TrapReturn
<1>3. BeforeOK(before) /\ esp0 \in Nat
  BY <1>2 DEF TrapsInv, InTrap, RegsOK
<1>4. stack' \in Seq(Int) /\ esp0 <= Len(stack')
  BY <1>1, <1>3, BaseTyped DEF Base, BeforeOK
<1> QED
  BY <1>1, <1>2, <1>3, <1>4 DEF TrapsInv, RegsOK, InTrap, BeforeOK, RingOK

-----------------------------------------------------------------------------
(* kernel_setup()'s steps                                                  *)

LEMMA TrapsStart == TrapsInit => TrapsInv
<1> SUFFICES ASSUME TrapsInit PROVE TrapsInv
  OBVIOUS
<1>1. cpu \in Regs /\ RingOK(cpu)
  <2>1. KCODE \in Int /\ KDATA \in Int /\ KERNEL_SETUP \in Int
    BY DEF KCODE, KDATA, KERNEL_SETUP
  <2>2. PICK s \in GrubSegments :
          cpu = [eax |-> 1001, ecx |-> 1002, edx |-> 1003, ebx |-> 1004, ebp |-> 1005,
                 esi |-> 1006, edi |-> 1007, esp |-> 0, eip |-> KERNEL_SETUP, eflags |-> 514,
                 cs |-> KCODE, ss |-> KDATA, ds |-> KDATA, es |-> KDATA, fs |-> s, gs |-> s]
    BY DEF TrapsInit, GrubCpu
  <2>3. s \in Int
    BY TrapsAssumption
  <2> QED
    BY <2>1, <2>2, <2>3 DEF Regs, RingOK
<1>2. stack \in Seq(Int) /\ Len(stack) = 1
  BY DEF TrapsInit, LOADER
<1> QED
  BY <1>1, <1>2 DEF TrapsInit, TrapsInv, RegsOK, InTrap

LEMMA SetupStep ==
  ASSUME TrapsInv,
         LoadGdt \/ GdtInstallTss \/ SetTssRegister \/ SetTssKernelCurrentStack \/ KernelExecuteUserProgram
  PROVE  TrapsInv'
<1>1. RegsOK /\ place = "run" /\ RingOK(cpu) /\ esp0 <= Len(stack) /\ Len(stack) \in Nat
  BY DEF TrapsInv, RegsOK, LoadGdt, GdtInstallTss, SetTssRegister, SetTssKernelCurrentStack, KernelExecuteUserProgram
<1>2. cpu \in Regs /\ stack \in Seq(Int) /\ esp0 \in Nat
  BY <1>1 DEF RegsOK
<1>3. CASE LoadGdt
  <2>1. KCODE \in Int /\ KDATA \in Int
    BY DEF KCODE, KDATA
  <2>2. cpu' \in Regs /\ RingOK(cpu')
    BY <1>2, <1>3, <2>1 DEF LoadGdt, Regs, RingOK
  <2> QED
    BY <1>1, <1>2, <1>3, <2>2 DEF LoadGdt, TrapsInv, RegsOK, InTrap, RingOK
<1>4. CASE GdtInstallTss \/ SetTssRegister
  BY <1>1, <1>2, <1>4 DEF GdtInstallTss, SetTssRegister, TrapsInv, RegsOK, InTrap, RingOK
<1>5. CASE SetTssKernelCurrentStack
  BY <1>1, <1>2, <1>5 DEF SetTssKernelCurrentStack, TrapsInv, RegsOK, InTrap, RingOK
<1>6. CASE KernelExecuteUserProgram
  <2>1. UCODE \in Int /\ UDATA \in Int /\ KERNEL_SETUP \in Int /\ PROGRAM_STACK \in Int
    BY SMT DEF UCODE, UDATA, KERNEL_SETUP, PROGRAM_STACK
  <2>2. UserCpu \in Regs /\ RingOK(UserCpu)
    <3> DEFINE a == [cpu EXCEPT !.eax = 0, !.ecx = 0, !.eip = 0]
               b == [a EXCEPT !.esp = PROGRAM_STACK, !.cs = UCODE, !.ss = UDATA]
               c == [b EXCEPT !.ds = UDATA, !.es = UDATA, !.fs = UDATA, !.gs = UDATA]
    <3>1. UserCpu = c
      BY DEF UserCpu
    <3>2. a \in Regs
      <4>1. \A z \in Int : [cpu EXCEPT !.eax = z, !.ecx = z, !.eip = z] \in Regs
        BY <1>2 DEF Regs
      <4>2. 0 \in Int
        OBVIOUS
      <4> QED
        BY <4>1, <4>2, Zenon
    <3> HIDE DEF a
    <3>3. b \in Regs /\ b.cs = UCODE /\ b.ss = UDATA
      BY <2>1, <3>2 DEF Regs
    <3> HIDE DEF b
    <3>4. c \in Regs /\ c.cs = UCODE /\ c.ss = UDATA
      BY <2>1, <3>3 DEF Regs
    <3> QED
      BY <3>1, <3>4 DEF RingOK
  <2>3. cpu' = UserCpu /\ esp0' = esp0 /\ place' \in {"run", "fault"}
        /\ stack' = stack \o <<0, KERNEL_SETUP>>
    BY <1>6 DEF KernelExecuteUserProgram
  <2>4. stack' \in Seq(Int) /\ Len(stack') = Len(stack) + 2
    BY <1>2, <2>1, <2>3
  <2> QED
    BY <1>1, <1>2, <2>2, <2>3, <2>4 DEF TrapsInv, RegsOK, InTrap, RingOK
<1> QED
  BY <1>3, <1>4, <1>5, <1>6

LEMMA TrapsStutter ==
  ASSUME TrapsInv, UNCHANGED trapVars
  PROVE  TrapsInv'
<1>1. UNCHANGED <<esp0, cpu, stack, place, before>>
  BY DEF trapVars
<1> QED
  BY <1>1 DEF TrapsInv, RegsOK, InTrap, RingOK, BeforeOK, AllWords, SegmentWords, StubWords,
              CpuWords, Base, Extra

-----------------------------------------------------------------------------
(* What lies on the kernel's stack at each place of a trap, for every      *)
(* vector and every place of the kernel.                                   *)
THEOREM TrapsCorrect == TrapsSpec => []TrapsInv
<1>1. TrapsInv /\ [TrapsNext]_trapVars => TrapsInv'
  <2> SUFFICES ASSUME TrapsInv, [TrapsNext]_trapVars PROVE TrapsInv'
    OBVIOUS
  <2>1. CASE LoadGdt \/ GdtInstallTss \/ SetTssRegister \/ SetTssKernelCurrentStack \/ KernelExecuteUserProgram
    BY <2>1, SetupStep
  <2>2. CASE \E vector \in Vectors : Trap(vector)
    BY <2>2, TrapStep
  <2>3. CASE CallGenericHandler
    BY <2>3, CallGenericHandlerStep
  <2>4. CASE MainInterruptHandler
    BY <2>4, MainInterruptHandlerStep
  <2>5. CASE TrapReturn
    BY <2>5, TrapReturnStep
  <2>6. CASE UNCHANGED trapVars
    BY <2>6, TrapsStutter
  <2> QED
    BY <2>1, <2>2, <2>3, <2>4, <2>5, <2>6 DEF TrapsNext, TrapSteps
<1> QED
  BY <1>1, TrapsStart, PTL DEF TrapsSpec

(* main_interrupt_handler() finds the registers of what was interrupted.   *)
THEOREM FrameCorrect == TrapsSpec => []FrameTrue
<1>1. TrapsInv => FrameTrue
  <2> SUFFICES ASSUME TrapsInv, place = "handler" PROVE FrameTrue
    BY DEF FrameTrue
  <2>1. AllWords(before, stack)
    BY DEF TrapsInv
  <2> QED
    BY <2>1, WordsRead DEF FrameTrue
<1> QED
  BY <1>1, TrapsCorrect, PTL

(* A trap gives every register back, and the kernel its stack.             *)
THEOREM ContextCorrect == TrapsSpec => ContextRestored
<1>1. TrapsInv /\ [TrapsNext]_trapVars =>
        [TrapReturn => cpu' = before.cpu /\ (FromProgram(before.cpu) \/ stack' = before.stack)]_trapVars
  <2> SUFFICES ASSUME TrapsInv, TrapReturn
               PROVE  cpu' = before.cpu /\ (FromProgram(before.cpu) \/ stack' = before.stack)
    OBVIOUS
  <2> QED
    BY Restored DEF Base
<1> QED
  BY <1>1, TrapsCorrect, PTL DEF TrapsSpec, ContextRestored

-----------------------------------------------------------------------------
(* The machine: segments and traps                                         *)

(* GRUB leaves selectors of the GDT in the segment registers.              *)
SegmentsDefined == \A s \in GrubSegments : s - Ring(s) \in DOMAIN Gdt

(* The places of kernel_setup() behind each step towards ring 3.           *)
Installed == {"ltr", "allocate", "read", "kaikai", "lain", "esp0", "jump", "user"}
Loaded    == Installed \ {"ltr"}
StackSet  == {"jump", "user"}

(* A trap starts from what the CPU may load, and out of a program it finds *)
(* the task state that kernel_setup() has put in place by then.            *)
RingInv ==
  /\ TrapsInv
  /\ place # "fault"
  /\ place = "run" => Loadable(cpu) /\ stack # << >> /\ (FromProgram(cpu) => at = "user")
  /\ InTrap =>
       /\ Loadable(before.cpu) /\ before.stack # << >>
       /\ FromProgram(before.cpu) => at = "user"
  /\ at \in Installed => descriptor = BaseFields(TSS_ADDRESS)
  /\ at \in Loaded => tr = TSS_ADDRESS
  /\ at \in StackSet => esp0 # 0

(* A step that leaves segments, stack and trap alone moves to no place     *)
(* behind a step towards ring 3, and not out of the program.               *)
QuietStep ==
  /\ UNCHANGED trapVars
  /\ at' \in Installed => at \in Installed
  /\ at' \in Loaded => at \in Loaded
  /\ at' \in StackSet => at \in StackSet
  /\ at = "user" => at' = "user"

LEMMA ProceedQuiet ==
  ASSUME at \in {"mount", "read", "kaikai", "lain", "host_mount", "host_write"},
         Proceed, UNCHANGED trapVars
  PROVE  QuietStep
<1>1. at' = at \/ at' = After[at]
  BY DEF Proceed
<1>2. After[at] = CASE at = "mount" -> "tss" [] at = "read" -> "kaikai" [] at = "kaikai" -> "lain"
                    [] at = "lain" -> "esp0" [] at = "host_mount" -> "host_write"
                    [] at = "host_write" -> "host_save"
  BY DEF After
<1> QED
  BY <1>1, <1>2 DEF QuietStep, Installed, Loaded, StackSet

(* What a step of the machine is to the segments and the stack.            *)
LEMMA TrapActions ==
  ASSUME [KernelNext]_kernelVars
  PROVE  \/ QuietStep
         \/ at = "gdt" /\ LoadGdt /\ at' = "mount"
         \/ at = "tss" /\ GdtInstallTss /\ at' = "ltr"
         \/ at = "ltr" /\ SetTssRegister /\ at' = "allocate"
         \/ at = "esp0" /\ SetTssKernelCurrentStack /\ at' = "jump"
         \/ at = "jump" /\ KernelExecuteUserProgram /\ at' = "user"
         \/ at' = at /\ \E vector \in Vectors : Trap(vector)
         \/ at' = at /\ TrapSteps
         \/ at' = "off" /\ TrapsInit'
<1>1. CASE InserterStart \/ PowerOn \/ InserterSave
  BY <1>1 DEF InserterStart, PowerOn, InserterSave, QuietStep, Installed, Loaded, StackSet
<1>2. CASE InserterWrite
  BY <1>2, ProceedQuiet DEF InserterWrite
<1>3. CASE Reset
  BY <1>3 DEF Reset, TrapsInit
<1>4. CASE PagingSteps
  BY <1>4 DEF PagingSteps, QuietStep, Installed, Loaded, StackSet
<1>5. CASE RingSteps
  BY <1>5 DEF RingSteps
<1>6. CASE ReadShell
  BY <1>6, ProceedQuiet DEF ReadShell
<1>7. CASE CopyBlock
  BY <1>7, ProceedQuiet DEF CopyBlock
<1>8. CASE WriteText
  BY <1>8, ProceedQuiet DEF WriteText
<1>9. CASE DriverSteps
  BY <1>9, ProceedQuiet DEF DriverSteps
<1>10. CASE Mmu
  BY <1>10 DEF Mmu, QuietStep, Installed, Loaded, StackSet
<1>11. CASE TrapIn
  BY <1>11 DEF TrapIn
<1>12. CASE TrapGoesOn
  BY <1>12 DEF TrapGoesOn
<1>13. CASE UNCHANGED kernelVars
  BY <1>13 DEF kernelVars, QuietStep
<1> QED
  BY <1>1, <1>2, <1>3, <1>4, <1>5, <1>6, <1>7, <1>8, <1>9, <1>10, <1>11, <1>12, <1>13
     DEF KernelNext, Setup

LEMMA TrapsStartNext == TrapsInit' => TrapsInv'
<1>1. TrapsInit => TrapsInv
  BY TrapsStart
<1> QED
  BY <1>1, PTL

LEMMA TrapsInvStep ==
  ASSUME TrapsInv, [KernelNext]_kernelVars
  PROVE  TrapsInv'
<1>1. CASE QuietStep
  BY <1>1, TrapsStutter DEF QuietStep
<1>2. CASE LoadGdt \/ GdtInstallTss \/ SetTssRegister \/ SetTssKernelCurrentStack \/ KernelExecuteUserProgram
  BY <1>2, SetupStep
<1>3. CASE \E vector \in Vectors : Trap(vector)
  BY <1>3, TrapStep DEF TrapsInv
<1>4. CASE TrapSteps
  BY <1>4, CallGenericHandlerStep, MainInterruptHandlerStep, TrapReturnStep DEF TrapSteps
<1>5. CASE TrapsInit'
  BY <1>5, TrapsStartNext
<1> QED
  BY <1>1, <1>2, <1>3, <1>4, <1>5, TrapActions

(* Selectors that the CPU accepts.                                         *)
LEMMA SelectorsKnown ==
  /\ Ring(KCODE) = 0 /\ Ring(KDATA) = 0 /\ Ring(UCODE) = 3 /\ Ring(UDATA) = 3
  /\ {KCODE, KDATA, UCODE - 3, UDATA - 3} \subseteq DOMAIN Gdt
  /\ Segment(KCODE).code /\ Segment(KCODE).privilege = 0 /\ Segment(KDATA).privilege = 0
  /\ Segment(UCODE).code /\ Segment(UCODE).privilege = 3 /\ Segment(UDATA).privilege = 3
<1>1. Ring(KCODE) = 0 /\ Ring(KDATA) = 0 /\ Ring(UCODE) = 3 /\ Ring(UDATA) = 3
  BY DEF Ring, KCODE, KDATA, UCODE, UDATA
<1>2. KCODE - 0 = 8 /\ KDATA - 0 = 16 /\ UCODE - 3 = 24 /\ UDATA - 3 = 32
  BY DEF KCODE, KDATA, UCODE, UDATA
<1>3. DOMAIN Gdt = {8, 16, 24, 32}
  BY DEF Gdt
<1>4. /\ Gdt[8].code /\ Gdt[8].privilege = 0 /\ Gdt[16].privilege = 0
      /\ Gdt[24].code /\ Gdt[24].privilege = 3 /\ Gdt[32].privilege = 3
  <2> DEFINE descr(s) == [code |-> s \in {8, 24}, privilege |-> IF s \in {8, 16} THEN 0 ELSE 3]
  <2>1. \A s \in {8, 16, 24, 32} : Gdt[s] = descr(s)
    BY Zenon DEF Gdt
  <2>2. \A s : (descr(s).code <=> s \in {8, 24}) /\ descr(s).privilege = IF s \in {8, 16} THEN 0 ELSE 3
    BY Zenon
  <2> HIDE DEF descr
  <2>3. /\ descr(8).code /\ descr(8).privilege = 0 /\ descr(16).privilege = 0
        /\ descr(24).code /\ descr(24).privilege = 3 /\ descr(32).privilege = 3
    BY <2>2
  <2> QED
    BY <2>1, <2>3
<1>5. KCODE = 8 /\ KDATA = 16
  BY DEF KCODE, KDATA
<1> QED
  BY <1>1, <1>2, <1>3, <1>4, <1>5 DEF Segment

LEMMA Privileges ==
  ASSUME NEW s, s - Ring(s) \in DOMAIN Gdt
  PROVE  Segment(s).privilege >= 0
<1>1. \A g \in DOMAIN Gdt : Gdt[g].privilege >= 0
  BY DEF Gdt
<1> QED
  BY <1>1 DEF Segment

LEMMA KernelLoadable ==
  ASSUME NEW regs, regs.cs = KCODE, regs.ss = KDATA,
         \A s \in {regs.ds, regs.es, regs.fs, regs.gs} : s - Ring(s) \in DOMAIN Gdt
  PROVE  Loadable(regs)
<1>1. KCODE - Ring(KCODE) \in DOMAIN Gdt /\ KDATA - Ring(KDATA) \in DOMAIN Gdt
  BY SelectorsKnown DEF KCODE, KDATA
<1> QED
  BY <1>1, SelectorsKnown, Privileges DEF Loadable

LEMMA UserLoadable == cpu \in Regs => Loadable(UserCpu)
<1> SUFFICES ASSUME cpu \in Regs PROVE Loadable(UserCpu)
  OBVIOUS
<1>1. /\ UserCpu.cs = UCODE /\ UserCpu.ss = UDATA /\ UserCpu.ds = UDATA
      /\ UserCpu.es = UDATA /\ UserCpu.fs = UDATA /\ UserCpu.gs = UDATA
  BY DEF UserCpu, Regs
<1>2. UCODE - Ring(UCODE) \in DOMAIN Gdt /\ UDATA - Ring(UDATA) \in DOMAIN Gdt
  BY SelectorsKnown
<1> QED
  BY <1>1, <1>2, SelectorsKnown DEF Loadable

LEMMA GrubLoadable ==
  ASSUME SegmentsDefined, NEW regs \in GrubCpu
  PROVE  Loadable(regs) /\ ~FromProgram(regs)
<1>1. PICK s \in GrubSegments :
        /\ regs.cs = KCODE /\ regs.ss = KDATA /\ regs.ds = KDATA /\ regs.es = KDATA
        /\ regs.fs = s /\ regs.gs = s
  BY DEF GrubCpu
<1>2. s - Ring(s) \in DOMAIN Gdt /\ KDATA - Ring(KDATA) \in DOMAIN Gdt
  BY SelectorsKnown DEF SegmentsDefined, KDATA
<1> QED
  BY <1>1, <1>2, KernelLoadable, SelectorsKnown DEF FromProgram

LEMMA RingStart ==
  ASSUME SegmentsDefined, TrapsInit, at = "off"
  PROVE  RingInv
<1>1. place = "run" /\ cpu \in GrubCpu /\ stack = <<LOADER>>
  BY DEF TrapsInit
<1>2. stack # << >>
  BY <1>1
<1> QED
  BY <1>1, <1>2, TrapsStart, GrubLoadable DEF RingInv, InTrap, Installed, Loaded, StackSet

LEMMA RingStartNext ==
  ASSUME SegmentsDefined
  PROVE  TrapsInit' /\ (at = "off")' => RingInv'
<1>1. TrapsInit /\ at = "off" => RingInv
  BY RingStart
<1> QED
  BY <1>1, PTL

LEMMA QuietRing ==
  ASSUME RingInv, TrapsInv', QuietStep
  PROVE  RingInv'
<1>1. UNCHANGED <<descriptor, tr, esp0, cpu, stack, place, before>>
  BY DEF QuietStep, trapVars
<1>2. UNCHANGED InTrap /\ (FromProgram(cpu') <=> FromProgram(cpu))
  BY <1>1 DEF InTrap
<1>3. /\ place' # "fault"
      /\ place' = "run" => Loadable(cpu') /\ stack' # << >> /\ (FromProgram(cpu') => at = "user")
      /\ InTrap' => /\ Loadable(before'.cpu) /\ before'.stack # << >>
                    /\ FromProgram(before'.cpu) => at = "user"
  BY <1>1, <1>2 DEF RingInv
<1> QED
  BY <1>1, <1>3 DEF RingInv, QuietStep

LEMMA SetupRing ==
  ASSUME RingInv, TrapsInv',
         \/ at = "gdt" /\ LoadGdt /\ at' = "mount"
         \/ at = "tss" /\ GdtInstallTss /\ at' = "ltr"
         \/ at = "ltr" /\ SetTssRegister /\ at' = "allocate"
         \/ at = "esp0" /\ SetTssKernelCurrentStack /\ at' = "jump"
         \/ at = "jump" /\ KernelExecuteUserProgram /\ at' = "user"
  PROVE  RingInv'
<1>1. /\ place = "run" /\ Loadable(cpu) /\ stack # << >> /\ ~FromProgram(cpu)
      /\ cpu \in Regs /\ RingOK(cpu) /\ stack \in Seq(Int)
  BY DEF RingInv, TrapsInv, RegsOK, LoadGdt, GdtInstallTss, SetTssRegister,
         SetTssKernelCurrentStack, KernelExecuteUserProgram
<1>2. cpu.cs = KCODE
  BY <1>1, SelectorsKnown DEF RingOK, FromProgram
<1>3. CASE at = "gdt" /\ LoadGdt /\ at' = "mount"
  <2>1. /\ cpu'.cs = KCODE /\ cpu'.ss = KDATA /\ cpu'.ds = KDATA /\ cpu'.es = KDATA
        /\ cpu'.fs = cpu.fs /\ cpu'.gs = cpu.gs
    BY <1>1, <1>3 DEF LoadGdt, Regs
  <2>2. KDATA - Ring(KDATA) \in DOMAIN Gdt
    BY SelectorsKnown DEF KDATA
  <2>3. cpu.fs - Ring(cpu.fs) \in DOMAIN Gdt /\ cpu.gs - Ring(cpu.gs) \in DOMAIN Gdt
    BY <1>1 DEF Loadable
  <2>4. Loadable(cpu') /\ ~FromProgram(cpu')
    BY <2>1, <2>2, <2>3, KernelLoadable, SelectorsKnown DEF FromProgram
  <2>5. place' = "run" /\ stack' # << >>
    BY <1>1, <1>3 DEF LoadGdt
  <2> QED
    BY <1>3, <2>4, <2>5 DEF RingInv, InTrap, Installed, Loaded, StackSet
<1>4. CASE at = "tss" /\ GdtInstallTss /\ at' = "ltr"
  <2>1. /\ place' = "run" /\ cpu' = cpu /\ stack' = stack /\ descriptor' = BaseFields(TSS_ADDRESS)
    BY <1>1, <1>4 DEF GdtInstallTss
  <2>2. Loadable(cpu') /\ ~FromProgram(cpu') /\ stack' # << >>
    BY <1>1, <2>1
  <2> QED
    BY <1>4, <2>1, <2>2 DEF RingInv, InTrap, Installed, Loaded, StackSet
<1>5. CASE at = "ltr" /\ SetTssRegister /\ at' = "allocate"
  <2>1. /\ place' = "run" /\ cpu' = cpu /\ stack' = stack /\ descriptor' = descriptor
        /\ tr' = BaseOf(descriptor)
    BY <1>1, <1>5 DEF SetTssRegister
  <2>2. descriptor = BaseFields(TSS_ADDRESS)
    BY <1>5 DEF RingInv, Installed
  <2>3. tr' = TSS_ADDRESS
    BY <2>1, <2>2, BaseRead, AddressAssumption
  <2>4. Loadable(cpu') /\ ~FromProgram(cpu') /\ stack' # << >>
    BY <1>1, <2>1
  <2> QED
    BY <1>5, <2>1, <2>2, <2>3, <2>4 DEF RingInv, InTrap, Installed, Loaded, StackSet
<1>6. CASE at = "esp0" /\ SetTssKernelCurrentStack /\ at' = "jump"
  <2>1. /\ place' = "run" /\ cpu' = cpu /\ stack' = stack /\ descriptor' = descriptor /\ tr' = tr
        /\ esp0' = Len(stack)
    BY <1>1, <1>6 DEF SetTssKernelCurrentStack
  <2>2. Loadable(cpu') /\ ~FromProgram(cpu') /\ stack' # << >>
    BY <1>1, <2>1
  <2>3. esp0' # 0
    BY <1>1, <2>1
  <2>4. descriptor = BaseFields(TSS_ADDRESS) /\ tr = TSS_ADDRESS
    BY <1>6 DEF RingInv, Installed, Loaded
  <2> QED
    BY <1>6, <2>1, <2>2, <2>3, <2>4 DEF RingInv, InTrap, Installed, Loaded, StackSet
<1>7. CASE at = "jump" /\ KernelExecuteUserProgram /\ at' = "user"
  <2>1. /\ cpu' = UserCpu /\ stack' = stack \o <<0, KERNEL_SETUP>>
        /\ place' = IF Loadable(UserCpu) THEN "run" ELSE "fault"
        /\ descriptor' = descriptor /\ tr' = tr /\ esp0' = esp0
    BY <1>7 DEF KernelExecuteUserProgram
  <2>2. place' = "run" /\ Loadable(cpu')
    BY <1>1, <2>1, UserLoadable
  <2>3. stack' # << >>
    <3>1. KERNEL_SETUP \in Int
      BY DEF KERNEL_SETUP
    <3>2. Len(stack') = Len(stack) + 2 /\ Len(stack) \in Nat
      BY <1>1, <2>1, <3>1
    <3>3. stack' = << >> => Len(stack') = 0
      OBVIOUS
    <3> QED
      BY <3>2, <3>3
  <2>4. descriptor = BaseFields(TSS_ADDRESS) /\ tr = TSS_ADDRESS /\ esp0 # 0
    BY <1>7 DEF RingInv, Installed, Loaded, StackSet
  <2> QED
    BY <1>7, <2>1, <2>2, <2>3, <2>4 DEF RingInv, InTrap, Installed, Loaded, StackSet
<1> QED
  BY <1>3, <1>4, <1>5, <1>6, <1>7

LEMMA TrapRing ==
  ASSUME RingInv, TrapsInv', at' = at, NEW vector \in Vectors, Trap(vector)
  PROVE  RingInv'
<1>1. /\ place = "run" /\ before' = [cpu |-> cpu, stack |-> stack, vector |-> vector]
      /\ descriptor' = descriptor /\ tr' = tr /\ esp0' = esp0
  BY DEF Trap
<1>2. /\ Loadable(cpu) /\ stack # << >> /\ (FromProgram(cpu) => at = "user")
  BY <1>1 DEF RingInv
<1>3. ~(FromProgram(cpu) /\ ~TssFound)
  BY <1>2 DEF RingInv, TssFound, Loaded, Installed, StackSet
<1>4. place' = "stub"
  BY <1>3 DEF Trap
<1>5. before'.cpu = cpu /\ before'.stack = stack
  BY <1>1
<1>6. /\ place' # "fault" /\ place' # "run"
      /\ InTrap' => /\ Loadable(before'.cpu) /\ before'.stack # << >>
                    /\ FromProgram(before'.cpu) => at' = "user"
  BY <1>2, <1>4, <1>5
<1>7. /\ at' \in Installed => descriptor' = BaseFields(TSS_ADDRESS)
      /\ at' \in Loaded => tr' = TSS_ADDRESS
      /\ at' \in StackSet => esp0' # 0
  BY <1>1 DEF RingInv
<1> QED
  BY <1>6, <1>7 DEF RingInv

LEMMA TrapStepsRing ==
  ASSUME RingInv, TrapsInv', at' = at, TrapSteps
  PROVE  RingInv'
<1>1. InTrap /\ descriptor' = descriptor /\ tr' = tr /\ esp0' = esp0
  BY DEF InTrap, TrapSteps, CallGenericHandler, MainInterruptHandler, TrapReturn
<1>2. /\ at' \in Installed => descriptor' = BaseFields(TSS_ADDRESS)
      /\ at' \in Loaded => tr' = TSS_ADDRESS
      /\ at' \in StackSet => esp0' # 0
  BY <1>1 DEF RingInv
<1>3. /\ Loadable(before.cpu) /\ before.stack # << >>
      /\ FromProgram(before.cpu) => at = "user"
  BY <1>1 DEF RingInv
<1>4. CASE CallGenericHandler \/ MainInterruptHandler
  <2>1. before' = before /\ place' \in {"handler", "return"}
    BY <1>4 DEF CallGenericHandler, MainInterruptHandler
  <2> QED
    BY <1>2, <1>3, <2>1 DEF RingInv
<1>5. CASE TrapReturn
  <2>1. cpu' = before.cpu /\ stack' = Base(before)
    BY <1>5, Restored DEF RingInv
  <2>2. cpu' = Popped /\ place' = IF Loadable(Popped) THEN "run" ELSE "fault"
    BY <1>5 DEF TrapReturn
  <2>3. place' = "run" /\ Loadable(cpu')
    BY <1>3, <2>1, <2>2
  <2>4. BeforeOK(before) /\ esp0 \in Nat
    BY <1>1 DEF RingInv, TrapsInv, RegsOK
  <2>5. stack' # << >>
    <3>1. CASE FromProgram(before.cpu)
      <4>1. esp0 # 0
        BY <1>3, <3>1 DEF RingInv, StackSet
      <4>2. Len(Base(before)) = esp0
        BY <2>4, <3>1, BaseTyped
      <4>3. Base(before) = << >> => Len(Base(before)) = 0
        OBVIOUS
      <4> QED
        BY <2>1, <4>1, <4>2, <4>3
    <3>2. CASE ~FromProgram(before.cpu)
      BY <1>3, <2>1, <3>2 DEF Base
    <3> QED
      BY <3>1, <3>2
  <2>6. FromProgram(cpu') => at' = "user"
    BY <1>3, <2>1
  <2> QED
    BY <1>2, <2>3, <2>5, <2>6 DEF RingInv, InTrap
<1> QED
  BY <1>4, <1>5 DEF TrapSteps

LEMMA RingStep ==
  ASSUME SegmentsDefined, RingInv, [KernelNext]_kernelVars
  PROVE  RingInv'
<1>1. TrapsInv'
  BY TrapsInvStep DEF RingInv
<1> QED
  BY <1>1, TrapActions, QuietRing, SetupRing, TrapRing, TrapStepsRing, RingStartNext

-----------------------------------------------------------------------------
(* The machine's traps are those of TrapsSpec, and more: a reset.          *)
THEOREM MachineTrapsCorrect == KernelSpec => []TrapsInv
<1>1. KernelInit => TrapsInv
  BY TrapsStart DEF KernelInit
<1>2. TrapsInv /\ [KernelNext]_kernelVars => TrapsInv'
  BY TrapsInvStep
<1> QED
  BY <1>1, <1>2, PTL DEF KernelSpec

(* main_interrupt_handler() finds the registers of what was interrupted.   *)
THEOREM FrameTrueCorrect == KernelSpec => []FrameTrue
<1>1. TrapsInv => FrameTrue
  <2> SUFFICES ASSUME TrapsInv, place = "handler" PROVE FrameTrue
    BY DEF FrameTrue
  <2>1. AllWords(before, stack)
    BY DEF TrapsInv
  <2> QED
    BY <2>1, WordsRead DEF FrameTrue
<1> QED
  BY <1>1, MachineTrapsCorrect, PTL

(* A trap gives every register back, and the kernel its stack.             *)
THEOREM ContextRestoredCorrect == KernelSpec => ContextRestored
<1>1. TrapsInv /\ [KernelNext]_kernelVars =>
        [TrapReturn => cpu' = before.cpu /\ (FromProgram(before.cpu) \/ stack' = before.stack)]_trapVars
  <2> SUFFICES ASSUME TrapsInv, TrapReturn
               PROVE  cpu' = before.cpu /\ (FromProgram(before.cpu) \/ stack' = before.stack)
    OBVIOUS
  <2> QED
    BY Restored DEF Base
<1> QED
  BY <1>1, MachineTrapsCorrect, PTL DEF KernelSpec, ContextRestored

(* The CPU refuses no segment and misses no task state, on the way into    *)
(* the program and in any trap.                                            *)
THEOREM NoFaultCorrect == ASSUME SegmentsDefined PROVE KernelSpec => []NoFault
<1>1. KernelInit => RingInv
  BY RingStart DEF KernelInit
<1>2. RingInv /\ [KernelNext]_kernelVars => RingInv'
  BY RingStep
<1>3. RingInv => NoFault
  BY DEF RingInv, NoFault
<1> QED
  BY <1>1, <1>2, <1>3, PTL DEF KernelSpec

-----------------------------------------------------------------------------
(* The machine's storage                                                   *)

HostPlaces == {"host_mount", "host_write", "host_save"}
BootPlaces == {"loader", "gdt", "mount", "tss", "ltr", "allocate", "read", "kaikai", "lain",
               "esp0", "jump", "user"}

(* Where the driver is at each place of kernel_setup() and the inserter.   *)
PlaceOK ==
  /\ at \in {"off"} \cup HostPlaces \cup BootPlaces
  /\ at \in {"off", "loader", "gdt"} => pc = "off"
  /\ at \in {"mount", "host_mount"} => pc \in {"off", "mount"} \cup FormatSteps
  /\ at \in {"tss", "ltr", "allocate", "esp0", "jump", "user", "host_save"} => pc = "idle"
  /\ at = "read" => pc \in {"idle", "read"}
  /\ at \in {"kaikai", "lain", "host_write"} => pc \in {"idle"} \cup WriteSteps
  /\ at \in BootPlaces => cbuf \in Leftovers
  /\ torn \in BOOLEAN

LEMMA TornBoolean ==
  ASSUME torn \in BOOLEAN, [KernelNext]_kernelVars
  PROVE  torn' \in BOOLEAN
<1>1. CASE Reset
  BY <1>1 DEF Reset, PowerLoss, PowerLossInFat, crashVars
<1>2. CASE ~Reset
  <2>1. torn' = torn
    BY <1>2 DEF KernelNext, Setup, InserterStart, InserterWrite, InserterSave, PowerOn, PagingSteps,
                RingSteps, ReadShell, CopyBlock, WriteText, DriverSteps, Mmu, TrapIn, TrapGoesOn,
                kernelVars, storageVars, crashVars
  <2> QED
    BY <2>1
<1> QED
  BY <1>1, <1>2

LEMMA WritePlaces ==
  ASSUME WriteBlock \/ WriteFat \/ WriteDir
  PROVE  pc' \in {"idle"} \cup WriteSteps
  BY DEF WriteBlock, WriteFat, WriteDir, Return, WriteSteps

LEMMA BootPlacesOf ==
  ASSUME Boot
  PROVE  pc' \in {"idle", "mount"} \cup FormatSteps
  BY DEF Boot, WriteSignature, FormatFat, FormatRoot, Mount, FormatSteps

LEMMA StartPlaces ==
  ASSUME NEW n, NEW e, NEW p, NEW l, WriteStart(n, e, p, l) \/ WriteRefused(n, e, p, l)
  PROVE  pc' \in {"idle"} \cup WriteSteps
  BY DEF WriteStart, WriteRefused, Fail, callVars, WriteSteps

LEMMA ReadPlaces ==
  /\ \A n, e, p, size : ReadStart(n, e, p, size) \/ ReadRefused(n, e, p, size) => pc' \in {"idle", "read"}
  /\ ReadBlock => pc' \in {"idle", "read"}
  BY DEF ReadStart, ReadRefused, Fail, ReadBlock, Return

LEMMA AfterValues ==
  /\ After["mount"] = "tss" /\ After["read"] = "kaikai" /\ After["kaikai"] = "lain"
  /\ After["lain"] = "esp0" /\ After["host_mount"] = "host_write"
  /\ After["host_write"] = "host_save"
  BY DEF After

LEMMA PlaceStep ==
  ASSUME PlaceOK, [KernelNext]_kernelVars
  PROVE  PlaceOK'
<1>0. torn' \in BOOLEAN
  BY TornBoolean DEF PlaceOK
<1> USE DEF HostPlaces, BootPlaces, FormatSteps, WriteSteps
<1>1. CASE InserterStart
  BY <1>0, <1>1 DEF InserterStart, PlaceOK, storageVars, crashVars, vars
<1>2. CASE InserterWrite
  <2>1. at = "host_write" /\ pc' \in {"idle"} \cup WriteSteps
    BY <1>2, StartPlaces DEF InserterWrite
  <2>2. at' = IF pc' = "idle" THEN "host_save" ELSE "host_write"
    BY <1>2, <2>1, AfterValues DEF InserterWrite, Proceed
  <2> QED
    BY <2>1, <2>2, <1>0 DEF PlaceOK
<1>3. CASE InserterSave
  BY <1>0, <1>3 DEF InserterSave, Off, PlaceOK
<1>4. CASE PowerOn
  BY <1>0, <1>4 DEF PowerOn, PlaceOK, storageVars, crashVars, vars
<1>5. CASE Reset
  <2>1. at' = "off" /\ pc' = "off"
    BY <1>5 DEF Reset, PowerLoss, PowerLossInFat, Off, crashVars, vars
  <2> QED
    BY <2>1, <1>0 DEF PlaceOK
<1>6. CASE PagingSteps
  <2>1. /\ UNCHANGED <<pc, cbuf>>
        /\ \/ at = "loader" /\ at' \in {"loader", "gdt"}
           \/ at = "allocate" /\ at' \in {"allocate", "read"}
    BY <1>6 DEF PagingSteps, storageVars, crashVars, vars
  <2> QED
    BY <2>1, <1>0 DEF PlaceOK
<1>7. CASE RingSteps
  <2>1. /\ UNCHANGED <<pc, cbuf>>
        /\ \/ at = "gdt" /\ at' = "mount"
           \/ at = "tss" /\ at' = "ltr"
           \/ at = "ltr" /\ at' = "allocate"
           \/ at = "esp0" /\ at' = "jump"
           \/ at = "jump" /\ at' = "user"
    BY <1>7 DEF RingSteps, crashVars, vars
  <2> QED
    BY <2>1, <1>0 DEF PlaceOK
<1>8. CASE ReadShell \/ CopyBlock
  <2>1. at = "read" /\ pc' \in {"idle", "read"} /\ cbuf' = cbuf
    BY <1>8, ReadPlaces DEF ReadShell, CopyBlock
  <2>2. at' = IF pc' = "idle" THEN "kaikai" ELSE "read"
    BY <1>8, <2>1, AfterValues DEF ReadShell, CopyBlock, Proceed
  <2> QED
    BY <2>1, <2>2, <1>0 DEF PlaceOK
<1>9. CASE WriteText
  <2>1. at \in {"kaikai", "lain"} /\ pc' \in {"idle"} \cup WriteSteps /\ cbuf' = cbuf
    BY <1>9, StartPlaces DEF WriteText
  <2>2. at' = IF pc' = "idle" THEN IF at = "kaikai" THEN "lain" ELSE "esp0" ELSE at
    BY <1>9, <2>1, AfterValues DEF WriteText, Proceed
  <2> QED
    BY <2>1, <2>2, <1>0 DEF PlaceOK
<1>10. CASE DriverSteps
  <2>1. cbuf' = cbuf /\ at' = IF pc' = "idle" THEN After[at] ELSE at
    BY <1>10 DEF DriverSteps, Proceed
  <2>2. CASE at \in {"mount", "host_mount"} /\ Boot
    <3>1. at' = IF pc' = "idle" THEN IF at = "mount" THEN "tss" ELSE "host_write" ELSE at
      BY <2>1, <2>2, AfterValues
    <3> QED
      BY <2>1, <2>2, <3>1, BootPlacesOf, <1>0 DEF PlaceOK
  <2>3. CASE at \in {"kaikai", "lain", "host_write"} /\ (WriteBlock \/ WriteFat \/ WriteDir)
    <3>1. at' = IF pc' = "idle"
                  THEN IF at = "kaikai" THEN "lain" ELSE IF at = "lain" THEN "esp0" ELSE "host_save"
                  ELSE at
      BY <2>1, <2>3, AfterValues
    <3> QED
      BY <2>1, <2>3, <3>1, WritePlaces, <1>0 DEF PlaceOK
  <2> QED
    BY <1>10, <2>2, <2>3 DEF DriverSteps
<1>11. CASE Mmu \/ TrapIn \/ TrapGoesOn
  <2>1. UNCHANGED <<pc, at, cbuf>>
    BY <1>11 DEF Mmu, TrapIn, TrapGoesOn, storageVars, crashVars, vars
  <2> QED
    BY <2>1, <1>0 DEF PlaceOK
<1>12. CASE UNCHANGED kernelVars
  <2>1. UNCHANGED <<pc, at, cbuf>>
    BY <1>12 DEF kernelVars, storageVars, crashVars, vars
  <2> QED
    BY <2>1, <1>0 DEF PlaceOK
<1> QED
  BY <1>1, <1>2, <1>3, <1>4, <1>5, <1>6, <1>7, <1>8, <1>9, <1>10, <1>11, <1>12 DEF KernelNext, Setup

(* A step of the machine is, for its storage, one of FAT32Crash.           *)
LEMMA CrashOfKernel ==
  ASSUME PlaceOK, [KernelNext]_kernelVars
  PROVE  [CrashNext]_crashVars
<1>1. CASE InserterStart \/ PowerOn \/ Mmu \/ TrapIn \/ TrapGoesOn \/ PagingSteps \/ RingSteps
  BY <1>1 DEF InserterStart, PowerOn, Mmu, TrapIn, TrapGoesOn, PagingSteps, RingSteps, storageVars
<1>2. CASE InserterWrite
  <2>1. PICK n \in InserterNames, p \in Clusters, l \in InserterLoads :
          WriteStart(n, NO_EXT, p, l) \/ WriteRefused(n, NO_EXT, p, l)
    BY <1>2 DEF InserterWrite
  <2>2. n \in Names /\ NO_EXT \in Exts /\ l \in Loads
    BY KernelAssumption
  <2>3. Calls
    BY <2>1, <2>2 DEF Calls
  <2> QED
    BY <1>2, <2>3 DEF InserterWrite, CrashNext, Next
<1>3. CASE InserterSave
  <2>1. pc = "idle" /\ Off /\ UNCHANGED <<diskVars, torn>>
    BY <1>3 DEF InserterSave, PlaceOK
  <2>2. torn' = (torn \/ pc \in {"format_fat", "format_root", "delete_dir"})
    BY <2>1, Zenon DEF PlaceOK
  <2> QED
    BY <2>1, <2>2 DEF CrashNext, PowerLoss
<1>4. CASE Reset
  BY <1>4 DEF Reset, CrashNext
<1>5. CASE ReadShell
  <2>1. ReadStart(SHELL, NO_EXT, ROOT, SHELL_SIZE) \/ ReadRefused(SHELL, NO_EXT, ROOT, SHELL_SIZE)
    BY <1>5 DEF ReadShell
  <2>2. SHELL \in Names /\ NO_EXT \in Exts /\ ROOT \in Clusters /\ SHELL_SIZE \in ReadSizes
    BY KernelAssumption, SizeAssumption DEF Clusters, ROOT
  <2>3. Calls
    BY <2>1, <2>2 DEF Calls
  <2> QED
    BY <1>5, <2>3 DEF ReadShell, CrashNext, Next
<1>6. CASE CopyBlock
  BY <1>6 DEF CopyBlock, CrashNext, Next, Steps
<1>7. CASE WriteText
  <2>1. PICK n \in {KAIKAI, LAIN} :
          WriteStart(n, TXT, ROOT, TextLoad(n, cbuf)) \/ WriteRefused(n, TXT, ROOT, TextLoad(n, cbuf))
    BY <1>7 DEF WriteText
  <2>2. cbuf \in Leftovers
    BY <1>7 DEF WriteText, PlaceOK, BootPlaces
  <2>3. n \in Names /\ TXT \in Exts /\ ROOT \in Clusters /\ TextLoad(n, cbuf) \in Loads
    BY <2>2, KernelAssumption, SizeAssumption DEF Clusters, ROOT
  <2>4. Calls
    BY <2>1, <2>3 DEF Calls
  <2> QED
    BY <1>7, <2>4 DEF WriteText, CrashNext, Next
<1>8. CASE DriverSteps
  BY <1>8 DEF DriverSteps, CrashNext, Next, Steps
<1>9. CASE UNCHANGED kernelVars
  BY <1>9 DEF kernelVars, storageVars
<1> QED
  BY <1>1, <1>2, <1>3, <1>4, <1>5, <1>6, <1>7, <1>8, <1>9 DEF KernelNext, Setup

(* Whatever is proved of the driver on a machine that loses power holds of *)
(* the driver in the kernel and in the inserter.                           *)
THEOREM MachineIsCrash == KernelSpec => CrashSpec
<1>1. KernelInit => PlaceOK
  BY DEF KernelInit, CrashInit, Init, PlaceOK, HostPlaces, BootPlaces
<1>2. PlaceOK /\ [KernelNext]_kernelVars => PlaceOK'
  BY PlaceStep
<1>3. PlaceOK /\ [KernelNext]_kernelVars => [CrashNext]_crashVars
  BY CrashOfKernel
<1>4. KernelInit => CrashInit
  BY DEF KernelInit
<1> QED
  BY <1>1, <1>2, <1>3, <1>4, PTL DEF KernelSpec, CrashSpec

-----------------------------------------------------------------------------
(* A storage whose formatting was cut                                      *)

(* It has no cluster that is taken for a parent.                           *)
NoParent == \A p \in DataClusters : ~(dfat[p] = EOF /\ disk[p].dir)

TornInv == torn => sig /\ pc \notin FormatSteps \cup WriteSteps /\ NoParent

LEMMA NoDeleting ==
  ASSUME PlaceOK
  PROVE  pc \notin DeleteSteps /\ pc # "wild"
BY DEF PlaceOK, HostPlaces, BootPlaces, FormatSteps, WriteSteps, DeleteSteps

(* What the machine does to its storage.                                   *)
LEMMA StorageActions ==
  ASSUME PlaceOK, PlaceOK', [CrashNext]_crashVars
  PROVE  \/ Boot /\ UNCHANGED torn
         \/ Calls /\ UNCHANGED torn
         \/ (WriteBlock \/ WriteFat \/ WriteDir) /\ UNCHANGED torn
         \/ ReadBlock /\ UNCHANGED torn
         \/ PowerLoss \/ PowerLossInFat
         \/ UNCHANGED crashVars
<1>1. ~(FreeCluster \/ DeleteFat \/ DeleteDir)
  BY NoDeleting DEF FreeCluster, DeleteFat, DeleteDir, DeleteSteps
<1>2. ~GoWild
  <2>1. (pc # "wild")'
    BY NoDeleting, PTL
  <2> QED
    BY <2>1 DEF GoWild
<1> QED
  BY <1>1, <1>2 DEF CrashNext, Next, Steps

LEMMA CallsOnTorn ==
  ASSUME CrashInv, pc = "idle" => NoParent, Calls
  PROVE  pc' = pc /\ UNCHANGED diskVars
<1>1. PICK n \in Names, e \in Exts, p \in Clusters :
        \/ \E l \in Loads : WriteRefused(n, e, p, l) \/ WriteStart(n, e, p, l)
        \/ DeleteRefused(n, e, p) \/ DeleteStart(n, e, p)
        \/ \E size \in ReadSizes :
             \/ ReadRefused(n, e, p, size) \/ ReadStart(n, e, p, size)
             \/ ReadDirectory(n, p, size)
  BY DEF Calls
<1>2. pc = "idle"
  BY <1>1 DEF WriteRefused, WriteStart, DeleteRefused, DeleteStart, ReadRefused, ReadStart, ReadDirectory
<1>3. ~ParentOK(p)
  <2>1. fat = dfat
    BY <1>2 DEF CrashInv, CacheCoherent
  <2>2. p >= 2 => p \in DataClusters
    BY DEF Clusters, DataClusters, ROOT
  <2> QED
    BY <1>2, <2>1, <2>2 DEF ParentOK, NoParent
<1>4. /\ \A size : WriteCode(n, e, p, size) = 2 /\ ReadCode(n, e, p, size) = -1
      /\ DeleteCode(n, e, p) = -1
  BY <1>3 DEF WriteCode, ReadCode, DeleteCode
<1> QED
  BY <1>1, <1>4 DEF WriteRefused, WriteStart, DeleteRefused, DeleteStart, ReadRefused, ReadStart,
                    ReadDirectory, Fail, diskVars

LEMMA TornStep ==
  ASSUME PlaceOK, PlaceOK', CrashInv, TornInv, [CrashNext]_crashVars
  PROVE  TornInv' /\ (torn => UNCHANGED diskVars)
<1>1. CASE torn
  <2>1. sig /\ pc \notin FormatSteps \cup WriteSteps /\ NoParent
    BY <1>1 DEF TornInv
  <2>2. CASE Boot
    <3>1. Mount
      BY <2>1, <2>2 DEF Boot, WriteSignature, FormatFat, FormatRoot, FormatSteps
    <3> QED
      BY <2>1, <3>1 DEF Mount, diskVars, TornInv, NoParent, FormatSteps, WriteSteps
  <2>3. CASE Calls
    BY <2>1, <2>3, CallsOnTorn DEF TornInv, NoParent, diskVars
  <2>4. CASE WriteBlock \/ WriteFat \/ WriteDir
    BY <2>1, <2>4 DEF WriteBlock, WriteFat, WriteDir, WriteSteps
  <2>5. CASE ReadBlock
    <3>1. UNCHANGED diskVars /\ pc' \in {"read", "idle"}
      BY <2>5 DEF ReadBlock, Return
    <3> QED
      BY <2>1, <3>1 DEF diskVars, TornInv, NoParent, FormatSteps, WriteSteps
  <2>6. CASE PowerLoss
    <3>1. UNCHANGED diskVars /\ pc' = "off"
      BY <2>6 DEF PowerLoss, Off
    <3> QED
      BY <2>1, <3>1 DEF diskVars, TornInv, NoParent, FormatSteps, WriteSteps
  <2>7. CASE PowerLossInFat
    BY <2>1, <2>7, NoDeleting DEF PowerLossInFat, FormatSteps, WriteSteps, DeleteSteps
  <2>8. CASE UNCHANGED crashVars
    BY <2>1, <2>8 DEF crashVars, vars, diskVars, TornInv, NoParent
  <2> QED
    BY <2>2, <2>3, <2>4, <2>5, <2>6, <2>7, <2>8, StorageActions
<1>2. CASE ~torn
  <2>1. SUFFICES ASSUME torn'
                 PROVE  TornInv'
    BY <1>2 DEF TornInv
  <2>2. /\ pc \in FormatSteps /\ pc' = "off" /\ UNCHANGED <<sig, disk>>
    BY <1>2, <2>1, StorageActions, NoDeleting
    DEF crashVars, PowerLoss, PowerLossInFat, Off, diskVars, FormatSteps, DeleteSteps
  <2>3. sig /\ \A c \in DataClusters : ~disk[c].dir
    BY <2>2, NoDeleting DEF CrashInv, TypesOK, CallOK, FormatOK
  <2> QED
    BY <2>2, <2>3 DEF TornInv, NoParent, FormatSteps, WriteSteps
<1> QED
  BY <1>1, <1>2

(* Neither a boot nor the inserter repairs a storage whose formatting was  *)
(* cut, or writes to it.                                                   *)
THEOREM TornStaysCorrect == KernelSpec => TornStays
<1>1. KernelInit => PlaceOK /\ TornInv
  BY DEF KernelInit, CrashInit, Init, PlaceOK, HostPlaces, BootPlaces, TornInv
<1>2. PlaceOK /\ [KernelNext]_kernelVars => PlaceOK' /\ [CrashNext]_crashVars
  BY PlaceStep, CrashOfKernel
<1>3. PlaceOK /\ PlaceOK' /\ CrashInv /\ TornInv /\ [CrashNext]_crashVars
        => TornInv' /\ (torn => UNCHANGED diskVars)
  BY TornStep
<1>4. KernelSpec => []CrashInv
  BY MachineIsCrash, CrashInvCorrect, PTL
<1>5. [KernelNext]_kernelVars /\ (torn => UNCHANGED diskVars) => [torn => UNCHANGED diskVars]_kernelVars
  OBVIOUS
<1> QED
  BY <1>1, <1>2, <1>3, <1>4, <1>5, PTL DEF KernelSpec, TornStays

-----------------------------------------------------------------------------
(* A boot that has reached the shell                                       *)

FreeOnDisk == {c \in 2 .. CLUSTER_MAP_SIZE - 1 : dfat[c] = EMPTY}

(* The storage has no place for a text file of kernel_setup()'s, which     *)
(* may be there already.                                                   *)
NoPlaceFor(n) ==
  \/ torn
  \/ Matches(disk[ROOT], n, TXT) # {}
  \/ FreeSlots(disk[ROOT]) = {}
  \/ ~(Cardinality(FreeOnDisk) >= BlockCount(CLUSTER_SIZE))

(* kernel_setup() has been through its write() of the file.                *)
Tried(n) == settled \/ at \in {"esp0", "jump", "user"} \/ (at = "lain" /\ n = KAIKAI)

TextName == IF at = "kaikai" THEN KAIKAI ELSE LAIN

SettleInv ==
  /\ settled => sig /\ pc \notin FormatSteps
  /\ \A n \in {KAIKAI, LAIN} : Tried(n) => NoPlaceFor(n)
  /\ at \in {"kaikai", "lain"} /\ pc \in WriteSteps =>
       req.parent = ROOT /\ req.name = TextName /\ req.ext = TXT
  /\ settled /\ pc \in WriteSteps => at = "host_write"

(* Nothing on the storage is deleted: what has no place gets none.         *)
LEMMA NoPlaceStays ==
  ASSUME NEW n, NoPlaceFor(n),
         torn => torn',
         \A c \in 2 .. CLUSTER_MAP_SIZE - 1 : dfat[c] # EMPTY => dfat'[c] # EMPTY,
         \A s \in Slots : disk[ROOT].table[s].used =>
           /\ disk'[ROOT].table[s].used
           /\ disk'[ROOT].table[s].name = disk[ROOT].table[s].name
           /\ disk'[ROOT].table[s].ext = disk[ROOT].table[s].ext
  PROVE  NoPlaceFor(n)'
<1>1. Matches(disk[ROOT], n, TXT) # {} => Matches(disk'[ROOT], n, TXT) # {}
  BY DEF Matches
<1>2. FreeSlots(disk[ROOT]) = {} => FreeSlots(disk'[ROOT]) = {}
  BY DEF FreeSlots
<1>3. Cardinality(FreeOnDisk') >= BlockCount(CLUSTER_SIZE)
      => Cardinality(FreeOnDisk) >= BlockCount(CLUSTER_SIZE)
  <2>1. FreeOnDisk' \subseteq FreeOnDisk
    BY DEF FreeOnDisk
  <2>2. IsFiniteSet(FreeOnDisk)
    <3>1. IsFiniteSet(2 .. CLUSTER_MAP_SIZE - 1)
      BY SizeAssumption, FS_Interval
    <3>2. FreeOnDisk \subseteq 2 .. CLUSTER_MAP_SIZE - 1
      BY DEF FreeOnDisk
    <3> QED
      BY <3>1, <3>2, FS_Subset
  <2>3. Cardinality(FreeOnDisk') <= Cardinality(FreeOnDisk)
        /\ Cardinality(FreeOnDisk') \in Nat /\ Cardinality(FreeOnDisk) \in Nat
    BY <2>1, <2>2, FS_Subset, FS_CardinalityType
  <2>4. BlockCount(CLUSTER_SIZE) \in Nat
    BY SizeTypes DEF BlockCount
  <2> QED
    BY <2>3, <2>4
<1> QED
  BY <1>1, <1>2, <1>3 DEF NoPlaceFor

LEMMA DataIs == DataClusters = 2 .. CLUSTER_MAP_SIZE - 1
BY DEF DataClusters, ROOT

LEMMA RootInUse ==
  ASSUME CrashInv, ~torn, pc \in WriteSteps
  PROVE  dfat[ROOT] = EOF /\ disk[ROOT].dir /\ sig /\ TypeOK /\ CallOK
<1>1. sig /\ TypeOK /\ CallOK
  BY DEF CrashInv, TypesOK, CallOK, WriteSteps
<1> QED
  BY <1>1 DEF CrashInv, FilesInv, RootKept, WriteSteps, FormatSteps

LEMMA WritingStays ==
  ASSUME CrashInv, ~torn, WriteBlock \/ WriteFat \/ WriteDir \/ (PowerLossInFat /\ pc = "write_fat")
  PROVE  /\ \A c \in 2 .. CLUSTER_MAP_SIZE - 1 : dfat[c] # EMPTY => dfat'[c] # EMPTY
         /\ \A s \in Slots : disk[ROOT].table[s].used =>
              disk'[ROOT].table[s].used /\ disk'[ROOT].table[s] = disk[ROOT].table[s]
<1>1. pc \in WriteSteps
  BY DEF WriteBlock, WriteFat, WriteDir, WriteSteps
<1>2. dfat[ROOT] = EOF /\ TypeOK /\ CallOK /\ NewChainOK /\ BufferOK /\ NewSlotOK /\ ROOT \in DataClusters
  BY <1>1, RootInUse, ConstantTypes DEF CrashInv
<1>3. CASE WriteBlock
  <2>1. PICK f : f = Min(EmptyFrom(cursor))
    OBVIOUS
  <2>2. dfat[f] = EMPTY /\ \A c \in DataClusters : c # f => disk'[c] = disk[c]
    BY <1>2, <1>3, <2>1, WriteBlockImage
  <2>3. f # ROOT
    BY <1>2, <2>2 DEF EMPTY, EOF
  <2> QED
    BY <1>2, <1>3, <2>2, <2>3 DEF WriteBlock
<1>4. CASE WriteFat
  <2>1. \A c \in DataClusters : dfat[c] # EMPTY => dfat'[c] = dfat[c]
    BY <1>2, <1>4, WriteFatImage
  <2> QED
    BY <1>4, <2>1, DataIs DEF WriteFat
<1>5. CASE PowerLossInFat /\ pc = "write_fat"
  <2>1. disk' = disk /\ \A c \in DataClusters : dfat'[c] \in {dfat[c], Ended[c]}
    BY <1>5, ConstantTypes DEF PowerLossInFat, FatInFlight
  <2>2. \A c \in DataClusters : dfat[c] # EMPTY => dfat'[c] = dfat[c]
    <3>1. PICK g : g = dfat'
      OBVIOUS
    <3> QED
      BY <1>2, <1>5, <2>1, <3>1, EndedMixture DEF CrashInv
  <2> QED
    BY <2>1, <2>2, DataIs
<1>6. CASE WriteDir
  <2>1. /\ dfat' = dfat /\ disk' = [disk EXCEPT ![req.parent] = dirbuf] /\ pc = "write_dir"
    BY <1>6 DEF WriteDir
  <2>2. CASE req.parent = ROOT
    <3>1. disk'[ROOT] = dirbuf
      BY <1>2, <2>1, <2>2 DEF TypeOK
    <3>2. \A s \in Slots : disk[ROOT].table[s].used => s # slot /\ dirbuf.table[s] = disk[ROOT].table[s]
      BY <1>1, <1>2, <2>2 DEF BufferOK, NewSlotOK
    <3> QED
      BY <2>1, <3>1, <3>2
  <2>3. CASE req.parent # ROOT
    BY <1>2, <2>1, <2>3 DEF TypeOK
  <2> QED
    BY <2>2, <2>3
<1> QED
  BY <1>3, <1>4, <1>5, <1>6

LEMMA CallsKeepDisk == Calls => UNCHANGED diskVars
<1> SUFFICES ASSUME Calls PROVE UNCHANGED diskVars
  OBVIOUS
<1>1. PICK n \in Names, e \in Exts, p \in Clusters :
        \/ \E l \in Loads : WriteRefused(n, e, p, l) \/ WriteStart(n, e, p, l)
        \/ DeleteRefused(n, e, p) \/ DeleteStart(n, e, p)
        \/ \E size \in ReadSizes :
             \/ ReadRefused(n, e, p, size) \/ ReadStart(n, e, p, size)
             \/ ReadDirectory(n, p, size)
  BY DEF Calls
<1> QED
  BY <1>1 DEF WriteRefused, WriteStart, DeleteRefused, DeleteStart, ReadRefused, ReadStart,
              ReadDirectory, Fail

LEMMA NoPlaceStep ==
  ASSUME PlaceOK, PlaceOK', CrashInv, TornInv, TornInv', [CrashNext]_crashVars,
         sig, pc \notin FormatSteps, NEW n, NoPlaceFor(n)
  PROVE  NoPlaceFor(n)'
<1>1. torn => torn'
  BY StorageActions DEF PowerLoss, PowerLossInFat, crashVars, PlaceOK
<1>2. CASE torn
  BY <1>1, <1>2 DEF NoPlaceFor
<1>3. CASE ~torn
  <2>1. CASE Boot \/ Calls \/ ReadBlock \/ PowerLoss \/ UNCHANGED crashVars
    <3>1. UNCHANGED diskVars
      BY <2>1, CallsKeepDisk DEF Boot, WriteSignature, FormatFat, FormatRoot, Mount, FormatSteps,
         ReadBlock, PowerLoss, crashVars, vars, diskVars
    <3> QED
      BY <1>1, <3>1, NoPlaceStays DEF diskVars
  <2>2. CASE WriteBlock \/ WriteFat \/ WriteDir \/ (PowerLossInFat /\ pc = "write_fat")
    <3>1. /\ \A c \in 2 .. CLUSTER_MAP_SIZE - 1 : dfat[c] # EMPTY => dfat'[c] # EMPTY
          /\ \A s \in Slots : disk[ROOT].table[s].used =>
               disk'[ROOT].table[s].used /\ disk'[ROOT].table[s] = disk[ROOT].table[s]
      BY <1>3, <2>2, WritingStays
    <3> QED
      BY <1>1, <3>1, NoPlaceStays
  <2>3. CASE PowerLossInFat /\ pc # "write_fat"
    BY <2>3, NoDeleting DEF PowerLossInFat, FormatSteps, DeleteSteps
  <2> QED
    BY <2>1, <2>2, <2>3, StorageActions
<1> QED
  BY <1>2, <1>3

(* A refused write() of a text file has no place for it.                   *)
LEMMA RefusedNoPlace ==
  ASSUME CrashInv, pc = "idle", NEW n, NEW b
  PROVE  ~torn => (WriteCode(n, TXT, ROOT, TextLoad(n, b).size) # 0 <=> NoPlaceFor(n))
<1> SUFFICES ASSUME ~torn
             PROVE  WriteCode(n, TXT, ROOT, TextLoad(n, b).size) # 0 <=> NoPlaceFor(n)
  OBVIOUS
<1>1. fat = dfat /\ sig
  BY DEF CrashInv, CacheCoherent, TypesOK, CallOK
<1>2. ParentOK(ROOT)
  <2>1. dfat[ROOT] = EOF /\ disk[ROOT].dir
    BY <1>1 DEF CrashInv, FilesInv, RootKept, FormatSteps
  <2> QED
    BY <1>1, <2>1 DEF ParentOK, ROOT
<1>3. EnoughSpace(CLUSTER_SIZE) <=> Cardinality(FreeOnDisk) >= BlockCount(CLUSTER_SIZE)
  BY <1>1 DEF EnoughSpace, EmptyFrom, FreeOnDisk
<1>4. TextLoad(n, b).size = CLUSTER_SIZE
  BY DEF TextLoad
<1> QED
  BY <1>2, <1>3, <1>4 DEF WriteCode, NoPlaceFor

LEMMA StartNoPlace ==
  ASSUME CrashInv, TornInv, NEW n, NEW b, NoPlaceFor(n)
  PROVE  ~WriteStart(n, TXT, ROOT, TextLoad(n, b))
<1> SUFFICES ASSUME WriteStart(n, TXT, ROOT, TextLoad(n, b)) PROVE FALSE
  OBVIOUS
<1>1. pc = "idle" /\ WriteCode(n, TXT, ROOT, TextLoad(n, b).size) = 0
  BY DEF WriteStart
<1>2. CASE torn
  <2>1. ~ParentOK(ROOT)
    BY <1>1, <1>2, ConstantTypes DEF TornInv, NoParent, ParentOK, CrashInv, CacheCoherent
  <2> QED
    BY <1>1, <2>1 DEF WriteCode
<1>3. CASE ~torn
  BY <1>1, <1>3, RefusedNoPlace
<1> QED
  BY <1>2, <1>3

(* What a step of the machine does to kernel_setup()'s place.              *)
LEMMA TriedStep ==
  ASSUME PlaceOK, [KernelNext]_kernelVars, NEW n
  PROVE  Tried(n)' =>
           \/ Tried(n)
           \/ at = "lain" /\ pc' = "idle" /\ ~settled
              /\ (WriteText \/ DriverSteps)
           \/ at = "kaikai" /\ pc' = "idle" /\ n = KAIKAI /\ ~settled
              /\ (WriteText \/ DriverSteps)
<1> USE DEF Tried
<1>1. CASE InserterStart \/ InserterSave \/ PowerOn \/ Reset \/ PagingSteps \/ Mmu \/ TrapIn \/ TrapGoesOn
  BY <1>1 DEF InserterStart, InserterSave, PowerOn, Reset, PagingSteps, Mmu, TrapIn, TrapGoesOn, storageVars
<1>2. CASE RingSteps
  BY <1>2 DEF RingSteps
<1>3. CASE UNCHANGED kernelVars
  BY <1>3 DEF kernelVars, storageVars
<1>4. CASE InserterWrite \/ ReadShell \/ CopyBlock
  <2>1. settled' = settled /\ at \in {"host_write", "read"} /\ at' \in {at, After[at]}
    BY <1>4 DEF InserterWrite, ReadShell, CopyBlock, Proceed
  <2> QED
    BY <2>1, AfterValues
<1>5. CASE WriteText \/ DriverSteps
  <2>1. /\ settled' = settled /\ at' = IF pc' = "idle" THEN After[at] ELSE at
        /\ at \in {"kaikai", "lain", "mount", "host_mount", "host_write"}
    BY <1>5 DEF WriteText, DriverSteps, Proceed
  <2> QED
    BY <1>5, <2>1, AfterValues
<1> QED
  BY <1>1, <1>2, <1>3, <1>4, <1>5 DEF KernelNext, Setup

(* A text file that has been written is there.                             *)
LEMMA WrittenText ==
  ASSUME PlaceOK, CrashInv, SettleInv, at \in {"kaikai", "lain"},
         WriteText \/ DriverSteps, pc' = "idle", NEW n, n = TextName
  PROVE  torn \/ NoPlaceFor(n)'
<1> SUFFICES ASSUME ~torn PROVE NoPlaceFor(n)'
  OBVIOUS
<1>1. at' # at /\ torn' = torn
  <2>1. at' = After[at] /\ torn' = torn
    BY DEF WriteText, DriverSteps, Proceed
  <2> QED
    BY <2>1, AfterValues
<1>2. CASE WriteText
  <2>2. WriteRefused(n, TXT, ROOT, TextLoad(n, cbuf))
    <3>1. ~WriteStart(n, TXT, ROOT, TextLoad(n, cbuf))
      BY DEF WriteStart
    <3> QED
      BY <1>2, <3>1 DEF WriteText, TextName
  <2>3. pc = "idle" /\ WriteCode(n, TXT, ROOT, TextLoad(n, cbuf).size) # 0 /\ UNCHANGED diskVars
    BY <2>2 DEF WriteRefused, Fail
  <2>4. NoPlaceFor(n)
    BY <2>3, RefusedNoPlace
  <2> QED
    BY <2>3, <2>4, <1>1 DEF diskVars, NoPlaceFor, FreeOnDisk
<1>3. CASE DriverSteps
  <2>1. WriteDir
    <3>1. WriteBlock \/ WriteFat \/ WriteDir
      BY <1>3 DEF DriverSteps
    <3> QED
      BY <3>1 DEF WriteBlock, WriteFat
  <2>2. pc = "write_dir" /\ disk' = [disk EXCEPT ![req.parent] = dirbuf]
    BY <2>1 DEF WriteDir
  <2>3. req.parent = ROOT /\ req.name = TextName /\ req.ext = TXT
    BY <2>2 DEF SettleInv, WriteSteps
  <2>4. TypeOK /\ CallOK /\ NewSlotOK /\ ROOT \in DataClusters
    BY <2>2, RootInUse, ConstantTypes DEF CrashInv, WriteSteps
  <2>5. disk'[ROOT] = dirbuf
    BY <2>2, <2>3, <2>4 DEF TypeOK
  <2>6. slot \in Matches(dirbuf, TextName, TXT)
    BY <2>2, <2>3, <2>4 DEF NewSlotOK, CallOK, Matches, WriteSteps
  <2>7. Matches(disk'[ROOT], TextName, TXT) # {}
    BY <2>5, <2>6
  <2> QED
    BY <2>7 DEF NoPlaceFor
<1> QED
  BY <1>2, <1>3

LEMMA StaysSigned ==
  ASSUME sig, pc \notin FormatSteps, PlaceOK, PlaceOK', [CrashNext]_crashVars
  PROVE  sig' /\ pc' \notin FormatSteps
<1>1. CASE Boot
  BY <1>1 DEF Boot, WriteSignature, FormatFat, FormatRoot, Mount, diskVars, FormatSteps
<1>2. CASE Calls
  <2>1. sig' = sig
    BY <1>2, CallsKeepDisk DEF diskVars
  <2>2. pc' \in {pc, "write", "read", "delete"}
    <3>1. PICK n \in Names, e \in Exts, p \in Clusters :
            \/ \E l \in Loads : WriteRefused(n, e, p, l) \/ WriteStart(n, e, p, l)
            \/ DeleteRefused(n, e, p) \/ DeleteStart(n, e, p)
            \/ \E size \in ReadSizes :
                 \/ ReadRefused(n, e, p, size) \/ ReadStart(n, e, p, size)
                 \/ ReadDirectory(n, p, size)
      BY <1>2 DEF Calls
    <3> QED
      BY <3>1 DEF WriteRefused, WriteStart, DeleteRefused, DeleteStart, ReadRefused, ReadStart,
                  ReadDirectory, Fail
  <2> QED
    BY <2>1, <2>2 DEF FormatSteps
<1>3. CASE WriteBlock \/ WriteFat \/ WriteDir
  BY <1>3 DEF WriteBlock, WriteFat, WriteDir, Return, FormatSteps
<1>4. CASE ReadBlock
  BY <1>4 DEF ReadBlock, Return, diskVars, FormatSteps
<1>5. CASE PowerLoss \/ PowerLossInFat
  BY <1>5 DEF PowerLoss, PowerLossInFat, Off, diskVars, FormatSteps
<1>6. CASE UNCHANGED crashVars
  BY <1>6 DEF crashVars, vars
<1> QED
  BY <1>1, <1>2, <1>3, <1>4, <1>5, <1>6, StorageActions

(* Where a step of the machine leads that leaves a text file in writing.   *)
LEMMA TextStep ==
  ASSUME PlaceOK, PlaceOK', [KernelNext]_kernelVars,
         at' \in {"kaikai", "lain"}, pc' \in WriteSteps
  PROVE  /\ at' = at /\ UNCHANGED settled
         /\ \/ pc \in WriteSteps /\ UNCHANGED req
            \/ WriteStart(TextName, TXT, ROOT, TextLoad(TextName, cbuf))
<1> USE DEF WriteSteps
<1>1. CASE InserterStart \/ InserterSave \/ PowerOn \/ Reset \/ PagingSteps \/ RingSteps
  BY <1>1 DEF InserterStart, InserterSave, PowerOn, Reset, PagingSteps, RingSteps,
     storageVars, crashVars, vars, PlaceOK
<1>2. CASE InserterWrite \/ ReadShell \/ CopyBlock
  BY <1>2, AfterValues DEF InserterWrite, ReadShell, CopyBlock, Proceed
<1>3. CASE Mmu \/ TrapIn \/ TrapGoesOn \/ UNCHANGED kernelVars
  <2>1. UNCHANGED storageVars /\ at' = at
    BY <1>3 DEF Mmu, TrapIn, TrapGoesOn, kernelVars
  <2> QED
    BY <2>1 DEF storageVars, crashVars, vars, callVars
<1>4. CASE WriteText
  <2>1. at' = at /\ UNCHANGED settled
    BY <1>4 DEF WriteText, Proceed
  <2>2. CASE pc' = pc
    BY <1>4, <2>1, <2>2 DEF WriteText, WriteStart, WriteRefused
  <2>3. CASE pc' # pc
    <3>1. ~WriteRefused(TextName, TXT, ROOT, TextLoad(TextName, cbuf))
      BY <2>3 DEF WriteRefused, Fail
    <3> QED
      BY <1>4, <2>1, <3>1 DEF WriteText, TextName
  <2> QED
    BY <2>2, <2>3
<1>5. CASE DriverSteps
  <2>1. UNCHANGED settled /\ at' = at
    BY <1>5 DEF DriverSteps, Proceed
  <2>2. WriteBlock \/ WriteFat
    BY <1>5, <2>1 DEF DriverSteps, WriteDir, Return
  <2> QED
    BY <2>1, <2>2 DEF WriteBlock, WriteFat, callVars
<1> QED
  BY <1>1, <1>2, <1>3, <1>4, <1>5 DEF KernelNext, Setup

LEMMA SettleStep ==
  ASSUME PlaceOK, PlaceOK', CrashInv, TornInv, TornInv', SettleInv, [KernelNext]_kernelVars
  PROVE  SettleInv'
<1>1. [CrashNext]_crashVars
  BY CrashOfKernel
<1>2. at \in {"kaikai", "lain", "esp0", "jump", "user"} => sig /\ pc \notin FormatSteps
  BY DEF PlaceOK, CrashInv, TypesOK, CallOK, FormatSteps, WriteSteps
<1>3. settled' => settled \/ (at = "jump" /\ UNCHANGED crashVars)
  BY DEF KernelNext, Setup, InserterStart, InserterWrite, InserterSave, PowerOn, Reset, PagingSteps,
     RingSteps, ReadShell, CopyBlock, WriteText, DriverSteps, Mmu, TrapIn, TrapGoesOn,
     kernelVars, storageVars
<1>4. settled' => sig' /\ pc' \notin FormatSteps
  <2>1. CASE settled
    BY <1>1, <2>1, StaysSigned DEF SettleInv
  <2>2. CASE at = "jump" /\ UNCHANGED crashVars
    BY <1>2, <2>2 DEF crashVars, vars
  <2> QED
    BY <1>3, <2>1, <2>2
<1>5. ASSUME NEW n \in {KAIKAI, LAIN}, Tried(n)'
      PROVE  NoPlaceFor(n)'
  <2>1. CASE Tried(n)
    <3>1. sig /\ pc \notin FormatSteps /\ NoPlaceFor(n)
      BY <1>2, <2>1 DEF Tried, SettleInv
    <3> QED
      BY <1>1, <3>1, NoPlaceStep
  <2>2. CASE ~Tried(n)
    <3>1. at \in {"kaikai", "lain"} /\ pc' = "idle" /\ n = TextName /\ (WriteText \/ DriverSteps)
      BY <1>5, <2>2, TriedStep DEF Tried, TextName
    <3>2. torn \/ NoPlaceFor(n)'
      BY <3>1, WrittenText
    <3>3. torn' = torn
      BY <3>1 DEF WriteText, DriverSteps
    <3> QED
      BY <3>2, <3>3 DEF NoPlaceFor
  <2> QED
    BY <2>1, <2>2
<1>6. ASSUME at' \in {"kaikai", "lain"}, pc' \in WriteSteps
      PROVE  /\ req'.parent = ROOT /\ req'.name = TextName /\ req'.ext = TXT
             /\ at' = at /\ ~settled'
  <2>1. /\ at' = at /\ UNCHANGED settled
        /\ \/ pc \in WriteSteps /\ UNCHANGED req
           \/ WriteStart(TextName, TXT, ROOT, TextLoad(TextName, cbuf))
    BY <1>6, TextStep
  <2>2. CASE pc \in WriteSteps /\ UNCHANGED req
    BY <1>6, <2>1, <2>2 DEF SettleInv
  <2>3. CASE WriteStart(TextName, TXT, ROOT, TextLoad(TextName, cbuf))
    <3>1. req'.parent = ROOT /\ req'.name = TextName /\ req'.ext = TXT
      BY <2>3 DEF WriteStart, Request
    <3>2. ~settled
      <4>1. SUFFICES ASSUME settled PROVE FALSE
        OBVIOUS
      <4>2. NoPlaceFor(TextName)
        BY <4>1 DEF SettleInv, Tried, TextName
      <4> QED
        BY <2>3, <4>2, StartNoPlace
    <3> QED
      BY <2>1, <3>1, <3>2
  <2> QED
    BY <2>1, <2>2, <2>3
<1>7. settled' /\ pc' \in WriteSteps => at' = "host_write"
  <2>1. pc' \in WriteSteps => at' \in {"kaikai", "lain", "host_write"}
    BY DEF PlaceOK, HostPlaces, BootPlaces, WriteSteps, FormatSteps
  <2> QED
    BY <1>6, <2>1
<1>8. at' \in {"kaikai", "lain"} /\ pc' \in WriteSteps =>
        req'.parent = ROOT /\ req'.name = TextName' /\ req'.ext = TXT
  BY <1>6 DEF TextName
<1> QED
  BY <1>4, <1>5, <1>7, <1>8 DEF SettleInv

(* Boots after one that has reached the shell leave the storage as it is.  *)
LEMMA SettledRests ==
  ASSUME PlaceOK, PlaceOK', SettleInv, [CrashNext]_crashVars,
         settled, at \notin {"host_mount", "host_write"}
  PROVE  UNCHANGED diskVars
<1>1. sig /\ pc \notin FormatSteps \cup WriteSteps
  BY DEF SettleInv
<1>2. CASE Boot
  BY <1>1, <1>2 DEF Boot, WriteSignature, FormatFat, FormatRoot, Mount, FormatSteps
<1>3. CASE WriteBlock \/ WriteFat \/ WriteDir
  BY <1>1, <1>3 DEF WriteBlock, WriteFat, WriteDir, WriteSteps
<1>4. CASE PowerLossInFat
  BY <1>1, <1>4, NoDeleting DEF PowerLossInFat, FormatSteps, WriteSteps, DeleteSteps
<1>5. CASE ReadBlock \/ PowerLoss \/ UNCHANGED crashVars
  BY <1>5 DEF ReadBlock, PowerLoss, crashVars, vars, diskVars
<1> QED
  BY <1>2, <1>3, <1>4, <1>5, CallsKeepDisk, StorageActions

(* Once a boot has reached the shell, no later boot writes to the storage, *)
(* whatever the inserter does between two boots and wherever power is lost.*)
THEOREM BootsSettleCorrect == KernelSpec => BootsSettle
<1>1. KernelInit => PlaceOK /\ TornInv /\ SettleInv
  BY DEF KernelInit, CrashInit, Init, PlaceOK, HostPlaces, BootPlaces, TornInv, SettleInv, Tried
<1>2. PlaceOK /\ [KernelNext]_kernelVars => PlaceOK' /\ [CrashNext]_crashVars
  BY PlaceStep, CrashOfKernel
<1>3. PlaceOK /\ PlaceOK' /\ CrashInv /\ TornInv /\ [CrashNext]_crashVars => TornInv'
  BY TornStep
<1>4. PlaceOK /\ PlaceOK' /\ CrashInv /\ TornInv /\ TornInv' /\ SettleInv /\ [KernelNext]_kernelVars
        => SettleInv'
  BY SettleStep
<1>5. PlaceOK /\ PlaceOK' /\ SettleInv /\ [CrashNext]_crashVars /\ [KernelNext]_kernelVars
        => [settled /\ at \notin {"host_mount", "host_write"} => UNCHANGED diskVars]_kernelVars
  BY SettledRests
<1>6. KernelSpec => []CrashInv
  BY MachineIsCrash, CrashInvCorrect, PTL
<1> QED
  BY <1>1, <1>2, <1>3, <1>4, <1>5, <1>6, PTL DEF KernelSpec, BootsSettle

-----------------------------------------------------------------------------
(* The shell                                                               *)

ShellSlots == Matches(disk[ROOT], SHELL, NO_EXT)

WritingShell ==
  pc \in WriteSteps /\ req.name = SHELL /\ req.ext = NO_EXT /\ req.parent = ROOT

(* What the storage holds under the shell's name: with a size, the file    *)
(* that shell speaks of; without one, a folder.  No entry that is free has *)
(* a folder's attribute for a file to take over, as nothing is deleted.    *)
ShellKept ==
  sig /\ pc \notin FormatSteps /\ ~torn =>
    /\ \A s \in FreeSlots(disk[ROOT]) : ~disk[ROOT].table[s].sub
    /\ ShellSlots = {} /\ ~WritingShell => shell = << >>
    /\ \A s \in ShellSlots :
         LET e == disk[ROOT].table[s]
         IN  IF e.sub THEN shell = << >>
             ELSE shell = StoredFrom[e.first] /\ e.size <= SHELL_SIZE

(* The inserter cannot lose the file it is writing.                        *)
ShellWritten ==
  WritingShell =>
    /\ at = "host_write"
    /\ IF dirbuf.table[slot].sub THEN shell = << >> ELSE shell = Store!Kept(req)
    /\ pc = "write_dir" => /\ StoredFrom[NewHead] = Store!Kept(req)
                           /\ NewFile.size <= SHELL_SIZE

ShellOK ==
  /\ torn \/ ~sig \/ pc \in FormatSteps => shell = << >>
  /\ ShellKept /\ ShellWritten

WritingOK ==
  pc \in WriteSteps => RequestOK /\ NewFileOK /\ BlockCount(req.size) <= CLUSTER_MAP_SIZE

(* Page 0 is mapped before read() is called, and the MMU knows.            *)
Filled == {"read", "kaikai", "lain", "esp0", "jump", "user"}

PageOK ==
  /\ table \in [{0, KERNEL_PAGE} -> P!Entry]
  /\ tlb \in [{0, KERNEL_PAGE} -> SUBSET P!Entry]
  /\ page = 0
  /\ at = "allocate" =>
       /\ ppc \in {"idle", "flag", "address", "flush"}
       /\ ppc \in {"flag", "address"} => new.flag \in P!UserFlags /\ new.frame \in P!Frames
       /\ ppc \in {"address", "flush"} => table[0].flag \in P!UserFlags
  /\ at \in {"gdt", "mount", "tss", "ltr"} => ppc = "idle"
  /\ at \in Filled => /\ ppc = "idle" /\ table[0].flag \in P!UserFlags
                      /\ tlb[0] \subseteq {table[0]}

(* What read() has copied so far.                                          *)
Copied == mem[table[0].frame]

MemOK ==
  /\ at \notin Filled => mem = [f \in P!Frames |-> << >>]
  /\ at \in Filled => /\ Copied \in Seq(Tokens)
                      /\ mem = [f \in P!Frames |-> IF f = table[0].frame THEN Copied ELSE << >>]
  /\ at = "read" /\ pc = "idle" => Copied = << >>
  /\ pc = "read" => ~torn /\ at = "read" /\ shell = Copied \o StoredFrom[cursor]
  /\ at \in Filled \ {"read"} => Copied = shell

ShellInv == ShellOK /\ WritingOK /\ PageOK /\ MemOK

-----------------------------------------------------------------------------
(* What is being written                                                   *)

LEMMA WorksNow ==
  ASSUME CrashInv, pc # "wild"
  PROVE  Working
BY DEF CrashInv, TypesOK, Working

LEMMA WorksTyped == (CrashInv /\ pc # "wild" => TypeOK)'
BY DEF CrashInv, TypesOK

(* A buffer for which there is space has no more blocks than the FAT       *)
(* entries.                                                                *)
LEMMA SpaceBounds ==
  ASSUME NEW size \in Nat, EnoughSpace(size)
  PROVE  BlockCount(size) <= CLUSTER_MAP_SIZE
<1>1. IsFiniteSet(0 .. CLUSTER_MAP_SIZE - 1) /\ Cardinality(0 .. CLUSTER_MAP_SIZE - 1) = CLUSTER_MAP_SIZE
  BY FS_Interval, SizeAssumption
<1>2. EmptyFrom(2) \subseteq 0 .. CLUSTER_MAP_SIZE - 1
  BY SizeAssumption DEF EmptyFrom
<1>3. /\ Cardinality(EmptyFrom(2)) <= CLUSTER_MAP_SIZE
      /\ Cardinality(EmptyFrom(2)) \in Nat
  <2>1. IsFiniteSet(EmptyFrom(2)) /\ Cardinality(EmptyFrom(2)) <= Cardinality(0 .. CLUSTER_MAP_SIZE - 1)
    BY <1>1, <1>2, FS_Subset
  <2> QED
    BY <2>1, <1>1, FS_CardinalityType
<1>4. BlockCount(size) \in Nat
  BY SizeTypes DEF BlockCount
<1> QED
  BY <1>3, <1>4, SizeAssumption DEF EnoughSpace

LEMMA WritingStep ==
  ASSUME PlaceOK, PlaceOK', CrashInv, CrashInv', WritingOK, [CrashNext]_crashVars
  PROVE  WritingOK'
<1>1. pc # "wild" /\ pc' # "wild"
  <2>1. (PlaceOK => pc # "wild")'
    BY NoDeleting, PTL
  <2> QED
    BY <2>1, NoDeleting
<1>2. Working /\ TypeOK'
  BY <1>1, WorksNow, WorksTyped
<1>3. CASE pc' \notin WriteSteps
  BY <1>3 DEF WritingOK
<1>4. ASSUME NEW n \in Names, NEW e \in Exts, NEW p \in Clusters, NEW l \in Loads,
             WriteStart(n, e, p, l)
      PROVE  WritingOK'
  <2>1. RequestOK' /\ NewFileOK'
    BY <1>2, <1>4, WriteStartRequest
  <2>2. req'.size = l.size /\ EnoughSpace(l.size) /\ l.size \in Nat
    BY <1>4, CallerAssumption DEF WriteStart, WriteCode, Request
  <2>3. BlockCount(req'.size) <= CLUSTER_MAP_SIZE
    BY <2>2, SpaceBounds
  <2> QED
    BY <2>1, <2>3 DEF WritingOK, BlockCount
<1>5. CASE WriteBlock \/ WriteFat
  <2>1. pc \in WriteSteps /\ req' = req
    BY <1>5 DEF WriteBlock, WriteFat, WriteSteps, callVars
  <2>2. RequestOK' /\ NewFileOK'
    BY <1>2, <1>5, <2>1, WriteBlockRequest, WriteFatRequest DEF WritingOK
  <2> QED
    BY <2>1, <2>2 DEF WritingOK, BlockCount
<1>6. CASE Calls /\ pc' \in WriteSteps
  <2>1. PICK n \in Names, e \in Exts, p \in Clusters :
          \/ \E l \in Loads : WriteRefused(n, e, p, l) \/ WriteStart(n, e, p, l)
          \/ DeleteRefused(n, e, p) \/ DeleteStart(n, e, p)
          \/ \E size \in ReadSizes :
               \/ ReadRefused(n, e, p, size) \/ ReadStart(n, e, p, size)
               \/ ReadDirectory(n, p, size)
    BY <1>6 DEF Calls
  <2>2. \E l \in Loads : WriteStart(n, e, p, l)
    BY <2>1, <1>6 DEF WriteRefused, DeleteRefused, DeleteStart, ReadRefused, ReadStart,
                     ReadDirectory, Fail, WriteSteps
  <2> QED
    BY <2>2, <1>4
<1>7. CASE UNCHANGED crashVars
  <2>1. UNCHANGED <<dfat, disk, fat, dirbuf, pc, req, slot, cursor, i>>
    BY <1>7 DEF crashVars, vars
  <2>2. NewHead' = NewHead /\ BlockCount(req.size)' = BlockCount(req.size)
    BY <2>1 DEF NewHead, BlockCount
  <2>3. pc \in WriteSteps => RequestOK' /\ NewFileOK'
    BY <2>1, <2>2 DEF WritingOK, RequestOK, NewFileOK
  <2> QED
    BY <2>1, <2>2, <2>3 DEF WritingOK
<1>8. Boot \/ WriteDir \/ ReadBlock \/ PowerLoss \/ PowerLossInFat => pc' \notin WriteSteps
  BY BootPlacesOf, ReadPlaces DEF WriteDir, Return, PowerLoss, PowerLossInFat, Off, WriteSteps, FormatSteps
<1> QED
  BY <1>3, <1>5, <1>6, <1>7, <1>8, StorageActions

-----------------------------------------------------------------------------
(* The shell on the storage                                                *)

LEMMA StoredSame ==
  ASSUME UNCHANGED <<dfat, disk>>
  PROVE  StoredFrom' = StoredFrom
BY DEF StoredFrom

(* A step that keeps the data of clusters in use, and their links, keeps   *)
(* the files.                                                              *)
LEMMA StoredKept ==
  ASSUME TypeOK, TypeOK', CrashInv, ~torn, pc # "delete_dir", NEW e \in Live(dfat),
         \A c \in DataClusters :
           c \in Chain[Start(e)] /\ dfat[c] # EMPTY =>
             dfat'[c] = dfat[c] /\ disk'[c].data = disk[c].data
  PROVE  StoredFrom'[Start(e)] = StoredFrom[Start(e)]
<1>1. FilesReach
  BY CrashInvNow DEF ReachInv
<1>2. Start(e) \in DataClusters /\ \A c \in Reach(dfat, Start(e)) : dfat[c] # EMPTY
  BY <1>1 DEF FilesReach
<1>3. PICK x, S : x = Start(e) /\ S = Reach(dfat, Start(e))
  OBVIOUS
<1>4. S = Chain[x] /\ x \in S /\ S \subseteq DataClusters
  BY <1>2, <1>3, ChainIsReach, ReachSelf
<1>5. \A c \in S : Links(dfat, c) => dfat[c] \in S
  <2>1. Closed(dfat, S)
    BY <1>2, <1>3, ReachClosed
  <2> QED
    BY <2>1 DEF Closed, Links
<1>6. \A c \in S : dfat'[c] = dfat[c] /\ disk'[c].data = disk[c].data
  BY <1>2, <1>3, <1>4
<1>7. \A c \in S : StoredFrom'[c] = StoredFrom[c]
  BY <1>4, <1>5, <1>6, StoredStays
<1> QED
  BY <1>3, <1>4, <1>7

(* A round of write(), or the write of the FAT, be it cut, leaves the root *)
(* table alone, and the files in it.                                       *)
LEMMA WritingKeeps ==
  ASSUME PlaceOK, PlaceOK', CrashInv, CrashInv', ~torn, [CrashNext]_crashVars,
         WriteBlock \/ WriteFat \/ (PowerLossInFat /\ pc = "write_fat")
  PROVE  /\ disk'[ROOT] = disk[ROOT] /\ sig' = sig
         /\ \A s \in Slots : disk[ROOT].table[s].used =>
              StoredFrom'[disk[ROOT].table[s].first] = StoredFrom[disk[ROOT].table[s].first]
<1>1. pc \in WriteSteps /\ pc \in {"write", "write_fat"}
  BY DEF WriteBlock, WriteFat, WriteSteps
<1>2. dfat[ROOT] = EOF /\ disk[ROOT].dir /\ TypeOK /\ CallOK /\ NewChainOK /\ ROOT \in DataClusters
  BY <1>1, RootInUse, ConstantTypes DEF CrashInv
<1>3. TypeOK'
  <2>1. (PlaceOK => pc # "wild")'
    BY NoDeleting, PTL
  <2> QED
    BY <2>1, WorksTyped
<1>4. disk'[ROOT] = disk[ROOT] /\ sig' = sig
  <2>1. CASE WriteBlock
    <3>1. PICK f : f = Min(EmptyFrom(cursor))
      OBVIOUS
    <3>2. dfat[f] = EMPTY /\ \A c \in DataClusters : c # f => disk'[c] = disk[c]
      BY <1>2, <2>1, <3>1, WriteBlockImage
    <3>3. f # ROOT
      BY <1>2, <3>2 DEF EMPTY, EOF
    <3> QED
      BY <1>2, <2>1, <3>2, <3>3 DEF WriteBlock
  <2>2. CASE ~WriteBlock
    BY <2>2 DEF WriteFat, PowerLossInFat
  <2> QED
    BY <2>1, <2>2
<1>5. FilesKept
  BY <1>1, WriteKeeps
<1>6. ASSUME NEW s \in Slots, disk[ROOT].table[s].used
      PROVE  StoredFrom'[disk[ROOT].table[s].first] = StoredFrom[disk[ROOT].table[s].first]
  <2>1. PICK e : e = <<ROOT, s>>
    OBVIOUS
  <2>2. e \in Live(dfat) /\ Start(e) = disk[ROOT].table[s].first
    BY <1>2, <1>6, <2>1 DEF Live, Start
  <2>3. \A c \in DataClusters : c \in Chain[Start(e)] /\ dfat[c] # EMPTY =>
          dfat'[c] = dfat[c] /\ disk'[c] = disk[c]
    BY <1>1, <1>5, <2>2 DEF FilesKept
  <2>4. StoredFrom'[Start(e)] = StoredFrom[Start(e)]
    BY <1>1, <1>2, <1>3, <2>2, <2>3, StoredKept
  <2> QED
    BY <2>2, <2>4
<1> QED
  BY <1>4, <1>6

(* A step that leaves the storage alone leaves the shell there.            *)
LEMMA QuietKept ==
  ASSUME ShellOK, UNCHANGED <<dfat, disk, torn, shell>>,
         sig /\ pc \notin FormatSteps, sig' /\ pc' \notin FormatSteps,
         WritingShell => WritingShell'
  PROVE  ShellKept'
<1>1. StoredFrom' = StoredFrom
  BY StoredSame
<1>2. ShellSlots' = ShellSlots
  BY DEF ShellSlots
<1> HIDE DEF ShellSlots, WritingShell
<1> QED
  BY <1>1, <1>2 DEF ShellOK, ShellKept

LEMMA BootShell ==
  ASSUME PlaceOK, CrashInv, TornInv, ShellOK, Boot, UNCHANGED <<torn, shell>>
  PROVE  ShellOK'
<1>1. pc' \notin WriteSteps /\ pc \notin WriteSteps
  BY BootPlacesOf DEF Boot, WriteSignature, FormatFat, FormatRoot, Mount, WriteSteps, FormatSteps
<1>2. ~WritingShell' /\ ~WritingShell
  BY <1>1 DEF WritingShell
<1>3. CASE WriteSignature \/ FormatFat
  <2>1. pc' \in FormatSteps /\ (~sig \/ pc \in FormatSteps)
    BY <1>3 DEF WriteSignature, FormatFat, FormatSteps
  <2> QED
    BY <1>2, <2>1 DEF ShellOK, ShellKept, ShellWritten
<1>4. CASE FormatRoot
  <2>1. /\ pc \in FormatSteps /\ pc' \notin FormatSteps /\ sig' = sig
        /\ disk' = [disk EXCEPT ![ROOT] = RootImage]
    BY <1>4 DEF FormatRoot, FormatSteps
  <2>2. sig /\ ~torn /\ shell = << >> /\ disk \in [DataClusters -> Image]
    BY <2>1, NoDeleting DEF CrashInv, TypesOK, CallOK, ShellOK, TornInv
  <2>3. disk'[ROOT] = RootImage
    BY <2>1, <2>2, ConstantTypes
  <2>4. ShellSlots' = {} /\ \A s \in Slots : ~disk'[ROOT].table[s].sub
    BY <2>3 DEF ShellSlots, Matches, RootImage, BlankTable, BlankEntry
  <2> HIDE DEF ShellSlots
  <2>5. FreeSlots(disk[ROOT])' \subseteq Slots
    BY DEF FreeSlots
  <2>6. ShellKept'
    BY <2>2, <2>4, <2>5 DEF ShellKept
  <2> QED
    BY <1>2, <2>2, <2>6 DEF ShellOK, ShellWritten
<1>5. CASE Mount
  <2>1. UNCHANGED <<sig, dfat, disk>> /\ pc \notin FormatSteps /\ pc' \notin FormatSteps /\ sig
    BY <1>5, NoDeleting DEF Mount, diskVars, FormatSteps, CrashInv, TypesOK, CallOK
  <2>2. ShellKept'
    BY <1>2, <2>1, QuietKept
  <2> QED
    BY <1>2, <2>1, <2>2 DEF ShellOK, ShellWritten
<1> QED
  BY <1>3, <1>4, <1>5 DEF Boot

(* Where the driver's call is not touched, the writing of a shell goes on. *)
LEMMA QuietShell ==
  ASSUME ShellOK, UNCHANGED <<sig, dfat, disk, torn, shell, dirbuf, pc, req, slot>>,
         at = "host_write" /\ pc \in WriteSteps => at' = "host_write"
  PROVE  ShellOK'
<1>1. WritingShell' <=> WritingShell
  BY DEF WritingShell
<1>2. ShellKept'
  <2>1. StoredFrom' = StoredFrom /\ ShellSlots' = ShellSlots
    BY StoredSame DEF ShellSlots
  <2> HIDE DEF ShellSlots, WritingShell
  <2> QED
    BY <1>1, <2>1 DEF ShellOK, ShellKept
<1>3. ShellWritten'
  <2> SUFFICES ASSUME WritingShell' PROVE ShellWritten'
    BY DEF ShellWritten
  <2>1. WritingShell /\ pc \in WriteSteps
    BY <1>1 DEF WritingShell
  <2>2. StoredFrom' = StoredFrom /\ NewHead' = NewHead /\ NewFile' = NewFile
        /\ Store!Kept(req)' = Store!Kept(req)
    BY StoredSame DEF NewHead, NewFile, Store!Kept
  <2> HIDE DEF WritingShell
  <2> QED
    BY <2>1, <2>2 DEF ShellOK, ShellWritten
<1> QED
  BY <1>2, <1>3 DEF ShellOK

(* A call that is refused, and a read(), leave the shell alone.            *)
LEMMA CallShell ==
  ASSUME PlaceOK, CrashInv, ShellOK, pc = "idle", UNCHANGED <<sig, dfat, disk, torn, shell>>,
         pc' \notin FormatSteps, ~WritingShell'
  PROVE  ShellOK'
<1>1. ~WritingShell /\ pc \notin FormatSteps
  BY DEF WritingShell, WriteSteps, FormatSteps
<1>2. sig
  BY DEF CrashInv, TypesOK, CallOK
<1>3. ShellKept'
  BY <1>1, <1>2, QuietKept
<1> QED
  BY <1>1, <1>2, <1>3 DEF ShellOK, ShellWritten

(* The inserter begins a shell: none is there, and the slot is not a       *)
(* folder's.                                                               *)
LEMMA InsertShell ==
  ASSUME PlaceOK, CrashInv, TornInv, ShellOK, InserterWrite
  PROVE  ShellOK'
<1>1. at = "host_write" /\ pc = "idle" /\ torn' = torn
  BY DEF InserterWrite
<1>2. PICK n \in InserterNames, p \in Clusters, l \in InserterLoads :
        \/ /\ WriteStart(n, NO_EXT, p, l)
           /\ shell' = IF n = SHELL /\ p = ROOT /\ l.size # 0 THEN Store!Kept(l) ELSE shell
        \/ WriteRefused(n, NO_EXT, p, l) /\ UNCHANGED shell
  BY DEF InserterWrite
<1>3. CASE WriteRefused(n, NO_EXT, p, l) /\ UNCHANGED shell
  <2>1. UNCHANGED <<sig, dfat, disk>> /\ pc' = "idle"
    BY <1>1, <1>3 DEF WriteRefused, Fail, diskVars
  <2> QED
    BY <1>1, <1>3, <2>1, CallShell DEF WritingShell, WriteSteps, FormatSteps
<1>4. CASE /\ WriteStart(n, NO_EXT, p, l)
           /\ shell' = IF n = SHELL /\ p = ROOT /\ l.size # 0 THEN Store!Kept(l) ELSE shell
  <2>1. /\ UNCHANGED <<sig, dfat, disk>> /\ pc' = "write"
        /\ ParentOK(p) /\ Matches(disk[p], n, NO_EXT) = {} /\ FreeSlots(disk[p]) # {}
        /\ slot' = Min(FreeSlots(disk[p]))
        /\ dirbuf' = PutEntry(disk[p], slot', NewEntry(disk[p].table[slot'], n, NO_EXT, l.size))
    BY <1>4 DEF WriteStart, WriteCode, diskVars
  <2>2. /\ req'.name = n /\ req'.ext = NO_EXT /\ req'.parent = p
        /\ req'.size = l.size /\ req'.buf = l.buf
    BY <1>4 DEF WriteStart, Request
  <2>3. sig /\ ~torn
    <3>1. fat = dfat /\ TypeOK /\ sig
      BY <1>1 DEF CrashInv, CacheCoherent, TypesOK, CallOK
    <3>2. p \in DataClusters /\ dfat[p] = EOF /\ disk[p].dir
      BY <2>1, <3>1, ParentType DEF ParentOK
    <3> QED
      BY <3>1, <3>2 DEF TornInv, NoParent
  <2>4. at' = "host_write"
    BY <1>1, <2>1 DEF InserterWrite, Proceed
  <2>5. CASE ~(n = SHELL /\ p = ROOT)
    <3>1. ~WritingShell' /\ shell' = shell
      BY <1>4, <2>2, <2>5 DEF WritingShell
    <3> QED
      BY <1>1, <2>1, <3>1, CallShell DEF FormatSteps
  <2>6. CASE n = SHELL /\ p = ROOT
    <3>1. ShellSlots = {} /\ ShellSlots' = {} /\ WritingShell'
      BY <2>1, <2>2, <2>6 DEF ShellSlots, WritingShell, WriteSteps
    <3>2. ~WritingShell
      BY <1>1 DEF WritingShell, WriteSteps
    <3> HIDE DEF ShellSlots, WritingShell
    <3>3. shell = << >> /\ \A s \in FreeSlots(disk[ROOT]) : ~disk[ROOT].table[s].sub
      BY <1>1, <2>3, <3>1, <3>2 DEF ShellOK, ShellKept, FormatSteps
    <3>4. ShellKept'
      BY <2>1, <3>1, <3>3 DEF ShellKept
    <3>5. /\ slot' \in FreeSlots(disk[ROOT]) /\ slot' \in Slots
          /\ disk[ROOT] \in Image /\ disk[ROOT].table[slot'] \in Entry
      <4>1. disk[ROOT] \in Image
        BY <1>1, ConstantTypes DEF CrashInv, TypesOK
      <4>2. slot' \in Slots /\ disk[ROOT].table[slot'] \in Entry /\ ~disk[ROOT].table[slot'].used
        BY <2>1, <2>6, <4>1, SlotFound
      <4> QED
        BY <4>1, <4>2 DEF FreeSlots
    <3>6. dirbuf'.table[slot'] = NewEntry(disk[ROOT].table[slot'], n, NO_EXT, l.size)
      BY <2>1, <2>6, <3>5, PutEntryValue
    <3>7. dirbuf'.table[slot'].sub = (l.size = 0)
      <4>1. ~disk[ROOT].table[slot'].sub
        BY <3>3, <3>5
      <4> QED
        BY <3>5, <3>6, <4>1 DEF NewEntry, Entry
    <3>8. Store!Kept(req)' = Store!Kept(l)
      BY <2>2 DEF Store!Kept
    <3>9. ShellWritten'
      BY <1>4, <2>1, <2>4, <2>6, <3>3, <3>7, <3>8 DEF ShellWritten
    <3> QED
      BY <2>1, <2>3, <1>1, <3>4, <3>9 DEF ShellOK, FormatSteps
  <2> QED
    BY <2>5, <2>6
<1> QED
  BY <1>2, <1>3, <1>4

(* What stays of the root table when a cluster of a new file is written,   *)
(* or the FAT.                                                             *)
LEMMA KeptShell ==
  ASSUME PlaceOK, PlaceOK', CrashInv, CrashInv', TornInv, ShellOK, [CrashNext]_crashVars,
         UNCHANGED shell, WriteBlock \/ WriteFat \/ (PowerLossInFat /\ pc = "write_fat"),
         WritingShell => WritingShell'
  PROVE  ShellKept'
<1>1. pc \in WriteSteps
  BY DEF WriteBlock, WriteFat, WriteSteps
<1>2. ~torn /\ sig /\ pc \notin FormatSteps
  BY <1>1 DEF TornInv, WriteSteps, FormatSteps, CrashInv, TypesOK, CallOK
<1>3. /\ disk'[ROOT] = disk[ROOT]
      /\ \A s \in Slots : disk[ROOT].table[s].used =>
           StoredFrom'[disk[ROOT].table[s].first] = StoredFrom[disk[ROOT].table[s].first]
  BY <1>2, WritingKeeps
<1>4. ShellSlots' = ShellSlots /\ \A s \in ShellSlots : s \in Slots /\ disk[ROOT].table[s].used
  BY <1>3 DEF ShellSlots, Matches
<1> HIDE DEF ShellSlots, WritingShell
<1>5. /\ \A s \in FreeSlots(disk[ROOT]) : ~disk[ROOT].table[s].sub
      /\ ShellSlots = {} /\ ~WritingShell => shell = << >>
      /\ \A s \in ShellSlots :
           LET e == disk[ROOT].table[s]
           IN  IF e.sub THEN shell = << >>
               ELSE shell = StoredFrom[e.first] /\ e.size <= SHELL_SIZE
  BY <1>2 DEF ShellOK, ShellKept
<1>6. \A s \in ShellSlots :
        LET e == disk'[ROOT].table[s]
        IN  IF e.sub THEN shell' = << >>
            ELSE shell' = StoredFrom'[e.first] /\ e.size <= SHELL_SIZE
  BY <1>3, <1>4, <1>5
<1> QED
  BY <1>3, <1>4, <1>5, <1>6 DEF ShellKept

LEMMA StepShell ==
  ASSUME PlaceOK, PlaceOK', CrashInv, CrashInv', TornInv, TornInv', WritingOK, ShellOK,
         [CrashNext]_crashVars, UNCHANGED <<torn, shell>>, WriteBlock \/ WriteFat, at' = at
  PROVE  ShellOK'
<1>1. pc \in WriteSteps /\ pc' \in WriteSteps /\ req' = req /\ slot' = slot
  BY DEF WriteBlock, WriteFat, WriteSteps, callVars
<1>2. WritingShell' <=> WritingShell
  BY <1>1 DEF WritingShell
<1>3. ShellKept'
  BY <1>2, KeptShell
<1>4. sig' /\ ~torn' /\ pc' \notin FormatSteps
  BY <1>1 DEF TornInv, CrashInv, TypesOK, CallOK, WriteBlock, WriteFat, WriteSteps, FormatSteps
<1>5. Working /\ TypeOK'
  <2>1. (PlaceOK => pc # "wild")'
    BY NoDeleting, PTL
  <2> QED
    BY <2>1, NoDeleting, WorksNow, WorksTyped
<1>6. slot \in Slots /\ dirbuf \in Image /\ dirbuf.table[slot] \in Entry
  BY <1>1, <1>5 DEF Working, TypeOK, CallOK, Image
<1>7. dirbuf'.table[slot].sub = dirbuf.table[slot].sub
  <2>1. CASE dirbuf' = dirbuf
    BY <2>1
  <2>2. ASSUME NEW f, dirbuf' = PutEntry(dirbuf, slot, [dirbuf.table[slot] EXCEPT !.first = f])
        PROVE  dirbuf'.table[slot].sub = dirbuf.table[slot].sub
    <3>1. dirbuf'.table[slot] = [dirbuf.table[slot] EXCEPT !.first = f]
      BY <2>2, <1>6, PutEntryValue
    <3> QED
      BY <3>1, <1>6 DEF Entry
  <2>3. ASSUME NEW z, dirbuf' = PutEntry(dirbuf, slot, [dirbuf.table[slot] EXCEPT !.size = z])
        PROVE  dirbuf'.table[slot].sub = dirbuf.table[slot].sub
    <3>1. dirbuf'.table[slot] = [dirbuf.table[slot] EXCEPT !.size = z]
      BY <2>3, <1>6, PutEntryValue
    <3> QED
      BY <3>1, <1>6 DEF Entry
  <2>4. CASE WriteBlock
    <3>1. \/ dirbuf' = dirbuf
          \/ \E f : dirbuf' = PutEntry(dirbuf, slot, [dirbuf.table[slot] EXCEPT !.first = f])
      BY <2>4, Zenon DEF WriteBlock
    <3> QED
      BY <3>1, <2>1, <2>2
  <2>5. CASE WriteFat
    <3>1. \E z : dirbuf' = PutEntry(dirbuf, slot, [dirbuf.table[slot] EXCEPT !.size = z])
      BY <2>5, Zenon DEF WriteFat
    <3> QED
      BY <3>1, <2>3
  <2> QED
    BY <2>4, <2>5
<1>8. ShellWritten'
  <2> SUFFICES ASSUME WritingShell PROVE ShellWritten'
    BY <1>2 DEF ShellWritten
  <2>1. at = "host_write" /\ IF dirbuf.table[slot].sub THEN shell = << >> ELSE shell = Store!Kept(req)
    BY DEF ShellOK, ShellWritten
  <2>2. Store!Kept(req)' = Store!Kept(req)
    BY <1>1 DEF Store!Kept
  <2>3. IF dirbuf'.table[slot'].sub THEN shell' = << >> ELSE shell' = Store!Kept(req)
    BY <2>1, <1>1, <1>7
  <2>4. pc' = "write_dir" => StoredFrom'[NewHead'] = Store!Kept(req) /\ NewFile'.size <= SHELL_SIZE
    <3> SUFFICES ASSUME pc' = "write_dir"
                 PROVE  StoredFrom'[NewHead'] = Store!Kept(req) /\ NewFile'.size <= SHELL_SIZE
      OBVIOUS
    <3>1. WriteFat
      BY DEF WriteBlock
    <3>2. /\ StoredFrom'[NewHead'] = Store!Kept(req)
          /\ NewFile'.size = Store!Blocks(req.size) * CLUSTER_SIZE
      BY <3>1, <1>1, <1>5, WriteFatStores DEF WritingOK
    <3>3. BlockCount(req.size) <= CLUSTER_MAP_SIZE /\ BlockCount(req.size) \in Nat
      BY <1>1, <1>5, SizeTypes DEF WritingOK, BlockCount, Working, TypeOK
    <3>4. \A a, b, c \in Nat : a <= b => a * c <= b * c
      OBVIOUS
    <3> QED
      BY <3>2, <3>3, <3>4, BlocksAre, SizeAssumption DEF SHELL_SIZE
  <2> QED
    BY <2>1, <2>2, <2>3, <2>4 DEF ShellWritten
<1> QED
  BY <1>3, <1>4, <1>8 DEF ShellOK

(* The table is written: a shell that was being written is there.          *)
LEMMA EntryShell ==
  ASSUME PlaceOK, PlaceOK', CrashInv, CrashInv', TornInv, WritingOK, ShellOK,
         UNCHANGED <<torn, shell>>, WriteDir
  PROVE  ShellOK'
<1>1. /\ pc = "write_dir" /\ pc \in WriteSteps /\ pc' = "idle" /\ sig' = sig /\ dfat' = dfat
      /\ disk' = [disk EXCEPT ![req.parent] = dirbuf]
  BY DEF WriteDir, Return, WriteSteps
<1>2. Working /\ TypeOK /\ TypeOK' /\ CallOK
  <2>1. (PlaceOK => pc # "wild")'
    BY NoDeleting, PTL
  <2> QED
    BY <2>1, NoDeleting, WorksNow, WorksTyped DEF Working
<1>3. ~torn /\ sig /\ ROOT \in DataClusters
  BY <1>1, <1>2, ConstantTypes DEF TornInv, CallOK
<1>4. PICK p, k : p = req.parent /\ k = slot
  OBVIOUS
<1>5. /\ p \in DataClusters /\ k \in Slots
      /\ disk'[p] = dirbuf /\ \A c \in DataClusters : c # p => disk'[c] = disk[c]
  BY <1>1, <1>2, <1>4 DEF CallOK, TypeOK
<1>6. \A c \in DataClusters : StoredFrom'[c] = StoredFrom[c]
  <2>1. dirbuf.data = disk[p].data
    BY <1>1, <1>4 DEF WritingOK, RequestOK
  <2>2. \A c \in DataClusters : dfat'[c] = dfat[c] /\ disk'[c].data = disk[c].data
    BY <2>1, <1>1, <1>5
  <2>3. \A c \in DataClusters : Links(dfat, c) => dfat[c] \in DataClusters
    BY DEF Links
  <2> QED
    BY <2>2, <2>3, <1>2, StoredStays
<1>7. /\ \A s \in Slots : s # k => dirbuf.table[s] = disk[p].table[s]
      /\ dirbuf.table[k].used /\ ~disk[p].table[k].used
      /\ dirbuf.table[k].name = req.name /\ dirbuf.table[k].ext = req.ext
      /\ Matches(disk[p], req.name, req.ext) = {}
  BY <1>1, <1>4 DEF CrashInv, BufferOK, NewSlotOK
<1>8. /\ \A s \in FreeSlots(disk[ROOT]) : ~disk[ROOT].table[s].sub
      /\ ShellSlots = {} /\ ~WritingShell => shell = << >>
      /\ \A s \in ShellSlots :
           LET e == disk[ROOT].table[s]
           IN  IF e.sub THEN shell = << >>
               ELSE shell = StoredFrom[e.first] /\ e.size <= SHELL_SIZE
  BY <1>1, <1>3 DEF ShellOK, ShellKept, WriteSteps, FormatSteps
<1>9. ~WritingShell'
  BY <1>1 DEF WritingShell, WriteSteps
<1>10. \A s \in ShellSlots : disk[ROOT].table[s].first \in DataClusters
  BY <1>1, <1>2, <1>3, RootInUse DEF CrashInv, EntriesNamed, ShellSlots, Matches
<1>11. CASE p # ROOT
  <2>1. disk'[ROOT] = disk[ROOT] /\ ~WritingShell
    BY <1>3, <1>4, <1>5, <1>11 DEF WritingShell
  <2>2. ShellSlots' = ShellSlots
    BY <2>1 DEF ShellSlots
  <2> HIDE DEF ShellSlots, WritingShell
  <2>3. ShellKept'
    BY <2>1, <2>2, <1>6, <1>8, <1>9, <1>10 DEF ShellKept
  <2> QED
    BY <2>3, <1>1, <1>3, <1>9 DEF ShellOK, ShellWritten, FormatSteps
<1>12. CASE p = ROOT
  <2>1. disk'[ROOT] = dirbuf
    BY <1>5, <1>12
  <2>2. \A s \in FreeSlots(disk'[ROOT]) : ~disk'[ROOT].table[s].sub
    BY <2>1, <1>7, <1>8, <1>12 DEF FreeSlots
  <2>3. CASE WritingShell
    <3>1. ShellSlots' = {k}
      BY <2>1, <2>3, <1>5, <1>7, <1>12 DEF ShellSlots, Matches, WritingShell
    <3> HIDE DEF ShellSlots, WritingShell
    <3>2. /\ IF dirbuf.table[slot].sub THEN shell = << >> ELSE shell = Store!Kept(req)
          /\ StoredFrom[NewHead] = Store!Kept(req) /\ NewFile.size <= SHELL_SIZE
      BY <2>3, <1>1 DEF ShellOK, ShellWritten
    <3>3. NewHead \in DataClusters /\ NewHead = dirbuf.table[k].first /\ NewFile = dirbuf.table[k]
      BY <1>1, <1>4 DEF CrashInv, AnyCallOK, NewHead, NewFile
    <3>4. ShellKept'
      BY <3>1, <3>2, <3>3, <2>1, <2>2, <1>4, <1>6 DEF ShellKept
    <3> QED
      BY <3>4, <1>1, <1>3, <1>9 DEF ShellOK, ShellWritten, FormatSteps
  <2>4. CASE ~WritingShell
    <3>1. ~(req.name = SHELL /\ req.ext = NO_EXT)
      BY <2>4, <1>1, <1>4, <1>12 DEF WritingShell
    <3>2. ShellSlots' = ShellSlots /\ \A s \in ShellSlots : dirbuf.table[s] = disk[ROOT].table[s]
      <4>1. \A s \in Slots : s \in ShellSlots' <=> s \in ShellSlots
        BY <3>1, <2>1, <1>7, <1>12 DEF ShellSlots, Matches
      <4>2. ShellSlots \subseteq Slots /\ ShellSlots' \subseteq Slots
        BY DEF ShellSlots, Matches
      <4>3. k \notin ShellSlots
        BY <1>7, <1>12 DEF ShellSlots, Matches
      <4> HIDE DEF ShellSlots
      <4> QED
        BY <4>1, <4>2, <4>3, <1>7, <1>12
    <3> HIDE DEF ShellSlots, WritingShell
    <3>3. ShellKept'
      BY <3>2, <2>1, <2>2, <2>4, <1>6, <1>8, <1>9, <1>10 DEF ShellKept
    <3> QED
      BY <3>3, <1>1, <1>3, <1>9 DEF ShellOK, ShellWritten, FormatSteps
  <2> QED
    BY <2>3, <2>4
<1> QED
  BY <1>11, <1>12

LEMMA ResetShell ==
  ASSUME PlaceOK, PlaceOK', CrashInv, CrashInv', TornInv, ShellOK, [CrashNext]_crashVars, Reset
  PROVE  ShellOK'
<1>1. ~WritingShell /\ shell' = shell /\ pc \notin DeleteSteps
  BY NoDeleting DEF Reset, ShellOK, ShellWritten
<1>2. pc' = "off" /\ sig' = sig /\ ~WritingShell'
  BY DEF Reset, PowerLoss, PowerLossInFat, Off, diskVars, crashVars, vars, WritingShell, WriteSteps
<1>3. torn' = torn \/ pc \in FormatSteps
  BY <1>1 DEF Reset, PowerLoss, PowerLossInFat, crashVars, FormatSteps, DeleteSteps, PlaceOK
<1>4. torn' \/ ~sig' \/ pc' \in FormatSteps => shell' = << >>
  BY <1>1, <1>2, <1>3 DEF ShellOK, FormatSteps
<1>5. CASE pc \in FormatSteps
  <2>1. shell = << >>
    BY <1>5 DEF ShellOK
  <2>2. torn'
    BY <1>5, <1>2 DEF Reset, PowerLoss, PowerLossInFat, FormatSteps
  <2> QED
    BY <2>1, <2>2, <1>1, <1>2, <1>4 DEF ShellOK, ShellKept, ShellWritten
<1>6. CASE PowerLossInFat /\ pc \notin FormatSteps
  <2>1. pc = "write_fat"
    BY <1>1, <1>6 DEF PowerLossInFat, FormatSteps, DeleteSteps
  <2>2. ShellKept'
    BY <2>1, <1>1, <1>6, KeptShell
  <2> QED
    BY <2>2, <1>2, <1>4 DEF ShellOK, ShellWritten
<1>7. CASE ~PowerLossInFat /\ pc \notin FormatSteps
  <2>1. UNCHANGED <<sig, dfat, disk>>
    BY <1>7 DEF Reset, PowerLoss, diskVars, crashVars, vars
  <2>2. torn' = torn
    BY <1>3, <1>7
  <2>3. CASE sig
    <3>1. ShellKept'
      BY <2>1, <2>2, <2>3, <1>1, <1>2, <1>7, QuietKept DEF FormatSteps
    <3> QED
      BY <3>1, <1>2, <1>4 DEF ShellOK, ShellWritten
  <2>4. CASE ~sig
    BY <2>1, <2>4, <1>2, <1>4 DEF ShellOK, ShellKept, ShellWritten
  <2> QED
    BY <2>3, <2>4
<1> QED
  BY <1>5, <1>6, <1>7

LEMMA ShellOKStep ==
  ASSUME PlaceOK, PlaceOK', CrashInv, CrashInv', TornInv, TornInv', WritingOK, ShellOK,
         [CrashNext]_crashVars, [KernelNext]_kernelVars
  PROVE  ShellOK'
<1>1. CASE InserterStart \/ PowerOn \/ PagingSteps \/ RingSteps \/ Mmu \/ TrapIn \/ TrapGoesOn
           \/ UNCHANGED kernelVars
  <2>1. UNCHANGED <<crashVars, shell>>
    BY <1>1 DEF InserterStart, PowerOn, PagingSteps, RingSteps, Mmu, TrapIn, TrapGoesOn,
       kernelVars, storageVars
  <2>2. at = "host_write" => at' = "host_write"
    BY <1>1 DEF InserterStart, PowerOn, PagingSteps, RingSteps, Mmu, TrapIn, TrapGoesOn, kernelVars
  <2> QED
    BY <2>1, <2>2, QuietShell DEF crashVars, vars
<1>2. CASE InserterWrite
  BY <1>2, InsertShell
<1>3. CASE InserterSave
  <2>1. /\ pc = "idle" /\ pc' = "off" /\ UNCHANGED <<sig, dfat, disk, torn, shell>>
    BY <1>3 DEF InserterSave, Off, diskVars, PlaceOK
  <2> QED
    BY <2>1, CallShell DEF WritingShell, WriteSteps, FormatSteps
<1>4. CASE Reset
  BY <1>4, ResetShell
<1>5. CASE ReadShell
  <2>1. pc = "idle" /\ pc' \in {"idle", "read"} /\ UNCHANGED <<sig, dfat, disk, torn, shell>>
    BY <1>5, ReadPlaces DEF ReadShell, ReadStart, ReadRefused, Fail, diskVars
  <2> QED
    BY <2>1, CallShell DEF WritingShell, WriteSteps, FormatSteps
<1>6. CASE CopyBlock
  <2>1. /\ pc = "read" /\ pc' \in {"idle", "read"} /\ UNCHANGED <<sig, dfat, disk, torn, shell>>
    BY <1>6, ReadPlaces DEF CopyBlock, ReadBlock, diskVars
  <2>2. sig /\ ~WritingShell /\ ~WritingShell'
    BY <2>1 DEF CrashInv, TypesOK, CallOK, WritingShell, WriteSteps
  <2>3. ShellKept'
    BY <2>1, <2>2, QuietKept DEF FormatSteps
  <2> QED
    BY <2>1, <2>2, <2>3 DEF ShellOK, ShellWritten, FormatSteps
<1>7. CASE WriteText
  <2>1. pc = "idle" /\ pc' \notin FormatSteps /\ UNCHANGED <<sig, dfat, disk, torn, shell>>
    BY <1>7 DEF WriteText, WriteStart, WriteRefused, Fail, diskVars, FormatSteps
  <2>2. ~WritingShell'
    <3>1. CASE pc' \in WriteSteps
      <4>1. \E n, l : WriteStart(n, TXT, ROOT, l)
        BY <1>7, <3>1 DEF WriteText, WriteRefused, Fail, WriteSteps
      <4>2. req'.ext = TXT
        BY <4>1 DEF WriteStart, Request
      <4> QED
        BY <4>2, KernelAssumption DEF WritingShell
    <3>2. CASE pc' \notin WriteSteps
      BY <3>2 DEF WritingShell
    <3> QED
      BY <3>1, <3>2
  <2> QED
    BY <2>1, <2>2, CallShell
<1>8. CASE DriverSteps
  <2>1. UNCHANGED <<torn, shell>>
    BY <1>8 DEF DriverSteps
  <2>2. CASE Boot
    BY <2>1, <2>2, BootShell
  <2>3. CASE WriteDir
    BY <2>1, <2>3, EntryShell
  <2>4. CASE WriteBlock \/ WriteFat
    <3>1. at' = at
      BY <1>8, <2>4 DEF DriverSteps, Proceed, WriteBlock, WriteFat
    <3> QED
      BY <2>1, <2>4, <3>1, StepShell
  <2> QED
    BY <1>8, <2>2, <2>3, <2>4 DEF DriverSteps
<1> QED
  BY <1>1, <1>2, <1>3, <1>4, <1>5, <1>6, <1>7, <1>8 DEF KernelNext, Setup

-----------------------------------------------------------------------------
(* Page 0                                                                  *)

LEMMA FrameFound ==
  ASSUME P!FreeFrames # {}
  PROVE  P!Min(P!FreeFrames) \in P!Frames
<1>1. P!FreeFrames \subseteq P!Frames
  BY DEF P!FreeFrames
<1>2. IsFiniteSet(P!Frames) /\ P!Frames \subseteq Nat
  BY FS_Interval, KernelAssumption DEF P!Frames
<1>3. IsFiniteSet(P!FreeFrames) /\ P!FreeFrames \in SUBSET Nat
  BY <1>1, <1>2, FS_Subset
<1>4. P!Min(P!FreeFrames) = Min(P!FreeFrames)
  BY DEF P!Min, Min
<1> QED
  BY <1>1, <1>3, <1>4, MinIsLeast

LEMMA EntryTypes ==
  /\ P!FirstTable \in [{0, KERNEL_PAGE} -> P!Entry] /\ P!BlankEntry \in P!Entry
  /\ P!UserFlags \subseteq P!Flag
<1>1. 0 \in P!Frames
  BY KernelAssumption DEF P!Frames
<1> QED
  BY <1>1 DEF P!FirstTable, P!BlankEntry, P!KernelEntry, P!NoFlag, P!KernelFlag, P!Entry, P!Flag,
     P!UserFlags

LEMMA PageSteps ==
  ASSUME PageOK, PagingSteps
  PROVE  PageOK'
<1> DEFINE Pgs == {0, KERNEL_PAGE}
<1>1. /\ table \in [Pgs -> P!Entry] /\ tlb \in [Pgs -> SUBSET P!Entry] /\ page = 0
  BY DEF PageOK
<1>2. at' = IF ppc' # "idle" THEN at ELSE IF at = "loader" THEN "gdt" ELSE "read"
  BY DEF PagingSteps
<1>3. CASE at = "loader" /\ P!ClearIdentity
  <2>1. table' = [table EXCEPT ![0] = P!BlankEntry] /\ ppc' = "flush" /\ UNCHANGED <<tlb, page>>
    BY <1>3 DEF P!ClearIdentity
  <2>2. table' \in [Pgs -> P!Entry]
    BY <2>1, <1>1, EntryTypes
  <2> QED
    BY <2>1, <2>2, <1>1, <1>2, <1>3 DEF PageOK, Filled
<1>4. CASE P!Flush
  <2>1. /\ tlb' = [tlb EXCEPT ![0] = {}] /\ ppc = "flush" /\ ppc' = "idle" /\ page' = 0
        /\ table' = table
    BY <1>1, <1>4 DEF P!Flush, P!Flushed
  <2>2. tlb' \in [Pgs -> SUBSET P!Entry] /\ tlb'[0] = {}
    BY <2>1, <1>1
  <2>3. CASE at = "loader"
    BY <2>1, <2>2, <2>3, <1>1, <1>2 DEF PageOK, Filled
  <2>4. CASE at = "allocate"
    <3>1. table[0].flag \in P!UserFlags
      BY <2>1, <2>4 DEF PageOK
    <3> QED
      BY <2>1, <2>2, <2>4, <3>1, <1>1, <1>2 DEF PageOK, Filled
  <2> QED
    BY <2>3, <2>4 DEF PagingSteps
<1>5. CASE at = "allocate" /\ P!Allocate(0)
  <2>1. /\ P!FreeFrames # {} /\ page' = 0 /\ ppc' = "flag" /\ UNCHANGED <<table, tlb>>
        /\ \E flag \in P!UserFlags : new' = [flag |-> flag, frame |-> P!Min(P!FreeFrames)]
    BY <1>5 DEF P!Allocate, P!Update
  <2>2. new'.flag \in P!UserFlags /\ new'.frame \in P!Frames
    BY <2>1, FrameFound
  <2> QED
    BY <2>1, <2>2, <1>1, <1>2, <1>5 DEF PageOK, Filled
<1>6. CASE at = "allocate" /\ P!StoreFlag
  <2>1. /\ ppc = "flag" /\ ppc' = "address" /\ table' = [table EXCEPT ![0].flag = new.flag]
        /\ UNCHANGED <<tlb, page, new>>
    BY <1>1, <1>6 DEF P!StoreFlag
  <2>2. new.flag \in P!UserFlags /\ new.frame \in P!Frames /\ new.flag \in P!Flag
    BY <2>1, <1>6, EntryTypes DEF PageOK
  <2>3. table' \in [Pgs -> P!Entry] /\ table'[0].flag = new.flag
    BY <2>1, <2>2, <1>1 DEF P!Entry
  <2> QED
    BY <2>1, <2>2, <2>3, <1>1, <1>2, <1>6 DEF PageOK, Filled
<1>7. CASE at = "allocate" /\ P!StoreAddress
  <2>1. /\ ppc = "address" /\ ppc' = "flush" /\ table' = [table EXCEPT ![0].frame = new.frame]
        /\ UNCHANGED <<tlb, page, new>>
    BY <1>1, <1>7 DEF P!StoreAddress
  <2>2. table[0].flag \in P!UserFlags /\ new.frame \in P!Frames
    BY <2>1, <1>7 DEF PageOK
  <2>3. table' \in [Pgs -> P!Entry] /\ table'[0].flag = table[0].flag
    BY <2>1, <2>2, <1>1 DEF P!Entry
  <2> QED
    BY <2>1, <2>2, <2>3, <1>1, <1>2, <1>7 DEF PageOK, Filled
<1> QED
  BY <1>3, <1>4, <1>5, <1>6, <1>7 DEF PagingSteps

(* Where a step leads that is not one of paging's.                         *)
LEMMA Paces ==
  ASSUME PlaceOK, [KernelNext]_kernelVars, ~PagingSteps, ~Reset
  PROVE  /\ at' = "allocate" => at \in {"allocate", "ltr"}
         /\ at' \in {"gdt", "mount", "tss", "ltr"} => at \in {"gdt", "mount", "tss", "ltr"}
         /\ at' \in Filled => at \in Filled
         /\ at \in Filled => at' \in Filled
<1> USE DEF Filled
<1>1. CASE InserterStart \/ InserterSave \/ PowerOn \/ Mmu \/ TrapIn \/ TrapGoesOn \/ UNCHANGED kernelVars
  BY <1>1 DEF InserterStart, InserterSave, PowerOn, Mmu, TrapIn, TrapGoesOn, kernelVars
<1>2. CASE RingSteps
  BY <1>2 DEF RingSteps
<1>3. CASE InserterWrite \/ ReadShell \/ CopyBlock \/ WriteText \/ DriverSteps
  <2>1. /\ at' \in {at, After[at]}
        /\ at \in {"mount", "host_mount", "host_write", "read", "kaikai", "lain"}
    BY <1>3 DEF InserterWrite, ReadShell, CopyBlock, WriteText, DriverSteps, Proceed
  <2> QED
    BY <2>1, AfterValues
<1> QED
  BY <1>1, <1>2, <1>3 DEF KernelNext, Setup

LEMMA PageStep ==
  ASSUME PlaceOK, PageOK, [KernelNext]_kernelVars
  PROVE  PageOK'
<1>1. CASE PagingSteps
  BY <1>1, PageSteps
<1>2. CASE Reset
  <2>1. /\ table' = P!FirstTable /\ tlb' = [q \in {0, KERNEL_PAGE} |-> {}] /\ page' = 0
        /\ at' = "off"
    BY <1>2 DEF Reset
  <2> QED
    BY <2>1, EntryTypes DEF PageOK, Filled
<1>3. CASE ~PagingSteps /\ ~Reset /\ ~Mmu
  <2>1. UNCHANGED pagingVars
    BY <1>3 DEF KernelNext, Setup, InserterStart, InserterWrite, InserterSave, PowerOn,
       RingSteps, ReadShell, CopyBlock, WriteText, DriverSteps, TrapIn, TrapGoesOn, kernelVars
  <2>2. UNCHANGED <<table, tlb, ppc, page, new>>
    BY <2>1 DEF pagingVars
  <2> QED
    BY <2>2, <1>3, Paces DEF PageOK
<1>4. CASE Mmu
  <2>1. /\ UNCHANGED <<table, ppc, page, new, at>>
        /\ tlb' = [tlb EXCEPT ![0] = {table[0]}] \/ tlb' = [tlb EXCEPT ![0] = {}]
    BY <1>4 DEF Mmu, P!Fill, P!Evict
  <2>2. tlb' \in [{0, KERNEL_PAGE} -> SUBSET P!Entry] /\ tlb'[0] \subseteq {table[0]}
    BY <2>1 DEF PageOK
  <2> QED
    BY <2>1, <2>2 DEF PageOK
<1> QED
  BY <1>1, <1>2, <1>3, <1>4

-----------------------------------------------------------------------------
(* What is read into page 0                                                *)

LEMMA FrameOfPage == PageOK => table[0].frame \in P!Frames
BY DEF PageOK, P!Entry

(* The entry that speaks of the shell.                                     *)
LEMMA ShellFound ==
  ASSUME disk[ROOT] \in Image, ShellSlots # {}
  PROVE  \E s \in ShellSlots : /\ disk[ROOT].table[s] \in Entry
                               /\ Found(SHELL, NO_EXT, ROOT) = disk[ROOT].table[s]
<1>1. ShellSlots \in SUBSET Slots
  BY DEF ShellSlots, Matches
<1>2. Min(ShellSlots) \in ShellSlots
  <2> HIDE DEF ShellSlots
  <2> QED
    BY <1>1, MinSlot
<1>3. Found(SHELL, NO_EXT, ROOT) = disk[ROOT].table[Min(ShellSlots)]
  BY DEF Found, ShellSlots
<1>4. \A s \in Slots : disk[ROOT].table[s] \in Entry
  BY DEF Image
<1> HIDE DEF ShellSlots
<1> QED
  BY <1>1, <1>2, <1>3, <1>4

(* A read() that is refused finds no shell, or a folder of that name.      *)
LEMMA RefusedEmpty ==
  ASSUME PlaceOK, CrashInv, ShellOK, ReadRefused(SHELL, NO_EXT, ROOT, SHELL_SIZE)
  PROVE  shell = << >>
<1>1. pc = "idle" /\ ReadCode(SHELL, NO_EXT, ROOT, SHELL_SIZE) # 0
  BY DEF ReadRefused
<1>2. CASE torn
  BY <1>2 DEF ShellOK
<1>3. CASE ~torn
  <2>1. TypeOK /\ sig /\ fat = dfat /\ dfat[ROOT] = EOF /\ disk[ROOT].dir
    BY <1>1, <1>3 DEF CrashInv, TypesOK, CallOK, CacheCoherent, FilesInv, RootKept, FormatSteps
  <2>2. ParentOK(ROOT)
    BY <2>1 DEF ParentOK, ROOT
  <2>3. /\ ShellSlots = {} => shell = << >>
        /\ \A s \in ShellSlots :
             LET e == disk[ROOT].table[s]
             IN  IF e.sub THEN shell = << >>
                 ELSE shell = StoredFrom[e.first] /\ e.size <= SHELL_SIZE
    BY <1>1, <1>3, <2>1 DEF ShellOK, ShellKept, WritingShell, WriteSteps, FormatSteps
  <2>4. CASE ShellSlots # {}
    <3>3. PICK s \in ShellSlots : /\ disk[ROOT].table[s] \in Entry
                                 /\ Found(SHELL, NO_EXT, ROOT) = disk[ROOT].table[s]
      <4>1. disk[ROOT] \in Image
        BY <2>1, ConstantTypes DEF TypeOK
      <4> HIDE DEF ShellSlots
      <4> QED
        BY <2>4, <4>1, ShellFound
    <3>4. Found(SHELL, NO_EXT, ROOT) = disk[ROOT].table[s]
      BY <3>3
    <3>5. disk[ROOT].table[s].sub \/ SHELL_SIZE < disk[ROOT].table[s].size
      BY <1>1, <2>2, <2>4, <3>4 DEF ReadCode, ShellSlots
    <3>6. SHELL_SIZE \in Nat /\ disk[ROOT].table[s].size \in Nat
      BY <3>3, SizeAssumption DEF SHELL_SIZE, Entry
    <3> HIDE DEF ShellSlots
    <3> QED
      BY <2>3, <3>3, <3>5, <3>6
  <2> QED
    BY <2>3, <2>4
<1> QED
  BY <1>2, <1>3

(* One that is accepted starts at the first block of the shell.            *)
LEMMA StartsShell ==
  ASSUME PlaceOK, CrashInv, TornInv, ShellOK, ReadStart(SHELL, NO_EXT, ROOT, SHELL_SIZE)
  PROVE  /\ ~torn /\ cursor' \in DataClusters
         /\ shell = StoredFrom[cursor'] /\ StoredFrom[cursor'] \in Seq(Tokens)
<1>1. /\ pc = "idle" /\ ParentOK(ROOT) /\ Matches(disk[ROOT], SHELL, NO_EXT) # {}
      /\ ~Found(SHELL, NO_EXT, ROOT).sub /\ cursor' = Found(SHELL, NO_EXT, ROOT).first
  BY DEF ReadStart, ReadCode
<1>2. TypeOK /\ sig /\ fat = dfat /\ EntriesNamed
  BY <1>1 DEF CrashInv, TypesOK, CallOK, CacheCoherent
<1>3. dfat[ROOT] = EOF /\ disk[ROOT].dir /\ ROOT \in DataClusters /\ disk[ROOT] \in Image
  BY <1>1, <1>2, ConstantTypes DEF ParentOK, TypeOK
<1>4. ~torn
  BY <1>3 DEF TornInv, NoParent
<1>5. PICK s \in ShellSlots : Found(SHELL, NO_EXT, ROOT) = disk[ROOT].table[s]
  <2>1. ShellSlots # {}
    BY <1>1 DEF ShellSlots
  <2> HIDE DEF ShellSlots
  <2> QED
    BY <2>1, <1>3, ShellFound
<1>6. s \in ShellSlots /\ s \in Slots /\ disk[ROOT].table[s].used
  BY DEF ShellSlots, Matches
<1>7. Found(SHELL, NO_EXT, ROOT) = disk[ROOT].table[s]
  BY <1>5
<1>8. cursor' \in DataClusters
  BY <1>1, <1>2, <1>3, <1>6, <1>7 DEF EntriesNamed
<1>9. shell = StoredFrom[cursor']
  <2>1. \A q \in ShellSlots :
          LET e == disk[ROOT].table[q]
          IN  IF e.sub THEN shell = << >>
              ELSE shell = StoredFrom[e.first] /\ e.size <= SHELL_SIZE
    BY <1>1, <1>2, <1>4 DEF ShellOK, ShellKept, FormatSteps
  <2> HIDE DEF ShellSlots
  <2> QED
    BY <2>1, <1>1, <1>6, <1>7
<1> QED
  BY <1>2, <1>4, <1>8, <1>9, StoredUnfold

LEMMA ReadMem ==
  ASSUME PlaceOK, CrashInv, TornInv, ShellOK, PageOK, MemOK, ReadShell
  PROVE  MemOK'
<1>1. /\ at = "read" /\ pc = "idle" /\ UNCHANGED <<dfat, disk, mem, table, torn, shell>>
      /\ at' = IF pc' = "idle" THEN "kaikai" ELSE "read"
  BY AfterValues DEF ReadShell, Proceed, ReadStart, ReadRefused, Fail, diskVars, pagingVars
<1>2. Copied' = Copied /\ Copied = << >> /\ StoredFrom' = StoredFrom
  BY <1>1, StoredSame DEF MemOK, Copied, Filled
<1>3. /\ Copied' \in Seq(Tokens)
      /\ mem' = [f \in P!Frames |-> IF f = table'[0].frame THEN Copied' ELSE << >>]
  BY <1>1, <1>2 DEF MemOK, Filled
<1> HIDE DEF Copied
<1>4. CASE ReadRefused(SHELL, NO_EXT, ROOT, SHELL_SIZE)
  <2>1. shell = << >> /\ pc' = "idle"
    BY <1>1, <1>4, RefusedEmpty DEF ReadRefused, Fail
  <2> QED
    BY <2>1, <1>1, <1>2, <1>3 DEF MemOK, Filled
<1>5. CASE ReadStart(SHELL, NO_EXT, ROOT, SHELL_SIZE)
  <2>1. /\ ~torn /\ shell = StoredFrom[cursor'] /\ StoredFrom[cursor'] \in Seq(Tokens)
        /\ pc' = "read"
    BY <1>5, StartsShell DEF ReadStart
  <2>2. shell' = Copied' \o StoredFrom'[cursor']
    BY <2>1, <1>1, <1>2
  <2> QED
    BY <2>1, <2>2, <1>1, <1>3 DEF MemOK, Filled
<1> QED
  BY <1>4, <1>5 DEF ReadShell

(* A round copies the block at cursor, to the frame of page 0.             *)
LEMMA CopyMem ==
  ASSUME PlaceOK, CrashInv, PageOK, MemOK, CopyBlock
  PROVE  MemOK'
<1>1. /\ at = "read" /\ pc = "read" /\ UNCHANGED <<dfat, disk, table, torn, shell>>
      /\ cursor \in DataClusters
      /\ at' = IF pc' = "idle" THEN "kaikai" ELSE "read"
      /\ IF fat[cursor] # EOF THEN cursor' = fat[cursor] /\ pc' = "read" ELSE pc' = "idle"
  BY AfterValues DEF CopyBlock, Proceed, ReadBlock, Return, NextOf, diskVars, pagingVars
<1>2. PICK s, w, d, m : /\ s = Copied /\ w = StoredFrom[cursor] /\ d = disk[cursor].data
                        /\ m = table[0].frame
  OBVIOUS
<1>3. /\ ~torn /\ s \in Seq(Tokens) /\ shell = s \o w /\ m \in P!Frames
      /\ mem = [f \in P!Frames |-> IF f = m THEN s ELSE << >>]
  BY <1>1, <1>2, FrameOfPage DEF MemOK, Filled
<1>4. TypeOK /\ fat = dfat /\ Forward
  BY <1>1 DEF CrashInv, TypesOK, CacheCoherent
<1>5. d \in Tokens
  BY <1>1, <1>2, <1>4 DEF TypeOK, Image
<1>6. mem' = [mem EXCEPT ![m] = Append(s, d)]
  <2>1. tlb[0] \subseteq {table[0]}
    BY <1>1 DEF PageOK, Filled
  <2>2. PICK entry \in Translations(0) :
          mem' = [mem EXCEPT ![entry.frame] = Append(@, disk[cursor].data)]
    BY DEF CopyBlock
  <2>3. entry = table[0]
    BY <2>1, <2>2 DEF Translations
  <2>4. mem' = [mem EXCEPT ![m] = Append(@, d)]
    BY <2>2, <2>3, <1>2
  <2>5. mem[m] = s
    BY <1>3
  <2> QED
    BY <2>4, <2>5, <1>3
<1>7. /\ mem' = [f \in P!Frames |-> IF f = m THEN Append(s, d) ELSE << >>]
      /\ Append(s, d) \in Seq(Tokens)
  <2>1. PICK a : a = Append(s, d)
    OBVIOUS
  <2>2. mem' = [f \in P!Frames |-> IF f = m THEN a ELSE << >>]
    BY <2>1, <1>3, <1>6
  <2>3. Append(s, d) \in Seq(Tokens)
    BY <1>3, <1>5
  <2> QED
    BY <2>1, <2>2, <2>3
<1>8. Copied' = Append(s, d) /\ table'[0].frame = m
  <2>1. Copied' = mem'[table'[0].frame] /\ table'[0].frame = m
    BY <1>1, <1>2 DEF Copied
  <2> QED
    BY <2>1, <1>3, <1>7
<1>9. StoredFrom' = StoredFrom
  BY <1>1, StoredSame
<1>10. CASE fat[cursor] # EOF
  <2>1. Links(dfat, cursor)
    <3>1. dfat[cursor] # EMPTY
      BY <1>1, <1>3, CrashInvNow, WalkStep DEF ReachInv
    <3> QED
      BY <3>1, <1>1, <1>4, <1>10 DEF Forward, Links
  <2>2. PICK v : v = StoredFrom[dfat[cursor]]
    OBVIOUS
  <2>3. w = <<d>> \o v /\ v \in Seq(Tokens)
    <3>1. IsWalk(dfat, Data, StoredFrom) /\ StoredFrom \in [DataClusters -> Seq(Tokens)]
      BY <1>4, StoredIsWalk
    <3>2. dfat[cursor] \in DataClusters /\ StoredFrom[cursor] = <<Data[cursor]>> \o v
      BY <2>1, <2>2, <3>1, <1>1, WalkGoesOn
    <3>3. Data[cursor] = d
      BY <1>1, <1>2 DEF Data
    <3> QED
      BY <3>1, <3>2, <3>3, <2>2, <1>2
  <2>4. shell = Append(s, d) \o v
    <3>1. s \o (<<d>> \o v) = (s \o <<d>>) \o v /\ s \o <<d>> = Append(s, d)
      BY <1>3, <1>5, <2>3
    <3> QED
      BY <3>1, <2>3, <1>3
  <2>5. cursor' = dfat[cursor] /\ pc' = "read" /\ at' = "read"
    BY <1>1, <1>4, <1>10
  <2>6. shell' = Copied' \o StoredFrom'[cursor']
    BY <2>2, <2>4, <2>5, <1>1, <1>8, <1>9
  <2> HIDE DEF Copied
  <2> QED
    BY <2>5, <2>6, <1>1, <1>3, <1>7, <1>8 DEF MemOK, Filled
<1>11. CASE fat[cursor] = EOF
  <2>1. ~Links(dfat, cursor)
    BY <1>4, <1>11, ConstantTypes DEF Links
  <2>2. w = <<d>>
    BY <2>1, <1>1, <1>2, <1>4, StoredUnfold
  <2>3. shell' = Copied' /\ pc' = "idle" /\ at' = "kaikai"
    <3>1. s \o <<d>> = Append(s, d)
      BY <1>3, <1>5
    <3> QED
      BY <3>1, <2>2, <1>1, <1>3, <1>8, <1>11
  <2> HIDE DEF Copied
  <2> QED
    BY <2>3, <1>7, <1>8 DEF MemOK, Filled
<1> QED
  BY <1>10, <1>11

LEMMA ReadPlace == PlaceOK => (pc = "read" => at = "read")
BY DEF PlaceOK, HostPlaces, BootPlaces, FormatSteps, WriteSteps

(* The steps that neither read the shell nor map a page.                   *)
LEMMA QuietMem ==
  ASSUME PlaceOK, PlaceOK', MemOK, [KernelNext]_kernelVars,
         ~PagingSteps, ~Reset, ~ReadShell, ~CopyBlock
  PROVE  MemOK'
<1>1. UNCHANGED <<mem, table>>
  <2>1. CASE Mmu
    BY <2>1 DEF Mmu, P!Fill, P!Evict
  <2>2. CASE ~Mmu
    BY <2>2 DEF KernelNext, Setup, InserterStart, InserterWrite, InserterSave, PowerOn,
       RingSteps, WriteText, DriverSteps, TrapIn, TrapGoesOn, kernelVars, pagingVars
  <2> QED
    BY <2>1, <2>2
<1>2. (at \in Filled <=> at' \in Filled) /\ Copied' = Copied
  BY <1>1, Paces DEF Copied
<1>3. CASE InserterStart \/ PowerOn \/ Mmu \/ TrapIn \/ TrapGoesOn \/ UNCHANGED kernelVars
  <2>1. UNCHANGED <<dfat, disk, pc, cursor, torn, shell>> /\ (at' = at \/ at = "off")
    BY <1>3 DEF InserterStart, PowerOn, Mmu, TrapIn, TrapGoesOn, kernelVars, storageVars, crashVars,
       vars
  <2>2. StoredFrom' = StoredFrom
    BY <2>1, StoredSame
  <2>3. at' = at \/ (at \notin Filled /\ at' \notin Filled)
    BY <1>2, <2>1 DEF Filled
  <2>4. pc = "read" => at = "read"
    BY ReadPlace
  <2> HIDE DEF Copied
  <2> QED
    BY <1>1, <1>2, <2>1, <2>2, <2>3, <2>4 DEF MemOK, Filled
<1>4. CASE InserterWrite \/ InserterSave \/ RingSteps \/ WriteText \/ DriverSteps
  <2>1. at # "read" /\ (at \in Filled => shell' = shell)
    BY <1>4 DEF InserterWrite, InserterSave, RingSteps, WriteText, DriverSteps, Filled
  <2>2. at' # "read"
    <3>1. CASE InserterSave \/ RingSteps
      BY <3>1 DEF InserterSave, RingSteps
    <3>2. CASE InserterWrite \/ WriteText \/ DriverSteps
      <4>1. at' \in {at, After[at]} /\ at \in {"mount", "host_mount", "host_write", "kaikai", "lain"}
        BY <3>2 DEF InserterWrite, WriteText, DriverSteps, Proceed
      <4> QED
        BY <4>1, AfterValues
    <3> QED
      BY <1>4, <3>1, <3>2
  <2>3. pc' # "read"
    <3>1. (PlaceOK => (pc = "read" => at = "read"))'
      BY ReadPlace, PTL
    <3> QED
      BY <2>2, <3>1
  <2> HIDE DEF Copied
  <2> QED
    BY <1>1, <1>2, <2>1, <2>2, <2>3 DEF MemOK, Filled
<1> QED
  BY <1>3, <1>4 DEF KernelNext, Setup

LEMMA MemStep ==
  ASSUME PlaceOK, PlaceOK', CrashInv, TornInv, ShellOK, PageOK, PageOK', MemOK,
         [KernelNext]_kernelVars
  PROVE  MemOK'
<1>1. CASE Reset
  <2>1. mem' = [f \in P!Frames |-> << >>] /\ at' = "off"
    BY <1>1 DEF Reset
  <2>2. (PlaceOK => (pc = "read" => at = "read"))'
    BY ReadPlace, PTL
  <2> HIDE DEF Copied
  <2> QED
    BY <2>1, <2>2 DEF MemOK, Filled
<1>2. CASE PagingSteps
  <2>1. /\ at \notin Filled /\ pc # "read" /\ UNCHANGED <<mem, pc>>
        /\ at' \in {"loader", "gdt", "allocate", "read"}
    BY <1>2, ReadPlace DEF PagingSteps, storageVars, crashVars, vars, Filled
  <2>2. mem' = [f \in P!Frames |-> << >>]
    BY <2>1 DEF MemOK
  <2>3. CASE at' = "read"
    <3>1. (PageOK => table[0].frame \in P!Frames)'
      BY FrameOfPage, PTL
    <3>2. Copied' = << >>
      BY <2>2, <3>1 DEF Copied
    <3>3. mem' = [f \in P!Frames |-> IF f = table'[0].frame THEN Copied' ELSE << >>]
      BY <2>2, <3>2
    <3> HIDE DEF Copied
    <3> QED
      BY <2>1, <2>3, <3>2, <3>3 DEF MemOK, Filled
  <2>4. CASE at' # "read"
    <3> HIDE DEF Copied
    <3> QED
      BY <2>1, <2>2, <2>4 DEF MemOK, Filled
  <2> QED
    BY <2>3, <2>4
<1>3. CASE ReadShell
  BY <1>3, ReadMem
<1>4. CASE CopyBlock
  BY <1>4, CopyMem
<1>5. CASE ~PagingSteps /\ ~Reset /\ ~ReadShell /\ ~CopyBlock
  BY <1>5, QuietMem
<1> QED
  BY <1>1, <1>2, <1>3, <1>4, <1>5

-----------------------------------------------------------------------------
LEMMA ShellStart == KernelInit => ShellInv
<1> SUFFICES ASSUME KernelInit PROVE ShellInv
  OBVIOUS
<1>1. /\ ~sig /\ pc = "off" /\ at = "off" /\ shell = << >> /\ page = 0
      /\ mem = [f \in P!Frames |-> << >>]
      /\ table = P!FirstTable /\ tlb = [q \in {0, KERNEL_PAGE} |-> {}]
  BY DEF KernelInit, CrashInit, Init, P!Init
<1>2. ShellOK /\ WritingOK
  BY <1>1 DEF ShellOK, ShellKept, ShellWritten, WritingOK, WritingShell, WriteSteps
<1>3. PageOK
  BY <1>1, EntryTypes DEF PageOK, Filled
<1>4. MemOK
  BY <1>1 DEF MemOK, Filled
<1> QED
  BY <1>2, <1>3, <1>4 DEF ShellInv

LEMMA ShellStep ==
  ASSUME PlaceOK, PlaceOK', CrashInv, CrashInv', TornInv, TornInv', ShellInv,
         [CrashNext]_crashVars, [KernelNext]_kernelVars
  PROVE  ShellInv'
<1>1. ShellOK /\ WritingOK /\ PageOK /\ MemOK
  BY DEF ShellInv
<1>2. ShellOK' /\ WritingOK' /\ PageOK'
  BY <1>1, WritingStep, ShellOKStep, PageStep
<1>3. MemOK'
  BY <1>1, <1>2, MemStep
<1> QED
  BY <1>2, <1>3 DEF ShellInv

LEMMA ShellHeld == ShellInv => JumpHoldsShell
BY DEF ShellInv, PageOK, MemOK, Filled, JumpHoldsShell, P!UserFlags

(* The shell the kernel jumps into is, block for block and whatever lies   *)
(* between, the first one that was inserted in the root: the kernel's own  *)
(* writes, the inserter's and every loss of power have left its blocks and *)
(* their chain alone, and the frame it is read into is the one the MMU     *)
(* shows as page 0.  (kernel.c:150-160, ch1/fat32/fat32.c:193-250)         *)
THEOREM JumpHoldsShellCorrect == KernelSpec => []JumpHoldsShell
<1>1. KernelInit => PlaceOK /\ TornInv /\ ShellInv
  <2>1. KernelInit => PlaceOK /\ TornInv
    BY DEF KernelInit, CrashInit, Init, PlaceOK, HostPlaces, BootPlaces, TornInv
  <2> QED
    BY <2>1, ShellStart
<1>2. PlaceOK /\ [KernelNext]_kernelVars => PlaceOK' /\ [CrashNext]_crashVars
  BY PlaceStep, CrashOfKernel
<1>3. PlaceOK /\ PlaceOK' /\ CrashInv /\ TornInv /\ [CrashNext]_crashVars => TornInv'
  BY TornStep
<1>4. /\ PlaceOK /\ PlaceOK' /\ CrashInv /\ CrashInv' /\ TornInv /\ TornInv' /\ ShellInv
      /\ [CrashNext]_crashVars /\ [KernelNext]_kernelVars
      => ShellInv'
  BY ShellStep
<1>5. ShellInv => JumpHoldsShell
  BY ShellHeld
<1>6. KernelSpec => []CrashInv
  BY MachineIsCrash, CrashInvCorrect, PTL
<1> QED
  BY <1>1, <1>2, <1>3, <1>4, <1>5, <1>6, PTL DEF KernelSpec

=============================================================================
