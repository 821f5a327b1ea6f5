----------------------------- MODULE MCInterrupts -----------------------------
(***************************************************************************)
(* Every script of three bytes, so a key, an arrow and a release in any    *)
(* order; a fault with and one without an error code; an int instruction   *)
(* the IDT lets a program use, and the keyboard's own vector.              *)
(***************************************************************************)
EXTENDS Interrupts

MCFaults   == {0, 13, 14}
MCSoftInts == {33, 48}
=============================================================================
