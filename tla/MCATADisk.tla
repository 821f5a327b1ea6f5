------------------------------- MODULE MCATADisk -------------------------------
(***************************************************************************)
(* Three blocks of two words, calls of up to two blocks: every block can   *)
(* be the first, a middle or the last one of a call, and the next call can *)
(* come while the drive still stores the last block of the one before.     *)
(***************************************************************************)
EXTENDS ATADisk

CONSTANTS w1, w2

MCWords == {w1, w2}
=============================================================================
