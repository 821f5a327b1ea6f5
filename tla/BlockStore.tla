------------------------------ MODULE BlockStore ------------------------------
(***************************************************************************)
(* What read_blocks() and write_blocks() of ch1/disk/disk.h promise: the   *)
(* blocks of a call are read, or written, one after the other, each at     *)
(* once, and the call returns when all of them are.                        *)
(***************************************************************************)
EXTENDS Integers

CONSTANTS
  Blocks,    \* logical block addresses
  Contents,  \* what a block holds
  MAX_COUNT  \* bound: how many blocks a call moves

VARIABLES
  store,     \* the contents of the blocks
  active,    \* a call is in progress
  op,        \* its kind
  addr,      \* its logical_block_address
  count,     \* its block_count
  data,      \* what ptr points to in the last write
  done,      \* the number of blocks moved
  moved      \* the blocks moved

storeVars == <<store, active, op, addr, count, data, done, moved>>

Init ==
  /\ store \in [Blocks -> Contents]
  /\ active = FALSE
  /\ op = "read" /\ addr = 0 /\ count = 0 /\ done = 0
  /\ data \in [1 .. MAX_COUNT -> Contents] /\ moved = [k \in {} |-> 0]

Begin ==
  /\ ~active
  /\ active' = TRUE
  /\ op' \in {"read", "write"}
  /\ addr' \in Blocks /\ count' \in 1 .. MAX_COUNT
  /\ \A k \in 0 .. count' - 1 : addr' + k \in Blocks
  /\ IF op' = "write" THEN data' \in [1 .. MAX_COUNT -> Contents] ELSE data' = data
  /\ done' = 0 /\ moved' = [k \in {} |-> 0]
  /\ UNCHANGED store

Move(block) ==
  /\ done' = done + 1
  /\ moved' = [k \in 1 .. done + 1 |-> IF k <= done THEN moved[k] ELSE block]
  /\ UNCHANGED <<active, op, addr, count, data>>

ReadBlock ==
  /\ active /\ op = "read" /\ done < count
  /\ Move(store[addr + done])
  /\ UNCHANGED store

WriteBlock ==
  /\ active /\ op = "write" /\ done < count
  /\ Move(data[done + 1])
  /\ store' = [store EXCEPT ![addr + done] = data[done + 1]]

Return ==
  /\ active /\ done = count
  /\ active' = FALSE
  /\ UNCHANGED <<store, op, addr, count, data, done, moved>>

Next == Begin \/ ReadBlock \/ WriteBlock \/ Return

Spec == Init /\ [][Next]_storeVars

=============================================================================
