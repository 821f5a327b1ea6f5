------------------------------- MODULE MCKernel -------------------------------
(***************************************************************************)
(* Small values for Kernel: programs of one and of three blocks and one    *)
(* that does not exist, two names to insert them under, three slots in the *)
(* root, five data clusters beside it: names, slots and room all run out.  *)
(***************************************************************************)
EXTENDS Kernel

CONSTANTS shell_name, other, kaikai, lain, blank, noext, txt, zero, even, odd, text

MCNames  == {shell_name, other, kaikai, lain}
MCExts   == {noext, txt}
MCTokens == {zero, even, odd, text}

Text(t) == [data |-> t, dir |-> FALSE, table |-> BlankTable]

File(size) ==
  [size |-> size,
   buf  |-> [k \in 0 .. size \div CLUSTER_SIZE |-> Text(IF k % 2 = 0 THEN even ELSE odd)]]

Missing == [size |-> 0, buf |-> [k \in {0} |-> ZeroImage]]

MCInserted      == {shell_name, other}
MCInserterLoads == {Missing, File(1), File(5)}
MCKernelText    == [n \in {kaikai, lain} |-> Text(text)]
MCLeftovers     == {Text(odd)}

MCLoads == MCInserterLoads \cup {[size |-> CLUSTER_SIZE, buf |-> [k \in 0 .. 1 |-> Text(IF k = 0 THEN text ELSE odd)]]}
MCReadSizes == {CLUSTER_MAP_SIZE * CLUSTER_SIZE}
MCVectors    == {14, 33}
MCSegments   == {24}
=============================================================================
