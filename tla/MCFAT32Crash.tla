----------------------------- MODULE MCFAT32Crash -----------------------------
(* Small values for the constants of FAT32Crash.                           *)
EXTENDS FAT32CrashInv

CONSTANTS a, blank, noext, zero, text

MCNames  == {a}
MCExts   == {noext}
MCTokens == {zero, text}

File(size) ==
  [size |-> size,
   buf  |-> [k \in 0 .. size \div CLUSTER_SIZE |->
               [data |-> text, dir |-> FALSE, table |-> BlankTable]]]
Folder == [size |-> 0, buf |-> [k \in {0} |-> RootImage]]

(* A folder, and files of one and of three blocks.                         *)
MCLoads     == {Folder, File(1), File(4)}
MCReadSizes == {6}
=============================================================================
