------------------------------- MODULE MCFAT32 -------------------------------
(***************************************************************************)
(* Small values for the constants of FAT32.  With the chains values two    *)
(* files of up to three clusters come and go in the root directory and     *)
(* scatter the free clusters; with the tables values every entry has one   *)
(* cluster, directories nest and the storage runs full.                    *)
(***************************************************************************)
EXTENDS FAT32StoreInv

CONSTANTS a, b, blank, noext, zero, even, odd

TwoNames == {a, b}
MCExts   == {noext}
MCTokens == {zero, even, odd}

Text(t) == [data |-> t, dir |-> FALSE, table |-> BlankTable]

(* Neighbouring blocks of a file differ.                                   *)
File(size) ==
  [size |-> size,
   buf  |-> [k \in 0 .. size \div CLUSTER_SIZE |-> Text(IF k % 2 = 0 THEN even ELSE odd)]]

(* A folder made from a prepared table, and one made from other memory,    *)
(* which shows an entry if it is read as a table.                          *)
Folder    == [size |-> 0, buf |-> [k \in {0} |-> RootImage]]
RawFolder ==
  [size |-> 0,
   buf  |-> [k \in {0} |-> [Text(even) EXCEPT !.table[2] = [BlankEntry EXCEPT !.used = TRUE]]]]

(* Files of one, three and five blocks of two bytes each.                  *)
ChainLoads == {File(s) : s \in {1, 4, 8}}
TableLoads == {Folder, RawFolder, File(1)}

ChainReadSizes == {2, 6, 10}
TableReadSizes == {1, 2}
=============================================================================
