------------------------------- MODULE FAT32Docs -------------------------------
(***************************************************************************)
(* What the repository says of write() in fat32.h and in the callers, at   *)
(* the moment the call has written the file and the FAT and is about to    *)
(* write the directory table.                                              *)
(***************************************************************************)
EXTENDS FAT32Props, Sequences

(* What read() would copy out, cluster after cluster, from cluster c on.   *)
(* Chains run forward (LinksForward), which makes the recursion end.       *)
Contents[c \in DataClusters] ==
  IF fat[c] \in DataClusters /\ fat[c] > c
    THEN <<disk[c].data>> \o Contents[fat[c]]
    ELSE <<disk[c].data>>

NewFile == dirbuf.table[slot]

(* fat32.h:234 says write() writes a file to the file system and           *)
(* fat32.h:226 that read() reads it back: what is stored is the buffer,    *)
(* block after block.  (fat32.c:327-345)                                   *)
WriteStoresBuffer ==
  pc = "write_dir" =>
    Contents[NewFile.first] = [k \in 1 .. BlockCount(req.size) |-> req.buf[k - 1].data]

(* fat32.h:68: attribute "Will be used exclusively for subdirectory flag / *)
(* determining this entry is file or folder".  (fat32.c:316-318, 434)      *)
AttributeTellsFolder ==
  pc = "write_dir" => (NewFile.sub <=> req.size = 0)

=============================================================================
