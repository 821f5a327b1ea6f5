------------------------------ MODULE FAT32Crash ------------------------------
(***************************************************************************)
(* The FAT32 driver on a machine that may lose power at any step.  The     *)
(* driver keeps no journal and no check runs at boot: what is on the disk  *)
(* is what the next boot mounts.  A cluster is written as four blocks in   *)
(* ascending order, so a power loss can also cut a write of the FAT; the   *)
(* one entry that differs in a directory table lies within a block.        *)
(***************************************************************************)
EXTENDS FAT32Props

VARIABLE torn  \* power was lost where the code leaves the disk inconsistent

crashVars == <<vars, torn>>

CrashInit == Init /\ torn = FALSE

(* Nothing of driver_state survives, and the boot loader starts the kernel *)
(* again from the top.                                                     *)
Off ==
  /\ pc' = "off" /\ ret' = 0
  /\ fat' = [c \in Clusters |-> 0]
  /\ EndCall

(* Between two cluster writes.                                             *)
PowerLoss ==
  /\ pc # "off"
  /\ Off
  /\ torn' = (torn \/ pc \in {"format_fat", "format_root", "delete_dir"})
  /\ UNCHANGED diskVars

(* The FAT about to be written by write(), delete() or create_fat32().     *)
FatInFlight ==
  CASE pc = "write_fat"  -> Ended
    [] pc = "delete_fat" -> fat
    [] pc = "format_fat" -> FreshFat

(* Within the write of the FAT: the entries from k on stay as they were.   *)
PowerLossInFat ==
  /\ pc \in {"write_fat", "delete_fat", "format_fat"}
  /\ \E k \in DataClusters :
       dfat' = [c \in Clusters |-> IF c < k THEN FatInFlight[c] ELSE dfat[c]]
  /\ Off
  /\ torn' = (torn \/ pc \in {"delete_fat", "format_fat"})
  /\ UNCHANGED <<sig, disk>>

(* The loops of read() and delete() have left the chain: a free FAT entry  *)
(* led to cluster 0, whose entry is past the end of cluster_map.           *)
GoWild ==
  /\ pc \in {"read", "delete"}
  /\ cursor \notin DataClusters
  /\ pc' = "wild"
  /\ UNCHANGED <<diskVars, fat, dirbuf, callVars, ret, torn>>

CrashNext ==
  \/ Next /\ UNCHANGED torn
  \/ PowerLoss \/ PowerLossInFat
  \/ GoWild

CrashSpec == CrashInit /\ [][CrashNext]_crashVars

-----------------------------------------------------------------------------
(* The clusters of a chain on the disk.  Links run forward (FilesSurvive), *)
(* which makes the recursion end.                                          *)
Chain[c \in DataClusters] ==
  {c} \cup IF dfat[c] \in DataClusters /\ dfat[c] > c THEN Chain[dfat[c]] ELSE {}

(* A power loss outside delete() and create_fat32() leaves the chain of    *)
(* every entry allocated up to its end, outside the chains of the other    *)
(* entries: write() stores the FAT before the entry that refers to it.     *)
(* And wherever a power loss has cut, links still run forward, so that no  *)
(* later walk goes in a circle.  (fat32.c:329-355, 437)                    *)
FilesSurvive ==
  /\ \A c \in DataClusters :
       dfat[c] \notin {EMPTY, EOF} => dfat[c] \in DataClusters /\ dfat[c] > c
  /\ ~torn =>
       \A e \in Live(dfat) :
         /\ Start(e) \in DataClusters \ {ROOT}
         /\ \/ \A c \in Chain[Start(e)] : dfat[c] # EMPTY
            \/ pc = "delete_dir" /\ e \in Doomed
         /\ \A g \in Live(dfat) : e # g => Chain[Start(e)] \cap Chain[Start(g)] = {}

(* The walks of read() and delete() leave the cluster map only on a disk   *)
(* on which delete() was cut between its two writes.  (fat32.c:238-242,    *)
(* 425-429, 437-438)                                                       *)
WildOnlyIfTorn == pc = "wild" => torn

(* The mounted root is a valid parent unless formatting was cut after the  *)
(* signature, which is written first.  (fat32.c:63-98, 102)                *)
MountedRootValid ==
  pc = "idle" /\ ~torn => fat[ROOT] = EOF /\ disk[ROOT].dir

(* write(), whether it goes on or loses power, changes no file that is on  *)
(* the disk: entries, links and contents of allocated chains stay, but for *)
(* the new entry in its parent.  (fat32.c:329-355)                         *)
FilesKept ==
  \A e \in Live(dfat) :
    /\ e \in Live(dfat)' /\ disk'[e[1]].table[e[2]] = disk[e[1]].table[e[2]]
    /\ \A c \in Chain[Start(e)] :
         dfat[c] # EMPTY => /\ dfat'[c] = dfat[c]
                            /\ disk'[c] = disk[c] \/ (pc = "write_dir" /\ c = req.parent)

WriteKeepsFiles ==
  [][(pc \in {"write", "write_fat", "write_dir"}) => FilesKept]_crashVars

=============================================================================
