------------------------------ MODULE FAT32Props ------------------------------
(***************************************************************************)
(* What the FAT32 driver keeps true.  The structural properties speak of   *)
(* dfat and disk, the image a power loss would leave, at every step.       *)
(***************************************************************************)
EXTENDS FAT32

Buffers == {l.buf : l \in Loads} \cup {<<>>}

TypeOK ==
  /\ sig \in BOOLEAN
  /\ dfat \in [Clusters -> FatValues]
  /\ disk \in [DataClusters -> Image]
  /\ fat \in [Clusters -> FatValues]
  /\ dirbuf \in Image
  /\ pc \in {"off", "format_fat", "format_root", "mount", "idle", "read",
             "write", "write_fat", "write_dir", "delete", "delete_fat", "delete_dir"}
  /\ req \in [name : Names \cup {BLANK}, ext : Exts \cup {NO_EXT},
              parent : Clusters, size : Nat, buf : Buffers]
  /\ slot \in 0 .. DIRECTORY_ENTRIES - 1
  /\ cursor \in FatValues
  /\ i \in Nat
  /\ ret \in -1 .. 3

-----------------------------------------------------------------------------
(* The entries in use of the clusters that parents are accepted from, and  *)
(* the first cluster of each.                                              *)
Live(f) == {e \in DataClusters \X Slots :
              f[e[1]] = EOF /\ disk[e[1]].dir /\ disk[e[1]].table[e[2]].used}

Start(e) == disk[e[1]].table[e[2]].first

(* The entry whose chain delete() is freeing or has freed.                 *)
Doomed == IF pc \in {"delete", "delete_fat", "delete_dir"}
            THEN {<<req.parent, slot>>} ELSE {}

(* FAT chains only run forward, so every walk along a chain ends: the      *)
(* search of write() never moves back.  (fat32.c:325-345, 238-242)         *)
LinksForward ==
  \A c \in DataClusters :
    dfat[c] \notin {EMPTY, EOF} =>
      /\ dfat[c] \in DataClusters /\ dfat[c] > c
      /\ dfat[dfat[c]] # EMPTY

(* No cluster belongs to two chains: no two FAT entries name the same      *)
(* cluster, the first cluster of an entry is named by no FAT entry and by  *)
(* no other directory entry.  (fat32.c:329-342)                            *)
NoCrossLinks ==
  /\ \A c, d \in DataClusters : c # d /\ dfat[c] \in DataClusters => dfat[c] # dfat[d]
  /\ \A e \in Live(dfat) : /\ \A c \in DataClusters : dfat[c] # Start(e)
                           /\ \A g \in Live(dfat) : e # g => Start(e) # Start(g)

(* A directory entry in use names an allocated cluster other than the      *)
(* root's, at every moment except between the two disk writes that end     *)
(* delete().  (fat32.c:353-355, 436-438)                                   *)
NoDangling ==
  \A e \in Live(dfat) :
    /\ Start(e) \in DataClusters \ {ROOT}
    /\ dfat[Start(e)] # EMPTY \/ (pc = "delete_dir" /\ e \in Doomed)

(* Once the storage is formatted the root directory stays a valid parent.  *)
(* (fat32.c:61-99, 360-441)                                                *)
RootIntact ==
  sig /\ pc \notin {"format_fat", "format_root"} =>
    /\ dfat[ROOT] = EOF /\ disk[ROOT].dir
    /\ \A c \in DataClusters : dfat[c] # ROOT

(* No space is lost: between calls every allocated cluster has an owner, a *)
(* FAT entry or a directory entry in use.  (fat32.c:348-355, 418-434)      *)
NoLeak ==
  pc = "idle" =>
    \A c \in DataClusters \ {ROOT} :
      dfat[c] # EMPTY => \/ \E d \in DataClusters : dfat[d] = c
                         \/ \E e \in Live(dfat) : Start(e) = c

(* Folders stay together: between calls each cluster that is accepted as a *)
(* parent can be reached from the root, as of any set of others one is     *)
(* entered from outside the set.  (fat32.c:253-269, 399-416)               *)
FoldersReachable ==
  pc = "idle" =>
    \A S \in SUBSET {c \in DataClusters \ {ROOT} : dfat[c] = EOF /\ disk[c].dir} :
      S # {} => \E e \in Live(dfat) : e[1] \notin S /\ Start(e) \in S

(* Two entries in use of a directory never share name and extension.       *)
(* (fat32.c:271-283)                                                       *)
UniqueNames ==
  \A e, g \in Live(dfat) :
    /\ e[1] = g[1] /\ e # g
    => \/ disk[e[1]].table[e[2]].name # disk[g[1]].table[g[2]].name
       \/ disk[e[1]].table[e[2]].ext  # disk[g[1]].table[g[2]].ext

(* Between calls the cached FAT is the one on disk.  (fat32.c:353, 436)    *)
CacheCoherent == pc \in {"idle", "read"} => fat = dfat

(* The search for an empty FAT entry always finds one: the count made      *)
(* before the loop is still good in each round.  (fat32.c:301-331)         *)
RoomForNextBlock == pc = "write" => EmptyFrom(cursor) # {}

(* read() copies whole clusters until the chain ends and still never       *)
(* passes the end of the caller's buffer.  (fat32.c:228-242, 348)          *)
ReadFitsBuffer == pc = "read" => (i + 1) * CLUSTER_SIZE <= req.size

(* A walk along a chain stays on allocated clusters.  (fat32.c:238-242,    *)
(* 423-429)                                                                *)
WalkOnChain ==
  pc \in {"read", "delete"} => cursor \in DataClusters /\ fat[cursor] # EMPTY

-----------------------------------------------------------------------------
(* The cluster a step of a call is entitled to change.                     *)
Touchable(c) ==
  \/ pc = "delete" /\ c = cursor
  \/ pc \in {"write", "write_fat"} /\ i > 0 /\ c = cursor
  \/ pc \in {"off", "mount"}

(* A call leaves alone what it was not asked about: the cached FAT entry   *)
(* and the contents of an allocated cluster change only if it is the end   *)
(* of the chain being written, the cluster being freed or the directory    *)
(* being updated.  (fat32.c:327-355, 425-438)                              *)
OthersUntouched ==
  [][\A c \in DataClusters :
       fat[c] # EMPTY /\ ~Touchable(c) =>
         /\ fat'[c] = fat[c]
         /\ disk'[c] # disk[c] => pc \in {"write_dir", "delete_dir"} /\ c = req.parent]_vars

(* Every call returns.  (fat32.c:327-345, 425-431, 238-242)                *)
CallsReturn == (pc # "idle") ~> (pc = "idle")

=============================================================================
