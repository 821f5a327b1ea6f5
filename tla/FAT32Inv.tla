------------------------------- MODULE FAT32Inv -------------------------------
(***************************************************************************)
(* The inductive invariant of the FAT32 driver.  The properties of         *)
(* FAT32Props say what the image looks like; what is added here says what  *)
(* the cached FAT and the directory buffer look like half-way through a    *)
(* call, so that the image still has those properties once they are        *)
(* written out.                                                            *)
(***************************************************************************)
EXTENDS FAT32Props

WriteSteps  == {"write", "write_fat", "write_dir"}
DeleteSteps == {"delete", "delete_fat", "delete_dir"}
FormatSteps == {"format_fat", "format_root"}

(* The call in progress was accepted.                                      *)
CallOK ==
  /\ pc \in WriteSteps \cup DeleteSteps \cup {"read"} =>
       /\ sig
       /\ slot \in Slots /\ req.parent \in DataClusters
  /\ pc \in FormatSteps \cup {"idle", "mount"} => sig
  /\ pc = "write" =>
       /\ i <= req.size \div CLUSTER_SIZE
       /\ \E l \in Loads : req.size = l.size /\ req.buf = l.buf

(* Before formatting is done nothing on the disk looks like a directory,   *)
(* and no FAT is cached before it is mounted.                              *)
FormatOK ==
  /\ ~sig => pc = "off"
  /\ ~sig \/ pc \in FormatSteps => \A c \in Clusters : fat[c] = EMPTY
  /\ ~sig \/ pc \in FormatSteps => \A c \in DataClusters : ~disk[c].dir
  /\ ~sig \/ pc = "format_fat" => \A c \in Clusters : dfat[c] = EMPTY
  /\ pc = "format_root" => dfat = FreshFat

NoEntries(img) == img.dir => \A s \in Slots : ~img.table[s].used

(* The directory buffer is the parent's table but for the slot written.    *)
BufferOK ==
  pc \in WriteSteps \cup DeleteSteps =>
    /\ dirbuf.dir /\ disk[req.parent].dir
    /\ \A s \in Slots : s # slot => dirbuf.table[s] = disk[req.parent].table[s]

NewSlotOK ==
  pc \in WriteSteps =>
    /\ dfat[req.parent] = EOF
    /\ ~disk[req.parent].table[slot].used
    /\ dirbuf.table[slot].used
    /\ dirbuf.table[slot].name = req.name /\ dirbuf.table[slot].ext = req.ext
    /\ Matches(disk[req.parent], req.name, req.ext) = {}

(* The first cluster of the entry being written.                           *)
NewHead == dirbuf.table[slot].first

(* A cluster that the cached FAT has linked and the disk's has not.        *)
Linking(c) == dfat[c] = EMPTY /\ fat[c] # EMPTY /\ c # cursor

(* The new chain, half-way: it begins at NewHead, ends at cursor, and      *)
(* takes free clusters only.  The entry of cursor is free or names cursor. *)
NewChainOK ==
  pc \in {"write", "write_fat"} =>
    /\ \A c \in Clusters : dfat[c] # EMPTY => fat[c] = dfat[c]
    /\ i = 0 => pc = "write" /\ fat = dfat /\ cursor = 2
    /\ i > 0 =>
         /\ cursor \in DataClusters
         /\ dfat[cursor] = EMPTY /\ fat[cursor] \in {EMPTY, cursor}
         /\ NoEntries(disk[cursor])
         /\ NewHead \in DataClusters /\ NewHead <= cursor /\ dfat[NewHead] = EMPTY
         /\ NewHead = cursor \/ fat[NewHead] # EMPTY
         /\ \A c \in DataClusters : Linking(c) =>
              /\ fat[c] \in DataClusters /\ fat[c] > c /\ fat[c] # NewHead
              /\ dfat[fat[c]] = EMPTY
              /\ fat[fat[c]] # EMPTY \/ fat[c] = cursor
         /\ \A c, d \in DataClusters : Linking(c) /\ Linking(d) /\ c # d => fat[c] # fat[d]

(* The chain is written and nothing refers to it yet.                      *)
NewEntryOK ==
  pc = "write_dir" =>
    /\ fat = dfat
    /\ NewHead \in DataClusters \ {ROOT} /\ dfat[NewHead] # EMPTY
    /\ \A c \in DataClusters : dfat[c] # NewHead
    /\ \A e \in Live(dfat) : Start(e) # NewHead

(* There is a free cluster for each block still to be written.             *)
RoomOK ==
  pc = "write" => Cardinality(EmptyFrom(cursor)) >= BlockCount(req.size) - i

(* The cached FAT is the disk's with a chain freed from its head up to,    *)
(* not including, cursor: a cluster freed has its predecessor freed too,   *)
(* and neither it nor cursor is the first of another entry.                *)
FreedOK ==
  /\ pc \in {"delete", "delete_fat"} =>
       /\ \A c \in Clusters : fat[c] \in {dfat[c], EMPTY}
       /\ fat[ROOT] = dfat[ROOT]
       /\ \A c \in DataClusters :
            dfat[c] \in DataClusters /\ fat[dfat[c]] = EMPTY => fat[c] = EMPTY
       /\ \A e \in Live(dfat) : e \notin Doomed => fat[Start(e)] # EMPTY
  /\ pc = "delete" =>
       /\ cursor # ROOT /\ fat[cursor] = dfat[cursor]
       /\ \A c \in DataClusters : dfat[c] = cursor => fat[c] = EMPTY
       /\ \A e \in Live(dfat) : e \notin Doomed => Start(e) # cursor
  /\ pc = "delete_dir" => fat = dfat
  /\ pc \in {"delete_fat", "delete_dir"} => ~dirbuf.table[slot].used

ImageInv == LinksForward /\ NoCrossLinks /\ NoDangling /\ RootIntact /\ UniqueNames

MemoryInv == /\ BufferOK /\ NewSlotOK /\ NewChainOK /\ NewEntryOK /\ RoomOK /\ FreedOK
             /\ CacheCoherent /\ WalkOnChain

FAT32Inv == TypeOK /\ CallOK /\ FormatOK /\ ImageInv /\ MemoryInv

-----------------------------------------------------------------------------
(* Who owns an allocated cluster.  Only delete() gives clusters back, and  *)
(* it follows one chain: nothing is lost as long as no directory in use    *)
(* goes with that chain.  delete() sees to it for the first cluster of an  *)
(* entry marked as a subdirectory, and for no other: hence the condition   *)
(* that only requests for a folder carry a directory table.                *)
TablesInFolders ==
  \A l \in Loads :
    l.size > 0 => \A k \in 0 .. l.size \div CLUSTER_SIZE : ~l.buf[k].dir

Owned(c) == \/ \E d \in DataClusters : dfat[d] = c
            \/ \E e \in Live(dfat) : Start(e) = c

(* The chain of a new entry waits for the entry to be written.             *)
OwnersOK ==
  \A c \in DataClusters \ {ROOT} :
    dfat[c] # EMPTY => Owned(c) \/ (pc = "write_dir" /\ c = NewHead)

(* A cluster that is accepted as a parent is the only one of its chain,    *)
(* and the entry it belongs to is marked.                                  *)
FoldersOK ==
  \A p \in DataClusters : dfat[p] = EOF /\ disk[p].dir =>
    /\ \A c \in DataClusters : dfat[c] # p
    /\ \A e \in Live(dfat) : Start(e) = p => disk[e[1]].table[e[2]].sub

(* Half-way through write() each cluster of the new chain but its first is *)
(* named by the one before, and a folder has one cluster.                  *)
NewOwnersOK ==
  /\ pc \in {"write", "write_fat"} /\ i > 0 =>
       /\ \A c \in DataClusters :
            Linking(c) \/ c = cursor =>
              c = NewHead \/ \E d \in DataClusters : Linking(d) /\ fat[d] = c
       /\ disk[cursor].dir => req.size = 0
       /\ req.size = 0 => i = 1
       /\ i = 1 => NewHead = cursor /\ \A c \in DataClusters : ~Linking(c)
  /\ pc \in WriteSteps /\ req.size = 0 => dirbuf.table[slot].sub
  /\ pc = "write_dir" /\ dfat[NewHead] = EOF /\ disk[NewHead].dir => dirbuf.table[slot].sub

(* Half-way through delete() the successor of a cluster freed is free or   *)
(* the next to be freed, and no directory in use is among them.            *)
FreedOwnersOK ==
  /\ pc \in {"delete", "delete_fat"} =>
       /\ \A c \in DataClusters :
            dfat[c] \in DataClusters /\ fat[c] = EMPTY =>
              fat[dfat[c]] = EMPTY \/ (pc = "delete" /\ dfat[c] = cursor)
       /\ \A e \in Live(dfat) : fat[e[1]] # EMPTY /\ (pc = "delete" => e[1] # cursor)
       /\ \A e \in Doomed : fat[Start(e)] = EMPTY \/ (pc = "delete" /\ Start(e) = cursor)
  /\ pc = "delete_dir" => \A e \in Doomed : dfat[Start(e)] = EMPTY

OwnersInv == OwnersOK /\ FoldersOK /\ NewOwnersOK /\ FreedOwnersOK

DriverInv == FAT32Inv /\ (TablesInFolders => OwnersInv)
=============================================================================
