----------------------------- MODULE FAT32StoreInv -----------------------------
(***************************************************************************)
(* Why FAT32 implements FileStore: how the file that write() has half      *)
(* written, and the file that read() has half copied, relate to what the   *)
(* abstract store makes of them in one step.                               *)
(***************************************************************************)
EXTENDS FAT32Store, FAT32Inv

(* The request of a call in progress is one that a caller made, and        *)
(* write() leaves its loop when the buffer is used up.  The directory      *)
(* buffer is the parent's cluster but for its entries.                     *)
RequestOK ==
  /\ pc \in WriteSteps \cup DeleteSteps => dirbuf.data = disk[req.parent].data
  /\ pc \in WriteSteps => \E l \in Loads : req.size = l.size /\ req.buf = l.buf
  /\ pc \in WriteSteps \cup {"read"} => req.name \in Names /\ req.ext \in Exts
  /\ pc = "read" => req.size \in ReadSizes
  /\ pc = "write_fat" => i = BlockCount(req.size)

(* The search of every second round finds the cluster of the round before  *)
(* again, as its FAT entry is still free, and links it to itself: i rounds *)
(* make a chain s of half as many clusters, rounded up, which holds the    *)
(* blocks at odd places and, after an odd number of rounds, the last one.  *)
NewFileOK ==
  pc \in {"write", "write_fat"} /\ i > 0 =>
    LET n == (i + 1) \div 2
    IN  /\ fat[cursor] = IF i % 2 = 1 THEN EMPTY ELSE cursor
        /\ \E s \in [1 .. n -> DataClusters] :
             /\ s[1] = NewHead /\ s[n] = cursor
             /\ \A k \in 1 .. n :
                  /\ dfat[s[k]] = EMPTY
                  /\ disk[s[k]] = req.buf[IF 2 * k - 1 < i THEN 2 * k - 1 ELSE i - 1]
                  /\ k < n => fat[s[k]] = s[k + 1] /\ s[k] < s[k + 1]

(* What is written is what the abstract store keeps, and a table is not    *)
(* longer than a cluster.                                                  *)
NewStoredOK ==
  pc = "write_dir" =>
    /\ StoredAs(NewFile) = Store!NewEntry(req, NewFile.sub, NewHead)
    /\ req.size = 0 => NewFile.sub
    /\ disk[NewHead].dir <=> Store!MakesTable(req)
    /\ disk[NewHead].dir => dfat[NewHead] = EOF /\ NoEntries(disk[NewHead])

TablesOK == \A e \in Visible : disk[Start(e)].dir => dfat[Start(e)] = EOF

(* The size of an entry is that of the buffer it was written from, which   *)
(* is no less than what is stored.                                         *)
SizesOK ==
  /\ \A e \in Visible :
       Len(StoredFrom[Start(e)]) * CLUSTER_SIZE <= disk[e[1]].table[e[2]].size
  /\ pc = "write_dir" => Len(StoredFrom[NewHead]) * CLUSTER_SIZE <= NewFile.size

(* read() has copied the first i blocks, and those from cursor on are left.*)
ReadOK ==
  pc = "read" =>
    LET e == <<req.parent, slot>>
    IN  /\ e \in Live(dfat) /\ KeyOf(e) = <<req.name, req.ext>>
        /\ disk[e[1]].table[e[2]].size <= req.size
        /\ Len(StoredFrom[Start(e)]) = i + Len(StoredFrom[cursor])
        /\ \A k \in 1 .. Len(StoredFrom[cursor]) :
             StoredFrom[Start(e)][i + k] = StoredFrom[cursor][k]

(* A call that was accepted goes on as if the abstract store took it now.  *)
CodesOK ==
  LET key == <<req.name, req.ext>>
  IN  /\ pc \in WriteSteps => Store!WriteCode(key, req.parent, req.size) = 0
      /\ pc = "read" => Store!ReadCode(key, req.parent, req.size) = 0

FilesOK == RequestOK /\ NewFileOK /\ SizesOK /\ ReadOK

TreeOK == NewStoredOK /\ TablesOK /\ CodesOK

StoreInv == DriverInv /\ FilesOK /\ (TablesInFolders => TreeOK)
=============================================================================
