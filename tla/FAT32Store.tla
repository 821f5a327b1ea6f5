------------------------------ MODULE FAT32Store ------------------------------
(***************************************************************************)
(* FAT32 implements FileStore.  A write() takes effect when the parent's   *)
(* table is written, a delete() when it is accepted; the FAT and the       *)
(* contents of clusters show only through the files they make up.          *)
(***************************************************************************)
EXTENDS FAT32Docs

Deleting == pc \in {"delete", "delete_fat", "delete_dir"}

Visible == Live(dfat) \ Doomed

Homes == {ROOT} \cup {Start(e) : e \in Visible}

(* The blocks read() would hand out of the disk, from cluster c on.        *)
StoredFrom[c \in DataClusters] ==
  <<disk[c].data>> \o IF dfat[c] \in DataClusters /\ dfat[c] > c THEN StoredFrom[dfat[c]] ELSE << >>

StoredAs(entry) ==
  [sub |-> entry.sub, id |-> entry.first, size |-> entry.size, blocks |-> StoredFrom[entry.first],
   filled |-> ~disk[entry.first].dir /\ HasEntries(disk[entry.first])]

Stored(e) == StoredAs(disk[e[1]].table[e[2]])

KeyOf(e) == <<disk[e[1]].table[e[2]].name, disk[e[1]].table[e[2]].ext>>

EntriesOf(p) == {e \in Visible : e[1] = p}

Tree ==
  [p \in {c \in Homes : dfat[c] = EOF /\ disk[c].dir} |->
     [k \in {KeyOf(e) : e \in EntriesOf(p)} |-> Stored(CHOOSE e \in EntriesOf(p) : KeyOf(e) = k)]]

Store == INSTANCE FileStore WITH
  dirs <- Tree, ret <- IF Deleting THEN 0 ELSE ret,
  Ids <- DataClusters, BLOCK <- CLUSTER_SIZE,
  CAPACITY <- Cardinality(DataClusters) - 1, SLOTS <- Cardinality(Slots)

(* Every call of the driver, refused or not, does what the abstract store  *)
(* does: same directories, same contents, same code, and space is refused  *)
(* exactly when files and folders occupy it.  (fat32.c:143-441)            *)
ImplementsFileStore == Store!Spec

(* What read() copies to the caller in each round is the next block of the *)
(* file as it is stored, whatever other calls did before.                  *)
(* (fat32.c:238-242)                                                       *)
ReadsStored ==
  pc = "read" => disk[cursor].data = Tree[req.parent][<<req.name, req.ext>>].blocks[i + 1]

=============================================================================
