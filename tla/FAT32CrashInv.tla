----------------------------- MODULE FAT32CrashInv -----------------------------
(***************************************************************************)
(* The inductive invariant of the FAT32 driver on a machine that loses     *)
(* power.  FAT32Inv does not survive: a cut write() leaves clusters that   *)
(* nobody owns, and links from them into free space that another file may  *)
(* take.  What survives speaks of the chains of the entries in use alone,  *)
(* and, once a delete() was cut between its two writes, of the direction   *)
(* of the links and of the call in progress alone.                         *)
(***************************************************************************)
EXTENDS FAT32Crash, FAT32Inv

TypesOK ==
  /\ sig \in BOOLEAN
  /\ dfat \in [Clusters -> FatValues]
  /\ disk \in [DataClusters -> Image]
  /\ pc # "wild" => TypeOK /\ CallOK
  /\ pc = "wild" => sig

Forward == \A c \in DataClusters :
             dfat[c] \notin {EMPTY, EOF} => dfat[c] \in DataClusters /\ dfat[c] > c

(* An entry in use names a data cluster, wherever it is.                   *)
EntriesNamed ==
  \A c \in DataClusters :
    disk[c].dir => \A s \in Slots :
      disk[c].table[s].used => disk[c].table[s].first \in DataClusters

(* What is certain of the call in progress, whatever the disk looks like.  *)
AnyCallOK ==
  /\ pc = "write_dir" => fat = dfat /\ NewHead \in DataClusters
  /\ pc \in {"delete", "delete_fat"} => \A c \in Clusters : fat[c] \in {dfat[c], EMPTY}
  /\ pc = "delete_dir" => fat = dfat
  /\ pc \in {"delete_fat", "delete_dir"} => ~dirbuf.table[slot].used

RootKept == sig /\ pc \notin FormatSteps => dfat[ROOT] = EOF /\ disk[ROOT].dir

(* The clusters of the file or folder of an entry.                         *)
ChainOf(e) == Chain[Start(e)]

FilesApart ==
  \A e \in Live(dfat) :
    /\ Start(e) \in DataClusters \ {ROOT}
    /\ \A c \in ChainOf(e) : dfat[c] # EMPTY \/ (pc = "delete_dir" /\ e \in Doomed)
    /\ \A g \in Live(dfat) : e # g => ChainOf(e) \cap ChainOf(g) = {}

NewFileApart ==
  pc = "write_dir" =>
    /\ NewHead # ROOT
    /\ \A c \in Chain[NewHead] : dfat[c] # EMPTY /\ \A e \in Live(dfat) : c \notin ChainOf(e)

(* The entry read() or delete() was asked for.                             *)
Target == <<req.parent, slot>>

(* read() and delete() walk along the chain of their entry, and delete()   *)
(* has freed nothing but clusters of that chain behind it.                 *)
WalkInFile ==
  /\ pc \in {"read", "delete", "delete_fat"} => Target \in Live(dfat)
  /\ pc \in {"read", "delete"} => cursor \in ChainOf(Target)
  /\ pc = "delete" => \A c \in DataClusters : c >= cursor => fat[c] = dfat[c]
  /\ pc \in {"delete", "delete_fat"} =>
       \A c \in DataClusters : fat[c] # dfat[c] => c \in ChainOf(Target)

FilesInv == /\ pc # "wild"
            /\ RootKept /\ FilesApart /\ NewFileApart /\ WalkInFile

CrashInv == /\ TypesOK /\ FormatOK /\ Forward /\ EntriesNamed
            /\ BufferOK /\ NewSlotOK /\ NewChainOK /\ RoomOK /\ CacheCoherent /\ AnyCallOK
            /\ ~torn => FilesInv
=============================================================================
