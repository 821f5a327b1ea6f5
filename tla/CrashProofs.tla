------------------------------ MODULE CrashProofs ------------------------------
(***************************************************************************)
(* The FAT32 driver on a machine that may lose power at any step: proofs.  *)
(* A chain is recursive data, so it is reasoned about as the least set of  *)
(* clusters closed under links (Reach): a step that does not disturb the   *)
(* clusters of a chain leaves the chain alone (ReachSame), one that only   *)
(* frees clusters shortens it (ReachShrinks).                              *)
(***************************************************************************)
EXTENDS FAT32CrashInv, FAT32Proofs

(* The chain of a cluster, without recursion: what is in every set that    *)
(* holds the cluster and, with a cluster, the one its link leads to.       *)
Closed(f, T) == \A c \in T : f[c] \in DataClusters /\ f[c] > c => f[c] \in T

Reach(f, c) ==
  {d \in DataClusters : \A T \in SUBSET DataClusters : c \in T /\ Closed(f, T) => d \in T}

LEMMA ReachSelf ==
  ASSUME NEW f, NEW c \in DataClusters
  PROVE  c \in Reach(f, c) /\ Reach(f, c) \subseteq DataClusters
BY DEF Reach

LEMMA ReachLeast ==
  ASSUME NEW f, NEW c \in DataClusters, NEW T \in SUBSET DataClusters, c \in T, Closed(f, T)
  PROVE  Reach(f, c) \subseteq T
BY DEF Reach

LEMMA ReachClosed ==
  ASSUME NEW f, NEW c \in DataClusters
  PROVE  Closed(f, Reach(f, c))
BY DEF Closed, Reach

(* The chain is the cluster and, if it is linked, the chain of the next.   *)
LEMMA ReachUnfold ==
  ASSUME NEW f, NEW c \in DataClusters
  PROVE  Reach(f, c) =
           {c} \cup IF f[c] \in DataClusters /\ f[c] > c THEN Reach(f, f[c]) ELSE {}
<1> DEFINE T == {c} \cup IF f[c] \in DataClusters /\ f[c] > c THEN Reach(f, f[c]) ELSE {}
<1>1. T \in SUBSET DataClusters /\ c \in T
  BY DEF Reach
<1>2. Closed(f, T)
  <2>1. CASE f[c] \in DataClusters /\ f[c] > c
    <3>1. T = {c} \cup Reach(f, f[c])
      BY <2>1
    <3>2. f[c] \in Reach(f, f[c]) /\ Closed(f, Reach(f, f[c]))
      BY <2>1, ReachSelf, ReachClosed
    <3> HIDE DEF T
    <3> QED
      BY <3>1, <3>2 DEF Closed
  <2>2. CASE ~(f[c] \in DataClusters /\ f[c] > c)
    BY <2>2 DEF Closed
  <2> QED
    BY <2>1, <2>2
<1>3. Reach(f, c) \subseteq T
  <2> HIDE DEF T
  <2> QED
    BY <1>1, <1>2, ReachLeast
<1>4. f[c] \in DataClusters /\ f[c] > c => Reach(f, f[c]) \subseteq Reach(f, c)
  <2> SUFFICES ASSUME f[c] \in DataClusters, f[c] > c
               PROVE  Reach(f, f[c]) \subseteq Reach(f, c)
    OBVIOUS
  <2>1. f[c] \in Reach(f, c)
    BY ReachSelf, ReachClosed DEF Closed
  <2>2. Reach(f, c) \in SUBSET DataClusters
    BY ReachSelf
  <2> QED
    BY <2>1, <2>2, ReachClosed, ReachLeast
<1>5. T \subseteq Reach(f, c)
  BY <1>4, ReachSelf
<1> QED
  BY <1>3, <1>5

(* Another FAT that cuts the chain, or leaves it, does not lengthen it.    *)
LEMMA ReachShrinks ==
  ASSUME NEW f, NEW g, NEW c \in DataClusters,
         \A d \in Reach(f, c) : g[d] = f[d] \/ g[d] \notin DataClusters
  PROVE  Reach(g, c) \subseteq Reach(f, c)
<1>1. Closed(g, Reach(f, c))
  BY ReachClosed DEF Closed
<1>2. Reach(f, c) \in SUBSET DataClusters
  BY ReachSelf
<1> QED
  BY <1>1, <1>2, ReachSelf, ReachLeast

LEMMA ReachSame ==
  ASSUME NEW f, NEW g, NEW c \in DataClusters, \A d \in Reach(f, c) : g[d] = f[d]
  PROVE  Reach(g, c) = Reach(f, c)
<1>1. Reach(g, c) \subseteq Reach(f, c)
  BY ReachShrinks
<1>2. Reach(f, c) \subseteq Reach(g, c)
  BY <1>1, ReachShrinks
<1> QED
  BY <1>1, <1>2

(* A chain runs forward.                                                   *)
LEMMA ReachForward ==
  ASSUME NEW f, NEW c \in DataClusters
  PROVE  \A d \in Reach(f, c) : d >= c
<1> DEFINE T == {d \in DataClusters : d >= c}
<1>1. DataClusters \subseteq Nat
  BY ConstantTypes
<1>2. \A d \in T, e \in DataClusters : e > d => e \in T
  BY <1>1
<1>3. T \in SUBSET DataClusters /\ c \in T
  BY <1>1
<1>4. Closed(f, T)
  <2> HIDE DEF T
  <2> QED
    BY <1>2 DEF Closed
<1>5. Reach(f, c) \subseteq T
  <2> HIDE DEF T
  <2> QED
    BY <1>3, <1>4, ReachLeast
<1> QED
  BY <1>5

(* Chain is well defined: its recursion ends, as clusters are numbered.    *)
LEMMA ChainIsReach == \A c \in DataClusters : Chain[c] = Reach(dfat, c)
<1> DEFINE Body(g) == [c \in DataClusters |->
             {c} \cup IF dfat[c] \in DataClusters /\ dfat[c] > c THEN g[dfat[c]] ELSE {}]
           R == [c \in DataClusters |-> Reach(dfat, c)]
<1>1. R = Body(R)
  <2>1. \A c \in DataClusters : R[c] = Body(R)[c]
    BY ReachUnfold
  <2> QED
    BY <2>1
<1>2. Chain = Body(Chain)
  BY <1>1 DEF Chain
<1> DEFINE Bad == {c \in DataClusters : Chain[c] # Reach(dfat, c)}
           Up  == {CLUSTER_MAP_SIZE - c : c \in Bad}
<1> SUFFICES ASSUME Bad # {} PROVE FALSE
  OBVIOUS
<1>3. Up \subseteq 0 .. CLUSTER_MAP_SIZE /\ Up # {}
  BY SizeAssumption DEF DataClusters, ROOT
<1>4. Min(Up) \in Up /\ \A y \in Up : Min(Up) <= y
  <2>1. Up \in SUBSET Nat
    BY <1>3, SizeAssumption
  <2>2. IsFiniteSet(0 .. CLUSTER_MAP_SIZE)
    BY FS_Interval, SizeAssumption
  <2>3. IsFiniteSet(Up)
    BY <1>3, <2>2, FS_Subset
  <2> HIDE DEF Up
  <2> QED
    BY <2>1, <2>3, <1>3, MinIsLeast
<1>5. PICK c \in Bad : Min(Up) = CLUSTER_MAP_SIZE - c
  BY <1>4
<1>6. \A d \in Bad : d <= c
  <2>1. \A d \in Bad : Min(Up) <= CLUSTER_MAP_SIZE - d
    BY <1>4
  <2> QED
    BY <2>1, <1>5, SizeAssumption DEF DataClusters, ROOT
<1>7. dfat[c] \in DataClusters /\ dfat[c] > c => Chain[dfat[c]] = Reach(dfat, dfat[c])
  BY <1>6, SizeAssumption DEF DataClusters, ROOT
<1>8. Chain[c] = {c} \cup IF dfat[c] \in DataClusters /\ dfat[c] > c THEN Chain[dfat[c]] ELSE {}
  <2> HIDE DEF Bad
  <2> c \in DataClusters
    BY DEF Bad
  <2> QED
    BY <1>2
<1>9. Chain[c] = Reach(dfat, c)
  BY <1>7, <1>8, ReachUnfold
<1> QED
  BY <1>9

LEMMA ChainIsReachNext == \A c \in DataClusters : Chain'[c] = Reach(dfat', c)
<1>1. (\A c \in DataClusters : Chain[c] = Reach(dfat, c))'
  BY ChainIsReach, PTL
<1> QED
  BY <1>1

-----------------------------------------------------------------------------
(* FilesInv in terms of Reach, which a step can be reasoned about with.    *)
FilesReach ==
  \A e \in Live(dfat) :
    /\ Start(e) \in DataClusters \ {ROOT}
    /\ \A c \in Reach(dfat, Start(e)) : dfat[c] # EMPTY \/ (pc = "delete_dir" /\ e \in Doomed)
    /\ \A g \in Live(dfat) : e # g => Reach(dfat, Start(e)) \cap Reach(dfat, Start(g)) = {}

NewReach ==
  pc = "write_dir" =>
    /\ NewHead # ROOT
    /\ \A c \in Reach(dfat, NewHead) :
         dfat[c] # EMPTY /\ \A e \in Live(dfat) : c \notin Reach(dfat, Start(e))

WalkReach ==
  /\ pc \in {"read", "delete", "delete_fat"} => Target \in Live(dfat)
  /\ pc \in {"read", "delete"} => cursor \in Reach(dfat, Start(Target))
  /\ pc = "delete" => \A c \in DataClusters : c >= cursor => fat[c] = dfat[c]
  /\ pc \in {"delete", "delete_fat"} =>
       \A c \in DataClusters : fat[c] # dfat[c] => c \in Reach(dfat, Start(Target))

ReachInv == RootKept /\ FilesReach /\ NewReach /\ WalkReach

LEMMA FilesReachEq ==
  (pc = "write_dir" => NewHead \in DataClusters) /\ pc # "wild" => (FilesInv <=> ReachInv)
<1> SUFFICES ASSUME pc = "write_dir" => NewHead \in DataClusters, pc # "wild"
             PROVE  FilesInv <=> ReachInv
  OBVIOUS
<1>1. ASSUME NEW e, Start(e) \in DataClusters
      PROVE  ChainOf(e) = Reach(dfat, Start(e))
  BY <1>1, ChainIsReach DEF ChainOf
<1>2. FilesApart <=> FilesReach
  BY <1>1 DEF FilesApart, FilesReach
<1> SUFFICES ASSUME FilesReach
             PROVE  (NewFileApart <=> NewReach) /\ (WalkInFile <=> WalkReach)
  BY <1>2 DEF FilesInv, ReachInv
<1>3. \A e \in Live(dfat) : ChainOf(e) = Reach(dfat, Start(e))
  BY <1>1 DEF FilesReach
<1>4. NewFileApart <=> NewReach
  BY <1>3, ChainIsReach DEF NewFileApart, NewReach
<1>5. WalkInFile <=> WalkReach
  BY <1>3 DEF WalkInFile, WalkReach
<1> QED
  BY <1>4, <1>5

LEMMA FilesReachEqNext ==
  ((pc = "write_dir" => NewHead \in DataClusters) /\ pc # "wild" => (FilesInv <=> ReachInv))'
BY FilesReachEq, PTL

(* What is left of the invariant when no call that writes is in progress.  *)
CallsOK == BufferOK /\ NewSlotOK /\ NewChainOK /\ RoomOK /\ CacheCoherent /\ AnyCallOK

LEMMA CallsRest ==
  pc \notin WriteSteps \cup DeleteSteps /\ (pc \in {"idle", "read"} => fat = dfat) => CallsOK
BY DEF CallsOK, BufferOK, NewSlotOK, NewChainOK, RoomOK, CacheCoherent, AnyCallOK, WriteSteps,
       DeleteSteps

LEMMA CallsRestNext ==
  (pc \notin WriteSteps \cup DeleteSteps /\ (pc \in {"idle", "read"} => fat = dfat) => CallsOK)'
BY CallsRest, PTL

LEMMA NextNotWild == Next => pc # "wild"
<1>1. Boot => pc # "wild"
  BY DEF Boot, WriteSignature, FormatFat, FormatRoot, Mount
<1>2. Calls => pc # "wild"
  BY DEF Calls, WriteRefused, WriteStart, DeleteRefused, DeleteStart, ReadRefused, ReadStart,
         ReadDirectory
<1>3. Steps => pc # "wild"
  BY DEF Steps, WriteBlock, WriteFat, WriteDir, FreeCluster, DeleteFat, DeleteDir, ReadBlock
<1> QED
  BY <1>1, <1>2, <1>3 DEF Next

LEMMA CrashTypeStep ==
  ASSUME TypesOK, Next
  PROVE  TypeOK /\ CallOK /\ TypeOK' /\ CallOK' /\ TypesOK' /\ pc # "wild" /\ pc' # "wild"
<1>1. TypeOK /\ CallOK /\ pc # "wild"
  BY NextNotWild DEF TypesOK
<1>2. TypeOK' /\ CallOK'
  BY <1>1, TypeStep
<1>3. pc' # "wild"
  BY <1>2 DEF TypeOK
<1> QED
  BY <1>1, <1>2, <1>3 DEF TypesOK, TypeOK

(* The pieces an invariant of the next state is put together from.         *)
LEMMA CrashInvNext ==
  ASSUME TypesOK', FormatOK', Forward', EntriesNamed', CallsOK', ~torn' => ReachInv' /\ pc' # "wild"
  PROVE  CrashInv'
<1>1. (pc = "write_dir" => NewHead \in DataClusters)'
  BY DEF CallsOK, AnyCallOK
<1>2. ~torn' => FilesInv'
  BY <1>1, FilesReachEqNext
<1> QED
  BY <1>2 DEF CrashInv, CallsOK

LEMMA CrashInvNow ==
  ASSUME CrashInv
  PROVE  /\ TypesOK /\ FormatOK /\ Forward /\ EntriesNamed /\ CallsOK
         /\ ~torn => ReachInv /\ pc # "wild"
<1>1. pc = "write_dir" => NewHead \in DataClusters
  BY DEF CrashInv, AnyCallOK
<1>2. ~torn => ReachInv
  BY <1>1, FilesReachEq DEF CrashInv, FilesInv
<1> QED
  BY <1>2 DEF CrashInv, CallsOK, FilesInv

(* A step that takes entries away, or links and clusters of files only     *)
(* where an entry is about to be cleared, keeps the files that are left.   *)
LEMMA FilesStay ==
  ASSUME FilesReach,
         Live(dfat)' \subseteq Live(dfat),
         \A e \in Live(dfat)' :
           /\ Start(e)' = Start(e)
           /\ \A c \in Reach(dfat, Start(e)) : dfat'[c] = dfat[c] \/ dfat'[c] \notin DataClusters
           /\ \/ \A c \in Reach(dfat, Start(e)) : dfat[c] # EMPTY => dfat'[c] # EMPTY
              \/ pc' = "delete_dir" /\ e \in Doomed'
           /\ pc = "delete_dir" => e \notin Doomed
  PROVE  FilesReach'
<1>1. ASSUME NEW e \in Live(dfat)'
      PROVE  /\ e \in Live(dfat) /\ Start(e)' = Start(e) /\ Start(e) \in DataClusters \ {ROOT}
             /\ Reach(dfat', Start(e)) \subseteq Reach(dfat, Start(e))
  <2>1. Start(e) \in DataClusters \ {ROOT}
    BY DEF FilesReach
  <2> QED
    BY <2>1, ReachShrinks
<1>2. ASSUME NEW e \in Live(dfat)'
      PROVE  \A c \in Reach(dfat', Start(e)) :
               dfat'[c] # EMPTY \/ (pc' = "delete_dir" /\ e \in Doomed')
  BY <1>1 DEF FilesReach
<1>3. ASSUME NEW e \in Live(dfat)', NEW g \in Live(dfat)', e # g
      PROVE  Reach(dfat', Start(e)) \cap Reach(dfat', Start(g)) = {}
  <2>1. Reach(dfat, Start(e)) \cap Reach(dfat, Start(g)) = {}
    BY <1>1, <1>3 DEF FilesReach
  <2> QED
    BY <2>1, <1>1
<1> QED
  BY <1>1, <1>2, <1>3 DEF FilesReach

LEMMA DiskStays ==
  ASSUME UNCHANGED <<dfat, disk>>
  PROVE  /\ Forward => Forward'
         /\ EntriesNamed => EntriesNamed'
         /\ FilesReach /\ pc # "delete_dir" => FilesReach'
         /\ Live(dfat)' = Live(dfat) /\ \A e : Start(e)' = Start(e)
<1>1. Live(dfat)' = Live(dfat) /\ \A e : Start(e)' = Start(e)
  BY DEF Live, Start
<1>2. (Forward => Forward') /\ (EntriesNamed => EntriesNamed')
  BY DEF Forward, EntriesNamed
<1>3. FilesReach /\ pc # "delete_dir" => FilesReach'
  BY <1>1, FilesStay
<1> QED
  BY <1>1, <1>2, <1>3

(* On a disk without a directory table there is no file.                   *)
LEMMA NoFiles ==
  ASSUME Live(dfat)' = {}, pc' \notin {"write_dir", "read", "delete", "delete_fat"}
  PROVE  FilesReach' /\ NewReach' /\ WalkReach'
BY DEF FilesReach, NewReach, WalkReach

LEMMA CrashInitInv == CrashInit => CrashInv
<1> SUFFICES ASSUME CrashInit PROVE CrashInv
  OBVIOUS
<1>1. TypeOK /\ CallOK
  BY TypeInit DEF CrashInit
<1>2. pc = "off" /\ sig = FALSE
  BY DEF CrashInit, Init
<1>3. /\ \A c \in DataClusters : disk[c] = ZeroImage
      /\ \A c \in Clusters : dfat[c] = EMPTY /\ fat[c] = EMPTY
  BY DEF CrashInit, Init, EMPTY
<1>4. \A c \in DataClusters : ~disk[c].dir
  BY <1>3 DEF ZeroImage
<1>5. FormatOK
  BY <1>2, <1>3, <1>4 DEF FormatOK, FormatSteps
<1>6. Live(dfat) = {}
  BY <1>4, NothingLive
<1>7. Forward /\ EntriesNamed
  BY <1>3, <1>4, ConstantTypes DEF Forward, EntriesNamed
<1>8. CallsOK
  BY <1>2, CallsRest DEF WriteSteps, DeleteSteps
<1>9. FilesInv
  BY <1>2, <1>6 DEF FilesInv, RootKept, FilesApart, NewFileApart, WalkInFile
<1> QED
  BY <1>1, <1>2, <1>5, <1>7, <1>8, <1>9 DEF CrashInv, CallsOK, TypesOK, TypeOK

LEMMA BootCrash ==
  ASSUME CrashInv, Boot, UNCHANGED torn
  PROVE  CrashInv'
<1>0. TypesOK /\ FormatOK /\ Forward /\ EntriesNamed /\ (~torn => ReachInv)
  BY CrashInvNow
<1>1. TypeOK /\ CallOK /\ TypesOK' /\ pc' # "wild"
  BY <1>0, CrashTypeStep DEF Next
<1>2. CASE WriteSignature
  <2>1. pc = "off" /\ pc' = "format_fat" /\ UNCHANGED <<dfat, disk>> /\ ~sig
    BY <1>2 DEF WriteSignature
  <2>2. \A c \in DataClusters : ~disk[c].dir
    BY <2>1, <1>0 DEF FormatOK
  <2>3. FormatOK'
    BY <1>0, <1>2, <2>1, <2>2 DEF FormatOK, FormatSteps, WriteSignature
  <2>4. Live(dfat)' = {}
    BY <2>1, <2>2 DEF Live
  <2>5. ReachInv'
    BY <2>1, <2>4, NoFiles DEF ReachInv, RootKept, FormatSteps
  <2>6. CallsOK'
    BY <2>1, CallsRestNext DEF WriteSteps, DeleteSteps
  <2> QED
    BY <1>0, <1>1, <2>1, <2>3, <2>5, <2>6, DiskStays, CrashInvNext
<1>3. CASE FormatFat
  <2>1. pc = "format_fat" /\ pc' = "format_root" /\ UNCHANGED <<sig, disk, fat>> /\ dfat' = FreshFat /\ sig
    BY <1>1, <1>3 DEF FormatFat, CallOK, FormatSteps
  <2>2. \A c \in DataClusters : ~disk[c].dir
    BY <2>1, <1>0 DEF FormatOK, FormatSteps
  <2>3. FormatOK'
    BY <2>1, <2>2, <1>0 DEF FormatOK, FormatSteps
  <2>4. Live(dfat)' = {}
    BY <2>1, <2>2 DEF Live
  <2>5. ReachInv'
    BY <2>1, <2>4, NoFiles DEF ReachInv, RootKept, FormatSteps
  <2>6. CallsOK'
    BY <2>1, CallsRestNext DEF WriteSteps, DeleteSteps
  <2>7. Forward'
    BY <2>1, FreshFatValues DEF Forward
  <2>8. EntriesNamed'
    BY <2>1, <2>2 DEF EntriesNamed
  <2> QED
    BY <1>1, <2>3, <2>5, <2>6, <2>7, <2>8, CrashInvNext
<1>4. CASE FormatRoot
  <2>1. /\ pc = "format_root" /\ pc' = "mount" /\ UNCHANGED <<sig, dfat>> /\ sig
        /\ disk' = [disk EXCEPT ![ROOT] = RootImage]
    BY <1>1, <1>4 DEF FormatRoot, CallOK, FormatSteps
  <2>2. dfat = FreshFat /\ \A c \in DataClusters : ~disk[c].dir
    BY <2>1, <1>0 DEF FormatOK, FormatSteps
  <2>3. FormatOK'
    BY <2>1 DEF FormatOK, FormatSteps
  <2>4. disk'[ROOT] = RootImage /\ \A c \in DataClusters : c # ROOT => disk'[c] = disk[c]
    BY <2>1, <1>1, ConstantTypes DEF TypeOK
  <2>5. \A s \in Slots : ~disk'[ROOT].table[s].used
    BY <2>4 DEF RootImage, BlankTable, BlankEntry
  <2>6. \A c \in DataClusters : disk'[c].dir => c = ROOT
    BY <2>2, <2>4
  <2>7. Live(dfat)' = {}
    BY <2>5, <2>6 DEF Live
  <2>8. RootKept'
    BY <2>1, <2>2, <2>4, FreshFatValues DEF RootKept, RootImage
  <2>9. ReachInv'
    BY <2>1, <2>7, <2>8, NoFiles DEF ReachInv
  <2>10. CallsOK'
    BY <2>1, CallsRestNext DEF WriteSteps, DeleteSteps
  <2>11. EntriesNamed'
    BY <2>5, <2>6 DEF EntriesNamed
  <2>12. Forward'
    BY <2>1, <1>0 DEF Forward
  <2> QED
    BY <1>1, <2>3, <2>9, <2>10, <2>11, <2>12, CrashInvNext
<1>5. CASE Mount
  <2>1. /\ sig /\ pc \in {"mount", "off"} /\ pc' = "idle"
        /\ UNCHANGED <<sig, dfat, disk>> /\ fat' = dfat
    BY <1>1, <1>5 DEF Mount, CallOK, diskVars
  <2>2. FormatOK'
    BY <2>1 DEF FormatOK, FormatSteps
  <2>3. CallsOK'
    BY <2>1, CallsRestNext DEF WriteSteps, DeleteSteps
  <2>4. ASSUME ~torn PROVE ReachInv'
    <3>1. FilesReach'
      BY <2>1, <2>4, <1>0, DiskStays DEF ReachInv
    <3> QED
      BY <2>1, <2>4, <3>1, <1>0 DEF ReachInv, RootKept, NewReach, WalkReach, FormatSteps
  <2> QED
    BY <1>0, <1>1, <2>1, <2>2, <2>3, <2>4, DiskStays, CrashInvNext
<1> QED
  BY <1>2, <1>3, <1>4, <1>5 DEF Boot

(* A call that is refused changes nothing of all this, read() begins like  *)
(* delete().                                                               *)
LEMMA RefusedCrash ==
  ASSUME CrashInv, UNCHANGED <<sig, dfat, disk, fat, pc, torn>>, TypesOK', pc = "idle"
  PROVE  CrashInv'
<1>1. TypesOK /\ FormatOK /\ Forward /\ EntriesNamed /\ CallsOK /\ (~torn => ReachInv)
  BY CrashInvNow
<1>2. FormatOK'
  BY <1>1 DEF FormatOK
<1>3. CallsOK'
  BY <1>1, CallsRestNext DEF CallsOK, CacheCoherent, WriteSteps, DeleteSteps
<1>4. ASSUME ~torn PROVE ReachInv'
  <2>1. FilesReach'
    BY <1>1, <1>4, DiskStays DEF ReachInv
  <2> QED
    BY <2>1, <1>1, <1>4 DEF ReachInv, RootKept, NewReach, WalkReach, FormatSteps
<1> QED
  BY <1>1, <1>2, <1>3, <1>4, DiskStays, CrashInvNext

LEMMA WriteStartCrash ==
  ASSUME CrashInv, UNCHANGED torn,
         NEW n \in Names, NEW e \in Exts, NEW p \in Clusters, NEW l \in Loads,
         WriteStart(n, e, p, l)
  PROVE  CrashInv'
<1>0. TypesOK /\ FormatOK /\ Forward /\ EntriesNamed /\ CallsOK /\ (~torn => ReachInv)
  BY CrashInvNow
<1>1. TypeOK /\ TypesOK'
  <2>1. Next
    BY DEF Next, Calls
  <2> QED
    BY <1>0, <2>1, CrashTypeStep
<1>2. pc = "idle" /\ pc' = "write" /\ UNCHANGED <<sig, dfat, disk, fat>>
  BY DEF WriteStart, diskVars
<1>3. FormatOK'
  BY <1>0, <1>2 DEF FormatOK, FormatSteps
<1>4. CallsOK'
  <2>1. BufferOK' /\ NewSlotOK' /\ NewChainOK' /\ RoomOK'
    BY <1>0, <1>1, WriteStartMemory DEF CallsOK
  <2> QED
    BY <2>1, <1>2 DEF CallsOK, CacheCoherent, AnyCallOK
<1>5. ASSUME ~torn PROVE ReachInv'
  <2>1. FilesReach'
    BY <1>0, <1>2, <1>5, DiskStays DEF ReachInv
  <2> QED
    BY <2>1, <1>0, <1>2, <1>5 DEF ReachInv, RootKept, NewReach, WalkReach, FormatSteps
<1> QED
  BY <1>0, <1>1, <1>2, <1>3, <1>4, <1>5, DiskStays, CrashInvNext

(* read() and delete() begin at the head of the chain of an entry.         *)
LEMMA WalkStartCrash ==
  ASSUME CrashInv, UNCHANGED torn, pc = "idle", pc' \in {"read", "delete"},
         TypeOK, CallOK, TypesOK',
         NEW n \in Names, NEW e \in Exts, NEW p \in Clusters,
         ParentOK(p), Matches(disk[p], n, e) # {},
         UNCHANGED <<sig, dfat, disk, fat>>,
         dirbuf' = disk[p], slot' = Min(Matches(disk[p], n, e)),
         cursor' = Found(n, e, p).first, req'.parent = p
  PROVE  CrashInv'
<1> DEFINE s == Min(Matches(disk[p], n, e))
<1>0. FormatOK /\ Forward /\ EntriesNamed /\ CallsOK /\ (~torn => ReachInv)
  BY CrashInvNow
<1>1. p \in DataClusters /\ disk[p] \in Image /\ disk[p].dir /\ fat[p] = EOF
  BY ParentType
<1>2. s \in Slots /\ disk[p].table[s].used
  BY <1>1, MatchFound
<1>3. fat = dfat
  BY <1>0 DEF CallsOK, CacheCoherent
<1>4. Live(dfat)' = Live(dfat) /\ \A g : Start(g)' = Start(g)
  BY DiskStays
<1>5. Target' = <<p, s>> /\ Target' \in Live(dfat)'
  BY <1>1, <1>2, <1>3 DEF Target, Live
<1>6. cursor' = Start(<<p, s>>)
  BY DEF Found, Start
<1>7. FormatOK'
  BY <1>0 DEF FormatOK, FormatSteps
<1>8. CallsOK'
  <2>1. BufferOK'
    BY <1>1 DEF BufferOK
  <2> QED
    BY <2>1, <1>3 DEF CallsOK, NewSlotOK, NewChainOK, RoomOK, CacheCoherent, AnyCallOK, WriteSteps
<1>9. ASSUME ~torn PROVE ReachInv'
  <2>1. FilesReach'
    BY <1>0, <1>9, DiskStays DEF ReachInv
  <2>2. Start(<<p, s>>) \in DataClusters
    BY <1>0, <1>4, <1>5, <1>9 DEF ReachInv, FilesReach
  <2>3. cursor' \in Reach(dfat', Start(Target)')
    <3>1. Start(Target)' = Start(<<p, s>>)
      BY <1>5 DEF Start
    <3> QED
      BY <3>1, <2>2, <1>6, ReachSelf
  <2>4. WalkReach'
    BY <2>3, <1>3, <1>5 DEF WalkReach
  <2> QED
    BY <2>1, <2>4, <1>0, <1>9 DEF ReachInv, RootKept, NewReach, FormatSteps
<1> QED
  BY <1>0, <1>7, <1>8, <1>9, DiskStays, CrashInvNext

LEMMA CallsCrash ==
  ASSUME CrashInv, Calls, UNCHANGED torn
  PROVE  CrashInv'
<1>1. TypeOK /\ CallOK /\ TypesOK'
  <2>1. TypesOK
    BY DEF CrashInv
  <2> QED
    BY <2>1, CrashTypeStep DEF Next
<1>2. PICK n \in Names, e \in Exts, p \in Clusters :
        \/ \E l \in Loads : WriteRefused(n, e, p, l) \/ WriteStart(n, e, p, l)
        \/ DeleteRefused(n, e, p) \/ DeleteStart(n, e, p)
        \/ \E size \in ReadSizes :
             \/ ReadRefused(n, e, p, size) \/ ReadStart(n, e, p, size)
             \/ ReadDirectory(n, p, size)
  BY DEF Calls
<1>3. ASSUME NEW code, Fail(code), pc = "idle" PROVE CrashInv'
  BY <1>1, <1>3, RefusedCrash DEF Fail, diskVars
<1>4. ASSUME NEW l \in Loads, WriteRefused(n, e, p, l) PROVE CrashInv'
  BY <1>3, <1>4 DEF WriteRefused
<1>5. ASSUME NEW l \in Loads, WriteStart(n, e, p, l) PROVE CrashInv'
  BY <1>5, WriteStartCrash
<1>6. ASSUME DeleteRefused(n, e, p) PROVE CrashInv'
  BY <1>3, <1>6 DEF DeleteRefused
<1>7. ASSUME DeleteStart(n, e, p) PROVE CrashInv'
  <2>1. ParentOK(p) /\ Matches(disk[p], n, e) # {}
    BY <1>7 DEF DeleteStart, DeleteCode
  <2>2. /\ pc = "idle" /\ pc' = "delete" /\ UNCHANGED <<sig, dfat, disk, fat>>
        /\ dirbuf' = disk[p] /\ slot' = Min(Matches(disk[p], n, e))
        /\ cursor' = Found(n, e, p).first /\ req'.parent = p
    BY <1>7 DEF DeleteStart, Request, diskVars
  <2> QED
    BY <1>1, <2>1, <2>2, WalkStartCrash
<1>8. ASSUME NEW size \in ReadSizes, ReadRefused(n, e, p, size) PROVE CrashInv'
  BY <1>3, <1>8 DEF ReadRefused
<1>9. ASSUME NEW size \in ReadSizes, ReadStart(n, e, p, size) PROVE CrashInv'
  <2>1. ParentOK(p) /\ Matches(disk[p], n, e) # {}
    BY <1>9 DEF ReadStart, ReadCode
  <2>2. /\ pc = "idle" /\ pc' = "read" /\ UNCHANGED <<sig, dfat, disk, fat>>
        /\ dirbuf' = disk[p] /\ slot' = Min(Matches(disk[p], n, e))
        /\ cursor' = Found(n, e, p).first /\ req'.parent = p
    BY <1>9 DEF ReadStart, Request, diskVars
  <2> QED
    BY <1>1, <2>1, <2>2, WalkStartCrash
<1>10. ASSUME NEW size \in ReadSizes, ReadDirectory(n, p, size) PROVE CrashInv'
  BY <1>3, <1>10 DEF ReadDirectory
<1> QED
  BY <1>2, <1>4, <1>5, <1>6, <1>7, <1>8, <1>9, <1>10

LEMMA WriteBlockCrash ==
  ASSUME CrashInv, WriteBlock, UNCHANGED torn
  PROVE  CrashInv'
<1>0. TypesOK /\ FormatOK /\ Forward /\ EntriesNamed /\ CallsOK /\ (~torn => ReachInv)
  BY CrashInvNow
<1>1. TypeOK /\ CallOK /\ TypesOK'
  BY <1>0, CrashTypeStep DEF Next, Steps
<1>2. pc = "write" /\ pc' \in {"write", "write_fat"} /\ UNCHANGED <<sig, dfat>> /\ sig
  BY <1>1 DEF WriteBlock, CallOK, WriteSteps
<1>3. PICK f : f = Min(EmptyFrom(cursor))
  OBVIOUS
<1>4. /\ f \in DataClusters /\ dfat[f] = EMPTY
      /\ disk'[f] = Block
      /\ \A c \in DataClusters : c # f => disk'[c] = disk[c]
      /\ Live(dfat)' = Live(dfat)
      /\ \A e \in Live(dfat) : Start(e)' = Start(e)
  BY <1>0, <1>1, <1>3, WriteBlockImage DEF CallsOK
<1>5. FormatOK'
  BY <1>2 DEF FormatOK, FormatSteps
<1>6. Forward'
  BY <1>0, <1>2 DEF Forward
<1>7. EntriesNamed'
  <2>1. NoEntries(Block)
    BY <1>1, <1>2, BlockType
  <2> QED
    BY <2>1, <1>0, <1>4 DEF EntriesNamed, NoEntries
<1>8. CallsOK'
  <2>1. BufferOK' /\ NewSlotOK' /\ NewChainOK' /\ RoomOK'
    BY <1>0, <1>1, WriteBlockMemory DEF CallsOK
  <2> QED
    BY <2>1, <1>2 DEF CallsOK, CacheCoherent, AnyCallOK
<1>9. ASSUME ~torn PROVE ReachInv'
  <2>1. FilesReach'
    BY <1>0, <1>2, <1>4, <1>9, FilesStay DEF ReachInv
  <2>2. RootKept'
    BY <1>0, <1>2, <1>4, <1>9, ConstantTypes DEF ReachInv, RootKept, FormatSteps, EMPTY, EOF
  <2> QED
    BY <2>1, <2>2, <1>2 DEF ReachInv, NewReach, WalkReach
<1> QED
  BY <1>1, <1>2, <1>5, <1>6, <1>7, <1>8, <1>9, CrashInvNext

(* The FAT that write() stores, or a mixture of it and the old one: links  *)
(* run forward, files and directories are what they were.                  *)
LEMMA EndedMixture ==
  ASSUME TypeOK, CallOK, NewChainOK, Forward, pc = "write_fat",
         NEW g, \A c \in DataClusters : g[c] \in {dfat[c], Ended[c]}
  PROVE  /\ \A c \in DataClusters : dfat[c] # EMPTY => g[c] = dfat[c]
         /\ \A c \in DataClusters : g[c] \notin {EMPTY, EOF} => g[c] \in DataClusters /\ g[c] > c
         /\ Live(g) = Live(dfat)
<1>1. i > 0 /\ cursor \in DataClusters /\ dfat[cursor] = EMPTY /\ NoEntries(disk[cursor])
  BY DEF NewChainOK, TypeOK
<1>2. \A c \in DataClusters : c \in Clusters
  BY ConstantTypes
<1>3. Ended[cursor] = EOF /\ \A c \in DataClusters : c # cursor => Ended[c] = fat[c]
  BY <1>1, <1>2 DEF Ended, TypeOK
<1>4. \A c \in DataClusters : dfat[c] # EMPTY => fat[c] = dfat[c]
  BY <1>2 DEF NewChainOK
<1>5. \A c \in DataClusters : Linking(c) => fat[c] \in DataClusters /\ fat[c] > c
  BY <1>1 DEF NewChainOK
<1>6. \A c \in DataClusters :
        \/ dfat[c] # EMPTY /\ g[c] = dfat[c]
        \/ c = cursor /\ g[c] \in {EMPTY, EOF}
        \/ g[c] = EMPTY
        \/ Linking(c) /\ g[c] = fat[c]
  BY <1>1, <1>3, <1>4 DEF Linking
<1>7. \A c \in DataClusters : dfat[c] # EMPTY => g[c] = dfat[c]
  BY <1>1, <1>3, <1>4
<1>8. ASSUME NEW c \in DataClusters, g[c] \notin {EMPTY, EOF}
      PROVE  g[c] \in DataClusters /\ g[c] > c
  BY <1>5, <1>6, <1>8 DEF Forward
<1>9. \A c \in DataClusters : c # cursor => (g[c] = EOF <=> dfat[c] = EOF)
  <2>1. EOF \notin DataClusters /\ EMPTY # EOF
    BY <1>2, ConstantTypes DEF EMPTY, EOF
  <2> QED
    BY <2>1, <1>5, <1>6, <1>7
<1>10. dfat[cursor] # EOF
  BY <1>1 DEF EMPTY, EOF
<1>11. disk[cursor].dir => \A s \in Slots : ~disk[cursor].table[s].used
  BY <1>1 DEF NoEntries
<1>12. Live(g) = Live(dfat)
  BY <1>9, <1>10, <1>11 DEF Live
<1> QED
  BY <1>7, <1>8, <1>12

LEMMA WriteFatCrash ==
  ASSUME CrashInv, WriteFat, UNCHANGED torn
  PROVE  CrashInv'
<1>0. TypesOK /\ FormatOK /\ Forward /\ EntriesNamed /\ CallsOK /\ (~torn => ReachInv)
  BY CrashInvNow
<1>1. TypeOK /\ CallOK /\ TypesOK'
  BY <1>0, CrashTypeStep DEF Next, Steps
<1>2. /\ pc = "write_fat" /\ pc' = "write_dir" /\ UNCHANGED <<sig, disk>> /\ sig
      /\ dfat' = Ended /\ fat' = Ended
  BY <1>1 DEF WriteFat, CallOK, WriteSteps
<1>3. NewChainOK /\ BufferOK /\ NewSlotOK /\ i > 0
  BY <1>0, <1>1, <1>2 DEF CallsOK, NewChainOK, TypeOK
<1>4. /\ \A c \in DataClusters : dfat[c] # EMPTY => dfat'[c] = dfat[c]
      /\ \A c \in DataClusters : dfat'[c] \notin {EMPTY, EOF} => dfat'[c] \in DataClusters /\ dfat'[c] > c
  BY <1>0, <1>1, <1>2, <1>3, EndedMixture
<1>5. Live(dfat)' = Live(dfat) /\ NewHead' = NewHead /\ \A e : Start(e)' = Start(e)
  BY <1>1, <1>2, <1>3, WriteFatImage DEF Start
<1>6. FormatOK'
  BY <1>2 DEF FormatOK, FormatSteps
<1>7. Forward'
  BY <1>4 DEF Forward
<1>8. EntriesNamed'
  BY <1>0, <1>2 DEF EntriesNamed
<1>9. NewHead \in DataClusters /\ dfat[NewHead] = EMPTY /\ (NewHead = cursor \/ fat[NewHead] # EMPTY)
  BY <1>2, <1>3 DEF NewChainOK
<1>10. CallsOK'
  <2>1. BufferOK' /\ NewSlotOK'
    BY <1>1, <1>2, <1>3, WriteFatMemory
  <2> QED
    BY <2>1, <1>2, <1>5, <1>9 DEF CallsOK, NewChainOK, RoomOK, CacheCoherent, AnyCallOK
\* The new chain consists of clusters that were free.
<1>11. \A c \in Reach(dfat', NewHead) : c \in DataClusters /\ dfat[c] = EMPTY /\ dfat'[c] # EMPTY
  <2> DEFINE T == {c \in DataClusters : Linking(c) \/ c = cursor}
  <2>1. cursor \in DataClusters /\ dfat[cursor] = EMPTY
    BY <1>2, <1>3 DEF NewChainOK
  <2>2. /\ dfat'[cursor] = EOF
        /\ \A c \in DataClusters : c # cursor => dfat'[c] = fat[c]
    BY <1>1, <1>3, WriteFatImage
  <2>3. \A c \in DataClusters : Linking(c) =>
          /\ fat[c] \in DataClusters /\ fat[c] > c /\ dfat[fat[c]] = EMPTY
          /\ fat[fat[c]] # EMPTY \/ fat[c] = cursor
    BY <1>2, <1>3 DEF NewChainOK
  <2>4. \A c \in T : dfat'[c] \in DataClusters => dfat'[c] \in T
    <3>1. EOF \notin DataClusters
      BY ConstantTypes
    <3> QED
      BY <3>1, <2>1, <2>2, <2>3 DEF Linking
  <2>5. NewHead \in T
    BY <1>9 DEF Linking
  <2>6. \A c \in T : dfat[c] = EMPTY /\ dfat'[c] # EMPTY
    BY <2>1, <2>2 DEF Linking, EMPTY, EOF
  <2>7. Closed(dfat', T)
    BY <2>4 DEF Closed
  <2>8. T \in SUBSET DataClusters
    OBVIOUS
  <2> HIDE DEF T
  <2>9. Reach(dfat', NewHead) \subseteq T
    BY <2>5, <2>7, <2>8, <1>9, ReachLeast
  <2> QED
    BY <2>6, <2>8, <2>9
<1>12. ASSUME ~torn PROVE ReachInv'
  <2>1. RootKept /\ FilesReach
    BY <1>0, <1>12 DEF ReachInv
  <2>2. \A e \in Live(dfat) :
          /\ Start(e) \in DataClusters
          /\ \A c \in Reach(dfat, Start(e)) : c \in DataClusters /\ dfat[c] # EMPTY /\ dfat'[c] = dfat[c]
    BY <2>1, <1>2, <1>4, ReachSelf DEF FilesReach
  <2>3. FilesReach'
    BY <2>1, <2>2, <1>2, <1>5, FilesStay
  <2>4. \A e \in Live(dfat) : Reach(dfat', Start(e)) = Reach(dfat, Start(e))
    BY <2>2, ReachSame
  <2>5. dfat[ROOT] = EOF /\ disk[ROOT].dir
    BY <2>1, <1>2 DEF RootKept, FormatSteps
  <2>6. RootKept'
    BY <2>5, <1>2, <1>4, ConstantTypes DEF RootKept, EMPTY, EOF
  <2>7. NewHead # ROOT
    BY <2>5, <1>9 DEF EMPTY, EOF
  <2>8. NewReach'
    BY <2>2, <2>4, <2>7, <1>5, <1>11 DEF NewReach
  <2> QED
    BY <2>3, <2>6, <2>8, <1>2 DEF ReachInv, WalkReach
<1> QED
  BY <1>1, <1>2, <1>6, <1>7, <1>8, <1>10, <1>12, CrashInvNext

LEMMA WriteDirCrash ==
  ASSUME CrashInv, WriteDir, UNCHANGED torn
  PROVE  CrashInv'
<1>a. PICK p, k : p = req.parent /\ k = slot
  OBVIOUS
<1>0. TypesOK /\ FormatOK /\ Forward /\ EntriesNamed /\ CallsOK /\ (~torn => ReachInv)
  BY CrashInvNow
<1>1. TypeOK /\ CallOK /\ TypesOK'
  BY <1>0, CrashTypeStep DEF Next, Steps
<1>2. /\ pc = "write_dir" /\ pc' = "idle" /\ UNCHANGED <<sig, dfat, fat>> /\ sig
      /\ disk' = [disk EXCEPT ![p] = dirbuf]
      /\ k \in Slots /\ p \in DataClusters
  BY <1>a, <1>1 DEF WriteDir, Return, CallOK, WriteSteps
<1>3. /\ disk'[p] = dirbuf
      /\ \A c \in DataClusters : c # p => disk'[c] = disk[c]
  BY <1>1, <1>2 DEF TypeOK
<1>4. /\ dirbuf.dir /\ disk[p].dir
      /\ \A s \in Slots : s # k => dirbuf.table[s] = disk[p].table[s]
      /\ ~disk[p].table[k].used
      /\ fat = dfat /\ NewHead \in DataClusters /\ NewHead = dirbuf.table[k].first
  BY <1>a, <1>0, <1>2 DEF CallsOK, BufferOK, NewSlotOK, AnyCallOK, WriteSteps, NewHead
<1>5. FormatOK'
  BY <1>2 DEF FormatOK, FormatSteps
<1>6. Forward'
  BY <1>0, <1>2 DEF Forward
<1>7. EntriesNamed'
  BY <1>0, <1>2, <1>3, <1>4 DEF EntriesNamed
<1>8. CallsOK'
  BY <1>2, <1>4, CallsRestNext DEF WriteSteps, DeleteSteps
<1>9. ASSUME ~torn PROVE ReachInv'
  <2> DEFINE new == <<p, k>>
  <2>1. RootKept /\ FilesReach /\ NewReach
    BY <1>0, <1>9 DEF ReachInv
  <2>2. Live(dfat)' \subseteq Live(dfat) \cup {new}
    BY <1>2, <1>3, <1>4 DEF Live
  <2>3. \A e \in Live(dfat) : e # new /\ Start(e)' = Start(e)
    BY <1>2, <1>3, <1>4 DEF Live, Start
  <2>4. Start(new)' = NewHead
    BY <1>3, <1>4 DEF Start
  <2> HIDE DEF new
  <2>5. /\ NewHead # ROOT
        /\ \A c \in Reach(dfat, NewHead) :
             dfat[c] # EMPTY /\ \A e \in Live(dfat) : c \notin Reach(dfat, Start(e))
    BY <2>1, <1>2 DEF NewReach
  <2>6. \A e \in Live(dfat) :
          /\ Start(e) \in DataClusters \ {ROOT}
          /\ \A c \in Reach(dfat, Start(e)) : dfat[c] # EMPTY
          /\ \A g \in Live(dfat) : e # g => Reach(dfat, Start(e)) \cap Reach(dfat, Start(g)) = {}
    BY <2>1, <1>2 DEF FilesReach
  <2>7. \A e \in Live(dfat)' :
          /\ Start(e)' \in DataClusters \ {ROOT}
          /\ \A c \in Reach(dfat, Start(e)') : dfat[c] # EMPTY
    BY <2>2, <2>3, <2>4, <2>5, <2>6, <1>4
  <2>8. ASSUME NEW e \in Live(dfat)', NEW g \in Live(dfat)', e # g
        PROVE  Reach(dfat, Start(e)') \cap Reach(dfat, Start(g)') = {}
    <3>1. CASE e = new
      BY <3>1, <2>2, <2>3, <2>4, <2>5, <2>8
    <3>2. CASE g = new
      BY <3>2, <2>2, <2>3, <2>4, <2>5, <2>8
    <3>3. CASE e # new /\ g # new
      BY <3>3, <2>2, <2>3, <2>6, <2>8
    <3> QED
      BY <3>1, <3>2, <3>3
  <2>9. FilesReach'
    BY <2>7, <2>8, <1>2 DEF FilesReach
  <2>10. RootKept'
    BY <2>1, <1>2, <1>3, <1>4, ConstantTypes DEF RootKept, FormatSteps
  <2> QED
    BY <2>9, <2>10, <1>2 DEF ReachInv, NewReach, WalkReach
<1> QED
  BY <1>1, <1>2, <1>5, <1>6, <1>7, <1>8, <1>9, CrashInvNext

-----------------------------------------------------------------------------
(* Where the walk of read() or delete() stands on an intact file: on an    *)
(* allocated cluster, whose link leads on along the chain.                 *)
LEMMA WalkStep ==
  ASSUME FilesReach, WalkReach, pc \in {"read", "delete"}
  PROVE  /\ Target \in Live(dfat) /\ Start(Target) \in DataClusters \ {ROOT}
         /\ cursor \in DataClusters \ {ROOT}
         /\ dfat[cursor] # EMPTY
         /\ dfat[cursor] \in DataClusters /\ dfat[cursor] > cursor =>
              dfat[cursor] \in Reach(dfat, Start(Target))
<1>1. /\ Target \in Live(dfat) /\ Start(Target) \in DataClusters \ {ROOT}
      /\ cursor \in Reach(dfat, Start(Target)) /\ dfat[cursor] # EMPTY
  BY DEF WalkReach, FilesReach
<1>2. cursor >= Start(Target) /\ cursor \in DataClusters
  BY <1>1, ReachForward, ReachSelf
<1>3. cursor # ROOT
  BY <1>1, <1>2, SizeAssumption DEF DataClusters, ROOT
<1>4. Closed(dfat, Reach(dfat, Start(Target)))
  BY <1>1, ReachClosed
<1> QED
  BY <1>1, <1>2, <1>3, <1>4 DEF Closed

LEMMA ReadBlockCrash ==
  ASSUME CrashInv, ReadBlock, UNCHANGED torn
  PROVE  CrashInv'
<1>0. TypesOK /\ FormatOK /\ Forward /\ EntriesNamed /\ CallsOK /\ (~torn => ReachInv)
  BY CrashInvNow
<1>1. TypeOK /\ CallOK /\ TypesOK'
  BY <1>0, CrashTypeStep DEF Next, Steps
<1>2. /\ pc = "read" /\ pc' \in {"read", "idle"} /\ UNCHANGED <<sig, dfat, disk, fat>> /\ sig
      /\ cursor \in DataClusters
  BY <1>1 DEF ReadBlock, Return, CallOK, diskVars
<1>3. fat = dfat
  BY <1>0, <1>2 DEF CallsOK, CacheCoherent
<1>4. FormatOK'
  BY <1>2 DEF FormatOK, FormatSteps
<1>5. CallsOK'
  BY <1>2, <1>3, CallsRestNext DEF WriteSteps, DeleteSteps
<1>6. ASSUME ~torn PROVE ReachInv'
  <2>1. FilesReach /\ WalkReach /\ RootKept
    BY <1>0, <1>6 DEF ReachInv
  <2>2. FilesReach'
    BY <2>1, <1>2, DiskStays
  <2>3. CASE pc' = "read"
    <3>1. cursor' = dfat[cursor] /\ dfat[cursor] # EOF /\ Target' = Target
      BY <2>3, <1>2, <1>3 DEF ReadBlock, NextOf, Return, Target
    <3>2. dfat[cursor] # EMPTY /\ Target \in Live(dfat)
      BY <2>1, <1>2, WalkStep
    <3>3. dfat[cursor] \in DataClusters /\ dfat[cursor] > cursor
      BY <3>1, <3>2, <1>0, <1>2 DEF Forward
    <3>4. cursor' \in Reach(dfat, Start(Target))
      BY <3>1, <3>3, <2>1, <1>2, WalkStep
    <3>5. Live(dfat)' = Live(dfat) /\ Start(Target)' = Start(Target)
      BY <1>2, <3>1 DEF Live, Start
    <3>6. WalkReach'
      BY <2>3, <3>1, <3>2, <3>4, <3>5, <1>2 DEF WalkReach
    <3> QED
      BY <2>1, <2>2, <2>3, <3>6, <1>2 DEF ReachInv, RootKept, NewReach, FormatSteps
  <2>4. CASE pc' = "idle"
    BY <2>1, <2>2, <2>4, <1>2 DEF ReachInv, RootKept, NewReach, WalkReach, FormatSteps
  <2> QED
    BY <2>3, <2>4, <1>2
<1> QED
  BY <1>0, <1>1, <1>2, <1>4, <1>5, <1>6, DiskStays, CrashInvNext

LEMMA FreeClusterCrash ==
  ASSUME CrashInv, FreeCluster, UNCHANGED torn
  PROVE  CrashInv'
<1>a. PICK p, k, x : p = req.parent /\ k = slot /\ x = cursor
  OBVIOUS
<1>0. TypesOK /\ FormatOK /\ Forward /\ EntriesNamed /\ CallsOK /\ (~torn => ReachInv)
  BY CrashInvNow
<1>1. TypeOK /\ CallOK /\ TypesOK'
  BY <1>0, CrashTypeStep DEF Next, Steps
<1>2. /\ pc = "delete" /\ pc' \in {"delete", "delete_fat"}
      /\ UNCHANGED <<sig, dfat, disk, req, slot>> /\ sig
      /\ fat' = [fat EXCEPT ![x] = EMPTY]
      /\ x \in DataClusters /\ k \in Slots /\ p \in DataClusters
      /\ dirbuf \in Image /\ dirbuf.table[k] \in Entry
      /\ fat \in [Clusters -> FatValues]
  BY <1>a, <1>1 DEF FreeCluster, Freed, diskVars, CallOK, TypeOK, DeleteSteps, Image
<1>3. /\ fat[x] # EOF => pc' = "delete" /\ cursor' = fat[x] /\ dirbuf' = dirbuf
      /\ fat[x] = EOF =>
           /\ pc' = "delete_fat"
           /\ dirbuf' = PutEntry(dirbuf, k, [dirbuf.table[k] EXCEPT !.used = FALSE])
  BY <1>a DEF FreeCluster, NextOf
<1>4. \A c \in DataClusters : c \in Clusters
  BY ConstantTypes
<1>5. /\ fat'[x] = EMPTY
      /\ \A c \in Clusters : c # x => fat'[c] = fat[c]
  BY <1>2, <1>4
<1>6. FormatOK'
  BY <1>2 DEF FormatOK, FormatSteps
<1>7. pc' = "delete_fat" =>
        /\ dirbuf'.dir = dirbuf.dir
        /\ \A s \in Slots : s # k => dirbuf'.table[s] = dirbuf.table[s]
        /\ ~dirbuf'.table[k].used
  <2> SUFFICES ASSUME pc' = "delete_fat"
               PROVE  /\ dirbuf'.dir = dirbuf.dir
                      /\ \A s \in Slots : s # k => dirbuf'.table[s] = dirbuf.table[s]
                      /\ ~dirbuf'.table[k].used
    OBVIOUS
  <2>1. dirbuf' = PutEntry(dirbuf, k, [dirbuf.table[k] EXCEPT !.used = FALSE])
    BY <1>3
  <2>2. /\ dirbuf'.dir = dirbuf.dir
        /\ \A s \in Slots : s # k => dirbuf'.table[s] = dirbuf.table[s]
        /\ dirbuf'.table[k] = [dirbuf.table[k] EXCEPT !.used = FALSE]
    BY <2>1, <1>2, PutEntryValue
  <2> QED
    BY <2>2, <1>2 DEF Entry
<1>8. CallsOK'
  <2>1. BufferOK /\ \A c \in Clusters : fat[c] \in {dfat[c], EMPTY}
    BY <1>0, <1>2 DEF CallsOK, AnyCallOK
  <2>2. BufferOK'
    BY <2>1, <1>a, <1>2, <1>3, <1>7 DEF BufferOK, DeleteSteps
  <2>3. \A c \in Clusters : fat'[c] \in {dfat'[c], EMPTY}
    BY <2>1, <1>2, <1>5
  <2> QED
    BY <2>2, <2>3, <1>a, <1>2, <1>7
    DEF CallsOK, NewSlotOK, NewChainOK, RoomOK, CacheCoherent, AnyCallOK, WriteSteps
<1>9. ASSUME ~torn PROVE ReachInv'
  <2>1. FilesReach /\ WalkReach /\ RootKept
    BY <1>0, <1>9 DEF ReachInv
  <2>2. FilesReach'
    BY <2>1, <1>2, DiskStays
  <2>3. Target' = Target /\ Live(dfat)' = Live(dfat) /\ Start(Target)' = Start(Target)
    BY <1>2 DEF Target, Live, Start
  <2>4. /\ Target \in Live(dfat) /\ x \in Reach(dfat, Start(Target)) /\ dfat[x] # EMPTY
        /\ \A c \in DataClusters : c >= x => fat[c] = dfat[c]
        /\ \A c \in DataClusters : fat[c] # dfat[c] => c \in Reach(dfat, Start(Target))
    BY <2>1, <1>a, <1>2, WalkStep DEF WalkReach
  <2>5. fat[x] = dfat[x]
    BY <2>4, <1>2, <1>4, ConstantTypes
  <2>6. \A c \in DataClusters : fat'[c] # dfat[c] => c \in Reach(dfat, Start(Target))
    BY <2>4, <1>4, <1>5
  <2>7. ASSUME pc' = "delete"
        PROVE  /\ cursor' \in Reach(dfat, Start(Target))
               /\ \A c \in DataClusters : c >= cursor' => fat'[c] = dfat[c]
    <3>1. cursor' = dfat[x] /\ dfat[x] # EOF
      BY <2>5, <2>7, <1>3
    <3>2. dfat[x] \in DataClusters /\ dfat[x] > x
      BY <3>1, <2>4, <1>0, <1>2 DEF Forward
    <3>3. cursor' \in Reach(dfat, Start(Target))
      BY <3>1, <3>2, <2>1, <1>a, <1>2, WalkStep
    <3>4. ASSUME NEW c \in DataClusters, c >= cursor'
          PROVE  fat'[c] = dfat[c]
      <4>1. c > x /\ c >= x /\ c # x
        BY <3>1, <3>2, <3>4, <1>2, SizeAssumption DEF DataClusters, ROOT
      <4> QED
        BY <4>1, <2>4, <1>4, <1>5
    <3> QED
      BY <3>3, <3>4
  <2>8. WalkReach'
    BY <2>3, <2>4, <2>6, <2>7, <1>2 DEF WalkReach
  <2> QED
    BY <2>1, <2>2, <2>8, <1>2 DEF ReachInv, RootKept, NewReach, FormatSteps
<1> QED
  BY <1>0, <1>1, <1>2, <1>6, <1>8, <1>9, DiskStays, CrashInvNext

(* The FAT that delete() stores, or a mixture of it and the old one.       *)
LEMMA FreedMixture ==
  ASSUME Forward, pc = "delete_fat", AnyCallOK,
         NEW g, \A c \in DataClusters : g[c] \in {dfat[c], fat[c]}
  PROVE  /\ \A c \in DataClusters : g[c] \in {dfat[c], EMPTY}
         /\ \A c \in DataClusters : g[c] \notin {EMPTY, EOF} => g[c] \in DataClusters /\ g[c] > c
         /\ Live(g) \subseteq Live(dfat)
<1>1. \A c \in DataClusters : g[c] \in {dfat[c], EMPTY}
  BY ConstantTypes DEF AnyCallOK
<1>2. Live(g) \subseteq Live(dfat)
  BY <1>1 DEF Live, EMPTY, EOF
<1> QED
  BY <1>1, <1>2 DEF Forward

LEMMA DeleteFatCrash ==
  ASSUME CrashInv, DeleteFat, UNCHANGED torn
  PROVE  CrashInv'
<1>0. TypesOK /\ FormatOK /\ Forward /\ EntriesNamed /\ CallsOK /\ (~torn => ReachInv)
  BY CrashInvNow
<1>1. TypeOK /\ CallOK /\ TypesOK'
  BY <1>0, CrashTypeStep DEF Next, Steps
<1>2. /\ pc = "delete_fat" /\ pc' = "delete_dir" /\ dfat' = fat
      /\ UNCHANGED <<sig, disk, fat, dirbuf, req, slot>> /\ sig
  BY <1>1 DEF DeleteFat, CallOK, DeleteSteps, callVars
<1>3. /\ \A c \in DataClusters : dfat'[c] \in {dfat[c], EMPTY}
      /\ \A c \in DataClusters : dfat'[c] \notin {EMPTY, EOF} => dfat'[c] \in DataClusters /\ dfat'[c] > c
      /\ Live(fat) \subseteq Live(dfat)
  BY <1>0, <1>2, FreedMixture DEF CallsOK
<1>4. Live(dfat)' \subseteq Live(dfat) /\ \A e : Start(e)' = Start(e)
  BY <1>2, <1>3 DEF Live, Start
<1>5. FormatOK'
  BY <1>2 DEF FormatOK, FormatSteps
<1>6. Forward'
  BY <1>3 DEF Forward
<1>7. EntriesNamed'
  BY <1>0, <1>2 DEF EntriesNamed
<1>8. CallsOK'
  BY <1>0, <1>2
  DEF CallsOK, BufferOK, NewSlotOK, NewChainOK, RoomOK, CacheCoherent, AnyCallOK, WriteSteps,
      DeleteSteps
<1>9. ASSUME ~torn PROVE ReachInv'
  <2>1. FilesReach /\ WalkReach /\ RootKept
    BY <1>0, <1>9 DEF ReachInv
  <2>2. /\ Target \in Live(dfat)
        /\ \A c \in DataClusters : fat[c] # dfat[c] => c \in Reach(dfat, Start(Target))
    BY <2>1, <1>2 DEF WalkReach
  <2>3. Doomed' = {Target}
    BY <1>2 DEF Doomed, Target
  <2>4. \A e \in Live(dfat) : Reach(dfat, Start(e)) \subseteq DataClusters
    BY <2>1, ReachSelf DEF FilesReach
  <2>5. ASSUME NEW e \in Live(dfat)', e # Target
        PROVE  \A c \in Reach(dfat, Start(e)) : dfat'[c] = dfat[c]
    <3>1. e \in Live(dfat) /\ Reach(dfat, Start(e)) \cap Reach(dfat, Start(Target)) = {}
      BY <2>1, <2>2, <2>5, <1>4 DEF FilesReach
    <3> QED
      BY <3>1, <2>2, <2>4, <1>2
  <2>6. EMPTY \notin DataClusters
    BY DEF EMPTY, DataClusters, ROOT
  <2>7. ASSUME NEW e \in Live(dfat)'
        PROVE  \A c \in Reach(dfat, Start(e)) : dfat'[c] = dfat[c] \/ dfat'[c] \notin DataClusters
    BY <2>4, <2>6, <1>3, <1>4
  <2>8. FilesReach'
    <3>1. ASSUME NEW e \in Live(dfat)'
          PROVE  /\ Start(e)' = Start(e)
                 /\ \A c \in Reach(dfat, Start(e)) : dfat'[c] = dfat[c] \/ dfat'[c] \notin DataClusters
                 /\ \/ \A c \in Reach(dfat, Start(e)) : dfat[c] # EMPTY => dfat'[c] # EMPTY
                    \/ pc' = "delete_dir" /\ e \in Doomed'
                 /\ pc = "delete_dir" => e \notin Doomed
      <4>1. CASE e # Target
        BY <4>1, <2>5, <2>7, <1>2, <1>4
      <4>2. CASE e = Target
        BY <4>2, <2>3, <2>7, <1>2, <1>4
      <4> QED
        BY <4>1, <4>2
    <3> QED
      BY <3>1, <2>1, <1>4, FilesStay
  <2>9. RootKept'
    <3>1. Start(Target) \in DataClusters \ {ROOT}
      BY <2>1, <2>2 DEF FilesReach
    <3>2. \A c \in Reach(dfat, Start(Target)) : c >= Start(Target)
      BY <3>1, ReachForward
    <3>3. ROOT \notin Reach(dfat, Start(Target))
      BY <3>1, <3>2, SizeAssumption DEF DataClusters, ROOT
    <3>4. dfat'[ROOT] = dfat[ROOT]
      BY <3>3, <2>2, <1>2, ConstantTypes
    <3> QED
      BY <3>4, <2>1, <1>2 DEF RootKept, FormatSteps
  <2> QED
    BY <2>8, <2>9, <1>2 DEF ReachInv, NewReach, WalkReach
<1> QED
  BY <1>1, <1>2, <1>5, <1>6, <1>7, <1>8, <1>9, CrashInvNext

LEMMA DeleteDirCrash ==
  ASSUME CrashInv, DeleteDir, UNCHANGED torn
  PROVE  CrashInv'
<1>a. PICK p, k : p = req.parent /\ k = slot
  OBVIOUS
<1>0. TypesOK /\ FormatOK /\ Forward /\ EntriesNamed /\ CallsOK /\ (~torn => ReachInv)
  BY CrashInvNow
<1>1. TypeOK /\ CallOK /\ TypesOK'
  BY <1>0, CrashTypeStep DEF Next, Steps
<1>2. /\ pc = "delete_dir" /\ pc' = "idle" /\ UNCHANGED <<sig, dfat, fat>> /\ sig
      /\ disk' = [disk EXCEPT ![p] = dirbuf]
      /\ k \in Slots /\ p \in DataClusters
  BY <1>a, <1>1 DEF DeleteDir, Return, CallOK, DeleteSteps
<1>3. /\ disk'[p] = dirbuf
      /\ \A c \in DataClusters : c # p => disk'[c] = disk[c]
  BY <1>1, <1>2 DEF TypeOK
<1>4. /\ dirbuf.dir /\ disk[p].dir
      /\ \A s \in Slots : s # k => dirbuf.table[s] = disk[p].table[s]
      /\ ~dirbuf.table[k].used /\ fat = dfat
  BY <1>a, <1>0, <1>2 DEF CallsOK, BufferOK, AnyCallOK, DeleteSteps
<1>5. FormatOK'
  BY <1>2 DEF FormatOK, FormatSteps
<1>6. Forward'
  BY <1>0, <1>2 DEF Forward
<1>7. EntriesNamed'
  BY <1>0, <1>2, <1>3, <1>4 DEF EntriesNamed
<1>8. CallsOK'
  BY <1>2, <1>4, CallsRestNext DEF WriteSteps, DeleteSteps
<1>9. ASSUME ~torn PROVE ReachInv'
  <2>1. FilesReach /\ RootKept
    BY <1>0, <1>9 DEF ReachInv
  <2>2. Doomed = {<<p, k>>}
    BY <1>a, <1>2 DEF Doomed
  <2>3. \A e \in Live(dfat)' : e \in Live(dfat) /\ e # <<p, k>> /\ Start(e)' = Start(e)
    BY <1>2, <1>3, <1>4 DEF Live, Start
  <2>4. FilesReach'
    BY <2>1, <2>2, <2>3, <1>2, FilesStay
  <2>5. RootKept'
    BY <2>1, <1>2, <1>3, <1>4, ConstantTypes DEF RootKept, FormatSteps
  <2> QED
    BY <2>4, <2>5, <1>2 DEF ReachInv, NewReach, WalkReach
<1> QED
  BY <1>1, <1>2, <1>5, <1>6, <1>7, <1>8, <1>9, CrashInvNext

-----------------------------------------------------------------------------
(* Loss of power                                                           *)

LEMMA OffType ==
  ASSUME TypesOK, Off, sig' \in BOOLEAN, dfat' \in [Clusters -> FatValues],
         disk' \in [DataClusters -> Image]
  PROVE  TypesOK'
<1>1. pc' = "off" /\ ret' = 0 /\ EndCall
  BY DEF Off
<1>2. fat' \in [Clusters -> FatValues]
  BY ConstantTypes DEF Off, FatValues
<1>3. dirbuf' \in Image /\ req' \in Requests /\ slot' = 0 /\ cursor' = 0 /\ i' = 0
  BY <1>1, EndCallType
<1>4. 0 \in FatValues /\ 0 \in 0 .. DIRECTORY_ENTRIES - 1
  BY ConstantTypes, SizeAssumption DEF FatValues
<1>5. TypeOK'
  BY <1>1, <1>2, <1>3, <1>4 DEF TypeOK, Requests
<1>6. CallOK'
  BY <1>1 DEF CallOK, WriteSteps, DeleteSteps, FormatSteps
<1> QED
  BY <1>1, <1>5, <1>6 DEF TypesOK, TypeOK

(* Power is lost only on a formatted disk, or while it is formatted.       *)
LEMMA SignedUnlessOff ==
  ASSUME TypesOK, FormatOK, pc # "off"
  PROVE  sig = TRUE
BY DEF TypesOK, FormatOK

LEMMA OffRest ==
  ASSUME Off, sig' = TRUE
  PROVE  FormatOK' /\ CallsOK' /\ NewReach' /\ WalkReach' /\ pc' # "wild"
<1>1. pc' = "off"
  BY DEF Off
<1>2. CallsOK'
  BY <1>1, CallsRestNext DEF WriteSteps, DeleteSteps
<1> QED
  BY <1>1, <1>2 DEF FormatOK, FormatSteps, NewReach, WalkReach

LEMMA PowerLossCrash ==
  ASSUME CrashInv, PowerLoss
  PROVE  CrashInv'
<1>0. TypesOK /\ FormatOK /\ Forward /\ EntriesNamed /\ (~torn => ReachInv)
  BY CrashInvNow
<1>1. /\ pc # "off" /\ Off /\ UNCHANGED <<sig, dfat, disk>> /\ pc' = "off"
      /\ torn' = (torn \/ pc \in {"format_fat", "format_root", "delete_dir"})
  BY DEF PowerLoss, Off, diskVars
<1>2. sig' = TRUE
  BY <1>0, <1>1, SignedUnlessOff
<1>3. TypesOK'
  BY <1>0, <1>1, OffType DEF TypesOK
<1>4. FormatOK' /\ CallsOK'
  BY <1>1, <1>2, OffRest
<1>5. ASSUME ~torn' PROVE ReachInv'
  <2>1. FilesReach /\ RootKept /\ pc \notin {"format_fat", "format_root", "delete_dir"}
    BY <1>0, <1>1, <1>5 DEF ReachInv
  <2>2. FilesReach'
    BY <2>1, <1>1, DiskStays
  <2>3. RootKept'
    BY <2>1, <1>1 DEF RootKept, FormatSteps
  <2> QED
    BY <2>2, <2>3, <1>1, <1>2, OffRest DEF ReachInv
<1> QED
  BY <1>0, <1>1, <1>3, <1>4, <1>5, DiskStays, CrashInvNext

LEMMA PowerLossInFatCrash ==
  ASSUME CrashInv, PowerLossInFat
  PROVE  CrashInv'
<1>0. TypesOK /\ FormatOK /\ Forward /\ EntriesNamed /\ CallsOK /\ (~torn => ReachInv)
  BY CrashInvNow
<1>1. /\ pc \in {"write_fat", "delete_fat", "format_fat"}
      /\ Off /\ UNCHANGED <<sig, disk>> /\ pc' = "off"
      /\ torn' = (torn \/ pc \in {"delete_fat", "format_fat"})
  BY DEF PowerLossInFat, Off
<1>2. PICK k \in DataClusters :
        dfat' = [c \in Clusters |-> IF c < k THEN FatInFlight[c] ELSE dfat[c]]
  BY DEF PowerLossInFat
<1>3. TypeOK /\ CallOK /\ sig' = TRUE
  BY <1>0, <1>1, SignedUnlessOff DEF TypesOK
<1>4. /\ pc = "write_fat" => FatInFlight = Ended
      /\ pc = "delete_fat" => FatInFlight = fat
      /\ pc = "format_fat" => FatInFlight = FreshFat
  BY DEF FatInFlight
<1>5. \A c \in Clusters : dfat'[c] \in {dfat[c], FatInFlight[c]}
  BY <1>2
<1>6. FatInFlight \in [Clusters -> FatValues]
  BY <1>1, <1>3, <1>4, ConstantTypes DEF TypeOK, Ended, FatValues
<1>7. TypesOK'
  <2>1. dfat' \in [Clusters -> FatValues]
    BY <1>2, <1>3, <1>6 DEF TypeOK
  <2> QED
    BY <2>1, <1>0, <1>1, OffType DEF TypesOK
<1>8. \A c \in DataClusters : c \in Clusters
  BY ConstantTypes
<1>9. EntriesNamed'
  BY <1>0, <1>1 DEF EntriesNamed
<1>10. FormatOK' /\ CallsOK'
  BY <1>1, <1>3, OffRest
<1>11. CASE pc = "write_fat"
  <2>1. NewChainOK /\ \A c \in DataClusters : dfat'[c] \in {dfat[c], Ended[c]}
    BY <1>0, <1>4, <1>5, <1>8, <1>11 DEF CallsOK
  <2>2. /\ \A c \in DataClusters : dfat[c] # EMPTY => dfat'[c] = dfat[c]
        /\ \A c \in DataClusters : dfat'[c] \notin {EMPTY, EOF} => dfat'[c] \in DataClusters /\ dfat'[c] > c
        /\ \A g : g = dfat' => Live(g) = Live(dfat)
    BY <2>1, <1>0, <1>3, <1>11, EndedMixture
  <2>3. Forward'
    BY <2>2 DEF Forward
  <2>4. Live(dfat)' = Live(dfat) /\ \A e : Start(e)' = Start(e)
    BY <2>2, <1>1 DEF Live, Start
  <2>5. ASSUME ~torn' PROVE ReachInv'
    <3>1. FilesReach /\ RootKept
      BY <2>5, <1>0, <1>1 DEF ReachInv
    <3>2. \A e \in Live(dfat) :
            \A c \in Reach(dfat, Start(e)) : c \in DataClusters /\ dfat[c] # EMPTY /\ dfat'[c] = dfat[c]
      BY <3>1, <2>2, <1>11, ReachSelf DEF FilesReach
    <3>3. FilesReach'
      BY <3>1, <3>2, <2>4, <1>11, FilesStay
    <3>4. RootKept'
      BY <3>1, <2>2, <1>1, <1>11, ConstantTypes DEF RootKept, FormatSteps, EMPTY, EOF
    <3> QED
      BY <3>3, <3>4, <1>1, <1>3, OffRest DEF ReachInv
  <2> QED
    BY <2>3, <2>5, <1>1, <1>7, <1>9, <1>10, CrashInvNext
<1>12. CASE pc = "delete_fat"
  <2>1. AnyCallOK /\ \A c \in DataClusters : dfat'[c] \in {dfat[c], fat[c]}
    BY <1>0, <1>4, <1>5, <1>8, <1>12 DEF CallsOK
  <2>2. \A c \in DataClusters : dfat'[c] \notin {EMPTY, EOF} => dfat'[c] \in DataClusters /\ dfat'[c] > c
    BY <2>1, <1>0, <1>12, FreedMixture
  <2>3. Forward'
    BY <2>2 DEF Forward
  <2> QED
    BY <2>3, <1>1, <1>7, <1>9, <1>10, <1>12, CrashInvNext
<1>13. CASE pc = "format_fat"
  <2>1. \A c \in DataClusters : dfat'[c] \in {EMPTY, EOF}
    <3>1. \A c \in Clusters : dfat[c] = EMPTY
      BY <1>0, <1>13 DEF FormatOK
    <3> QED
      BY <3>1, <1>4, <1>5, <1>8, <1>13, FreshFatValues
  <2>2. Forward'
    BY <2>1 DEF Forward
  <2> QED
    BY <2>2, <1>1, <1>7, <1>9, <1>10, <1>13, CrashInvNext
<1> QED
  BY <1>1, <1>11, <1>12, <1>13

(* No walk along an intact file leaves the cluster map.                    *)
LEMMA GoWildTorn ==
  ASSUME CrashInv, GoWild
  PROVE  torn
<1> SUFFICES ASSUME ~torn PROVE FALSE
  OBVIOUS
<1>1. FilesReach /\ WalkReach
  BY CrashInvNow DEF ReachInv
<1>2. cursor \in DataClusters
  BY <1>1, WalkStep DEF GoWild
<1> QED
  BY <1>2 DEF GoWild

LEMMA GoWildCrash ==
  ASSUME CrashInv, GoWild
  PROVE  CrashInv'
<1>0. TypesOK /\ FormatOK /\ Forward /\ EntriesNamed
  BY CrashInvNow
<1>1. /\ pc \in {"read", "delete"} /\ pc' = "wild"
      /\ UNCHANGED <<sig, dfat, disk, fat, torn>>
  BY DEF GoWild, diskVars
<1>2. sig = TRUE
  BY <1>0, <1>1, SignedUnlessOff
<1>3. TypesOK'
  BY <1>0, <1>1, <1>2 DEF TypesOK
<1>4. FormatOK'
  BY <1>1, <1>2 DEF FormatOK, FormatSteps
<1>5. CallsOK'
  BY <1>1, CallsRestNext DEF WriteSteps, DeleteSteps
<1>6. torn'
  BY <1>1, GoWildTorn
<1> QED
  BY <1>0, <1>1, <1>3, <1>4, <1>5, <1>6, DiskStays, CrashInvNext

LEMMA StutterCrash ==
  ASSUME CrashInv, UNCHANGED crashVars
  PROVE  CrashInv'
<1>1. UNCHANGED <<sig, dfat, disk, fat, dirbuf, pc, req, slot, cursor, i, ret, torn>>
  BY DEF crashVars, vars
<1>2. Live(dfat)' = Live(dfat) /\ (\A e : Start(e)' = Start(e)) /\ Target' = Target
  BY <1>1 DEF Live, Start, Target
<1>3. TypesOK /\ FormatOK /\ Forward /\ EntriesNamed /\ CallsOK /\ (~torn => ReachInv /\ pc # "wild")
  BY CrashInvNow
<1>4. TypesOK'
  BY <1>1, <1>3 DEF TypesOK, TypeOK, CallOK
<1>5. FormatOK' /\ Forward' /\ EntriesNamed'
  BY <1>1, <1>3 DEF FormatOK, Forward, EntriesNamed
<1>6. BufferOK' /\ NewSlotOK' /\ RoomOK' /\ CacheCoherent' /\ AnyCallOK'
  BY <1>1, <1>3
  DEF CallsOK, BufferOK, NewSlotOK, RoomOK, CacheCoherent, AnyCallOK, Matches, EmptyFrom, NewHead
<1>7. NewChainOK'
  <2>1. \A c : Linking(c)' = Linking(c)
    BY <1>1 DEF Linking
  <2> QED
    BY <2>1, <1>1, <1>3 DEF CallsOK, NewChainOK, NewHead
<1>8. ASSUME ~torn PROVE ReachInv'
  <2>1. NewHead' = NewHead /\ Doomed' = Doomed
    BY <1>1 DEF NewHead, Doomed
  <2> QED
    BY <2>1, <1>1, <1>2, <1>3, <1>8 DEF ReachInv, RootKept, FilesReach, NewReach, WalkReach
<1> QED
  BY <1>1, <1>3, <1>4, <1>5, <1>6, <1>7, <1>8, CrashInvNext DEF CallsOK

LEMMA CrashStep ==
  ASSUME CrashInv, [CrashNext]_crashVars
  PROVE  CrashInv'
<1>1. ASSUME Next, UNCHANGED torn PROVE CrashInv'
  BY <1>1, BootCrash, CallsCrash, WriteBlockCrash, WriteFatCrash, WriteDirCrash,
     FreeClusterCrash, DeleteFatCrash, DeleteDirCrash, ReadBlockCrash DEF Next, Steps
<1> QED
  BY <1>1, PowerLossCrash, PowerLossInFatCrash, GoWildCrash, StutterCrash DEF CrashNext

-----------------------------------------------------------------------------
(* CrashInv holds of every reachable state of the machine that loses power *)
(* at any moment: what the entries in use and the call in progress can     *)
(* rely on, though FAT32Inv is lost with the first cut.                    *)
THEOREM CrashInvCorrect == CrashSpec => []CrashInv
<1>1. CrashInit => CrashInv
  BY CrashInitInv
<1>2. CrashInv /\ [CrashNext]_crashVars => CrashInv'
  BY CrashStep
<1> QED
  BY <1>1, <1>2, PTL DEF CrashSpec

(* Unless a delete() or the formatting was cut, a power loss leaves every  *)
(* file whole and apart from the others, and links always run forward.     *)
THEOREM FilesSurviveCorrect == CrashSpec => []FilesSurvive
<1>1. CrashInv => FilesSurvive
  BY DEF CrashInv, Forward, FilesInv, FilesApart, ChainOf, FilesSurvive
<1> QED
  BY <1>1, CrashInvCorrect, PTL

(* The loops of read() and delete() run out of the cluster map only on a   *)
(* disk on which delete() or the formatting was cut.                       *)
THEOREM WildOnlyIfTornCorrect == CrashSpec => []WildOnlyIfTorn
<1>1. CrashInv => WildOnlyIfTorn
  BY DEF CrashInv, FilesInv, WildOnlyIfTorn
<1> QED
  BY <1>1, CrashInvCorrect, PTL

(* Unless a delete() or the formatting was cut, the root directory is      *)
(* still accepted as a parent after any number of power losses.            *)
THEOREM MountedRootValidCorrect == CrashSpec => []MountedRootValid
<1>1. CrashInv => MountedRootValid
  <2> SUFFICES ASSUME CrashInv, pc = "idle", ~torn
               PROVE  fat[ROOT] = EOF /\ disk[ROOT].dir
    BY DEF MountedRootValid
  <2>1. sig /\ fat = dfat
    BY DEF CrashInv, TypesOK, CallOK, CacheCoherent, FormatSteps
  <2> QED
    BY <2>1 DEF CrashInv, FilesInv, RootKept, FormatSteps
<1> QED
  BY <1>1, CrashInvCorrect, PTL

(* A step of write(), or a power loss in it, leaves every file on the disk *)
(* as it was.                                                              *)
LEMMA WriteKeeps ==
  ASSUME CrashInv, [CrashNext]_crashVars, pc \in {"write", "write_fat", "write_dir"}
  PROVE  FilesKept
<1>0. TypesOK /\ Forward /\ EntriesNamed /\ CallsOK
  BY CrashInvNow
<1>1. TypeOK /\ CallOK
  BY <1>0 DEF TypesOK
<1>2. ASSUME NEW e \in Live(dfat)
      PROVE  /\ Start(e) \in DataClusters /\ e[1] \in DataClusters /\ dfat[e[1]] = EOF
             /\ e[2] \in Slots /\ disk[e[1]].dir /\ disk[e[1]].table[e[2]].used
             /\ \A c \in Chain[Start(e)] : c \in DataClusters
  <2>1. Start(e) \in DataClusters
    BY <1>0 DEF EntriesNamed, Live, Start
  <2>2. \A c \in Chain[Start(e)] : c \in DataClusters
    BY <2>1, ChainIsReach, ReachSelf
  <2> QED
    BY <2>1, <2>2 DEF Live
\* All that is needed of the disk after the step.
<1>3. ASSUME \A e \in Live(dfat) :
               e \in Live(dfat)' /\ disk'[e[1]].table[e[2]] = disk[e[1]].table[e[2]],
             \A c \in DataClusters : dfat[c] # EMPTY =>
               /\ dfat'[c] = dfat[c]
               /\ disk'[c] = disk[c] \/ (pc = "write_dir" /\ c = req.parent)
      PROVE  FilesKept
  BY <1>2, <1>3 DEF FilesKept
<1>4. CASE UNCHANGED <<dfat, disk>>
  <2>1. Live(dfat)' = Live(dfat)
    BY <1>4 DEF Live
  <2> QED
    BY <2>1, <1>3, <1>4
<1>5. CASE WriteBlock
  <2>1. PICK f : f = Min(EmptyFrom(cursor))
    OBVIOUS
  <2>2. /\ dfat' = dfat /\ dfat[f] = EMPTY
        /\ \A c \in DataClusters : c # f => disk'[c] = disk[c]
        /\ Live(dfat)' = Live(dfat)
        /\ \A e \in Live(dfat) : disk'[e[1]].table[e[2]] = disk[e[1]].table[e[2]]
    BY <2>1, <1>0, <1>1, <1>5, WriteBlockImage DEF CallsOK, WriteBlock
  <2> QED
    BY <2>2, <1>3
<1>6. ASSUME pc = "write_fat", UNCHANGED disk, \A c \in DataClusters : dfat'[c] \in {dfat[c], Ended[c]}
      PROVE  FilesKept
  <2>1. /\ \A c \in DataClusters : dfat[c] # EMPTY => dfat'[c] = dfat[c]
        /\ \A g : g = dfat' => Live(g) = Live(dfat)
    BY <1>0, <1>1, <1>6, EndedMixture DEF CallsOK
  <2>2. Live(dfat)' = Live(dfat)
    BY <2>1, <1>6 DEF Live
  <2> QED
    BY <2>1, <2>2, <1>3, <1>6
<1>7. CASE WriteFat
  BY <1>6, <1>7 DEF WriteFat
<1>8. CASE WriteDir
  <2>1. PICK p, k : p = req.parent /\ k = slot
    OBVIOUS
  <2>2. /\ pc = "write_dir" /\ dfat' = dfat /\ disk' = [disk EXCEPT ![p] = dirbuf]
        /\ p \in DataClusters /\ k \in Slots
    BY <2>1, <1>1, <1>8 DEF WriteDir, CallOK, WriteSteps
  <2>3. disk'[p] = dirbuf /\ \A c \in DataClusters : c # p => disk'[c] = disk[c]
    BY <2>2, <1>1 DEF TypeOK
  <2>4. /\ dirbuf.dir /\ ~disk[p].table[k].used
        /\ \A s \in Slots : s # k => dirbuf.table[s] = disk[p].table[s]
    BY <2>1, <2>2, <1>0 DEF CallsOK, BufferOK, NewSlotOK, WriteSteps
  <2>5. \A e \in Live(dfat) :
          e \in Live(dfat)' /\ disk'[e[1]].table[e[2]] = disk[e[1]].table[e[2]]
    BY <2>2, <2>3, <2>4 DEF Live
  <2> QED
    BY <2>1, <2>2, <2>3, <2>5, <1>3
<1>9. CASE PowerLossInFat
  <2>1. pc = "write_fat" /\ UNCHANGED disk
    BY <1>9 DEF PowerLossInFat
  <2>2. FatInFlight = Ended
    BY <2>1 DEF FatInFlight
  <2>3. \A c \in DataClusters : dfat'[c] \in {dfat[c], Ended[c]}
    BY <2>2, <1>9, ConstantTypes DEF PowerLossInFat
  <2> QED
    BY <2>1, <2>3, <1>6
<1>10. ASSUME Next, ~WriteBlock, ~WriteFat, ~WriteDir PROVE FALSE
  <2>1. ~Boot
    BY DEF Boot, WriteSignature, FormatFat, FormatRoot, Mount
  <2>2. ~Calls
    BY DEF Calls, WriteRefused, WriteStart, DeleteRefused, DeleteStart, ReadRefused, ReadStart,
           ReadDirectory
  <2>3. ~FreeCluster /\ ~DeleteFat /\ ~DeleteDir /\ ~ReadBlock
    BY DEF FreeCluster, DeleteFat, DeleteDir, ReadBlock
  <2> QED
    BY <2>1, <2>2, <2>3, <1>10 DEF Next, Steps
<1>11. PowerLoss \/ GoWild \/ UNCHANGED crashVars => UNCHANGED <<dfat, disk>>
  BY DEF PowerLoss, GoWild, crashVars, vars, diskVars
<1> QED
  BY <1>4, <1>5, <1>7, <1>8, <1>9, <1>10, <1>11 DEF CrashNext

(* write(), cut or not, changes no file that is on the disk.               *)
THEOREM WriteKeepsFilesCorrect == CrashSpec => WriteKeepsFiles
<1>1. CrashInv /\ [CrashNext]_crashVars =>
        [(pc \in {"write", "write_fat", "write_dir"}) => FilesKept]_crashVars
  BY WriteKeeps
<1> QED
  BY <1>1, CrashInvCorrect, PTL DEF CrashSpec, WriteKeepsFiles
=============================================================================
