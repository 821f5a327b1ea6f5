------------------------------ MODULE FAT32Proofs ------------------------------
(***************************************************************************)
(* Theorems about the FAT32 driver, for every size of storage, directory   *)
(* and cluster and every set of requests.  After the lemmas about the      *)
(* operators: its variables keep their types; the image stays consistent,  *)
(* by FAT32Inv, action by action; and no space is lost, by OwnersInv.      *)
(***************************************************************************)
EXTENDS FAT32Inv, FiniteSetsExt, FiniteSetTheorems, WellFoundedInduction, TLAPS

(* A search that takes the first candidate returns a candidate.            *)
LEMMA MinIsLeast ==
  ASSUME NEW S \in SUBSET Nat, S # {}
  PROVE  Min(S) \in S /\ \A y \in S : Min(S) <= y
<1> DEFINE Less == {ss \in Nat \X Nat : ss[1] < ss[2]}
<1>1. IsWellFoundedOn(Less, Nat)
  BY NatLessThanWellFounded DEF OpToRel
<1>2. PICK x \in S : \A y \in S : ~(<<y, x>> \in Less)
  <2> HIDE DEF Less
  <2> QED
    BY <1>1, WFMin
<1>3. ASSUME NEW y \in S PROVE x <= y
  <2>1. x \in Nat /\ y \in Nat /\ <<y, x>> \notin Less
    BY <1>2
  <2> QED
    BY <2>1
<1> QED
  BY <1>3 DEF Min

-----------------------------------------------------------------------------
(* The operators the model is built from.                                  *)

(* The first slot of a set of slots.                                       *)
LEMMA MinSlot ==
  ASSUME NEW S \in SUBSET Slots, S # {}
  PROVE  Min(S) \in S
<1>1. IsFiniteSet(Slots) /\ Slots \subseteq Nat
  BY FS_Interval, SizeAssumption DEF Slots
<1>2. IsFiniteSet(S)
  BY <1>1, FS_Subset
<1> QED
  BY <1>1, <1>2, MinIsLeast

(* A search of the FAT that succeeds returns the lowest free cluster not   *)
(* below the one it starts from.                                           *)
LEMMA MinEmpty ==
  ASSUME NEW k \in Nat, EmptyFrom(k) # {}
  PROVE  /\ Min(EmptyFrom(k)) \in EmptyFrom(k)
         /\ \A c \in EmptyFrom(k) : Min(EmptyFrom(k)) <= c
<1>1. EmptyFrom(k) \subseteq k .. CLUSTER_MAP_SIZE - 1
  BY DEF EmptyFrom
<1>2. IsFiniteSet(k .. CLUSTER_MAP_SIZE - 1)
  BY FS_Interval, SizeAssumption
<1>3. IsFiniteSet(EmptyFrom(k)) /\ EmptyFrom(k) \in SUBSET Nat
  <2>1. EmptyFrom(k) \in SUBSET (k .. CLUSTER_MAP_SIZE - 1)
    BY <1>1
  <2>2. IsFiniteSet(EmptyFrom(k))
    BY <2>1, <1>2, FS_Subset
  <2>3. EmptyFrom(k) \subseteq Nat
    BY <1>1, SizeAssumption
  <2> QED
    BY <2>2, <2>3
<1> QED
  BY <1>3, MinIsLeast

(* Storing an entry in a directory table keeps it one, and changes that    *)
(* slot alone.                                                             *)
LEMMA PutEntryType ==
  ASSUME NEW img \in Image, NEW s, NEW e \in Entry
  PROVE  PutEntry(img, s, e) \in Image
BY DEF PutEntry, Image

LEMMA PutEntryValue ==
  ASSUME NEW img \in Image, NEW s \in Slots, NEW e
  PROVE  /\ PutEntry(img, s, e).dir = img.dir
         /\ PutEntry(img, s, e).data = img.data
         /\ \A t \in Slots :
              PutEntry(img, s, e).table[t] = IF t = s THEN e ELSE img.table[t]
BY DEF PutEntry, Image

LEMMA NewEntryType ==
  ASSUME NEW old \in Entry, NEW n \in Names, NEW e \in Exts, NEW size \in Nat
  PROVE  NewEntry(old, n, e, size) \in Entry
BY DEF NewEntry, Entry

LEMMA ConstantTypes ==
  /\ ZeroImage \in Image /\ RootImage \in Image
  /\ FreshFat \in [Clusters -> FatValues]
  /\ NoRequest \in [name : Names \cup {BLANK}, ext : Exts \cup {NO_EXT},
                    parent : Clusters, size : Nat, buf : Buffers]
  /\ 0 \in Clusters /\ DataClusters \subseteq Clusters /\ Clusters \subseteq Nat
  /\ EOF \notin Clusters /\ CLUSTER_0_VALUE \notin Clusters /\ ROOT \in DataClusters
<1>1. BlankTable \in [Slots -> Entry]
  BY SizeAssumption DEF BlankTable, BlankEntry, Entry, Clusters
<1>2. ZeroImage \in Image /\ RootImage \in Image
  BY <1>1, CallerAssumption DEF ZeroImage, RootImage, Image
<1>3. FreshFat \in [Clusters -> FatValues]
  BY SizeAssumption DEF FreshFat, FatValues, Clusters, EMPTY, EOF
<1> QED
  BY <1>2, <1>3, SizeAssumption
  DEF NoRequest, Buffers, Clusters, DataClusters, EOF, CLUSTER_0_VALUE, ROOT

-----------------------------------------------------------------------------
(* Types                                                                   *)

Requests == [name : Names \cup {BLANK}, ext : Exts \cup {NO_EXT},
             parent : Clusters, size : Nat, buf : Buffers]

(* A parent that is accepted is a data cluster holding a directory table.  *)
LEMMA ParentType ==
  ASSUME TypeOK, NEW p \in Clusters, ParentOK(p)
  PROVE  p \in DataClusters /\ disk[p] \in Image /\ disk[p].dir /\ fat[p] = EOF
BY SizeAssumption DEF ParentOK, TypeOK, Clusters, DataClusters, ROOT

(* The entry that a search by name finds is in use and has that name.      *)
LEMMA MatchFound ==
  ASSUME NEW img \in Image, NEW n, NEW e, Matches(img, n, e) # {}
  PROVE  LET s == Min(Matches(img, n, e))
         IN  /\ s \in Slots
             /\ img.table[s] \in Entry
             /\ img.table[s].used /\ img.table[s].name = n /\ img.table[s].ext = e
<1>1. Matches(img, n, e) \in SUBSET Slots
  BY DEF Matches
<1>2. Min(Matches(img, n, e)) \in Matches(img, n, e)
  BY <1>1, MinSlot
<1>3. img.table \in [Slots -> Entry]
  BY DEF Image
<1> QED
  BY <1>1, <1>2, <1>3 DEF Matches

LEMMA SlotFound ==
  ASSUME NEW img \in Image, FreeSlots(img) # {}
  PROVE  LET s == Min(FreeSlots(img))
         IN  s \in Slots /\ img.table[s] \in Entry /\ ~img.table[s].used
<1>1. FreeSlots(img) \in SUBSET Slots
  BY DEF FreeSlots
<1>2. Min(FreeSlots(img)) \in FreeSlots(img)
  BY <1>1, MinSlot
<1>3. img.table \in [Slots -> Entry]
  BY DEF Image
<1> QED
  BY <1>1, <1>2, <1>3 DEF FreeSlots

(* The block that a round of write() stores is one of the caller's buffer. *)
LEMMA BlockType ==
  ASSUME TypeOK, CallOK, pc = "write"
  PROVE  Block \in Image /\ NoEntries(Block)
<1>1. PICK l \in Loads : req.size = l.size /\ req.buf = l.buf
  BY DEF CallOK
<1>2. l.size \div CLUSTER_SIZE \in Int
  BY SizeAssumption, CallerAssumption
<1>3. i \in 0 .. l.size \div CLUSTER_SIZE
  BY <1>1, <1>2 DEF CallOK, TypeOK
<1> QED
  BY <1>1, <1>3, CallerAssumption DEF Block, NoEntries

(* A round of write() finds a free cluster at or after cursor.             *)
LEMMA RoundCluster ==
  ASSUME TypeOK, EmptyFrom(cursor) # {}, NEW f, f = Min(EmptyFrom(cursor))
  PROVE  /\ f \in Clusters /\ cursor <= f /\ fat[f] = EMPTY
         /\ \A c \in EmptyFrom(cursor) : f <= c
<1>1. cursor \in Nat
  BY DEF TypeOK, FatValues, Clusters, CLUSTER_0_VALUE, EOF
<1>2. f \in EmptyFrom(cursor) /\ \A c \in EmptyFrom(cursor) : f <= c
  BY <1>1, MinEmpty
<1> QED
  BY <1>1, <1>2, SizeAssumption DEF EmptyFrom, Clusters

LEMMA SizeTypes ==
  /\ CLUSTER_SIZE \in Nat \ {0}
  /\ \A n \in Nat : n \div CLUSTER_SIZE \in Nat
<1>1. ASSUME NEW n \in Nat, NEW k \in Nat \ {0} PROVE n \div k \in Nat
  OBVIOUS
<1> QED
  BY <1>1, SizeAssumption

LEMMA EndCallType ==
  ASSUME EndCall
  PROVE  dirbuf' \in Image /\ req' \in Requests /\ slot' = 0 /\ cursor' = 0 /\ i' = 0
BY ConstantTypes DEF EndCall, Requests

LEMMA RequestType ==
  ASSUME NEW n \in Names, NEW e \in Exts, NEW p \in Clusters, NEW size \in Nat,
         NEW buf \in Buffers
  PROVE  Request(n, e, p, size, buf) \in Requests
BY DEF Request, Requests

LEMMA TypeInit == Init => TypeOK /\ CallOK
<1> SUFFICES ASSUME Init PROVE TypeOK /\ CallOK
  OBVIOUS
<1>1. fat \in [Clusters -> FatValues] /\ dfat \in [Clusters -> FatValues]
  BY ConstantTypes DEF Init, FatValues
<1>2. disk \in [DataClusters -> Image] /\ dirbuf \in Image
  BY ConstantTypes DEF Init
<1>3. req \in Requests /\ slot \in 0 .. DIRECTORY_ENTRIES - 1 /\ cursor \in FatValues
  BY ConstantTypes, SizeAssumption DEF Init, Requests, FatValues
<1>4. sig \in BOOLEAN
  BY DEF Init
<1>5. i \in Nat /\ ret \in -1 .. 3 /\ pc = "off"
  BY DEF Init
<1>6. CallOK
  BY <1>5 DEF CallOK, WriteSteps, DeleteSteps, FormatSteps
<1> QED
  BY <1>1, <1>2, <1>3, <1>4, <1>5, <1>6 DEF TypeOK, Requests

LEMMA BootType ==
  ASSUME TypeOK, CallOK, Boot
  PROVE  TypeOK' /\ CallOK'
<1> USE DEF TypeOK, CallOK, WriteSteps, DeleteSteps, FormatSteps, diskVars, callVars
<1>1. CASE WriteSignature
  BY <1>1 DEF WriteSignature
<1>2. CASE FormatFat
  BY <1>2, ConstantTypes DEF FormatFat
<1>3. CASE FormatRoot
  BY <1>3, ConstantTypes DEF FormatRoot
<1>4. CASE Mount
  BY <1>4 DEF Mount
<1> QED
  BY <1>1, <1>2, <1>3, <1>4 DEF Boot

LEMMA FailType ==
  ASSUME TypeOK, CallOK, NEW code \in -1 .. 3, Fail(code)
  PROVE  TypeOK' /\ CallOK'
BY DEF Fail, TypeOK, CallOK, diskVars, callVars

LEMMA StartType ==
  ASSUME TypeOK, CallOK, pc = "idle",
         NEW n \in Names, NEW e \in Exts, NEW p \in DataClusters,
         NEW size \in Nat, NEW buf \in Buffers, NEW next \in {"read", "delete"},
         dirbuf' \in Image, slot' \in Slots, cursor' \in FatValues, i' = 0,
         req' = Request(n, e, p, size, buf), pc' = next,
         UNCHANGED <<diskVars, fat, ret>>
  PROVE  TypeOK' /\ CallOK'
<1>1. req' \in Requests /\ req'.parent = p
  BY RequestType, ConstantTypes DEF Request
<1>2. slot' \in 0 .. DIRECTORY_ENTRIES - 1
  BY SizeAssumption DEF Slots
<1> QED
  BY <1>1, <1>2 DEF TypeOK, CallOK, Requests, diskVars, WriteSteps, DeleteSteps, FormatSteps

LEMMA WriteStartType ==
  ASSUME TypeOK, CallOK,
         NEW n \in Names, NEW e \in Exts, NEW p \in Clusters, NEW l \in Loads,
         WriteStart(n, e, p, l)
  PROVE  TypeOK' /\ CallOK'
<1>1. ParentOK(p) /\ FreeSlots(disk[p]) # {}
  BY DEF WriteStart, WriteCode
<1>2. p \in DataClusters /\ disk[p] \in Image
  BY <1>1, ParentType
<1> DEFINE s == Min(FreeSlots(disk[p]))
<1>3. s \in Slots /\ disk[p].table[s] \in Entry
  BY <1>1, <1>2, SlotFound
<1>4. l.size \in Nat /\ l.buf \in Buffers
  BY CallerAssumption DEF Buffers
<1>5. slot' = s /\ dirbuf' \in Image
  BY <1>2, <1>3, <1>4, NewEntryType, PutEntryType DEF WriteStart
<1>6. req' \in Requests /\ req'.parent = p /\ req'.size = l.size /\ req'.buf = l.buf
  BY <1>4, RequestType DEF WriteStart, Request
<1>7. slot' \in 0 .. DIRECTORY_ENTRIES - 1 /\ cursor' \in FatValues
  BY <1>3, <1>5, SizeAssumption DEF Slots, WriteStart, FatValues, Clusters
<1>8. i' = 0 /\ i' <= l.size \div CLUSTER_SIZE
  BY <1>4, SizeTypes DEF WriteStart
<1> QED
  BY <1>2, <1>3, <1>5, <1>6, <1>7, <1>8
  DEF WriteStart, TypeOK, CallOK, Requests, diskVars, WriteSteps, DeleteSteps, FormatSteps

LEMMA CallsType ==
  ASSUME TypeOK, CallOK, Calls
  PROVE  TypeOK' /\ CallOK'
<1>1. PICK n \in Names, e \in Exts, p \in Clusters :
        \/ \E l \in Loads : WriteRefused(n, e, p, l) \/ WriteStart(n, e, p, l)
        \/ DeleteRefused(n, e, p) \/ DeleteStart(n, e, p)
        \/ \E size \in ReadSizes :
             \/ ReadRefused(n, e, p, size) \/ ReadStart(n, e, p, size)
             \/ ReadDirectory(n, p, size)
  BY DEF Calls
<1>2. ASSUME NEW l \in Loads, WriteRefused(n, e, p, l) PROVE TypeOK' /\ CallOK'
  <2>1. WriteCode(n, e, p, l.size) \in -1 .. 3
    BY DEF WriteCode
  <2> QED
    BY <1>2, <2>1, FailType DEF WriteRefused
<1>3. ASSUME NEW l \in Loads, WriteStart(n, e, p, l) PROVE TypeOK' /\ CallOK'
  BY <1>3, WriteStartType
<1>4. CASE DeleteRefused(n, e, p)
  <2>1. DeleteCode(n, e, p) \in -1 .. 3
    BY DEF DeleteCode
  <2> QED
    BY <1>4, <2>1, FailType DEF DeleteRefused
<1>5. CASE DeleteStart(n, e, p)
  <2>1. ParentOK(p) /\ Matches(disk[p], n, e) # {}
    BY <1>5 DEF DeleteStart, DeleteCode
  <2>2. p \in DataClusters /\ disk[p] \in Image
    BY <2>1, ParentType
  <2>3. slot' \in Slots /\ cursor' \in FatValues
    BY <1>5, <2>1, <2>2, MatchFound DEF DeleteStart, Found, Entry, FatValues
  <2> QED
    BY <1>5, <2>2, <2>3, StartType DEF DeleteStart, Buffers
<1>6. ASSUME NEW size \in ReadSizes, ReadRefused(n, e, p, size) PROVE TypeOK' /\ CallOK'
  <2>1. ReadCode(n, e, p, size) \in -1 .. 3
    BY DEF ReadCode
  <2> QED
    BY <1>6, <2>1, FailType DEF ReadRefused
<1>7. ASSUME NEW size \in ReadSizes, ReadStart(n, e, p, size) PROVE TypeOK' /\ CallOK'
  <2>1. ParentOK(p) /\ Matches(disk[p], n, e) # {}
    BY <1>7 DEF ReadStart, ReadCode
  <2>2. p \in DataClusters /\ disk[p] \in Image
    BY <2>1, ParentType
  <2>3. slot' \in Slots /\ cursor' \in FatValues
    BY <1>7, <2>1, <2>2, MatchFound DEF ReadStart, Found, Entry, FatValues
  <2>4. size \in Nat
    BY CallerAssumption
  <2> QED
    BY <1>7, <2>2, <2>3, <2>4, StartType DEF ReadStart, Buffers
<1>8. ASSUME NEW size \in ReadSizes, ReadDirectory(n, p, size) PROVE TypeOK' /\ CallOK'
  <2>1. ReadDirectoryCode(n, p, size) \in -1 .. 3
    BY DEF ReadDirectoryCode
  <2> QED
    BY <1>8, <2>1, FailType DEF ReadDirectory
<1> QED
  BY <1>1, <1>2, <1>3, <1>4, <1>5, <1>6, <1>7, <1>8

LEMMA StepsType ==
  ASSUME TypeOK, CallOK, Steps
  PROVE  TypeOK' /\ CallOK'
<1> USE DEF WriteSteps, DeleteSteps, FormatSteps
<1>0. slot \in Slots => dirbuf.table[slot] \in Entry
  BY DEF TypeOK, Image
<1>1. CASE WriteBlock
  <2> DEFINE f == Min(EmptyFrom(cursor))
  <2>1. f \in Clusters
    BY <1>1, RoundCluster DEF WriteBlock
  <2>2. slot \in Slots /\ Block \in Image
    BY <1>1, BlockType DEF WriteBlock, CallOK
  <2>3. dirbuf' \in Image
    <3>1. [dirbuf.table[slot] EXCEPT !.first = f] \in Entry
      BY <1>0, <2>1, <2>2 DEF Entry
    <3> QED
      BY <1>1, <3>1, PutEntryType DEF WriteBlock, TypeOK
  <2>4. fat' \in [Clusters -> FatValues] /\ disk' \in [DataClusters -> Image] /\ cursor' \in FatValues
    BY <1>1, <2>1, <2>2 DEF WriteBlock, TypeOK, Linked, FatValues
  <2>5. i' \in Nat /\ (pc' = "write" => i' <= req.size \div CLUSTER_SIZE)
    BY <1>1, SizeTypes DEF WriteBlock, TypeOK, BlockCount
  <2> QED
    BY <1>1, <2>2, <2>3, <2>4, <2>5 DEF WriteBlock, TypeOK, CallOK
<1>2. CASE WriteFat
  <2>1. slot \in Slots
    BY <1>2 DEF WriteFat, CallOK
  <2>2. i * CLUSTER_SIZE \in Nat
    BY SizeTypes DEF TypeOK
  <2>3. dirbuf' \in Image
    <3>1. [dirbuf.table[slot] EXCEPT !.size = i * CLUSTER_SIZE] \in Entry
      BY <1>0, <2>1, <2>2 DEF Entry
    <3> QED
      BY <1>2, <3>1, PutEntryType DEF WriteFat, TypeOK
  <2>4. Ended \in [Clusters -> FatValues]
    BY DEF Ended, TypeOK, FatValues
  <2> QED
    BY <1>2, <2>3, <2>4 DEF WriteFat, TypeOK, CallOK, callVars
<1>3. CASE WriteDir \/ DeleteDir
  <2>1. disk' \in [DataClusters -> Image] /\ EndCall /\ pc' = "idle" /\ ret' = 0 /\ sig
    BY <1>3 DEF WriteDir, DeleteDir, Return, TypeOK, CallOK
  <2>2. req' \in Requests /\ dirbuf' \in Image /\ slot' = 0 /\ cursor' = 0 /\ i' = 0
    BY <2>1, EndCallType
  <2>3. slot' \in 0 .. DIRECTORY_ENTRIES - 1 /\ cursor' \in FatValues
    BY <2>2, ConstantTypes, SizeAssumption DEF FatValues
  <2>4. UNCHANGED <<sig, dfat, fat>>
    BY <1>3 DEF WriteDir, DeleteDir
  <2>5. CallOK'
    BY <2>1, <2>4 DEF CallOK
  <2> QED
    BY <2>1, <2>2, <2>3, <2>4, <2>5 DEF TypeOK, Requests
<1>4. CASE FreeCluster
  <2>1. slot \in Slots /\ cursor \in Clusters
    BY <1>4, ConstantTypes DEF FreeCluster, CallOK
  <2>2. fat' \in [Clusters -> FatValues]
    BY <1>4, ConstantTypes DEF FreeCluster, Freed, TypeOK, FatValues, EMPTY
  <2>3. cursor' \in FatValues
    BY <1>4, <2>1 DEF FreeCluster, NextOf, TypeOK
  <2>4. dirbuf' \in Image
    <3>1. [dirbuf.table[slot] EXCEPT !.used = FALSE] \in Entry
      BY <1>0, <2>1 DEF Entry
    <3> QED
      BY <1>4, <3>1, PutEntryType DEF FreeCluster, TypeOK
  <2> QED
    BY <1>4, <2>2, <2>3, <2>4 DEF FreeCluster, TypeOK, CallOK, diskVars
<1>5. CASE DeleteFat
  BY <1>5 DEF DeleteFat, TypeOK, CallOK, callVars
<1>6. CASE ReadBlock
  <2>1. CASE fat[cursor] # EOF
    <3>1. cursor' \in FatValues /\ i' \in Nat
      BY <1>6, <2>1, ConstantTypes DEF ReadBlock, NextOf, TypeOK
    <3> QED
      BY <1>6, <2>1, <3>1 DEF ReadBlock, TypeOK, CallOK, diskVars
  <2>2. CASE fat[cursor] = EOF
    <3>1. EndCall /\ pc' = "idle" /\ ret' = 0 /\ sig
      BY <1>6, <2>2 DEF ReadBlock, Return, CallOK
    <3>2. req' \in Requests /\ dirbuf' \in Image /\ slot' = 0 /\ cursor' = 0 /\ i' = 0
      BY <3>1, EndCallType
    <3> QED
      BY <1>6, <3>1, <3>2, ConstantTypes, SizeAssumption
      DEF ReadBlock, TypeOK, CallOK, Requests, FatValues, diskVars
  <2> QED
    BY <2>1, <2>2
<1> QED
  BY <1>1, <1>2, <1>3, <1>4, <1>5, <1>6 DEF Steps

LEMMA TypeStep ==
  ASSUME TypeOK, CallOK, [Next]_vars
  PROVE  TypeOK' /\ CallOK'
<1>1. CASE UNCHANGED vars
  BY <1>1 DEF vars, TypeOK, CallOK
<1> QED
  BY <1>1, BootType, CallsType, StepsType DEF Next

(* Every variable of the driver keeps its type.                            *)
THEOREM TypeCorrect == Spec => []TypeOK
<1>1. Init => TypeOK /\ CallOK
  BY TypeInit
<1>2. (TypeOK /\ CallOK) /\ [Next]_vars => (TypeOK /\ CallOK)'
  BY TypeStep
<1> QED
  BY <1>1, <1>2, PTL DEF Spec

-----------------------------------------------------------------------------
(* The image stays consistent: FAT32Inv is an inductive invariant.         *)

(* The properties of the image say nothing of memory: a step that writes   *)
(* no cluster keeps them, as long as it does not leave delete_dir.         *)
LEMMA ImageKept ==
  ASSUME ImageInv, UNCHANGED <<sig, dfat, disk>>, pc # "delete_dir",
         pc \in FormatSteps <=> pc' \in FormatSteps
  PROVE  ImageInv'
<1>1. Live(dfat)' = Live(dfat) /\ \A e : Start(e)' = Start(e)
  BY DEF Live, Start
<1>2. LinksForward'
  BY DEF ImageInv, LinksForward
<1>3. NoCrossLinks'
  BY <1>1 DEF ImageInv, NoCrossLinks
<1>4. NoDangling'
  BY <1>1 DEF ImageInv, NoDangling
<1>5. RootIntact'
  BY DEF ImageInv, RootIntact, FormatSteps
<1>6. UniqueNames'
  BY <1>1 DEF ImageInv, UniqueNames
<1> QED
  BY <1>2, <1>3, <1>4, <1>5, <1>6 DEF ImageInv

LEMMA NothingLive ==
  ASSUME \A p \in DataClusters : dfat[p] = EOF /\ disk[p].dir =>
           \A s \in Slots : ~disk[p].table[s].used
  PROVE  Live(dfat) = {}
BY DEF Live

(* What is left of the invariant when no call is in progress.              *)
Resting == pc \in FormatSteps \cup {"off", "mount"} \/ (pc = "idle" /\ fat = dfat)

LEMMA AtRest == Resting => MemoryInv
BY DEF Resting, MemoryInv, BufferOK, NewSlotOK, NewChainOK, NewEntryOK, RoomOK, FreedOK,
       CacheCoherent, WalkOnChain, WriteSteps, DeleteSteps, FormatSteps

LEMMA AtRestNext == Resting' => MemoryInv'
BY AtRest, PTL

-----------------------------------------------------------------------------
LEMMA InvInit == Init => FAT32Inv
<1> SUFFICES ASSUME Init PROVE FAT32Inv
  OBVIOUS
<1>1. TypeOK /\ CallOK
  BY TypeInit
<1>2. pc = "off" /\ sig = FALSE
  BY DEF Init
<1>3. /\ \A c \in DataClusters : disk[c] = ZeroImage
      /\ \A c \in Clusters : dfat[c] = EMPTY /\ fat[c] = EMPTY
  BY DEF Init, EMPTY
<1>4. \A c \in DataClusters : ~disk[c].dir
  BY <1>3 DEF ZeroImage
<1>5. FormatOK
  BY <1>2, <1>3, <1>4 DEF FormatOK, FormatSteps
<1>6. Live(dfat) = {}
  BY <1>4, NothingLive
<1>7. LinksForward /\ NoCrossLinks
  BY <1>3, <1>6, ConstantTypes, SizeAssumption
  DEF LinksForward, NoCrossLinks, EMPTY, DataClusters, ROOT
<1>8. NoDangling /\ RootIntact /\ UniqueNames
  BY <1>2, <1>6 DEF NoDangling, RootIntact, UniqueNames
<1>9. MemoryInv
  BY <1>2, AtRest DEF Resting
<1> QED
  BY <1>1, <1>5, <1>7, <1>8, <1>9 DEF FAT32Inv, ImageInv

LEMMA FreshFatValues ==
  /\ FreshFat[ROOT] = EOF
  /\ \A c \in DataClusters : FreshFat[c] = IF c = ROOT THEN EOF ELSE EMPTY
<1>1. \A c \in DataClusters : c \in Clusters /\ c # 0 /\ c # 1
  BY SizeAssumption DEF DataClusters, Clusters, ROOT
<1> QED
  BY <1>1, ConstantTypes DEF FreshFat, ROOT

LEMMA BootInv ==
  ASSUME FAT32Inv, Boot
  PROVE  FAT32Inv'
<1>0. TypeOK' /\ CallOK'
  BY BootType DEF FAT32Inv
<1>1. CASE WriteSignature
  <2>1. pc = "off" /\ pc' = "format_fat" /\ UNCHANGED <<dfat, disk>> /\ ~sig
    BY <1>1 DEF WriteSignature
  <2>2. \A c \in DataClusters : ~disk[c].dir
    BY <2>1 DEF FAT32Inv, FormatOK
  <2>3. FormatOK'
    BY <1>1, <2>1, <2>2 DEF FAT32Inv, FormatOK, FormatSteps, WriteSignature
  <2>4. Live(dfat)' = {}
    BY <2>1, <2>2 DEF Live
  <2>5. LinksForward'
    BY <2>1 DEF FAT32Inv, ImageInv, LinksForward
  <2>6. NoCrossLinks'
    BY <2>1, <2>4 DEF FAT32Inv, ImageInv, NoCrossLinks
  <2>7. NoDangling' /\ RootIntact' /\ UniqueNames'
    BY <2>1, <2>4 DEF NoDangling, RootIntact, UniqueNames
  <2>8. MemoryInv'
    BY <2>1, AtRestNext DEF Resting, FormatSteps
  <2> QED
    BY <1>0, <2>3, <2>5, <2>6, <2>7, <2>8 DEF FAT32Inv, ImageInv
<1>2. CASE FormatFat
  <2>1. pc = "format_fat" /\ pc' = "format_root" /\ UNCHANGED <<sig, disk, fat>> /\ dfat' = FreshFat /\ sig
    BY <1>2 DEF FormatFat, FAT32Inv, CallOK, FormatSteps
  <2>2. \A c \in DataClusters : ~disk[c].dir
    BY <2>1 DEF FAT32Inv, FormatOK, FormatSteps
  <2>3. FormatOK'
    BY <2>1, <2>2 DEF FAT32Inv, FormatOK, FormatSteps
  <2>4. Live(dfat)' = {}
    BY <2>1, <2>2 DEF Live
  <2>5. LinksForward' /\ NoCrossLinks'
    BY <2>1, <2>4, FreshFatValues, ConstantTypes, SizeAssumption
    DEF LinksForward, NoCrossLinks, EMPTY, EOF, DataClusters, ROOT, Clusters
  <2>6. NoDangling' /\ RootIntact' /\ UniqueNames'
    BY <2>1, <2>4 DEF NoDangling, RootIntact, UniqueNames
  <2>7. MemoryInv'
    BY <2>1, AtRestNext DEF Resting, FormatSteps
  <2> QED
    BY <1>0, <2>3, <2>5, <2>6, <2>7 DEF FAT32Inv, ImageInv
<1>3. CASE FormatRoot
  <2>1. /\ pc = "format_root" /\ pc' = "mount" /\ UNCHANGED <<sig, dfat>> /\ sig
        /\ disk' = [disk EXCEPT ![ROOT] = RootImage]
    BY <1>3 DEF FormatRoot, FAT32Inv, CallOK, FormatSteps
  <2>2. dfat = FreshFat
    BY <2>1 DEF FAT32Inv, FormatOK
  <2>3. FormatOK'
    BY <2>1 DEF FormatOK, FormatSteps
  <2>4. disk'[ROOT] = RootImage
    BY <2>1, ConstantTypes DEF FAT32Inv, TypeOK
  <2>5. Live(dfat)' = {}
    <3>1. \A c \in DataClusters : dfat'[c] = EOF => c = ROOT
      BY <2>1, <2>2, FreshFatValues DEF EOF, EMPTY
    <3>2. \A s \in Slots : ~disk'[ROOT].table[s].used
      BY <2>4 DEF RootImage, BlankTable, BlankEntry
    <3> QED
      BY <3>1, <3>2 DEF Live
  <2>6. LinksForward'
    BY <2>1 DEF FAT32Inv, ImageInv, LinksForward
  <2>7. NoCrossLinks'
    BY <2>1, <2>5 DEF FAT32Inv, ImageInv, NoCrossLinks
  <2>8. NoDangling' /\ UniqueNames'
    BY <2>5 DEF NoDangling, UniqueNames
  <2>9. RootIntact'
    <3>1. disk'[ROOT].dir
      BY <2>4 DEF RootImage
    <3>2. dfat'[ROOT] = EOF /\ \A c \in DataClusters : dfat'[c] # ROOT
      BY <2>1, <2>2, FreshFatValues DEF EOF, EMPTY, ROOT
    <3> QED
      BY <3>1, <3>2 DEF RootIntact
  <2>10. MemoryInv'
    BY <2>1, AtRestNext DEF Resting
  <2> QED
    BY <1>0, <2>3, <2>6, <2>7, <2>8, <2>9, <2>10 DEF FAT32Inv, ImageInv
<1>4. CASE Mount
  <2>1. /\ sig /\ pc \in {"mount", "off"} /\ pc' = "idle"
        /\ UNCHANGED <<sig, dfat, disk>> /\ fat' = dfat
    BY <1>4 DEF Mount, FAT32Inv, CallOK, diskVars
  <2>2. FormatOK'
    BY <2>1 DEF FormatOK, FormatSteps
  <2>3. ImageInv'
    BY <2>1, ImageKept DEF FAT32Inv, FormatSteps
  <2>4. MemoryInv'
    BY <2>1, AtRestNext DEF Resting
  <2> QED
    BY <1>0, <2>2, <2>3, <2>4 DEF FAT32Inv
<1> QED
  BY <1>1, <1>2, <1>3, <1>4 DEF Boot

(* A call that is refused leaves everything as it was.                     *)
LEMMA FailInv ==
  ASSUME FAT32Inv, NEW code \in -1 .. 3, Fail(code), pc = "idle"
  PROVE  FAT32Inv'
<1>1. UNCHANGED <<diskVars, fat, pc>>
  BY DEF Fail
<1>2. TypeOK' /\ CallOK'
  BY FailType DEF FAT32Inv
<1>3. FormatOK'
  BY <1>1 DEF FAT32Inv, FormatOK, diskVars
<1>4. ImageInv'
  BY <1>1, ImageKept DEF FAT32Inv, diskVars
<1>5. fat = dfat
  BY DEF FAT32Inv, MemoryInv, CacheCoherent
<1>6. MemoryInv'
  BY <1>1, <1>5, AtRestNext DEF Resting, diskVars
<1> QED
  BY <1>2, <1>3, <1>4, <1>6 DEF FAT32Inv

-----------------------------------------------------------------------------
(* write()                                                                 *)

(* What the start of write() establishes.                                  *)
LEMMA WriteStartMemory ==
  ASSUME TypeOK, CacheCoherent,
         NEW n \in Names, NEW e \in Exts, NEW p \in Clusters, NEW l \in Loads,
         WriteStart(n, e, p, l)
  PROVE  BufferOK' /\ NewSlotOK' /\ NewChainOK' /\ RoomOK'
<1> DEFINE s == Min(FreeSlots(disk[p]))
           new == NewEntry(disk[p].table[s], n, e, l.size)
<1>2. /\ pc = "idle" /\ pc' = "write" /\ UNCHANGED <<sig, dfat, disk, fat>>
      /\ slot' = s /\ dirbuf' = PutEntry(disk[p], s, new) /\ cursor' = 2 /\ i' = 0
  BY DEF WriteStart, diskVars
<1>3. req'.name = n /\ req'.ext = e /\ req'.parent = p /\ req'.size = l.size
  BY DEF WriteStart, Request
<1>4. /\ ParentOK(p) /\ FreeSlots(disk[p]) # {} /\ Matches(disk[p], n, e) = {}
      /\ EnoughSpace(l.size)
  BY DEF WriteStart, WriteCode
<1>5. p \in DataClusters /\ disk[p] \in Image /\ disk[p].dir /\ fat[p] = EOF
  BY <1>4, ParentType
<1>6. s \in Slots /\ disk[p].table[s] \in Entry /\ ~disk[p].table[s].used
  BY <1>4, <1>5, SlotFound
<1>7. fat = dfat
  BY <1>2 DEF CacheCoherent
<1>9. /\ dirbuf'.dir /\ dirbuf'.table[s] = new
      /\ \A t \in Slots : t # s => dirbuf'.table[t] = disk[p].table[t]
  BY <1>2, <1>5, <1>6, PutEntryValue
<1>10. BufferOK'
  BY <1>2, <1>3, <1>5, <1>9 DEF BufferOK
<1>11. NewSlotOK'
  <2>1. new.used /\ new.name = n /\ new.ext = e
    BY <1>6 DEF NewEntry, Entry
  <2>2. Matches(disk[p], n, e)' = {}
    BY <1>2, <1>4 DEF Matches
  <2> QED
    BY <2>1, <2>2, <1>2, <1>3, <1>5, <1>6, <1>7, <1>9 DEF NewSlotOK, Matches
<1>12. NewChainOK'
  BY <1>2, <1>7 DEF NewChainOK
<1>13. RoomOK'
  <2>1. EmptyFrom(cursor)' = EmptyFrom(2)
    BY <1>2 DEF EmptyFrom
  <2>2. BlockCount(req.size)' = BlockCount(l.size) /\ BlockCount(l.size) \in Nat
    BY <1>3, SizeTypes, CallerAssumption DEF BlockCount
  <2>3. Cardinality(EmptyFrom(2)) >= BlockCount(l.size) - 0
    BY <1>4, <2>2 DEF EnoughSpace
  <2> QED
    BY <1>2, <2>1, <2>2, <2>3 DEF RoomOK
<1> QED
  BY <1>10, <1>11, <1>12, <1>13

LEMMA WriteStartInv ==
  ASSUME FAT32Inv,
         NEW n \in Names, NEW e \in Exts, NEW p \in Clusters, NEW l \in Loads,
         WriteStart(n, e, p, l)
  PROVE  FAT32Inv'
<1>1. TypeOK' /\ CallOK'
  BY WriteStartType DEF FAT32Inv
<1>2. pc = "idle" /\ pc' = "write" /\ UNCHANGED <<sig, dfat, disk>>
  BY DEF WriteStart, diskVars
<1>3. FormatOK' /\ ImageInv'
  BY <1>2, ImageKept DEF FAT32Inv, FormatOK, FormatSteps, WriteStart
<1>4. BufferOK' /\ NewSlotOK' /\ NewChainOK' /\ RoomOK'
  BY WriteStartMemory DEF FAT32Inv, MemoryInv
<1>5. NewEntryOK' /\ FreedOK' /\ CacheCoherent' /\ WalkOnChain'
  BY <1>2 DEF NewEntryOK, FreedOK, CacheCoherent, WalkOnChain
<1> QED
  BY <1>1, <1>3, <1>4, <1>5 DEF FAT32Inv, MemoryInv

(* A write of a cluster that leaves the entries in use, and the root's     *)
(* mark, as they are.                                                      *)
LEMMA EntriesKept ==
  ASSUME ImageInv, UNCHANGED <<sig, dfat>>,
         pc \in WriteSteps, pc' \in WriteSteps, sig,
         Live(dfat)' = Live(dfat),
         \A e \in Live(dfat) : disk'[e[1]].table[e[2]] = disk[e[1]].table[e[2]],
         disk'[ROOT].dir
  PROVE  ImageInv'
<1>1. \A e \in Live(dfat) : Start(e)' = Start(e)
  BY DEF Start
<1>2. LinksForward'
  BY DEF ImageInv, LinksForward
<1>3. NoCrossLinks'
  BY <1>1 DEF ImageInv, NoCrossLinks
<1>4. NoDangling'
  BY <1>1 DEF ImageInv, NoDangling, WriteSteps
<1>5. RootIntact'
  BY DEF ImageInv, RootIntact, WriteSteps
<1>6. UniqueNames'
  <2>1. ASSUME NEW e \in Live(dfat), NEW g \in Live(dfat), e[1] = g[1], e # g
        PROVE  \/ disk'[e[1]].table[e[2]].name # disk'[g[1]].table[g[2]].name
               \/ disk'[e[1]].table[e[2]].ext  # disk'[g[1]].table[g[2]].ext
    <3>1. /\ disk'[e[1]].table[e[2]] = disk[e[1]].table[e[2]]
          /\ disk'[g[1]].table[g[2]] = disk[g[1]].table[g[2]]
      OBVIOUS
    <3> QED
      BY <2>1, <3>1 DEF ImageInv, UniqueNames
  <2> QED
    BY <2>1 DEF UniqueNames
<1> QED
  BY <1>2, <1>3, <1>4, <1>5, <1>6 DEF ImageInv

LEMMA EmptyFromFinite ==
  ASSUME NEW k \in Nat
  PROVE  IsFiniteSet(EmptyFrom(k)) /\ Cardinality(EmptyFrom(k)) \in Nat
<1>1. EmptyFrom(k) \in SUBSET (k .. CLUSTER_MAP_SIZE - 1)
  BY DEF EmptyFrom
<1>2. IsFiniteSet(k .. CLUSTER_MAP_SIZE - 1)
  BY FS_Interval, SizeAssumption
<1> QED
  BY <1>1, <1>2, FS_Subset, FS_CardinalityType

(* What a round of write() does to the image.                              *)
LEMMA WriteBlockImage ==
  ASSUME TypeOK, NewChainOK, WriteBlock, NEW f, f = Min(EmptyFrom(cursor))
  PROVE  /\ f \in DataClusters /\ dfat[f] = EMPTY /\ fat[f] = EMPTY
         /\ cursor \in DataClusters
         /\ disk'[f] = Block
         /\ \A c \in DataClusters : c # f => disk'[c] = disk[c]
         /\ Live(dfat)' = Live(dfat)
         /\ \A e \in Live(dfat) : /\ Start(e)' = Start(e)
                                  /\ disk'[e[1]].table[e[2]] = disk[e[1]].table[e[2]]
<1>1. /\ pc = "write" /\ dfat' = dfat /\ disk' = [disk EXCEPT ![f] = Block]
      /\ EmptyFrom(cursor) # {}
  BY DEF WriteBlock
<1>2. f \in Clusters /\ cursor <= f /\ fat[f] = EMPTY
  BY <1>1, RoundCluster
<1>3. cursor \in DataClusters
  BY <1>1, ConstantTypes DEF NewChainOK, ROOT, TypeOK
<1>4. f \in DataClusters
  BY <1>2, <1>3, SizeAssumption DEF DataClusters, Clusters, ROOT
<1>5. dfat[f] = EMPTY
  BY <1>1, <1>2 DEF NewChainOK
<1>6. disk'[f] = Block /\ \A c \in DataClusters : c # f => disk'[c] = disk[c]
  <2>1. disk \in [DataClusters -> Image]
    BY DEF TypeOK
  <2> QED
    BY <2>1, <1>1, <1>4
<1>7. \A c \in DataClusters : dfat[c] = EOF => c # f
  BY <1>5 DEF EMPTY, EOF
<1>8. Live(dfat)' = Live(dfat)
  BY <1>1, <1>6, <1>7 DEF Live
<1>9. \A e \in Live(dfat) : disk'[e[1]].table[e[2]] = disk[e[1]].table[e[2]]
  BY <1>6, <1>7 DEF Live
<1> QED
  BY <1>2, <1>3, <1>4, <1>5, <1>6, <1>8, <1>9 DEF Start

(* What a round of write() keeps, whatever the rest of the disk looks      *)
(* like.                                                                   *)
LEMMA WriteBlockMemory ==
  ASSUME TypeOK, CallOK, NewChainOK, BufferOK, NewSlotOK, RoomOK, WriteBlock
  PROVE  BufferOK' /\ NewSlotOK' /\ NewChainOK' /\ RoomOK'
<1> DEFINE f == Min(EmptyFrom(cursor))
           h == dirbuf.table[slot].first
<1>3. /\ pc = "write" /\ pc' \in {"write", "write_fat"}
      /\ UNCHANGED <<sig, dfat, req, slot>>
      /\ fat' = Linked(f) /\ disk' = [disk EXCEPT ![f] = Block]
      /\ cursor' = f /\ i' = i + 1
      /\ EmptyFrom(cursor) # {}
      /\ dirbuf' = IF i = 0
                     THEN PutEntry(dirbuf, slot, [dirbuf.table[slot] EXCEPT !.first = f])
                     ELSE dirbuf
  BY DEF WriteBlock
<1>4. /\ sig /\ slot \in Slots /\ req.parent \in DataClusters /\ i \in Nat
      /\ dirbuf \in Image /\ dirbuf.table[slot] \in Entry
  BY <1>3 DEF TypeOK, CallOK, WriteSteps, Image
<1>5. /\ f \in Clusters /\ cursor <= f /\ fat[f] = EMPTY
      /\ \A c \in EmptyFrom(cursor) : f <= c
  BY <1>3, RoundCluster
<1>6. cursor \in DataClusters
  BY <1>3, <1>4, ConstantTypes DEF NewChainOK, ROOT
<1>7. f \in DataClusters /\ f \in Nat /\ cursor \in Nat
  BY <1>5, <1>6, SizeAssumption DEF DataClusters, Clusters, ROOT
<1>8. dfat[f] = EMPTY
  BY WriteBlockImage
<1>9. /\ \A c \in DataClusters : c # f => disk'[c] = disk[c]
      /\ disk'[f] = Block
  BY WriteBlockImage
<1>10. req.parent # f
  BY <1>3, <1>8 DEF NewSlotOK, WriteSteps, EMPTY, EOF
<1>13. /\ dirbuf'.dir = dirbuf.dir
       /\ \A s \in Slots : s # slot => dirbuf'.table[s] = dirbuf.table[s]
       /\ dirbuf'.table[slot] = IF i = 0 THEN [dirbuf.table[slot] EXCEPT !.first = f]
                                         ELSE dirbuf.table[slot]
  BY <1>3, <1>4, PutEntryValue
<1>14. disk'[req.parent] = disk[req.parent]
  BY <1>4, <1>9, <1>10
<1>15. BufferOK'
  BY <1>3, <1>13, <1>14 DEF BufferOK, WriteSteps
<1>16. NewSlotOK'
  <2>1. /\ dirbuf'.table[slot].used = dirbuf.table[slot].used
        /\ dirbuf'.table[slot].name = dirbuf.table[slot].name
        /\ dirbuf'.table[slot].ext = dirbuf.table[slot].ext
    BY <1>4, <1>13 DEF Entry
  <2>2. Matches(disk[req.parent], req.name, req.ext)' = Matches(disk[req.parent], req.name, req.ext)
    BY <1>3, <1>14 DEF Matches
  <2> QED
    BY <1>3, <1>14, <2>1, <2>2 DEF NewSlotOK, WriteSteps
<1>17. NewHead' = IF i = 0 THEN f ELSE h
  BY <1>3, <1>4, <1>13 DEF NewHead, Entry
<1>18. NoEntries(disk[cursor])'
  BY <1>3, <1>9, BlockType DEF NoEntries
<1> HIDE DEF f, h
<1>19. NewChainOK'
  <2>1. \A c \in Clusters : dfat'[c] # EMPTY => fat'[c] = dfat'[c]
    <3>1. fat \in [Clusters -> FatValues] /\ i \in Nat
      BY DEF TypeOK
    <3>2. i > 0 => dfat[cursor] = EMPTY
      BY <1>3 DEF NewChainOK
    <3>3. \A c \in Clusters : dfat[c] # EMPTY => fat[c] = dfat[c]
      BY <1>3 DEF NewChainOK
    <3> QED
      BY <3>1, <3>2, <3>3, <1>3 DEF Linked
  <2>2. NewHead' \in DataClusters /\ NewHead' <= f /\ dfat[NewHead'] = EMPTY
    BY <1>3, <1>4, <1>5, <1>7, <1>8, <1>17, ConstantTypes DEF NewChainOK, NewHead, h
  <2>3. CASE i = 0
    <3>1. fat = dfat /\ fat' = dfat'
      BY <2>3, <1>3 DEF NewChainOK, Linked
    <3>2. NewHead' = f /\ cursor' = f
      BY <2>3, <1>17, <1>3
    <3>3. \A c \in DataClusters : ~Linking(c)'
      BY <3>1 DEF Linking
    <3>4. i' = 1 /\ fat'[f] = EMPTY /\ dfat'[f] = EMPTY
      BY <3>1, <2>3, <1>3, <1>8
    <3> QED
      BY <3>2, <3>3, <3>4, <2>1, <1>3, <1>7, <1>18 DEF NewChainOK
  <2>4. CASE i > 0
    <3>1. /\ dfat[cursor] = EMPTY /\ fat[cursor] \in {EMPTY, cursor}
          /\ h \in DataClusters /\ h <= cursor /\ dfat[h] = EMPTY
          /\ h = cursor \/ fat[h] # EMPTY
      BY <2>4, <1>3 DEF NewChainOK, NewHead, h
    <3>2. NewHead' = h /\ i' > 0
      BY <2>4, <1>3, <1>4, <1>17
    <3>3. /\ fat' = [fat EXCEPT ![cursor] = f]
          /\ fat \in [Clusters -> FatValues] /\ cursor \in Clusters
          /\ dfat \in [Clusters -> FatValues]
      BY <2>4, <1>3, <1>6, ConstantTypes DEF Linked, TypeOK
    <3>4. fat[cursor] = EMPTY => f = cursor
      BY <1>5, <1>6, <1>7, ConstantTypes, SizeAssumption
      DEF EmptyFrom, DataClusters, Clusters, ROOT
    <3>5. fat[cursor] = cursor => f > cursor
      BY <1>5, <1>6, <1>7 DEF DataClusters, ROOT, EMPTY
    \* The cluster just linked, and those linked before.
    <3>6. \A c \in DataClusters : Linking(c)' => Linking(c) \/ (c = cursor /\ f # cursor)
      BY <3>3, <1>3, ConstantTypes DEF Linking
    <3>7. ASSUME NEW c \in DataClusters, Linking(c)'
          PROVE  /\ fat'[c] \in DataClusters /\ fat'[c] > c /\ fat'[c] # h
                 /\ dfat[fat'[c]] = EMPTY
                 /\ fat'[fat'[c]] # EMPTY \/ fat'[c] = f
      <4>1. CASE Linking(c) /\ c # cursor
        <5>1. /\ fat[c] \in DataClusters /\ fat[c] > c /\ fat[c] # h
              /\ dfat[fat[c]] = EMPTY
              /\ fat[fat[c]] # EMPTY \/ fat[c] = cursor
          BY <4>1, <2>4, <1>3 DEF NewChainOK, NewHead, h
        <5>2. fat'[c] = fat[c]
          BY <4>1, <3>3, ConstantTypes
        <5>3. fat'[cursor] = f /\ f # EMPTY
          BY <3>3, <1>7 DEF DataClusters, ROOT, EMPTY
        <5>4. fat[c] # cursor => fat'[fat[c]] = fat[fat[c]]
          BY <5>1, <3>3, ConstantTypes
        <5> QED
          BY <5>1, <5>2, <5>3, <5>4
      <4>2. CASE c = cursor /\ f # cursor
        <5>1. f > cursor /\ fat'[c] = f
          BY <4>2, <3>1, <3>3, <3>4, <3>5
        <5> QED
          BY <5>1, <4>2, <3>1, <1>6, <1>7, <1>8 DEF DataClusters, ROOT
      <4> QED
        BY <4>1, <4>2, <3>6, <3>7 DEF Linking
    <3>8. ASSUME NEW c \in DataClusters, NEW d \in DataClusters,
                 Linking(c)', Linking(d)', c # d
          PROVE  fat'[c] # fat'[d]
      <4>1. ASSUME NEW x \in DataClusters, Linking(x), x # cursor
            PROVE  fat'[x] = fat[x] /\ (f # cursor => fat[x] # f)
        <5>1. fat[fat[x]] # EMPTY \/ fat[x] = cursor
          BY <4>1, <2>4, <1>3 DEF NewChainOK
        <5> QED
          BY <5>1, <4>1, <3>3, <1>5, ConstantTypes
      <4>2. fat'[cursor] = f
        BY <3>3
      <4>3. CASE c # cursor /\ d # cursor
        <5>1. Linking(c) /\ Linking(d)
          BY <4>3, <3>6, <3>8
        <5>2. fat[c] # fat[d]
          BY <5>1, <3>8, <2>4, <1>3 DEF NewChainOK
        <5> QED
          BY <5>1, <5>2, <4>1, <4>3
      <4>4. CASE c = cursor
        <5>1. f # cursor /\ Linking(d) /\ d # cursor
          BY <4>4, <3>6, <3>8 DEF Linking
        <5> QED
          BY <5>1, <4>1, <4>2, <4>4
      <4>5. CASE d = cursor
        <5>1. f # cursor /\ Linking(c) /\ c # cursor
          BY <4>5, <3>6, <3>8 DEF Linking
        <5> QED
          BY <5>1, <4>1, <4>2, <4>5
      <4> QED
        BY <4>3, <4>4, <4>5
    <3>9. fat'[f] \in {EMPTY, f}
      BY <3>3, <1>5
    <3>10. h = f \/ fat'[h] # EMPTY
      <4>1. CASE h = cursor
        BY <4>1, <3>3, <1>7 DEF DataClusters, ROOT, EMPTY
      <4>2. CASE h # cursor
        BY <4>2, <3>1, <3>3, ConstantTypes
      <4> QED
        BY <4>1, <4>2
    <3> QED
      BY <3>2, <3>7, <3>8, <3>9, <3>10, <2>1, <2>2, <1>3, <1>7, <1>8, <1>18 DEF NewChainOK
  <2> QED
    BY <2>3, <2>4, <1>4
<1>20. RoomOK'
  <2> DEFINE E == EmptyFrom(cursor)
             need == BlockCount(req.size) - i
  <2>1. IsFiniteSet(E) /\ Cardinality(E) \in Nat /\ BlockCount(req.size) \in Nat
    BY <1>7, EmptyFromFinite, SizeTypes DEF BlockCount, TypeOK
  <2>2. Cardinality(E) >= need
    BY <1>3 DEF RoomOK
  <2>3. (BlockCount(req.size) - i)' = need - 1
    BY <1>3, <1>4, <2>1
  <2>4. CASE fat' = fat
    <3>1. EmptyFrom(cursor)' = E
      BY <2>4, <1>3, <1>5, <1>7 DEF EmptyFrom
    <3> QED
      BY <3>1, <2>1, <2>2, <2>3, <1>4 DEF RoomOK
  <2>5. CASE fat' # fat
    <3>1. fat' = [fat EXCEPT ![cursor] = f] /\ fat \in [Clusters -> FatValues]
      BY <2>5, <1>3 DEF Linked, TypeOK
    <3>2. f # EMPTY
      BY <1>7 DEF DataClusters, ROOT, EMPTY
    <3>3. EmptyFrom(cursor)' = E \ {cursor}
      <4>1. \A c \in Clusters : fat'[c] = EMPTY <=> fat[c] = EMPTY /\ c # cursor
        BY <3>1, <3>2
      <4>2. \A c \in f .. CLUSTER_MAP_SIZE - 1 : c \in Clusters
        BY <1>7, SizeAssumption DEF Clusters
      <4>3. \A c \in cursor .. CLUSTER_MAP_SIZE - 1 : c \in Clusters
        BY <1>7, SizeAssumption DEF Clusters
      <4>4. EmptyFrom(cursor)' = {c \in f .. CLUSTER_MAP_SIZE - 1 : fat'[c] = EMPTY}
        BY <1>3 DEF EmptyFrom
      <4>5. ASSUME NEW c \in E, c # cursor PROVE c \in EmptyFrom(cursor)'
        BY <4>1, <4>3, <4>4, <4>5, <1>5, <1>7 DEF EmptyFrom
      <4>6. ASSUME NEW c \in EmptyFrom(cursor)' PROVE c \in E /\ c # cursor
        BY <4>1, <4>2, <4>4, <1>5, <1>7 DEF EmptyFrom
      <4> QED
        BY <4>5, <4>6
    <3>4. Cardinality(E \ {cursor}) >= Cardinality(E) - 1
      BY <2>1, FS_RemoveElement
    <3>5. Cardinality(E \ {cursor}) \in Nat
      BY <2>1, FS_RemoveElement, FS_CardinalityType
    <3> QED
      BY <3>3, <3>4, <3>5, <2>1, <2>2, <2>3, <1>4 DEF RoomOK
  <2> QED
    BY <2>4, <2>5
<1> QED
  BY <1>15, <1>16, <1>19, <1>20

LEMMA WriteBlockInv ==
  ASSUME FAT32Inv, WriteBlock
  PROVE  FAT32Inv'
<1>0. PICK f : f = Min(EmptyFrom(cursor))
  OBVIOUS
<1>1. TypeOK' /\ CallOK'
  BY StepsType DEF FAT32Inv, Steps
<1>2. TypeOK /\ CallOK /\ NewChainOK /\ BufferOK /\ NewSlotOK /\ RoomOK /\ ImageInv
  BY DEF FAT32Inv, MemoryInv
<1>3. pc = "write" /\ pc' \in {"write", "write_fat"} /\ UNCHANGED <<sig, dfat, req, slot>>
  BY DEF WriteBlock
<1>4. sig
  BY <1>2, <1>3 DEF CallOK, WriteSteps
<1>5. /\ dfat[f] = EMPTY
      /\ \A c \in DataClusters : c # f => disk'[c] = disk[c]
      /\ Live(dfat)' = Live(dfat)
      /\ \A e \in Live(dfat) : disk'[e[1]].table[e[2]] = disk[e[1]].table[e[2]]
  BY <1>0, <1>2, WriteBlockImage
<1>6. dfat[ROOT] = EOF /\ disk[ROOT].dir
  BY <1>2, <1>3, <1>4 DEF ImageInv, RootIntact
<1>7. disk'[ROOT].dir
  BY <1>5, <1>6, ConstantTypes DEF EMPTY, EOF
<1>8. ImageInv'
  BY <1>2, <1>3, <1>4, <1>5, <1>7, EntriesKept DEF WriteSteps
<1>9. FormatOK'
  BY <1>3, <1>4 DEF FormatOK, FormatSteps
<1>10. BufferOK' /\ NewSlotOK' /\ NewChainOK' /\ RoomOK'
  BY <1>2, WriteBlockMemory
<1>11. NewEntryOK' /\ FreedOK' /\ CacheCoherent' /\ WalkOnChain'
  BY <1>3 DEF NewEntryOK, FreedOK, CacheCoherent, WalkOnChain
<1> QED
  BY <1>1, <1>8, <1>9, <1>10, <1>11 DEF FAT32Inv, MemoryInv

(* What the write of the FAT at the end of write() does to the image: the  *)
(* links on the new disk that were not on the old one lead to clusters     *)
(* that were free, and no directory comes or goes.                         *)
LEMMA WriteFatImage ==
  ASSUME TypeOK, CallOK, NewChainOK, WriteFat
  PROVE  /\ i > 0 /\ cursor \in DataClusters /\ dfat[cursor] = EMPTY
         /\ dfat'[cursor] = EOF
         /\ \A c \in DataClusters : c # cursor => dfat'[c] = fat[c]
         /\ \A c \in DataClusters : dfat[c] # EMPTY => dfat'[c] = dfat[c]
         /\ \A c \in DataClusters : Linking(c) => fat[c] \in DataClusters /\ dfat[fat[c]] = EMPTY
         /\ \A c \in DataClusters :
              c = cursor \/ dfat[c] # EMPTY \/ dfat'[c] = EMPTY \/ Linking(c)
         /\ Live(dfat)' = Live(dfat)
         /\ NewHead' = NewHead
<1> DEFINE h == dirbuf.table[slot].first
<1>3. /\ pc = "write_fat"
      /\ UNCHANGED <<disk, slot, cursor, i>>
      /\ dfat' = [fat EXCEPT ![cursor] = EOF]
      /\ dirbuf' = PutEntry(dirbuf, slot, [dirbuf.table[slot] EXCEPT !.size = i * CLUSTER_SIZE])
  BY DEF WriteFat, Ended, callVars
<1>4. /\ slot \in Slots /\ dirbuf \in Image /\ dirbuf.table[slot] \in Entry
      /\ fat \in [Clusters -> FatValues] /\ dfat \in [Clusters -> FatValues]
  BY <1>3 DEF TypeOK, CallOK, WriteSteps, Image
<1>5. i > 0
  BY <1>3 DEF NewChainOK, TypeOK
<1>6. /\ \A c \in Clusters : dfat[c] # EMPTY => fat[c] = dfat[c]
      /\ cursor \in DataClusters /\ dfat[cursor] = EMPTY
      /\ NoEntries(disk[cursor])
  BY <1>3, <1>5 DEF NewChainOK
<1>7. \A c \in DataClusters : Linking(c) => fat[c] \in DataClusters /\ dfat[fat[c]] = EMPTY
  BY <1>3, <1>5 DEF NewChainOK
<1>8. \A c \in DataClusters : c \in Clusters /\ c # EMPTY /\ c # EOF
  BY ConstantTypes DEF DataClusters, ROOT, EMPTY
<1>9. /\ dfat'[cursor] = EOF
      /\ \A c \in Clusters : c # cursor => dfat'[c] = fat[c]
      /\ \A c \in Clusters : dfat[c] # EMPTY => dfat'[c] = dfat[c]
  BY <1>3, <1>4, <1>6, <1>8
<1>10. \A c \in DataClusters :
         c = cursor \/ dfat[c] # EMPTY \/ dfat'[c] = EMPTY \/ Linking(c)
  BY <1>8, <1>9 DEF Linking
<1>11. Live(dfat)' = Live(dfat)
  <2>1. \A c \in DataClusters : c # cursor => (dfat'[c] = EOF <=> dfat[c] = EOF)
    <3>1. \A c \in DataClusters : Linking(c) => dfat'[c] # EOF /\ dfat[c] # EOF
      BY <1>7, <1>8, <1>9 DEF Linking, EMPTY, EOF
    <3> QED
      BY <3>1, <1>8, <1>9, <1>10 DEF EMPTY, EOF
  <2>2. dfat[cursor] # EOF
    BY <1>6 DEF EMPTY, EOF
  <2>3. disk[cursor].dir => \A s \in Slots : ~disk[cursor].table[s].used
    BY <1>6 DEF NoEntries
  <2> QED
    BY <2>1, <2>2, <2>3, <1>3 DEF Live
<1>12. NewHead' = NewHead
  <2>1. dirbuf'.table[slot] = [dirbuf.table[slot] EXCEPT !.size = i * CLUSTER_SIZE]
    BY <1>3, <1>4, PutEntryValue
  <2> QED
    BY <2>1, <1>3, <1>4 DEF Entry, NewHead
<1> QED
  BY <1>5, <1>6, <1>7, <1>8, <1>9, <1>10, <1>11, <1>12

(* The end of the chain is written to the FAT, and the entry's size to the *)
(* directory buffer.                                                       *)
LEMMA WriteFatMemory ==
  ASSUME TypeOK, CallOK, NewChainOK, BufferOK, NewSlotOK, WriteFat
  PROVE  BufferOK' /\ NewSlotOK'
<1>3. /\ pc = "write_fat" /\ pc' = "write_dir"
      /\ UNCHANGED <<disk, req, slot>>
      /\ dirbuf' = PutEntry(dirbuf, slot, [dirbuf.table[slot] EXCEPT !.size = i * CLUSTER_SIZE])
  BY DEF WriteFat, callVars
<1>4. /\ slot \in Slots /\ req.parent \in DataClusters
      /\ dirbuf \in Image /\ dirbuf.table[slot] \in Entry
  BY <1>3 DEF TypeOK, CallOK, WriteSteps, Image
<1>9. \A c \in DataClusters : dfat[c] # EMPTY => dfat'[c] = dfat[c]
  BY WriteFatImage
<1>21. /\ dirbuf'.dir = dirbuf.dir
       /\ \A s \in Slots : s # slot => dirbuf'.table[s] = dirbuf.table[s]
       /\ dirbuf'.table[slot] = [dirbuf.table[slot] EXCEPT !.size = i * CLUSTER_SIZE]
  BY <1>3, <1>4, PutEntryValue
<1>22. /\ dirbuf'.table[slot].used = dirbuf.table[slot].used
       /\ dirbuf'.table[slot].name = dirbuf.table[slot].name
       /\ dirbuf'.table[slot].ext = dirbuf.table[slot].ext
  BY <1>3, <1>4, <1>21 DEF Entry
<1>23. BufferOK'
  BY <1>3, <1>21 DEF BufferOK, WriteSteps
<1>24. NewSlotOK'
  <2>1. dfat[req.parent] = EOF
    BY <1>3 DEF NewSlotOK, WriteSteps
  <2>2. dfat'[req.parent] = EOF
    BY <2>1, <1>4, <1>9 DEF EMPTY, EOF
  <2>3. Matches(disk[req.parent], req.name, req.ext)' = Matches(disk[req.parent], req.name, req.ext)
    BY <1>3 DEF Matches
  <2> QED
    BY <2>2, <2>3, <1>3, <1>4, <1>22 DEF NewSlotOK, WriteSteps
<1> QED
  BY <1>23, <1>24

LEMMA WriteFatInv ==
  ASSUME FAT32Inv, WriteFat
  PROVE  FAT32Inv'
<1> DEFINE h == dirbuf.table[slot].first
<1>1. TypeOK' /\ CallOK'
  BY StepsType DEF FAT32Inv, Steps
<1>2. TypeOK /\ CallOK /\ NewChainOK /\ BufferOK /\ NewSlotOK /\ ImageInv
  BY DEF FAT32Inv, MemoryInv
<1>3. /\ pc = "write_fat" /\ pc' = "write_dir"
      /\ UNCHANGED <<sig, disk, req, slot, cursor, i>>
      /\ fat' = [fat EXCEPT ![cursor] = EOF] /\ dfat' = [fat EXCEPT ![cursor] = EOF]
      /\ dirbuf' = PutEntry(dirbuf, slot, [dirbuf.table[slot] EXCEPT !.size = i * CLUSTER_SIZE])
  BY DEF WriteFat, Ended, callVars
<1>4. /\ sig /\ slot \in Slots /\ req.parent \in DataClusters
      /\ dirbuf \in Image /\ dirbuf.table[slot] \in Entry
      /\ fat \in [Clusters -> FatValues] /\ dfat \in [Clusters -> FatValues]
  BY <1>2, <1>3 DEF TypeOK, CallOK, WriteSteps, Image
<1>5. i > 0
  BY <1>2, <1>3 DEF NewChainOK, TypeOK
<1>6. /\ \A c \in Clusters : dfat[c] # EMPTY => fat[c] = dfat[c]
      /\ cursor \in DataClusters /\ dfat[cursor] = EMPTY
      /\ NoEntries(disk[cursor])
      /\ h \in DataClusters /\ dfat[h] = EMPTY
      /\ h = cursor \/ fat[h] # EMPTY
  BY <1>2, <1>3, <1>5 DEF NewChainOK, NewHead, h
<1>7. ASSUME NEW c \in DataClusters, Linking(c)
      PROVE  /\ fat[c] \in DataClusters /\ fat[c] > c /\ fat[c] # h
             /\ dfat[fat[c]] = EMPTY
             /\ fat[fat[c]] # EMPTY \/ fat[c] = cursor
  BY <1>7, <1>2, <1>3, <1>5 DEF NewChainOK, NewHead, h
<1> HIDE DEF h
<1>8. \A c \in DataClusters : c \in Clusters /\ c # EMPTY /\ c # EOF
  BY ConstantTypes DEF DataClusters, ROOT, EMPTY
<1>9. /\ dfat'[cursor] = EOF
      /\ \A c \in DataClusters : c # cursor => dfat'[c] = fat[c]
      /\ \A c \in DataClusters : dfat[c] # EMPTY => dfat'[c] = dfat[c]
  BY <1>2, WriteFatImage
<1>10. \A c \in DataClusters :
         \/ c = cursor
         \/ dfat[c] # EMPTY
         \/ dfat'[c] = EMPTY
         \/ Linking(c)
  BY <1>2, WriteFatImage
<1>11. LinksForward'
  <2> SUFFICES ASSUME NEW c \in DataClusters, dfat'[c] \notin {EMPTY, EOF}
               PROVE  dfat'[c] \in DataClusters /\ dfat'[c] > c /\ dfat'[dfat'[c]] # EMPTY
    BY DEF LinksForward
  <2>1. CASE dfat[c] # EMPTY
    <3>1. dfat'[c] = dfat[c]
      BY <2>1, <1>8, <1>9
    <3>2. dfat[c] \in DataClusters /\ dfat[c] > c /\ dfat[dfat[c]] # EMPTY
      BY <3>1, <1>2, <2>1 DEF ImageInv, LinksForward
    <3> QED
      BY <3>1, <3>2, <1>8, <1>9
  <2>2. CASE Linking(c)
    <3>1. dfat'[c] = fat[c]
      BY <2>2, <1>8, <1>9 DEF Linking
    <3>2. dfat'[fat[c]] # EMPTY
      BY <2>2, <1>7, <1>8, <1>9 DEF EOF, EMPTY
    <3> QED
      BY <3>1, <3>2, <2>2, <1>7
  <2> QED
    BY <2>1, <2>2, <1>9, <1>10
<1>12. Live(dfat)' = Live(dfat)
  BY <1>2, WriteFatImage
<1>13. \A e \in Live(dfat) : /\ Start(e)' = Start(e) /\ Start(e) \in DataClusters \ {ROOT}
                             /\ dfat[Start(e)] # EMPTY
  BY <1>2, <1>3 DEF ImageInv, NoDangling, Start
\* A link on the new disk that was not on the old one leads to a cluster
\* that was free.
<1>14. \A c \in DataClusters :
         /\ dfat'[c] \in DataClusters
         => dfat'[c] = dfat[c] \/ (Linking(c) /\ dfat'[c] = fat[c] /\ dfat[dfat'[c]] = EMPTY)
  BY <1>7, <1>8, <1>9, <1>10 DEF Linking
<1>15. \A c \in DataClusters : dfat[c] \in DataClusters => dfat[dfat[c]] # EMPTY
  BY <1>2, <1>8 DEF ImageInv, LinksForward
<1>16. NoCrossLinks'
  <2>1. ASSUME NEW c \in DataClusters, NEW d \in DataClusters, c # d, dfat'[c] \in DataClusters
        PROVE  dfat'[c] # dfat'[d]
    <3> SUFFICES ASSUME dfat'[c] = dfat'[d] PROVE FALSE
      OBVIOUS
    <3>1. CASE dfat'[c] = dfat[c] /\ dfat'[d] = dfat[d]
      BY <3>1, <2>1, <1>2 DEF ImageInv, NoCrossLinks
    <3>2. CASE Linking(c) /\ Linking(d) /\ dfat'[c] = fat[c] /\ dfat'[d] = fat[d]
      BY <3>2, <2>1, <1>2, <1>3, <1>5 DEF NewChainOK
    <3> QED
      BY <3>1, <3>2, <2>1, <1>14, <1>15
  <2>2. ASSUME NEW e \in Live(dfat), NEW c \in DataClusters
        PROVE  dfat'[c] # Start(e)
    <3>1. dfat[c] # Start(e)
      BY <1>2 DEF ImageInv, NoCrossLinks
    <3> QED
      BY <3>1, <1>13, <1>14
  <2>3. \A e, g \in Live(dfat) : e # g => Start(e) # Start(g)
    BY <1>2 DEF ImageInv, NoCrossLinks
  <2> QED
    BY <2>1, <2>2, <2>3, <1>12, <1>13 DEF NoCrossLinks
<1>17. NoDangling'
  BY <1>8, <1>9, <1>12, <1>13 DEF NoDangling
<1>18. RootIntact'
  <2>1. /\ dfat[ROOT] = EOF /\ disk[ROOT].dir
        /\ \A c \in DataClusters : dfat[c] # ROOT
    BY <1>2, <1>3, <1>4 DEF ImageInv, RootIntact
  <2>2. ROOT \in DataClusters
    BY ConstantTypes
  <2>3. dfat'[ROOT] = EOF
    BY <2>1, <2>2, <1>8, <1>9 DEF EMPTY, EOF
  <2>4. \A c \in DataClusters : dfat'[c] # ROOT
    BY <2>1, <2>2, <1>14 DEF EMPTY, EOF
  <2> QED
    BY <2>1, <2>3, <2>4, <1>3 DEF RootIntact
<1>19. UniqueNames'
  BY <1>2, <1>3, <1>12 DEF ImageInv, UniqueNames
<1>20. FormatOK'
  BY <1>3, <1>4 DEF FormatOK, FormatSteps
<1>22. NewHead' = h
  BY <1>2, WriteFatImage DEF NewHead, h
<1>23. BufferOK' /\ NewSlotOK'
  BY <1>2, WriteFatMemory
<1>25. NewEntryOK'
  <2>1. h # ROOT /\ h \in DataClusters
    BY <1>2, <1>3, <1>4, <1>6 DEF ImageInv, RootIntact, EMPTY, EOF
  <2>2. dfat'[h] # EMPTY
    BY <1>6, <1>8, <1>9 DEF EMPTY, EOF
  <2>3. \A c \in DataClusters : dfat'[c] # h
    BY <2>1, <1>6, <1>7, <1>14, <1>15
  <2>4. \A e \in Live(dfat) : Start(e) # h
    BY <1>6, <1>13
  <2> QED
    BY <2>1, <2>2, <2>3, <2>4, <1>3, <1>12, <1>13, <1>22 DEF NewEntryOK
<1>26. NewChainOK' /\ RoomOK' /\ FreedOK' /\ CacheCoherent' /\ WalkOnChain'
  BY <1>3 DEF NewChainOK, RoomOK, FreedOK, CacheCoherent, WalkOnChain
<1> QED
  BY <1>1, <1>11, <1>16, <1>17, <1>18, <1>19, <1>20, <1>23, <1>25, <1>26
  DEF FAT32Inv, MemoryInv, ImageInv

LEMMA WriteDirInv ==
  ASSUME FAT32Inv, WriteDir
  PROVE  FAT32Inv'
<1>0. PICK p, k : p = req.parent /\ k = slot
  OBVIOUS
<1> DEFINE new == <<p, k>>
<1>1. TypeOK' /\ CallOK'
  BY StepsType DEF FAT32Inv, Steps
<1>2. TypeOK /\ CallOK /\ NewEntryOK /\ BufferOK /\ NewSlotOK /\ ImageInv
  BY DEF FAT32Inv, MemoryInv
<1>3. /\ pc = "write_dir" /\ pc' = "idle" /\ UNCHANGED <<sig, dfat, fat>>
      /\ disk' = [disk EXCEPT ![p] = dirbuf]
  BY <1>0 DEF WriteDir, Return
<1>4. sig /\ k \in Slots /\ p \in DataClusters /\ disk \in [DataClusters -> Image]
  BY <1>0, <1>2, <1>3 DEF TypeOK, CallOK, WriteSteps
<1>5. /\ dirbuf.dir /\ disk[p].dir
      /\ \A s \in Slots : s # k => dirbuf.table[s] = disk[p].table[s]
  BY <1>0, <1>2, <1>3 DEF BufferOK, WriteSteps
<1>6. /\ dfat[p] = EOF /\ ~disk[p].table[k].used /\ dirbuf.table[k].used
      /\ dirbuf.table[k].name = req.name /\ dirbuf.table[k].ext = req.ext
      /\ Matches(disk[p], req.name, req.ext) = {}
  BY <1>0, <1>2, <1>3 DEF NewSlotOK, WriteSteps
<1>20. PICK h : h = dirbuf.table[k].first
  OBVIOUS
<1>7. /\ h \in DataClusters \ {ROOT} /\ dfat[h] # EMPTY
      /\ \A c \in DataClusters : dfat[c] # h
      /\ \A e \in Live(dfat) : Start(e) # h
      /\ fat = dfat
  BY <1>0, <1>2, <1>3, <1>20 DEF NewEntryOK, NewHead
<1>8. /\ disk'[p] = dirbuf
      /\ \A c \in DataClusters : c # p => disk'[c] = disk[c]
  BY <1>3, <1>4
<1>9. \A e \in Live(dfat)' :
        \/ e = new
        \/ e \in Live(dfat) /\ disk'[e[1]].table[e[2]] = disk[e[1]].table[e[2]]
  <2> SUFFICES ASSUME NEW c \in DataClusters, NEW s \in Slots,
                      dfat[c] = EOF, disk'[c].dir, disk'[c].table[s].used, <<c, s>> # new
               PROVE  <<c, s>> \in Live(dfat) /\ disk'[c].table[s] = disk[c].table[s]
    BY <1>3 DEF Live
  <2>1. CASE c = p
    BY <2>1, <1>5, <1>8 DEF Live
  <2>2. CASE c # p
    BY <2>2, <1>8 DEF Live
  <2> QED
    BY <2>1, <2>2
<1>10. Start(new)' = h
  BY <1>8, <1>20 DEF Start
<1>11. \A e \in Live(dfat)' : \/ e = new /\ Start(e)' = h
                              \/ e # new /\ e \in Live(dfat) /\ Start(e)' = Start(e)
  <2>1. new \notin Live(dfat)
    BY <1>6 DEF Live
  <2> QED
    BY <2>1, <1>9, <1>10 DEF Start
<1>12. LinksForward'
  BY <1>2, <1>3 DEF ImageInv, LinksForward
<1> HIDE DEF new
<1>13. NoCrossLinks'
  <2>1. \A c, d \in DataClusters : c # d /\ dfat'[c] \in DataClusters => dfat'[c] # dfat'[d]
    BY <1>2, <1>3 DEF ImageInv, NoCrossLinks
  <2>2. ASSUME NEW e \in Live(dfat)', NEW c \in DataClusters
        PROVE  dfat'[c] # Start(e)'
    BY <1>2, <1>3, <1>7, <1>11 DEF ImageInv, NoCrossLinks
  <2>3. ASSUME NEW e \in Live(dfat)', NEW g \in Live(dfat)', e # g
        PROVE  Start(e)' # Start(g)'
    BY <2>3, <1>2, <1>7, <1>11 DEF ImageInv, NoCrossLinks
  <2> QED
    BY <2>1, <2>2, <2>3 DEF NoCrossLinks
<1>14. NoDangling'
  <2>1. \A e \in Live(dfat) : Start(e) \in DataClusters \ {ROOT} /\ dfat[Start(e)] # EMPTY
    BY <1>2, <1>3 DEF ImageInv, NoDangling
  <2> QED
    BY <2>1, <1>3, <1>7, <1>11 DEF NoDangling
<1>15. RootIntact'
  <2>1. /\ dfat[ROOT] = EOF /\ disk[ROOT].dir /\ \A c \in DataClusters : dfat[c] # ROOT
    BY <1>2, <1>3, <1>4 DEF ImageInv, RootIntact
  <2>2. disk'[ROOT].dir
    BY <2>1, <1>5, <1>8, ConstantTypes
  <2> QED
    BY <2>1, <2>2, <1>3 DEF RootIntact
<1>16. UniqueNames'
  <2>1. \A e \in Live(dfat)' :
          \/ e = new /\ disk'[e[1]].table[e[2]] = dirbuf.table[k]
          \/ /\ e # new /\ e \in Live(dfat)
             /\ disk'[e[1]].table[e[2]] = disk[e[1]].table[e[2]]
    <3>1. disk'[new[1]].table[new[2]] = dirbuf.table[k]
      BY <1>8 DEF new
    <3> QED
      BY <3>1, <1>9, <1>11
  <2>2. ASSUME NEW g \in Live(dfat), g[1] = p
        PROVE  disk[g[1]].table[g[2]].name # req.name \/ disk[g[1]].table[g[2]].ext # req.ext
    BY <2>2, <1>6 DEF Live, Matches
  <2>3. new[1] = p
    BY DEF new
  <2>4. ASSUME NEW e \in Live(dfat)', NEW g \in Live(dfat)', e[1] = g[1], e # g
        PROVE  \/ disk'[e[1]].table[e[2]].name # disk'[g[1]].table[g[2]].name
               \/ disk'[e[1]].table[e[2]].ext  # disk'[g[1]].table[g[2]].ext
    <3>1. CASE e = new
      <4>1. disk'[e[1]].table[e[2]] = dirbuf.table[k]
        BY <3>1, <2>1, <2>4
      <4>2. g \in Live(dfat) /\ g[1] = p /\ disk'[g[1]].table[g[2]] = disk[g[1]].table[g[2]]
        BY <3>1, <2>1, <2>3, <2>4
      <4> QED
        BY <4>1, <4>2, <2>2, <1>6, Zenon
    <3>2. CASE g = new
      <4>1. disk'[g[1]].table[g[2]] = dirbuf.table[k]
        BY <3>2, <2>1, <2>4
      <4>2. e \in Live(dfat) /\ e[1] = p /\ disk'[e[1]].table[e[2]] = disk[e[1]].table[e[2]]
        BY <3>2, <2>1, <2>3, <2>4
      <4> QED
        BY <4>1, <4>2, <2>2, <1>6, Zenon
    <3>3. CASE e # new /\ g # new
      BY <3>3, <2>1, <2>4, <1>2 DEF ImageInv, UniqueNames
    <3> QED
      BY <3>1, <3>2, <3>3
  <2> QED
    BY <2>4 DEF UniqueNames
<1>17. FormatOK'
  BY <1>3, <1>4 DEF FormatOK, FormatSteps
<1>18. MemoryInv'
  BY <1>3, <1>7, AtRestNext DEF Resting
<1> QED
  BY <1>1, <1>12, <1>13, <1>14, <1>15, <1>16, <1>17, <1>18 DEF FAT32Inv, ImageInv

-----------------------------------------------------------------------------
(* delete()                                                                *)

LEMMA DeleteStartInv ==
  ASSUME FAT32Inv,
         NEW n \in Names, NEW e \in Exts, NEW p \in Clusters, DeleteStart(n, e, p)
  PROVE  FAT32Inv'
<1> DEFINE s == Min(Matches(disk[p], n, e))
           old == <<p, s>>
<1>1. TypeOK' /\ CallOK'
  <2>1. Calls
    BY DEF Calls
  <2> QED
    BY <2>1, CallsType DEF FAT32Inv
<1>2. /\ pc = "idle" /\ pc' = "delete" /\ UNCHANGED <<sig, dfat, disk, fat>>
      /\ dirbuf' = disk[p] /\ slot' = s /\ cursor' = disk[p].table[s].first
      /\ req'.parent = p
  BY DEF DeleteStart, Found, Request, diskVars
<1>3. ParentOK(p) /\ Matches(disk[p], n, e) # {}
  BY DEF DeleteStart, DeleteCode
<1>4. p \in DataClusters /\ disk[p] \in Image /\ disk[p].dir /\ fat[p] = EOF
  BY <1>3, ParentType DEF FAT32Inv
<1>5. s \in Slots /\ disk[p].table[s].used
  BY <1>3, <1>4, MatchFound
<1>6. fat = dfat /\ ImageInv /\ sig
  BY <1>2 DEF FAT32Inv, MemoryInv, CacheCoherent, CallOK
<1>7. old \in Live(dfat) /\ Start(old) = cursor'
  BY <1>2, <1>4, <1>5, <1>6 DEF Live, Start
<1>8. Doomed' = {old}
  BY <1>2 DEF Doomed
<1>9. FormatOK' /\ ImageInv'
  BY <1>2, ImageKept DEF FAT32Inv, FormatOK, FormatSteps
<1>10. BufferOK'
  BY <1>2, <1>4 DEF BufferOK
<1>11. /\ cursor' \in DataClusters \ {ROOT} /\ dfat[cursor'] # EMPTY
       /\ \A c \in DataClusters : dfat[c] # cursor'
       /\ \A g \in Live(dfat) : /\ g # old => Start(g) # cursor'
                                /\ dfat[Start(g)] # EMPTY
       /\ \A c \in DataClusters : dfat[c] \in DataClusters => dfat[dfat[c]] # EMPTY
  <2> HIDE DEF old
  <2>1. \A g \in Live(dfat) : Start(g) \in DataClusters \ {ROOT} /\ dfat[Start(g)] # EMPTY
    BY <1>2, <1>6 DEF ImageInv, NoDangling
  <2>2. /\ \A c \in DataClusters : dfat[c] # cursor'
        /\ \A g \in Live(dfat) : g # old => Start(g) # cursor'
    BY <1>6, <1>7 DEF ImageInv, NoCrossLinks
  <2>3. \A c \in DataClusters : dfat[c] \in DataClusters => dfat[dfat[c]] # EMPTY
    BY <1>6, ConstantTypes DEF ImageInv, LinksForward, DataClusters, EMPTY, ROOT
  <2> QED
    BY <2>1, <2>2, <2>3, <1>7
<1>12. FreedOK'
  <2>1. Live(dfat)' = Live(dfat) /\ \A g : Start(g)' = Start(g)
    BY <1>2 DEF Live, Start
  <2> HIDE DEF old
  <2>2. \A c \in DataClusters : ~(dfat'[c] \in DataClusters /\ fat'[dfat'[c]] = EMPTY)
    BY <1>2, <1>6, <1>11
  <2>3. \A g \in Live(dfat)' : /\ fat'[Start(g)'] # EMPTY
                               /\ g \notin Doomed' => Start(g)' # cursor'
    BY <2>1, <1>2, <1>6, <1>8, <1>11
  <2>4. /\ \A c \in Clusters : fat'[c] \in {dfat'[c], EMPTY}
        /\ fat'[ROOT] = dfat'[ROOT] /\ cursor' # ROOT /\ fat'[cursor'] = dfat'[cursor']
        /\ \A c \in DataClusters : dfat'[c] # cursor'
    BY <1>2, <1>6, <1>11
  <2> QED
    BY <2>2, <2>3, <2>4, <1>2 DEF FreedOK
<1>13. WalkOnChain'
  BY <1>2, <1>6, <1>11 DEF WalkOnChain
<1>14. NewSlotOK' /\ NewChainOK' /\ NewEntryOK' /\ RoomOK' /\ CacheCoherent'
  BY <1>2 DEF NewSlotOK, NewChainOK, NewEntryOK, RoomOK, CacheCoherent, WriteSteps
<1> QED
  BY <1>1, <1>9, <1>10, <1>12, <1>13, <1>14 DEF FAT32Inv, MemoryInv

LEMMA FreeClusterInv ==
  ASSUME FAT32Inv, FreeCluster
  PROVE  FAT32Inv'
<1>0. PICK p, k, x : p = req.parent /\ k = slot /\ x = cursor
  OBVIOUS
<1> DEFINE old == <<p, k>>
<1>1. TypeOK' /\ CallOK'
  BY StepsType DEF FAT32Inv, Steps
<1>2. TypeOK /\ CallOK /\ FormatOK /\ BufferOK /\ FreedOK /\ WalkOnChain /\ ImageInv
  BY DEF FAT32Inv, MemoryInv
<1>3. /\ pc = "delete" /\ pc' \in {"delete", "delete_fat"}
      /\ UNCHANGED <<sig, dfat, disk, req, slot>>
      /\ fat' = [fat EXCEPT ![x] = EMPTY]
  BY <1>0 DEF FreeCluster, Freed, diskVars
<1>4. /\ fat[x] # EOF => pc' = "delete" /\ cursor' = fat[x] /\ dirbuf' = dirbuf
      /\ fat[x] = EOF =>
           /\ pc' = "delete_fat"
           /\ dirbuf' = PutEntry(dirbuf, k, [dirbuf.table[k] EXCEPT !.used = FALSE])
  BY <1>0 DEF FreeCluster, NextOf
<1>5. /\ sig /\ k \in Slots /\ p \in DataClusters
      /\ dirbuf \in Image /\ dirbuf.table[k] \in Entry
      /\ fat \in [Clusters -> FatValues] /\ dfat \in [Clusters -> FatValues]
  BY <1>0, <1>2, <1>3 DEF TypeOK, CallOK, DeleteSteps, Image
<1>6. \A c \in DataClusters : c \in Clusters /\ c # EMPTY /\ c # EOF
  BY ConstantTypes DEF DataClusters, ROOT, EMPTY
<1>7. x \in DataClusters /\ fat[x] # EMPTY /\ x # ROOT /\ fat[x] = dfat[x]
  BY <1>0, <1>2, <1>3 DEF WalkOnChain, FreedOK
<1>8. /\ fat'[x] = EMPTY
      /\ \A c \in Clusters : c # x => fat'[c] = fat[c]
  BY <1>3, <1>5, <1>6, <1>7
<1>9. Doomed = {old} /\ Doomed' = {old}
  BY <1>0, <1>3 DEF Doomed
<1> HIDE DEF old
<1>10. Live(dfat)' = Live(dfat) /\ \A e : Start(e)' = Start(e)
  BY <1>3 DEF Live, Start
<1>11. ImageInv'
  BY <1>2, <1>3, ImageKept DEF FormatSteps
<1>12. FormatOK'
  BY <1>3, <1>5 DEF FormatOK, FormatSteps
<1>13. /\ \A c \in Clusters : fat[c] \in {dfat[c], EMPTY}
       /\ fat[ROOT] = dfat[ROOT]
       /\ \A c \in DataClusters :
            dfat[c] \in DataClusters /\ fat[dfat[c]] = EMPTY => fat[c] = EMPTY
       /\ \A e \in Live(dfat) : e # old => fat[Start(e)] # EMPTY /\ Start(e) # x
       /\ \A c \in DataClusters : dfat[c] = x => fat[c] = EMPTY
  BY <1>0, <1>2, <1>3, <1>9 DEF FreedOK
<1>14. \A e \in Live(dfat) : Start(e) \in DataClusters
  BY <1>2 DEF ImageInv, NoDangling
<1>15. /\ dfat[ROOT] = EOF
       /\ \A c \in DataClusters : dfat[c] # ROOT
  BY <1>2, <1>3, <1>5 DEF ImageInv, RootIntact
<1>16. /\ \A c \in Clusters : fat'[c] \in {dfat'[c], EMPTY}
       /\ fat'[ROOT] = dfat'[ROOT]
       /\ \A c \in DataClusters :
            dfat'[c] \in DataClusters /\ fat'[dfat'[c]] = EMPTY => fat'[c] = EMPTY
       /\ \A e \in Live(dfat)' : e \notin Doomed' => fat'[Start(e)'] # EMPTY
  <2>1. \A c \in Clusters : fat'[c] \in {dfat'[c], EMPTY}
    BY <1>3, <1>8, <1>13
  <2>2. fat'[ROOT] = dfat'[ROOT]
    BY <1>3, <1>6, <1>7, <1>8, <1>13, ConstantTypes
  <2>3. ASSUME NEW c \in DataClusters, dfat[c] \in DataClusters, fat'[dfat[c]] = EMPTY
        PROVE  fat'[c] = EMPTY
    <3>1. fat[c] = EMPTY
      BY <2>3, <1>6, <1>8, <1>13
    <3> QED
      BY <3>1, <1>6, <1>8
  <2>4. ASSUME NEW e \in Live(dfat), e # old
        PROVE  fat'[Start(e)] # EMPTY
    BY <2>4, <1>6, <1>8, <1>13, <1>14
  <2> QED
    BY <2>1, <2>2, <2>3, <2>4, <1>3, <1>9, <1>10
<1>17. CASE fat[x] # EOF
  <2> DEFINE y == dfat[x]
  <2>1. /\ y \in DataClusters /\ y > x /\ dfat[y] # EMPTY /\ y # ROOT
        /\ pc' = "delete" /\ cursor' = y /\ dirbuf' = dirbuf
    BY <1>2, <1>4, <1>7, <1>15, <1>17 DEF ImageInv, LinksForward
  <2>2. x # y
    BY <2>1, <1>7, SizeAssumption DEF DataClusters, ROOT
  <2>3. \A c \in DataClusters : c # x => dfat[c] # y
    BY <2>1, <1>2, <1>7 DEF ImageInv, NoCrossLinks
  <2>4. \A e \in Live(dfat) : Start(e) # y
    BY <1>2, <1>7 DEF ImageInv, NoCrossLinks
  <2>5. fat[y] = dfat[y]
    BY <2>1, <1>6, <1>7, <1>13
  <2> HIDE DEF y
  <2>6. fat'[y] = dfat'[y]
    BY <2>1, <2>2, <2>5, <1>3, <1>6, <1>8
  <2>7. \A c \in DataClusters : dfat'[c] = y => fat'[c] = EMPTY
    BY <2>3, <1>3, <1>8
  <2>8. FreedOK'
    BY <2>1, <2>4, <2>6, <2>7, <1>10, <1>16 DEF FreedOK
  <2>9. BufferOK'
    BY <2>1, <1>2, <1>3 DEF BufferOK
  <2>10. WalkOnChain'
    BY <2>1, <2>6, <1>3 DEF WalkOnChain
  <2>11. NewSlotOK' /\ NewChainOK' /\ NewEntryOK' /\ RoomOK' /\ CacheCoherent'
    BY <2>1 DEF NewSlotOK, NewChainOK, NewEntryOK, RoomOK, CacheCoherent, WriteSteps
  <2> QED
    BY <1>1, <1>11, <1>12, <2>8, <2>9, <2>10, <2>11 DEF FAT32Inv, MemoryInv
<1>18. CASE fat[x] = EOF
  <2>1. /\ pc' = "delete_fat"
        /\ dirbuf' = PutEntry(dirbuf, k, [dirbuf.table[k] EXCEPT !.used = FALSE])
    BY <1>4, <1>18
  <2>2. /\ dirbuf'.dir = dirbuf.dir
        /\ \A s \in Slots : s # k => dirbuf'.table[s] = dirbuf.table[s]
        /\ dirbuf'.table[k] = [dirbuf.table[k] EXCEPT !.used = FALSE]
    BY <2>1, <1>5, PutEntryValue
  <2>3. ~dirbuf'.table[k].used
    BY <2>2, <1>5 DEF Entry
  <2>4. FreedOK'
    BY <2>1, <2>3, <1>0, <1>3, <1>16 DEF FreedOK
  <2>5. BufferOK'
    <3>1. pc \in DeleteSteps
      BY <1>3 DEF DeleteSteps
    <3>2. /\ dirbuf.dir /\ disk[req.parent].dir
          /\ \A s \in Slots : s # k => dirbuf.table[s] = disk[req.parent].table[s]
      BY <3>1, <1>0, <1>2 DEF BufferOK
    <3>3. UNCHANGED <<disk, req, slot>>
      BY <1>3
    <3> QED
      BY <3>2, <3>3, <2>2, <1>0 DEF BufferOK
  <2>6. NewSlotOK' /\ NewChainOK' /\ NewEntryOK' /\ RoomOK' /\ CacheCoherent' /\ WalkOnChain'
    BY <2>1 DEF NewSlotOK, NewChainOK, NewEntryOK, RoomOK, CacheCoherent, WalkOnChain, WriteSteps
  <2> QED
    BY <1>1, <1>11, <1>12, <2>4, <2>5, <2>6 DEF FAT32Inv, MemoryInv
<1> QED
  BY <1>17, <1>18

LEMMA DeleteFatInv ==
  ASSUME FAT32Inv, DeleteFat
  PROVE  FAT32Inv'
<1>1. TypeOK' /\ CallOK'
  BY StepsType DEF FAT32Inv, Steps
<1>2. TypeOK /\ CallOK /\ BufferOK /\ FreedOK /\ ImageInv
  BY DEF FAT32Inv, MemoryInv
<1>3. /\ pc = "delete_fat" /\ pc' = "delete_dir" /\ dfat' = fat
      /\ UNCHANGED <<sig, disk, fat, dirbuf, req, slot>>
  BY DEF DeleteFat, callVars
<1>4. sig
  BY <1>2, <1>3 DEF CallOK, DeleteSteps
<1>5. /\ \A c \in DataClusters : fat[c] \in {dfat[c], EMPTY}
      /\ fat[ROOT] = dfat[ROOT]
      /\ \A c \in DataClusters :
           dfat[c] \in DataClusters /\ fat[dfat[c]] = EMPTY => fat[c] = EMPTY
      /\ \A e \in Live(dfat) : e \notin Doomed => fat[Start(e)] # EMPTY
      /\ ~dirbuf.table[slot].used
  BY <1>2, <1>3, ConstantTypes DEF FreedOK
<1>6. EMPTY \notin DataClusters /\ EMPTY # EOF
  BY DEF DataClusters, ROOT, EMPTY, EOF
<1>7. Live(dfat)' \subseteq Live(dfat)
  BY <1>3, <1>5, <1>6 DEF Live
<1>8. Doomed' = Doomed /\ \A e : Start(e)' = Start(e)
  BY <1>3 DEF Doomed, Start
<1>9. LinksForward'
  BY <1>2, <1>3, <1>5 DEF ImageInv, LinksForward
<1>10. NoCrossLinks'
  <2>1. ASSUME NEW c \in DataClusters, NEW d \in DataClusters, c # d, fat[c] \in DataClusters
        PROVE  fat[c] # fat[d]
    BY <2>1, <1>2, <1>5, <1>6 DEF ImageInv, NoCrossLinks
  <2>2. ASSUME NEW e \in Live(dfat), NEW c \in DataClusters
        PROVE  fat[c] # Start(e)
    <3>1. Start(e) \in DataClusters /\ dfat[c] # Start(e)
      BY <1>2 DEF ImageInv, NoCrossLinks, NoDangling
    <3> QED
      BY <3>1, <1>5, <1>6
  <2>3. \A e, g \in Live(dfat) : e # g => Start(e) # Start(g)
    BY <1>2 DEF ImageInv, NoCrossLinks
  <2> QED
    BY <2>1, <2>2, <2>3, <1>3, <1>7, <1>8 DEF NoCrossLinks
<1>11. NoDangling'
  <2>1. \A e \in Live(dfat) : Start(e) \in DataClusters \ {ROOT}
    BY <1>2 DEF ImageInv, NoDangling
  <2> QED
    BY <2>1, <1>3, <1>5, <1>7, <1>8 DEF NoDangling
<1>12. RootIntact'
  <2>1. /\ dfat[ROOT] = EOF /\ disk[ROOT].dir
        /\ \A c \in DataClusters : dfat[c] # ROOT
    BY <1>2, <1>3, <1>4 DEF ImageInv, RootIntact
  <2>2. \A c \in DataClusters : fat[c] # ROOT
    BY <2>1, <1>5, <1>6, ConstantTypes
  <2> QED
    BY <2>1, <2>2, <1>3, <1>5 DEF RootIntact
<1>13. UniqueNames'
  BY <1>2, <1>3, <1>7 DEF ImageInv, UniqueNames
<1>14. FormatOK'
  BY <1>3, <1>4 DEF FormatOK, FormatSteps
<1>15. BufferOK'
  BY <1>2, <1>3 DEF BufferOK, DeleteSteps
<1>16. FreedOK'
  BY <1>3, <1>5 DEF FreedOK
<1>17. NewSlotOK' /\ NewChainOK' /\ NewEntryOK' /\ RoomOK' /\ CacheCoherent' /\ WalkOnChain'
  BY <1>3 DEF NewSlotOK, NewChainOK, NewEntryOK, RoomOK, CacheCoherent, WalkOnChain, WriteSteps
<1> QED
  BY <1>1, <1>9, <1>10, <1>11, <1>12, <1>13, <1>14, <1>15, <1>16, <1>17
  DEF FAT32Inv, ImageInv, MemoryInv

LEMMA DeleteDirInv ==
  ASSUME FAT32Inv, DeleteDir
  PROVE  FAT32Inv'
<1>0. PICK p, k : p = req.parent /\ k = slot
  OBVIOUS
<1> DEFINE old == <<p, k>>
<1>1. TypeOK' /\ CallOK'
  BY StepsType DEF FAT32Inv, Steps
<1>2. TypeOK /\ CallOK /\ BufferOK /\ FreedOK /\ ImageInv
  BY DEF FAT32Inv, MemoryInv
<1>3. /\ pc = "delete_dir" /\ pc' = "idle" /\ UNCHANGED <<sig, dfat, fat>>
      /\ disk' = [disk EXCEPT ![p] = dirbuf]
  BY <1>0 DEF DeleteDir, Return
<1>4. sig /\ k \in Slots /\ p \in DataClusters /\ disk \in [DataClusters -> Image]
  BY <1>0, <1>2, <1>3 DEF TypeOK, CallOK, DeleteSteps
<1>5. /\ dirbuf.dir /\ disk[p].dir
      /\ \A s \in Slots : s # k => dirbuf.table[s] = disk[p].table[s]
      /\ ~dirbuf.table[k].used /\ fat = dfat
  BY <1>0, <1>2, <1>3 DEF BufferOK, FreedOK, DeleteSteps
<1>6. /\ disk'[p] = dirbuf
      /\ \A c \in DataClusters : c # p => disk'[c] = disk[c]
  BY <1>3, <1>4
<1>7. Doomed = {old}
  BY <1>0, <1>3 DEF Doomed
<1>8. \A e \in Live(dfat)' :
        e \in Live(dfat) /\ e # old /\ disk'[e[1]].table[e[2]] = disk[e[1]].table[e[2]]
  <2> SUFFICES ASSUME NEW c \in DataClusters, NEW s \in Slots,
                      dfat[c] = EOF, disk'[c].dir, disk'[c].table[s].used
               PROVE  /\ <<c, s>> \in Live(dfat) /\ <<c, s>> # old
                      /\ disk'[c].table[s] = disk[c].table[s]
    BY <1>3 DEF Live
  <2>1. CASE c = p
    BY <2>1, <1>5, <1>6 DEF Live
  <2>2. CASE c # p
    BY <2>2, <1>6 DEF Live
  <2> QED
    BY <2>1, <2>2
<1>9. \A e \in Live(dfat)' : Start(e)' = Start(e)
  BY <1>8 DEF Start
<1>10. LinksForward'
  BY <1>2, <1>3 DEF ImageInv, LinksForward
<1>11. NoCrossLinks'
  <2>1. \A c, d \in DataClusters : c # d /\ dfat'[c] \in DataClusters => dfat'[c] # dfat'[d]
    BY <1>2, <1>3 DEF ImageInv, NoCrossLinks
  <2>2. ASSUME NEW e \in Live(dfat)'
        PROVE  /\ \A c \in DataClusters : dfat'[c] # Start(e)'
               /\ \A g \in Live(dfat)' : e # g => Start(e)' # Start(g)'
    BY <1>2, <1>3, <1>8, <1>9 DEF ImageInv, NoCrossLinks
  <2> QED
    BY <2>1, <2>2 DEF NoCrossLinks
<1>12. NoDangling'
  BY <1>2, <1>3, <1>7, <1>8, <1>9 DEF ImageInv, NoDangling
<1>13. RootIntact'
  <2>1. /\ dfat[ROOT] = EOF /\ disk[ROOT].dir
        /\ \A c \in DataClusters : dfat[c] # ROOT
    BY <1>2, <1>3, <1>4 DEF ImageInv, RootIntact
  <2>2. disk'[ROOT].dir
    BY <2>1, <1>5, <1>6, ConstantTypes
  <2> QED
    BY <2>1, <2>2, <1>3 DEF RootIntact
<1>14. UniqueNames'
  <2>1. ASSUME NEW e \in Live(dfat)', NEW g \in Live(dfat)', e[1] = g[1], e # g
        PROVE  \/ disk'[e[1]].table[e[2]].name # disk'[g[1]].table[g[2]].name
               \/ disk'[e[1]].table[e[2]].ext  # disk'[g[1]].table[g[2]].ext
    BY <2>1, <1>2, <1>8 DEF ImageInv, UniqueNames
  <2> QED
    BY <2>1 DEF UniqueNames
<1>15. FormatOK'
  BY <1>3, <1>4 DEF FormatOK, FormatSteps
<1>16. MemoryInv'
  BY <1>3, <1>5, AtRestNext DEF Resting
<1> QED
  BY <1>1, <1>10, <1>11, <1>12, <1>13, <1>14, <1>15, <1>16 DEF FAT32Inv, ImageInv

-----------------------------------------------------------------------------
(* read() and read_directory()                                             *)

LEMMA ReadStartInv ==
  ASSUME FAT32Inv,
         NEW n \in Names, NEW e \in Exts, NEW p \in Clusters, NEW size \in ReadSizes,
         ReadStart(n, e, p, size)
  PROVE  FAT32Inv'
<1> DEFINE s == Min(Matches(disk[p], n, e))
           found == <<p, s>>
<1>1. TypeOK' /\ CallOK'
  <2>1. Calls
    BY DEF Calls
  <2> QED
    BY <2>1, CallsType DEF FAT32Inv
<1>2. /\ pc = "idle" /\ pc' = "read" /\ UNCHANGED <<sig, dfat, disk, fat>>
      /\ cursor' = disk[p].table[s].first
  BY DEF ReadStart, Found, diskVars
<1>3. ParentOK(p) /\ Matches(disk[p], n, e) # {}
  BY DEF ReadStart, ReadCode
<1>4. p \in DataClusters /\ disk[p] \in Image /\ disk[p].dir /\ fat[p] = EOF
  BY <1>3, ParentType DEF FAT32Inv
<1>5. s \in Slots /\ disk[p].table[s].used
  BY <1>3, <1>4, MatchFound
<1>6. fat = dfat /\ ImageInv
  BY <1>2 DEF FAT32Inv, MemoryInv, CacheCoherent
<1>7. found \in Live(dfat) /\ Start(found) = cursor'
  BY <1>2, <1>4, <1>5, <1>6 DEF Live, Start
<1>8. FormatOK' /\ ImageInv'
  BY <1>2, ImageKept DEF FAT32Inv, FormatOK, FormatSteps
<1>9. WalkOnChain' /\ CacheCoherent'
  <2> HIDE DEF found
  <2>1. cursor' \in DataClusters /\ dfat[cursor'] # EMPTY
    BY <1>2, <1>6, <1>7 DEF ImageInv, NoDangling
  <2> QED
    BY <2>1, <1>2, <1>6 DEF WalkOnChain, CacheCoherent
<1>10. BufferOK' /\ NewSlotOK' /\ NewChainOK' /\ NewEntryOK' /\ RoomOK' /\ FreedOK'
  BY <1>2 DEF BufferOK, NewSlotOK, NewChainOK, NewEntryOK, RoomOK, FreedOK, WriteSteps, DeleteSteps
<1> QED
  BY <1>1, <1>8, <1>9, <1>10 DEF FAT32Inv, MemoryInv

LEMMA ReadBlockInv ==
  ASSUME FAT32Inv, ReadBlock
  PROVE  FAT32Inv'
<1>1. TypeOK' /\ CallOK'
  BY StepsType DEF FAT32Inv, Steps
<1>2. /\ pc = "read" /\ pc' \in {"read", "idle"} /\ UNCHANGED <<sig, dfat, disk, fat>>
      /\ pc' = "read" => fat[cursor] # EOF /\ cursor' = fat[cursor]
  BY DEF ReadBlock, NextOf, Return, diskVars
<1>3. fat = dfat /\ ImageInv /\ cursor \in DataClusters /\ fat[cursor] # EMPTY
  BY <1>2 DEF FAT32Inv, MemoryInv, CacheCoherent, WalkOnChain
<1>4. FormatOK' /\ ImageInv'
  BY <1>2, ImageKept DEF FAT32Inv, FormatOK, FormatSteps
<1>5. CacheCoherent' /\ WalkOnChain'
  BY <1>2, <1>3 DEF ImageInv, LinksForward, CacheCoherent, WalkOnChain
<1>6. BufferOK' /\ NewSlotOK' /\ NewChainOK' /\ NewEntryOK' /\ RoomOK' /\ FreedOK'
  BY <1>2 DEF BufferOK, NewSlotOK, NewChainOK, NewEntryOK, RoomOK, FreedOK, WriteSteps, DeleteSteps
<1> QED
  BY <1>1, <1>4, <1>5, <1>6 DEF FAT32Inv, MemoryInv

-----------------------------------------------------------------------------
LEMMA CallsInv ==
  ASSUME FAT32Inv, Calls
  PROVE  FAT32Inv'
<1>1. PICK n \in Names, e \in Exts, p \in Clusters :
        \/ \E l \in Loads : WriteRefused(n, e, p, l) \/ WriteStart(n, e, p, l)
        \/ DeleteRefused(n, e, p) \/ DeleteStart(n, e, p)
        \/ \E size \in ReadSizes :
             \/ ReadRefused(n, e, p, size) \/ ReadStart(n, e, p, size)
             \/ ReadDirectory(n, p, size)
  BY DEF Calls
<1>2. ASSUME NEW l \in Loads, WriteRefused(n, e, p, l) PROVE FAT32Inv'
  <2>1. WriteCode(n, e, p, l.size) \in -1 .. 3
    BY DEF WriteCode
  <2> QED
    BY <1>2, <2>1, FailInv DEF WriteRefused
<1>3. ASSUME NEW l \in Loads, WriteStart(n, e, p, l) PROVE FAT32Inv'
  BY <1>3, WriteStartInv
<1>4. CASE DeleteRefused(n, e, p)
  <2>1. DeleteCode(n, e, p) \in -1 .. 3
    BY DEF DeleteCode
  <2> QED
    BY <1>4, <2>1, FailInv DEF DeleteRefused
<1>5. CASE DeleteStart(n, e, p)
  BY <1>5, DeleteStartInv
<1>6. ASSUME NEW size \in ReadSizes, ReadRefused(n, e, p, size) PROVE FAT32Inv'
  <2>1. ReadCode(n, e, p, size) \in -1 .. 3
    BY DEF ReadCode
  <2> QED
    BY <1>6, <2>1, FailInv DEF ReadRefused
<1>7. ASSUME NEW size \in ReadSizes, ReadStart(n, e, p, size) PROVE FAT32Inv'
  BY <1>7, ReadStartInv
<1>8. ASSUME NEW size \in ReadSizes, ReadDirectory(n, p, size) PROVE FAT32Inv'
  <2>1. ReadDirectoryCode(n, p, size) \in -1 .. 3
    BY DEF ReadDirectoryCode
  <2> QED
    BY <1>8, <2>1, FailInv DEF ReadDirectory
<1> QED
  BY <1>1, <1>2, <1>3, <1>4, <1>5, <1>6, <1>7, <1>8

LEMMA StepsInv ==
  ASSUME FAT32Inv, Steps
  PROVE  FAT32Inv'
BY WriteBlockInv, WriteFatInv, WriteDirInv, FreeClusterInv, DeleteFatInv, DeleteDirInv,
   ReadBlockInv
DEF Steps

LEMMA StutterInv ==
  ASSUME FAT32Inv, UNCHANGED vars
  PROVE  FAT32Inv'
<1>1. UNCHANGED <<diskVars, fat, dirbuf, pc, callVars>>
  BY DEF vars, diskVars, callVars
<1>2. TypeOK' /\ CallOK' /\ FormatOK'
  BY DEF vars, FAT32Inv, TypeOK, CallOK, FormatOK
<1>3. Live(dfat)' = Live(dfat) /\ Doomed' = Doomed /\ \A e : Start(e)' = Start(e)
  BY DEF vars, Live, Doomed, Start
<1>4. LinksForward' /\ RootIntact'
  BY DEF vars, FAT32Inv, ImageInv, LinksForward, RootIntact
<1>5. NoCrossLinks' /\ NoDangling'
  BY <1>3 DEF vars, FAT32Inv, ImageInv, NoCrossLinks, NoDangling
<1>6. UniqueNames'
  BY <1>3 DEF vars, FAT32Inv, ImageInv, UniqueNames
<1>7. BufferOK' /\ CacheCoherent' /\ WalkOnChain'
  BY DEF vars, FAT32Inv, MemoryInv, BufferOK, CacheCoherent, WalkOnChain
<1>8. NewSlotOK'
  BY DEF vars, FAT32Inv, MemoryInv, NewSlotOK, Matches
<1>9. NewHead' = NewHead /\ \A c : Linking(c)' = Linking(c)
  BY DEF vars, NewHead, Linking
<1>10. NewChainOK'
  BY <1>9 DEF vars, FAT32Inv, MemoryInv, NewChainOK, NoEntries
<1>11. NewEntryOK'
  BY <1>3, <1>9 DEF vars, FAT32Inv, MemoryInv, NewEntryOK
<1>12. RoomOK'
  BY DEF vars, FAT32Inv, MemoryInv, RoomOK, EmptyFrom, BlockCount
<1>13. FreedOK'
  BY <1>3 DEF vars, FAT32Inv, MemoryInv, FreedOK
<1> QED
  BY <1>2, <1>4, <1>5, <1>6, <1>7, <1>8, <1>10, <1>11, <1>12, <1>13
  DEF FAT32Inv, ImageInv, MemoryInv

(* The inductive invariant holds at every step of every run.               *)
THEOREM InvCorrect == Spec => []FAT32Inv
<1>1. FAT32Inv /\ [Next]_vars => FAT32Inv'
  BY BootInv, CallsInv, StepsInv, StutterInv DEF Next
<1> QED
  BY InvInit, <1>1, PTL DEF Spec

-----------------------------------------------------------------------------
(* What follows from it.                                                   *)

(* Every chain on the disk runs forward and stays on allocated clusters.   *)
THEOREM LinksForwardCorrect == Spec => []LinksForward
<1>1. FAT32Inv => LinksForward
  BY DEF FAT32Inv, ImageInv
<1> QED
  BY <1>1, InvCorrect, PTL

(* No two chains on the disk share a cluster.                              *)
THEOREM NoCrossLinksCorrect == Spec => []NoCrossLinks
<1>1. FAT32Inv => NoCrossLinks
  BY DEF FAT32Inv, ImageInv
<1> QED
  BY <1>1, InvCorrect, PTL

(* No entry on the disk names a free cluster or the root's.                *)
THEOREM NoDanglingCorrect == Spec => []NoDangling
<1>1. FAT32Inv => NoDangling
  BY DEF FAT32Inv, ImageInv
<1> QED
  BY <1>1, InvCorrect, PTL

(* The root directory is never lost.                                       *)
THEOREM RootIntactCorrect == Spec => []RootIntact
<1>1. FAT32Inv => RootIntact
  BY DEF FAT32Inv, ImageInv
<1> QED
  BY <1>1, InvCorrect, PTL

(* A directory holds a name and extension once.                            *)
THEOREM UniqueNamesCorrect == Spec => []UniqueNames
<1>1. FAT32Inv => UniqueNames
  BY DEF FAT32Inv, ImageInv
<1> QED
  BY <1>1, InvCorrect, PTL

(* The cached FAT and the one on disk agree between calls.                 *)
THEOREM CacheCoherentCorrect == Spec => []CacheCoherent
<1>1. FAT32Inv => CacheCoherent
  BY DEF FAT32Inv, MemoryInv
<1> QED
  BY <1>1, InvCorrect, PTL

(* read() and delete() never walk off the chain.                           *)
THEOREM WalkOnChainCorrect == Spec => []WalkOnChain
<1>1. FAT32Inv => WalkOnChain
  BY DEF FAT32Inv, MemoryInv
<1> QED
  BY <1>1, InvCorrect, PTL

(* write() never runs out of the clusters it counted before its loop.      *)
THEOREM RoomCorrect == Spec => []RoomForNextBlock
<1>1. FAT32Inv => RoomForNextBlock
  <2> SUFFICES ASSUME FAT32Inv, pc = "write" PROVE EmptyFrom(cursor) # {}
    BY DEF RoomForNextBlock
  <2>1. i \in Nat /\ req.size \in Nat /\ i <= req.size \div CLUSTER_SIZE
    BY DEF FAT32Inv, TypeOK, CallOK
  <2>2. req.size \div CLUSTER_SIZE \in Nat
    BY <2>1, SizeTypes
  <2>3. BlockCount(req.size) - i >= 1
    BY <2>1, <2>2 DEF BlockCount
  <2>4. Cardinality(EmptyFrom(cursor)) >= BlockCount(req.size) - i
    BY DEF FAT32Inv, MemoryInv, RoomOK
  <2>5. Cardinality({}) = 0
    BY FS_EmptySet
  <2> QED
    BY <2>1, <2>2, <2>3, <2>4, <2>5 DEF BlockCount
<1> QED
  BY <1>1, InvCorrect, PTL

-----------------------------------------------------------------------------
LEMMA CallsTouchNothing ==
  ASSUME Calls
  PROVE  UNCHANGED <<disk, fat>>
BY DEF Calls, WriteRefused, WriteStart, DeleteRefused, DeleteStart, ReadRefused, ReadStart,
       ReadDirectory, Fail, diskVars

(* A step changes no allocated cluster but the one it is about.            *)
THEOREM OthersUntouchedCorrect == Spec => OthersUntouched
<1>1. ASSUME FAT32Inv, [Next]_vars,
             NEW c \in DataClusters, fat[c] # EMPTY, ~Touchable(c)
      PROVE  /\ fat'[c] = fat[c]
             /\ disk'[c] # disk[c] => pc \in {"write_dir", "delete_dir"} /\ c = req.parent
  <2>1. /\ fat \in [Clusters -> FatValues] /\ disk \in [DataClusters -> Image]
        /\ c \in Clusters /\ i \in Nat
    BY <1>1, ConstantTypes DEF FAT32Inv, TypeOK
  <2>2. CASE UNCHANGED <<disk, fat>>
    BY <2>2
  <2>3. CASE Boot
    <3>1. pc \notin {"off", "mount"}
      BY <1>1 DEF Touchable
    <3>2. pc \in FormatSteps
      BY <3>1, <2>3 DEF Boot, WriteSignature, FormatFat, FormatRoot, Mount, FormatSteps
    <3> QED
      BY <3>2, <2>1, <1>1 DEF FAT32Inv, FormatOK
  <2>4. CASE WriteBlock
    <3> DEFINE f == Min(EmptyFrom(cursor))
    <3>1. pc = "write" /\ fat' = Linked(f) /\ disk' = [disk EXCEPT ![f] = Block]
          /\ EmptyFrom(cursor) # {}
      BY <2>4 DEF WriteBlock
    <3>2. fat[f] = EMPTY
      BY <1>1, <3>1, RoundCluster DEF FAT32Inv
    <3> HIDE DEF f
    <3>3. i > 0 => c # cursor
      BY <1>1, <3>1 DEF Touchable
    <3> QED
      BY <1>1, <2>1, <3>1, <3>2, <3>3 DEF Linked
  <2>5. CASE WriteFat
    <3>1. pc = "write_fat" /\ fat' = [fat EXCEPT ![cursor] = EOF] /\ disk' = disk
      BY <2>5 DEF WriteFat, Ended
    <3>2. i > 0
      BY <1>1, <2>1, <3>1 DEF FAT32Inv, MemoryInv, NewChainOK
    <3>3. c # cursor
      BY <1>1, <3>1, <3>2 DEF Touchable
    <3> QED
      BY <2>1, <3>1, <3>3
  <2>6. CASE WriteDir \/ DeleteDir
    <3>1. /\ pc \in {"write_dir", "delete_dir"} /\ fat' = fat
          /\ disk' = [disk EXCEPT ![req.parent] = dirbuf]
      BY <2>6 DEF WriteDir, DeleteDir
    <3> QED
      BY <2>1, <3>1
  <2>7. CASE FreeCluster
    <3>1. pc = "delete" /\ fat' = [fat EXCEPT ![cursor] = EMPTY] /\ disk' = disk
      BY <2>7 DEF FreeCluster, Freed, diskVars
    <3>2. c # cursor
      BY <1>1, <3>1 DEF Touchable
    <3> QED
      BY <2>1, <3>1, <3>2
  <2>8. CASE DeleteFat \/ ReadBlock
    BY <2>8, <2>2 DEF DeleteFat, ReadBlock, diskVars
  <2>9. CASE Calls
    BY <2>9, <2>2, CallsTouchNothing
  <2>10. CASE UNCHANGED vars
    BY <2>10, <2>2 DEF vars
  <2> QED
    BY <1>1, <2>3, <2>4, <2>5, <2>6, <2>7, <2>8, <2>9, <2>10 DEF Next, Steps
<1>2. FAT32Inv /\ [Next]_vars =>
        [\A c \in DataClusters :
           fat[c] # EMPTY /\ ~Touchable(c) =>
             /\ fat'[c] = fat[c]
             /\ disk'[c] # disk[c] => pc \in {"write_dir", "delete_dir"} /\ c = req.parent]_vars
  BY <1>1
<1> QED
  BY <1>2, InvCorrect, PTL DEF Spec, OthersUntouched

-----------------------------------------------------------------------------
(* No space is lost.  OwnersInv is inductive on top of FAT32Inv, as long   *)
(* as only folders are made from directory tables.                         *)

LEMMA OwnersKept ==
  ASSUME OwnersInv, UNCHANGED <<dfat, disk>>, pc # "write_dir"
  PROVE  OwnersOK' /\ FoldersOK'
<1>1. Live(dfat)' = Live(dfat) /\ \A e : Start(e)' = Start(e)
  BY DEF Live, Start
<1>2. OwnersOK'
  BY <1>1 DEF OwnersInv, OwnersOK, Owned
<1>3. FoldersOK'
  BY <1>1 DEF OwnersInv, FoldersOK
<1> QED
  BY <1>2, <1>3

LEMMA OwnersRest == pc \notin WriteSteps \cup DeleteSteps => NewOwnersOK /\ FreedOwnersOK
BY DEF NewOwnersOK, FreedOwnersOK, WriteSteps, DeleteSteps

LEMMA OwnersRestNext == (pc \notin WriteSteps \cup DeleteSteps => NewOwnersOK /\ FreedOwnersOK)'
BY OwnersRest, PTL

LEMMA OwnersInit == Init => OwnersInv
<1> SUFFICES ASSUME Init PROVE OwnersInv
  OBVIOUS
<1>1. pc = "off" /\ \A c \in DataClusters : dfat[c] = EMPTY
  BY ConstantTypes DEF Init, EMPTY
<1>2. NewOwnersOK /\ FreedOwnersOK
  BY <1>1, OwnersRest DEF WriteSteps, DeleteSteps
<1>3. OwnersOK /\ FoldersOK
  BY <1>1 DEF OwnersOK, FoldersOK, EMPTY, EOF
<1> QED
  BY <1>2, <1>3 DEF OwnersInv

LEMMA BootOwners ==
  ASSUME FAT32Inv, OwnersInv, Boot
  PROVE  OwnersInv'
<1>0. pc' \notin WriteSteps \cup DeleteSteps /\ pc # "write_dir"
  BY DEF Boot, WriteSignature, FormatFat, FormatRoot, Mount, WriteSteps, DeleteSteps
<1>1. NewOwnersOK' /\ FreedOwnersOK'
  BY <1>0, OwnersRestNext
<1>2. CASE WriteSignature \/ Mount
  <2>1. UNCHANGED <<dfat, disk>>
    BY <1>2 DEF WriteSignature, Mount, diskVars
  <2> QED
    BY <2>1, <1>0, <1>1, OwnersKept DEF OwnersInv
<1>3. CASE FormatFat
  <2>1. dfat' = FreshFat /\ disk' = disk /\ pc = "format_fat"
    BY <1>3 DEF FormatFat
  <2>2. \A c \in DataClusters : ~disk[c].dir
    BY <2>1 DEF FAT32Inv, FormatOK, FormatSteps
  <2>3. OwnersOK'
    BY <2>1, FreshFatValues DEF OwnersOK
  <2>4. FoldersOK'
    BY <2>1, <2>2 DEF FoldersOK
  <2> QED
    BY <1>1, <2>3, <2>4 DEF OwnersInv
<1>4. CASE FormatRoot
  <2>1. /\ dfat' = dfat /\ disk' = [disk EXCEPT ![ROOT] = RootImage]
        /\ dfat = FreshFat
    BY <1>4 DEF FormatRoot, FAT32Inv, FormatOK
  <2>2. \A c \in DataClusters : dfat'[c] = EOF => c = ROOT
    BY <2>1, FreshFatValues DEF EOF, EMPTY
  <2>3. \A s \in Slots : ~disk'[ROOT].table[s].used
    <3>1. disk'[ROOT] = RootImage
      BY <2>1, ConstantTypes DEF FAT32Inv, TypeOK
    <3> QED
      BY <3>1 DEF RootImage, BlankTable, BlankEntry
  <2>4. Live(dfat)' = {}
    BY <2>2, <2>3 DEF Live
  <2>5. \A c \in DataClusters : dfat'[c] # ROOT
    BY <2>1, FreshFatValues DEF EOF, EMPTY, ROOT
  <2>6. OwnersOK'
    BY <2>1, FreshFatValues DEF OwnersOK
  <2>7. FoldersOK'
    BY <2>2, <2>4, <2>5 DEF FoldersOK
  <2> QED
    BY <1>1, <2>6, <2>7 DEF OwnersInv
<1> QED
  BY <1>2, <1>3, <1>4 DEF Boot

LEMMA WriteStartOwners ==
  ASSUME FAT32Inv, OwnersInv,
         NEW n \in Names, NEW e \in Exts, NEW p \in Clusters, NEW l \in Loads,
         WriteStart(n, e, p, l)
  PROVE  OwnersInv'
<1> DEFINE s == Min(FreeSlots(disk[p]))
           new == NewEntry(disk[p].table[s], n, e, l.size)
<1>1. /\ pc = "idle" /\ pc' = "write" /\ UNCHANGED <<dfat, disk>>
      /\ slot' = s /\ dirbuf' = PutEntry(disk[p], s, new) /\ i' = 0
      /\ req'.size = l.size
  BY DEF WriteStart, diskVars, Request
<1>2. ParentOK(p) /\ FreeSlots(disk[p]) # {}
  BY DEF WriteStart, WriteCode
<1>3. disk[p] \in Image
  BY <1>2, ParentType DEF FAT32Inv
<1>4. s \in Slots /\ disk[p].table[s] \in Entry
  BY <1>2, <1>3, SlotFound
<1>5. dirbuf'.table[slot'] = new
  BY <1>1, <1>3, <1>4, PutEntryValue
<1>6. l.size = 0 => new.sub
  BY <1>4 DEF NewEntry, Entry
<1>7. NewOwnersOK' /\ FreedOwnersOK'
  BY <1>1, <1>5, <1>6 DEF NewOwnersOK, FreedOwnersOK
<1> QED
  BY <1>1, <1>7, OwnersKept DEF OwnersInv

(* The entry to delete is a marked folder without entries, or its first    *)
(* cluster is no parent.                                                   *)
LEMMA DeleteStartOwners ==
  ASSUME FAT32Inv, OwnersInv,
         NEW n \in Names, NEW e \in Exts, NEW p \in Clusters, DeleteStart(n, e, p)
  PROVE  OwnersInv'
<1> DEFINE s == Min(Matches(disk[p], n, e))
           old == <<p, s>>
<1>1. /\ pc = "idle" /\ pc' = "delete" /\ UNCHANGED <<dfat, disk, fat>>
      /\ slot' = s /\ cursor' = disk[p].table[s].first /\ req'.parent = p
  BY DEF DeleteStart, Found, Request, diskVars
<1>2. /\ ParentOK(p) /\ Matches(disk[p], n, e) # {}
      /\ disk[p].table[s].sub => ~HasEntries(disk[disk[p].table[s].first])
  BY DEF DeleteStart, DeleteCode, Found
<1>3. p \in DataClusters /\ disk[p] \in Image /\ disk[p].dir /\ fat[p] = EOF
  BY <1>2, ParentType DEF FAT32Inv
<1>4. s \in Slots /\ disk[p].table[s].used
  BY <1>2, <1>3, MatchFound
<1>5. fat = dfat
  BY <1>1 DEF FAT32Inv, MemoryInv, CacheCoherent
<1>6. old \in Live(dfat) /\ Start(old) = cursor'
  BY <1>1, <1>3, <1>4, <1>5 DEF Live, Start
<1>7. Doomed' = {old} /\ Live(dfat)' = Live(dfat) /\ \A g : Start(g)' = Start(g)
  BY <1>1 DEF Doomed, Live, Start
<1>8. ASSUME NEW g \in Live(dfat), g[1] = cursor' PROVE FALSE
  <2>1. /\ g[1] \in DataClusters /\ g[2] \in Slots
        /\ dfat[g[1]] = EOF /\ disk[g[1]].dir /\ disk[g[1]].table[g[2]].used
    BY DEF Live
  <2>2. disk[p].table[s].sub
    BY <1>6, <1>8, <2>1 DEF OwnersInv, FoldersOK
  <2>3. FreeSlots(disk[g[1]]) = Slots
    BY <1>1, <1>2, <1>8, <2>2 DEF HasEntries
  <2> QED
    BY <2>1, <2>3 DEF FreeSlots
<1>9. \A g \in Live(dfat) : fat[g[1]] # EMPTY
  BY <1>5 DEF Live, EMPTY, EOF
<1>10. FreedOwnersOK'
  <2> HIDE DEF old
  <2>1. \A c \in DataClusters : ~(dfat'[c] \in DataClusters /\ fat'[c] = EMPTY)
    BY <1>1, <1>5 DEF DataClusters, ROOT, EMPTY
  <2> QED
    BY <2>1, <1>1, <1>6, <1>7, <1>8, <1>9 DEF FreedOwnersOK
<1>11. NewOwnersOK'
  BY <1>1 DEF NewOwnersOK, WriteSteps
<1> QED
  BY <1>1, <1>10, <1>11, OwnersKept DEF OwnersInv

(* A call that is refused, and one that reads.                             *)
LEMMA OtherCallsOwners ==
  ASSUME OwnersInv, UNCHANGED <<dfat, disk>>, pc \in {"idle", "read"}, pc' \in {"idle", "read"}
  PROVE  OwnersInv'
<1>1. NewOwnersOK' /\ FreedOwnersOK'
  BY OwnersRestNext DEF WriteSteps, DeleteSteps
<1> QED
  BY <1>1, OwnersKept DEF OwnersInv

LEMMA CallsOwners ==
  ASSUME FAT32Inv, OwnersInv, Calls
  PROVE  OwnersInv'
<1>1. PICK n \in Names, e \in Exts, p \in Clusters :
        \/ \E l \in Loads : WriteRefused(n, e, p, l) \/ WriteStart(n, e, p, l)
        \/ DeleteRefused(n, e, p) \/ DeleteStart(n, e, p)
        \/ \E size \in ReadSizes :
             \/ ReadRefused(n, e, p, size) \/ ReadStart(n, e, p, size)
             \/ ReadDirectory(n, p, size)
  BY DEF Calls
<1>2. ASSUME NEW code, Fail(code), pc = "idle" PROVE OwnersInv'
  BY <1>2, OtherCallsOwners DEF Fail, diskVars
<1>3. ASSUME NEW l \in Loads, WriteStart(n, e, p, l) PROVE OwnersInv'
  BY <1>3, WriteStartOwners
<1>4. CASE DeleteStart(n, e, p)
  BY <1>4, DeleteStartOwners
<1>5. ASSUME NEW size \in ReadSizes, ReadStart(n, e, p, size) PROVE OwnersInv'
  BY <1>5, OtherCallsOwners DEF ReadStart, diskVars
<1> QED
  BY <1>1, <1>2, <1>3, <1>4, <1>5 DEF WriteRefused, DeleteRefused, ReadRefused, ReadDirectory

LEMMA WriteBlockOwners ==
  ASSUME FAT32Inv, OwnersInv, TablesInFolders, WriteBlock
  PROVE  OwnersInv'
<1>1. PICK f : f = Min(EmptyFrom(cursor))
  OBVIOUS
<1>2. /\ pc = "write" /\ pc' \in {"write", "write_fat"}
      /\ UNCHANGED <<dfat, req, slot>>
      /\ fat' = Linked(f) /\ cursor' = f /\ i' = i + 1
      /\ dirbuf' = IF i = 0
                     THEN PutEntry(dirbuf, slot, [dirbuf.table[slot] EXCEPT !.first = f])
                     ELSE dirbuf
  BY <1>1 DEF WriteBlock
<1>3. /\ f \in DataClusters /\ dfat[f] = EMPTY /\ fat[f] = EMPTY /\ cursor \in DataClusters
      /\ disk'[f] = Block
      /\ \A c \in DataClusters : c # f => disk'[c] = disk[c]
      /\ Live(dfat)' = Live(dfat)
      /\ \A e \in Live(dfat) : /\ Start(e)' = Start(e)
                               /\ disk'[e[1]].table[e[2]] = disk[e[1]].table[e[2]]
  BY <1>1, WriteBlockImage DEF FAT32Inv, MemoryInv
<1>4. /\ slot \in Slots /\ dirbuf \in Image /\ dirbuf.table[slot] \in Entry
      /\ fat \in [Clusters -> FatValues] /\ i \in Nat
  BY <1>2 DEF FAT32Inv, TypeOK, CallOK, WriteSteps, Image
<1>5. OwnersOK'
  BY <1>2, <1>3 DEF OwnersInv, OwnersOK, Owned
<1>6. FoldersOK'
  BY <1>2, <1>3 DEF OwnersInv, FoldersOK, EMPTY, EOF
<1>7. FreedOwnersOK'
  BY <1>2 DEF FreedOwnersOK
<1>8. PICK l \in Loads : req.size = l.size /\ req.buf = l.buf
  BY <1>2 DEF FAT32Inv, CallOK
<1>9. l.size \in Nat /\ l.size \div CLUSTER_SIZE \in Nat /\ i <= l.size \div CLUSTER_SIZE
  BY <1>2, <1>8, CallerAssumption, SizeTypes DEF FAT32Inv, CallOK
<1>10. Block.dir => req.size = 0
  BY <1>4, <1>8, <1>9 DEF TablesInFolders, Block
<1>11. req.size = 0 => i = 0
  <2>1. 0 \div CLUSTER_SIZE = 0
    BY SizeAssumption
  <2> QED
    BY <2>1, <1>4, <1>8, <1>9
<1>12. /\ dirbuf'.table[slot].sub = dirbuf.table[slot].sub
       /\ dirbuf'.table[slot].first = IF i = 0 THEN f ELSE dirbuf.table[slot].first
  <2>1. CASE i = 0
    <3>1. dirbuf'.table[slot] = [dirbuf.table[slot] EXCEPT !.first = f]
      BY <2>1, <1>2, <1>4, PutEntryValue
    <3> QED
      BY <2>1, <3>1, <1>4 DEF Entry
  <2>2. CASE i # 0
    BY <2>2, <1>2
  <2> QED
    BY <2>1, <2>2
<1>13. req.size = 0 => dirbuf.table[slot].sub
  BY <1>2 DEF OwnersInv, NewOwnersOK, WriteSteps
<1>14. NewHead' = IF i = 0 THEN f ELSE NewHead
  BY <1>2, <1>12 DEF NewHead
<1>15. CASE i = 0
  <2>1. fat = dfat
    BY <1>2, <1>15 DEF FAT32Inv, MemoryInv, NewChainOK
  <2>2. \A c \in DataClusters : ~Linking(c)'
    BY <2>1, <1>2, <1>15 DEF Linked, Linking
  <2>3. NewOwnersOK'
    BY <2>2, <1>2, <1>3, <1>10, <1>12, <1>13, <1>14, <1>15 DEF NewOwnersOK
  <2> QED
    BY <2>3, <1>5, <1>6, <1>7 DEF OwnersInv
<1>16. CASE i > 0
  <2>1. fat' = [fat EXCEPT ![cursor] = f] /\ cursor \in Clusters /\ f # EMPTY
    BY <1>2, <1>3, <1>16, ConstantTypes DEF Linked, DataClusters, ROOT, EMPTY
  <2>2. dfat[cursor] = EMPTY
    BY <1>2, <1>16 DEF FAT32Inv, MemoryInv, NewChainOK
  <2>0. PICK x : x = cursor
    OBVIOUS
  \* A link of the chain stays one, and the one just made joins them.
  <2>3. \A d \in DataClusters : Linking(d) => Linking(d)' /\ fat'[d] = fat[d]
    BY <2>1, <1>2, <1>3, <1>4, ConstantTypes DEF Linking
  <2>4. f # x => Linking(x)' /\ fat'[x] = f
    BY <2>0, <2>1, <2>2, <1>2, <1>4 DEF Linking
  <2>5. \A c \in DataClusters : Linking(c)' => Linking(c) \/ c = cursor
    BY <2>1, <1>2, <1>4, ConstantTypes DEF Linking
  <2>6. ASSUME NEW c \in DataClusters, Linking(c) \/ c = cursor
        PROVE  c = NewHead \/ \E d \in DataClusters : Linking(d)' /\ fat'[d] = c
    <3>1. c = NewHead \/ \E d \in DataClusters : Linking(d) /\ fat[d] = c
      BY <2>6, <1>2, <1>16 DEF OwnersInv, NewOwnersOK
    <3> QED
      BY <3>1, <2>3
  <2>7. ASSUME NEW c \in DataClusters, Linking(c)' \/ c = f
        PROVE  c = NewHead \/ \E d \in DataClusters : Linking(d)' /\ fat'[d] = c
    <3>1. CASE c = f /\ f # x
      BY <3>1, <2>0, <2>4, <1>3
    <3>2. CASE Linking(c) \/ c = x
      BY <3>2, <2>0, <2>6
    <3> QED
      BY <3>1, <3>2, <2>0, <2>5, <2>7
  <2>8. NewHead' = NewHead /\ i' # 1 /\ i' > 0 /\ req.size # 0
    BY <1>2, <1>4, <1>11, <1>14, <1>16
  <2>9. NewOwnersOK'
    BY <2>7, <2>8, <1>2, <1>3, <1>10 DEF NewOwnersOK
  <2> QED
    BY <2>9, <1>5, <1>6, <1>7 DEF OwnersInv
<1> QED
  BY <1>4, <1>15, <1>16

LEMMA WriteFatOwners ==
  ASSUME FAT32Inv, OwnersInv, WriteFat
  PROVE  OwnersInv'
<1>1. /\ pc = "write_fat" /\ pc' = "write_dir" /\ UNCHANGED <<disk, req, slot, i>>
      /\ dirbuf' = PutEntry(dirbuf, slot, [dirbuf.table[slot] EXCEPT !.size = i * CLUSTER_SIZE])
  BY DEF WriteFat, callVars
<1>2. /\ i > 0 /\ cursor \in DataClusters /\ dfat[cursor] = EMPTY
      /\ \A c \in DataClusters : c # cursor => dfat'[c] = fat[c]
      /\ \A c \in DataClusters : dfat[c] # EMPTY => dfat'[c] = dfat[c]
      /\ \A c \in DataClusters : Linking(c) => fat[c] \in DataClusters /\ dfat[fat[c]] = EMPTY
      /\ \A c \in DataClusters :
           c = cursor \/ dfat[c] # EMPTY \/ dfat'[c] = EMPTY \/ Linking(c)
      /\ Live(dfat)' = Live(dfat)
      /\ dfat'[cursor] = EOF
      /\ NewHead' = NewHead
  BY WriteFatImage DEF FAT32Inv, MemoryInv
<1>3. \A e \in Live(dfat) : Start(e)' = Start(e) /\ dfat[Start(e)] # EMPTY
  <2>1. \A e \in Live(dfat) : dfat[Start(e)] # EMPTY
    BY <1>1 DEF FAT32Inv, ImageInv, NoDangling
  <2> QED
    BY <2>1, <1>1 DEF Start
<1>4. \A c \in DataClusters : dfat[c] \in DataClusters => dfat[dfat[c]] # EMPTY
  <2>1. EMPTY \notin DataClusters /\ EOF \notin DataClusters
    BY ConstantTypes DEF DataClusters, ROOT, EMPTY
  <2> QED
    BY <2>1 DEF FAT32Inv, ImageInv, LinksForward
<1>5. /\ \A c \in DataClusters :
           Linking(c) \/ c = cursor =>
             c = NewHead \/ \E d \in DataClusters : Linking(d) /\ fat[d] = c
      /\ disk[cursor].dir => req.size = 0
      /\ req.size = 0 => i = 1
      /\ i = 1 => NewHead = cursor /\ \A c \in DataClusters : ~Linking(c)
      /\ req.size = 0 => dirbuf.table[slot].sub
  BY <1>1, <1>2 DEF OwnersInv, NewOwnersOK, WriteSteps
<1>6. \A d \in DataClusters : Linking(d) => dfat'[d] = fat[d] /\ d # cursor /\ dfat[d] = EMPTY
  BY <1>2 DEF Linking
<1>7. OwnersOK'
  <2> SUFFICES ASSUME NEW c \in DataClusters \ {ROOT}, dfat'[c] # EMPTY
               PROVE  Owned(c)' \/ c = NewHead
    BY <1>1, <1>2 DEF OwnersOK
  <2>1. CASE dfat[c] # EMPTY
    <3>1. Owned(c)
      BY <2>1, <1>1 DEF OwnersInv, OwnersOK
    <3>2. c \in DataClusters /\ c # EMPTY
      BY DEF DataClusters, ROOT, EMPTY
    <3> QED
      BY <3>1, <3>2, <1>2, <1>3 DEF Owned
  <2>2. CASE Linking(c) \/ c = cursor
    BY <2>2, <1>5, <1>6 DEF Owned
  <2> QED
    BY <2>1, <2>2, <1>2
<1>8. \A p \in DataClusters : dfat'[p] = EOF => p = cursor \/ dfat[p] = EOF
  <2>1. EOF \notin DataClusters
    BY ConstantTypes
  <2> QED
    BY <2>1, <1>2, <1>6 DEF EMPTY, EOF
<1>9. \A c \in DataClusters : dfat'[c] \in DataClusters =>
        \/ dfat[c] = dfat'[c] /\ dfat[dfat'[c]] # EMPTY
        \/ Linking(c) /\ dfat[dfat'[c]] = EMPTY
  <2>1. EOF \notin DataClusters /\ EMPTY \notin DataClusters
    BY ConstantTypes DEF DataClusters, ROOT, EMPTY
  <2> QED
    BY <2>1, <1>2, <1>4, <1>6
<1>10. FoldersOK'
  <2> SUFFICES ASSUME NEW p \in DataClusters, dfat'[p] = EOF, disk[p].dir
               PROVE  /\ \A c \in DataClusters : dfat'[c] # p
                      /\ \A e \in Live(dfat) : Start(e) = p => disk[e[1]].table[e[2]].sub
    BY <1>1, <1>2, <1>3 DEF FoldersOK
  <2>1. CASE p = cursor
    <3>1. \A c \in DataClusters : ~Linking(c)
      BY <2>1, <1>5
    <3> QED
      BY <2>1, <3>1, <1>2, <1>3, <1>9
  <2>2. CASE p # cursor
    <3>1. dfat[p] = EOF
      BY <2>2, <1>8
    <3>2. /\ \A c \in DataClusters : dfat[c] # p
          /\ \A e \in Live(dfat) : Start(e) = p => disk[e[1]].table[e[2]].sub
      BY <3>1 DEF OwnersInv, FoldersOK
    <3>3. dfat[p] # EMPTY
      BY <3>1 DEF EMPTY, EOF
    <3> QED
      BY <3>2, <3>3, <1>9
  <2> QED
    BY <2>1, <2>2
<1>11. dirbuf'.table[slot].sub = dirbuf.table[slot].sub
  <2>1. slot \in Slots /\ dirbuf \in Image /\ dirbuf.table[slot] \in Entry
    BY <1>1 DEF FAT32Inv, TypeOK, CallOK, WriteSteps, Image
  <2>2. dirbuf'.table[slot] = [dirbuf.table[slot] EXCEPT !.size = i * CLUSTER_SIZE]
    BY <2>1, <1>1, PutEntryValue
  <2> QED
    BY <2>1, <2>2 DEF Entry
<1>12. dfat'[NewHead] = EOF => NewHead = cursor
  <2>1. NewHead \in DataClusters /\ dfat[NewHead] = EMPTY
    BY <1>1, <1>2 DEF FAT32Inv, MemoryInv, NewChainOK
  <2> QED
    BY <2>1, <1>8 DEF EMPTY, EOF
<1>13. NewOwnersOK' /\ FreedOwnersOK'
  BY <1>1, <1>2, <1>5, <1>11, <1>12 DEF NewOwnersOK, FreedOwnersOK
<1> QED
  BY <1>7, <1>10, <1>13 DEF OwnersInv

LEMMA WriteDirOwners ==
  ASSUME FAT32Inv, OwnersInv, WriteDir
  PROVE  OwnersInv'
<1>0. PICK p, k, h : p = req.parent /\ k = slot /\ h = NewHead
  OBVIOUS
<1> DEFINE new == <<p, k>>
<1>1. /\ pc = "write_dir" /\ pc' = "idle" /\ dfat' = dfat
      /\ disk' = [disk EXCEPT ![p] = dirbuf]
  BY <1>0 DEF WriteDir, Return
<1>2. k \in Slots /\ p \in DataClusters /\ disk \in [DataClusters -> Image]
  BY <1>0, <1>1 DEF FAT32Inv, TypeOK, CallOK, WriteSteps
<1>3. /\ dirbuf.dir /\ disk[p].dir
      /\ \A s \in Slots : s # k => dirbuf.table[s] = disk[p].table[s]
      /\ dfat[p] = EOF /\ ~disk[p].table[k].used /\ dirbuf.table[k].used
      /\ dirbuf.table[k].first = h
  BY <1>0, <1>1 DEF FAT32Inv, MemoryInv, BufferOK, NewSlotOK, NewHead, WriteSteps
<1>4. /\ disk'[p] = dirbuf
      /\ \A c \in DataClusters : c # p => disk'[c] = disk[c]
  BY <1>1, <1>2
<1>5. \A c \in DataClusters : disk'[c].dir = disk[c].dir
  <2>1. disk[p].dir = TRUE /\ dirbuf.dir = TRUE
    <3>1. disk[p] \in Image /\ dirbuf \in Image
      BY <1>2 DEF FAT32Inv, TypeOK
    <3> QED
      BY <3>1, <1>3 DEF Image
  <2> QED
    BY <2>1, <1>4
<1>6. new \in Live(dfat)' /\ Start(new)' = h /\ disk'[new[1]].table[new[2]] = dirbuf.table[k]
  BY <1>1, <1>2, <1>3, <1>4 DEF Live, Start
<1>7. \A e \in Live(dfat) : /\ e \in Live(dfat)' /\ Start(e)' = Start(e)
                            /\ disk'[e[1]].table[e[2]] = disk[e[1]].table[e[2]]
  <2> SUFFICES ASSUME NEW c \in DataClusters, NEW s \in Slots,
                      dfat[c] = EOF, disk[c].dir, disk[c].table[s].used
               PROVE  disk'[c].dir /\ disk'[c].table[s] = disk[c].table[s]
    BY <1>1 DEF Live, Start
  <2>1. CASE c = p
    BY <2>1, <1>3, <1>4
  <2>2. CASE c # p
    BY <2>2, <1>4
  <2> QED
    BY <2>1, <2>2
<1>8. \A e \in Live(dfat)' : e = new \/ e \in Live(dfat)
  <2> SUFFICES ASSUME NEW c \in DataClusters, NEW s \in Slots,
                      dfat[c] = EOF, disk'[c].dir, disk'[c].table[s].used, <<c, s>> # new
               PROVE  <<c, s>> \in Live(dfat)
    BY <1>1 DEF Live
  <2>1. CASE c = p
    BY <2>1, <1>3, <1>4 DEF Live
  <2>2. CASE c # p
    BY <2>2, <1>4 DEF Live
  <2> QED
    BY <2>1, <2>2
<1> HIDE DEF new
<1>9. OwnersOK'
  <2> SUFFICES ASSUME NEW c \in DataClusters \ {ROOT}, dfat[c] # EMPTY
               PROVE  Owned(c)'
    BY <1>1 DEF OwnersOK
  <2>1. Owned(c) \/ c = h
    BY <1>0 DEF OwnersInv, OwnersOK
  <2>2. CASE Owned(c)
    BY <2>2, <1>1, <1>7 DEF Owned
  <2>3. CASE c = h
    BY <2>3, <1>6 DEF Owned
  <2> QED
    BY <2>1, <2>2, <2>3
<1>10. dfat[h] = EOF /\ disk[h].dir => dirbuf.table[k].sub
  BY <1>0, <1>1 DEF OwnersInv, NewOwnersOK
<1>11. h \in DataClusters
  BY <1>0, <1>1 DEF FAT32Inv, MemoryInv, NewEntryOK
<1>12. FoldersOK'
  <2> SUFFICES ASSUME NEW q \in DataClusters, dfat[q] = EOF, disk[q].dir
               PROVE  /\ \A c \in DataClusters : dfat[c] # q
                      /\ \A e \in Live(dfat)' : Start(e)' = q => disk'[e[1]].table[e[2]].sub
    BY <1>1, <1>5 DEF FoldersOK
  <2>1. /\ \A c \in DataClusters : dfat[c] # q
        /\ \A e \in Live(dfat) : Start(e) = q => disk[e[1]].table[e[2]].sub
    BY DEF OwnersInv, FoldersOK
  <2>2. ASSUME NEW e \in Live(dfat)', Start(e)' = q
        PROVE  disk'[e[1]].table[e[2]].sub
    <3>1. CASE e = new
      BY <3>1, <2>2, <1>6, <1>10
    <3>2. CASE e \in Live(dfat)
      BY <3>2, <2>1, <2>2, <1>7
    <3> QED
      BY <3>1, <3>2, <1>8
  <2> QED
    BY <2>1, <2>2
<1>13. NewOwnersOK' /\ FreedOwnersOK'
  BY <1>1, OwnersRestNext DEF WriteSteps, DeleteSteps
<1> QED
  BY <1>9, <1>12, <1>13 DEF OwnersInv

LEMMA FreeClusterOwners ==
  ASSUME FAT32Inv, OwnersInv, FreeCluster
  PROVE  OwnersInv'
<1>0. PICK p, k, x : p = req.parent /\ k = slot /\ x = cursor
  OBVIOUS
<1> DEFINE old == <<p, k>>
<1>1. /\ pc = "delete" /\ pc' \in {"delete", "delete_fat"}
      /\ UNCHANGED <<dfat, disk, req, slot>>
      /\ fat' = [fat EXCEPT ![x] = EMPTY]
      /\ fat[x] # EOF => pc' = "delete" /\ cursor' = fat[x]
      /\ fat[x] = EOF => pc' = "delete_fat"
  BY <1>0 DEF FreeCluster, Freed, NextOf, diskVars
<1>2. /\ k \in Slots /\ p \in DataClusters
      /\ disk \in [DataClusters -> Image] /\ fat \in [Clusters -> FatValues]
  BY <1>0, <1>1 DEF FAT32Inv, TypeOK, CallOK, DeleteSteps
<1>3. x \in DataClusters /\ fat[x] = dfat[x]
  BY <1>0, <1>1 DEF FAT32Inv, MemoryInv, WalkOnChain, FreedOK
<1>4. \A c \in DataClusters : c \in Clusters /\ c # EMPTY /\ c # EOF
  BY ConstantTypes DEF DataClusters, ROOT, EMPTY
<1>5. fat'[x] = EMPTY /\ \A c \in Clusters : c # x => fat'[c] = fat[c]
  BY <1>1, <1>2, <1>3, <1>4
<1>6. /\ Live(dfat)' = Live(dfat) /\ \A e : Start(e)' = Start(e)
      /\ Doomed = {old} /\ Doomed' = {old}
  BY <1>0, <1>1 DEF Live, Start, Doomed
<1>7. Start(old) \in Clusters
  BY <1>2 DEF Start, Image, Entry
<1> HIDE DEF old
<1>8. /\ \A c \in DataClusters : dfat[c] \in DataClusters /\ fat[c] = EMPTY =>
           fat[dfat[c]] = EMPTY \/ dfat[c] = x
      /\ \A e \in Live(dfat) : fat[e[1]] # EMPTY /\ e[1] # x
      /\ fat[Start(old)] = EMPTY \/ Start(old) = x
  BY <1>0, <1>1, <1>6 DEF OwnersInv, FreedOwnersOK
<1>9. \A c \in DataClusters : dfat[c] \in DataClusters /\ fat'[c] = EMPTY =>
        fat'[dfat[c]] = EMPTY \/ (c = x /\ dfat[c] = dfat[x])
  BY <1>4, <1>5, <1>8
<1>10. \A e \in Live(dfat) : e[1] \in DataClusters /\ dfat[e[1]] = EOF /\ disk[e[1]].dir
  BY DEF Live
<1>11. \A e \in Live(dfat) : fat'[e[1]] # EMPTY
  BY <1>4, <1>5, <1>8, <1>10
<1>12. fat'[Start(old)] = EMPTY
  BY <1>5, <1>7, <1>8
<1>13. OwnersOK' /\ FoldersOK'
  BY <1>1, OwnersKept
<1>14. NewOwnersOK'
  BY <1>1 DEF NewOwnersOK, WriteSteps
<1>15. CASE fat[x] # EOF
  <2>1. pc' = "delete" /\ cursor' = dfat[x]
    BY <1>1, <1>3, <1>15
  <2>2. \A e \in Live(dfat) : e[1] # dfat[x]
    BY <1>3, <1>10 DEF OwnersInv, FoldersOK
  <2>3. FreedOwnersOK'
    BY <2>1, <2>2, <1>1, <1>6, <1>9, <1>11, <1>12 DEF FreedOwnersOK
  <2> QED
    BY <2>3, <1>13, <1>14 DEF OwnersInv
<1>16. CASE fat[x] = EOF
  <2>1. pc' = "delete_fat" /\ dfat[x] \notin DataClusters
    BY <1>1, <1>3, <1>4, <1>16
  <2>2. FreedOwnersOK'
    BY <2>1, <1>1, <1>6, <1>9, <1>11, <1>12 DEF FreedOwnersOK
  <2> QED
    BY <2>2, <1>13, <1>14 DEF OwnersInv
<1> QED
  BY <1>15, <1>16

(* Whoever named a cluster that is kept is kept as well.                   *)
LEMMA DeleteFatOwners ==
  ASSUME FAT32Inv, OwnersInv, DeleteFat
  PROVE  OwnersInv'
<1>1. /\ pc = "delete_fat" /\ pc' = "delete_dir" /\ dfat' = fat
      /\ UNCHANGED <<disk, fat, req, slot>>
  BY DEF DeleteFat, callVars
<1>2. \A c \in DataClusters : fat[c] \in {dfat[c], EMPTY}
  BY <1>1, ConstantTypes DEF FAT32Inv, MemoryInv, FreedOK
<1>3. EMPTY \notin DataClusters /\ EMPTY # EOF
  BY DEF DataClusters, ROOT, EMPTY, EOF
<1>4. /\ \A c \in DataClusters :
           dfat[c] \in DataClusters /\ fat[c] = EMPTY => fat[dfat[c]] = EMPTY
      /\ \A e \in Live(dfat) : fat[e[1]] # EMPTY
      /\ \A e \in Doomed : fat[Start(e)] = EMPTY
  BY <1>1 DEF OwnersInv, FreedOwnersOK
<1>5. Doomed' = Doomed /\ \A e : Start(e)' = Start(e)
  BY <1>1 DEF Doomed, Start
<1>6. \A e \in Live(dfat) : e[1] \in DataClusters /\ dfat[e[1]] = EOF
  BY DEF Live
<1>7. Live(dfat)' = Live(dfat)
  <2>1. \A c \in DataClusters : fat[c] = EOF => dfat[c] = EOF
    BY <1>2, <1>3
  <2>2. Live(dfat)' \subseteq Live(dfat)
    BY <2>1, <1>1 DEF Live
  <2>3. \A e \in Live(dfat) : fat[e[1]] = EOF
    BY <1>2, <1>4, <1>6
  <2>4. Live(dfat) \subseteq Live(dfat)'
    BY <2>3, <1>1 DEF Live
  <2> QED
    BY <2>2, <2>4
<1>8. OwnersOK'
  <2> SUFFICES ASSUME NEW c \in DataClusters \ {ROOT}, fat[c] # EMPTY
               PROVE  Owned(c)'
    BY <1>1 DEF OwnersOK
  <2>1. Owned(c)
    BY <1>1, <1>2 DEF OwnersInv, OwnersOK
  <2>2. CASE \E d \in DataClusters : dfat[d] = c
    <3>1. PICK d \in DataClusters : dfat[d] = c
      BY <2>2
    <3>2. fat[d] = c
      BY <3>1, <1>2, <1>4
    <3> QED
      BY <3>2, <1>1 DEF Owned
  <2>3. CASE \E e \in Live(dfat) : Start(e) = c
    BY <2>3, <1>5, <1>7 DEF Owned
  <2> QED
    BY <2>1, <2>2, <2>3 DEF Owned
<1>9. FoldersOK'
  <2> SUFFICES ASSUME NEW p \in DataClusters, fat[p] = EOF, disk[p].dir
               PROVE  /\ \A c \in DataClusters : fat[c] # p
                      /\ \A e \in Live(dfat) : Start(e) = p => disk[e[1]].table[e[2]].sub
    BY <1>1, <1>5, <1>7 DEF FoldersOK
  <2>1. dfat[p] = EOF
    BY <1>2, <1>3
  <2>2. /\ \A c \in DataClusters : dfat[c] # p
        /\ \A e \in Live(dfat) : Start(e) = p => disk[e[1]].table[e[2]].sub
    BY <2>1 DEF OwnersInv, FoldersOK
  <2> QED
    BY <2>2, <1>2, <1>3
<1>10. NewOwnersOK' /\ FreedOwnersOK'
  BY <1>1, <1>4, <1>5 DEF NewOwnersOK, FreedOwnersOK, WriteSteps
<1> QED
  BY <1>8, <1>9, <1>10 DEF OwnersInv

(* The entry that goes owned nothing any more.                             *)
LEMMA DeleteDirOwners ==
  ASSUME FAT32Inv, OwnersInv, DeleteDir
  PROVE  OwnersInv'
<1>0. PICK p, k : p = req.parent /\ k = slot
  OBVIOUS
<1> DEFINE old == <<p, k>>
<1>1. /\ pc = "delete_dir" /\ pc' = "idle" /\ dfat' = dfat
      /\ disk' = [disk EXCEPT ![p] = dirbuf]
  BY <1>0 DEF DeleteDir, Return
<1>2. /\ k \in Slots /\ p \in DataClusters
      /\ disk \in [DataClusters -> Image] /\ dirbuf \in Image
  BY <1>0, <1>1 DEF FAT32Inv, TypeOK, CallOK, DeleteSteps
<1>3. /\ dirbuf.dir /\ disk[p].dir
      /\ \A s \in Slots : s # k => dirbuf.table[s] = disk[p].table[s]
      /\ ~dirbuf.table[k].used
  BY <1>0, <1>1 DEF FAT32Inv, MemoryInv, BufferOK, FreedOK, DeleteSteps
<1>4. disk'[p] = dirbuf /\ \A c \in DataClusters : c # p => disk'[c] = disk[c]
  BY <1>1, <1>2
<1>5. \A c \in DataClusters : disk'[c].dir = disk[c].dir
  <2>1. disk[p].dir = TRUE /\ dirbuf.dir = TRUE
    BY <1>2, <1>3 DEF Image
  <2> QED
    BY <2>1, <1>4
<1>6. dfat[Start(old)] = EMPTY
  BY <1>0, <1>1 DEF OwnersInv, FreedOwnersOK, Doomed
<1>7. \A e \in Live(dfat) : e # old => /\ e \in Live(dfat)' /\ Start(e)' = Start(e)
                                       /\ disk'[e[1]].table[e[2]] = disk[e[1]].table[e[2]]
  <2> SUFFICES ASSUME NEW c \in DataClusters, NEW s \in Slots,
                      dfat[c] = EOF, disk[c].dir, disk[c].table[s].used, <<c, s>> # old
               PROVE  disk'[c].dir /\ disk'[c].table[s] = disk[c].table[s]
    BY <1>1 DEF Live, Start
  <2>1. CASE c = p
    BY <2>1, <1>3, <1>4
  <2>2. CASE c # p
    BY <2>2, <1>4
  <2> QED
    BY <2>1, <2>2
<1>8. \A e \in Live(dfat)' : e # old /\ e \in Live(dfat)
  <2> SUFFICES ASSUME NEW c \in DataClusters, NEW s \in Slots,
                      dfat[c] = EOF, disk'[c].dir, disk'[c].table[s].used
               PROVE  <<c, s>> # old /\ <<c, s>> \in Live(dfat)
    BY <1>1 DEF Live
  <2>1. CASE c = p
    BY <2>1, <1>3, <1>4 DEF Live
  <2>2. CASE c # p
    BY <2>2, <1>4 DEF Live
  <2> QED
    BY <2>1, <2>2
<1> HIDE DEF old
<1>9. OwnersOK'
  <2> SUFFICES ASSUME NEW c \in DataClusters \ {ROOT}, dfat[c] # EMPTY
               PROVE  Owned(c)'
    BY <1>1 DEF OwnersOK
  <2>1. Owned(c)
    BY <1>1 DEF OwnersInv, OwnersOK
  <2>2. \A e \in Live(dfat) : Start(e) = c => e # old
    BY <1>6
  <2> QED
    BY <2>1, <2>2, <1>1, <1>7 DEF Owned
<1>10. FoldersOK'
  <2> SUFFICES ASSUME NEW q \in DataClusters, dfat[q] = EOF, disk[q].dir
               PROVE  /\ \A c \in DataClusters : dfat[c] # q
                      /\ \A e \in Live(dfat)' : Start(e)' = q => disk'[e[1]].table[e[2]].sub
    BY <1>1, <1>5 DEF FoldersOK
  <2>1. /\ \A c \in DataClusters : dfat[c] # q
        /\ \A e \in Live(dfat) : Start(e) = q => disk[e[1]].table[e[2]].sub
    BY DEF OwnersInv, FoldersOK
  <2> QED
    BY <2>1, <1>7, <1>8
<1>11. NewOwnersOK' /\ FreedOwnersOK'
  BY <1>1, OwnersRestNext DEF WriteSteps, DeleteSteps
<1> QED
  BY <1>9, <1>10, <1>11 DEF OwnersInv

LEMMA StepsOwners ==
  ASSUME FAT32Inv, OwnersInv, TablesInFolders, Steps
  PROVE  OwnersInv'
<1>1. ASSUME ReadBlock PROVE OwnersInv'
  BY <1>1, OtherCallsOwners DEF ReadBlock, Return, diskVars
<1> QED
  BY <1>1, WriteBlockOwners, WriteFatOwners, WriteDirOwners,
     FreeClusterOwners, DeleteFatOwners, DeleteDirOwners
  DEF Steps

LEMMA StutterOwners ==
  ASSUME OwnersInv, UNCHANGED vars
  PROVE  OwnersInv'
<1>1. /\ Live(dfat)' = Live(dfat) /\ Doomed' = Doomed /\ NewHead' = NewHead
      /\ \A e : Start(e)' = Start(e)
      /\ \A c : Linking(c)' = Linking(c)
  BY DEF vars, Live, Doomed, NewHead, Start, Linking
<1>2. OwnersOK'
  BY <1>1 DEF vars, OwnersInv, OwnersOK, Owned
<1>3. FoldersOK'
  BY <1>1 DEF vars, OwnersInv, FoldersOK
<1>4. NewOwnersOK'
  BY <1>1 DEF vars, OwnersInv, NewOwnersOK
<1>5. FreedOwnersOK'
  BY <1>1 DEF vars, OwnersInv, FreedOwnersOK
<1> QED
  BY <1>2, <1>3, <1>4, <1>5 DEF OwnersInv

(* The driver's whole invariant.                                           *)
THEOREM DriverInvCorrect == Spec => []DriverInv
<1>1. Init => DriverInv
  BY InvInit, OwnersInit DEF DriverInv
<1>2. DriverInv /\ [Next]_vars => DriverInv'
  <2> SUFFICES ASSUME DriverInv, [Next]_vars PROVE DriverInv'
    OBVIOUS
  <2>1. FAT32Inv /\ FAT32Inv'
    BY BootInv, CallsInv, StepsInv, StutterInv DEF DriverInv, Next
  <2>2. ASSUME TablesInFolders PROVE OwnersInv'
    <3>1. OwnersInv
      BY <2>2 DEF DriverInv
    <3> QED
      BY <2>1, <2>2, <3>1, BootOwners, CallsOwners, StepsOwners, StutterOwners DEF Next
  <2> QED
    BY <2>1, <2>2 DEF DriverInv, TablesInFolders
<1> QED
  BY <1>1, <1>2, PTL DEF Spec

(* No space is lost, as long as only folders are made from directory       *)
(* tables.                                                                 *)
THEOREM NoLeakCorrect == ASSUME TablesInFolders PROVE Spec => []NoLeak
<1>1. DriverInv => NoLeak
  BY DEF DriverInv, OwnersInv, OwnersOK, Owned, NoLeak
<1> QED
  BY <1>1, DriverInvCorrect, PTL
=============================================================================
