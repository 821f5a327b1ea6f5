----------------------------- MODULE PagingProofs -----------------------------
(***************************************************************************)
(* The page frame manager keeps its books, for every number of pages and   *)
(* frames.                                                                 *)
(***************************************************************************)
EXTENDS Paging, FiniteSetsExt, FiniteSetTheorems, WellFoundedInduction, TLAPS

(* A search that takes the first candidate returns a candidate.            *)
LEMMA MinIsLeast ==
  ASSUME NEW S \in SUBSET Nat, S # {}
  PROVE  Min(S) \in S /\ \A y \in S : Min(S) <= y
<1> DEFINE Less == {ss \in Nat \X Nat : ss[1] < ss[2]}
<1>1. IsWellFoundedOn(Less, Nat)
  BY NatLessThanWellFounded DEF OpToRel
<1>2. PICK x \in S : \A y \in S : ~(<<y, x>> \in Less)
  <2> HIDE DEF Less
  <2> QED
    BY <1>1, WFMin
<1>3. ASSUME NEW y \in S PROVE x <= y
  <2>1. x \in Nat /\ y \in Nat /\ <<y, x>> \notin Less
    BY <1>2
  <2> QED
    BY <2>1
<1> QED
  BY <1>3 DEF Min

LEMMA EntryTypes ==
  /\ BlankEntry \in Entry /\ KernelEntry \in Entry
  /\ \A flag \in UserFlags : flag \in Flag /\ flag.present
  /\ ~BlankEntry.flag.present /\ KernelEntry.flag.present
  /\ BlankEntry.frame = 0 /\ KernelEntry.frame = 0 /\ 0 \in Frames
<1>1. 0 \in Frames
  BY PagingAssumption DEF Frames
<1>2. NoFlag \in Flag /\ KernelFlag \in Flag
  BY DEF NoFlag, KernelFlag, Flag
<1>3. \A flag \in UserFlags : flag \in Flag /\ flag.present
  BY DEF UserFlags, Flag
<1> QED
  BY <1>1, <1>2, <1>3 DEF BlankEntry, KernelEntry, Entry, NoFlag, KernelFlag

LEMMA FreeFramesFinite ==
  IsFiniteSet(FreeFrames) /\ Cardinality(FreeFrames) \in 0 .. PAGE_FRAME_MAX_COUNT
<1>1. IsFiniteSet(Frames) /\ Cardinality(Frames) = PAGE_FRAME_MAX_COUNT
  BY FS_Interval, PagingAssumption DEF Frames
<1>2. FreeFrames \in SUBSET Frames
  BY DEF FreeFrames
<1> QED
  BY <1>1, <1>2, FS_Subset, FS_CardinalityType, PagingAssumption

(* The search of paging_allocate_user_page_frame() returns a free frame.   *)
LEMMA FreeFrameFound ==
  ASSUME FreeFrames # {}
  PROVE  Min(FreeFrames) \in FreeFrames
<1>1. FreeFrames \in SUBSET Nat
  BY DEF FreeFrames, Frames
<1> QED
  BY <1>1, FreeFramesFinite, MinIsLeast

-----------------------------------------------------------------------------
LEMMA PagingInit == Init => PagingInv
<1> SUFFICES ASSUME Init PROVE PagingInv
  OBVIOUS
<1>1. TypeOK
  <2>1. \A p \in Pages : FirstTable[p] \in Entry
    BY EntryTypes DEF FirstTable
  <2>2. table \in [Pages -> Entry]
    BY <2>1 DEF Init, FirstTable
  <2>3. frameMap \in [Frames -> BOOLEAN]
    BY DEF Init
  <2>6. tlb \in [Pages -> SUBSET Entry]
    BY DEF Init
  <2>4. freeCount \in 0 .. PAGE_FRAME_MAX_COUNT
    BY PagingAssumption DEF Init
  <2>5. pc = "loader" /\ page \in Pages /\ new \in Entry /\ lost = {}
    BY EntryTypes, PagingAssumption DEF Init
  <2> QED
    BY <2>2, <2>3, <2>4, <2>5, <2>6 DEF TypeOK
<1>2. CountExact
  <2>1. FreeFrames = 1 .. PAGE_FRAME_MAX_COUNT - 1
    <3>1. \A f \in Frames : frameMap[f] <=> f = 0
      BY DEF Init
    <3>2. \A f : f \in FreeFrames <=> f \in Frames /\ f # 0
      BY <3>1 DEF FreeFrames
    <3>3. \A f : f \in Frames /\ f # 0 <=> f \in 1 .. PAGE_FRAME_MAX_COUNT - 1
      BY PagingAssumption DEF Frames
    <3> QED
      BY <3>2, <3>3
  <2>2. Cardinality(1 .. PAGE_FRAME_MAX_COUNT - 1) = PAGE_FRAME_MAX_COUNT - 1
    BY FS_Interval, PagingAssumption
  <2> QED
    BY <2>1, <2>2 DEF Init, CountExact
<1>3. LoaderOK
  BY DEF Init, LoaderOK
<1> QED
  BY <1>1, <1>2, <1>3 DEF Init, PagingInv, GoalsOK, StaleOK, MarkedOK, LostOK, UpdateOK

(* The MMU changes nothing but its own state.                              *)
LEMMA MmuKeeps ==
  ASSUME PagingInv, Mmu
  PROVE  PagingInv'
<1>1. PICK p \in Pages : Fill(p) \/ Evict(p)
  BY DEF Mmu
<1>2. UNCHANGED <<table, frameMap, freeCount, pc, page, new, lost>>
  BY <1>1 DEF Fill, Evict
<1>3. TypeOK
  BY DEF PagingInv
<1>4. tlb' = [tlb EXCEPT ![p] = {table[p]}] \/ tlb' = [tlb EXCEPT ![p] = {}]
  BY <1>1 DEF Fill, Evict
<1>5. TypeOK' /\ StaleOK'
  BY <1>2, <1>3, <1>4 DEF PagingInv, TypeOK, StaleOK
<1>6. \A q, f : Maps(q, f)' = Maps(q, f)
  BY <1>2 DEF Maps, Goal
<1>7. GoalsOK' /\ MarkedOK' /\ LostOK'
  BY <1>2, <1>6 DEF PagingInv, GoalsOK, MarkedOK, LostOK
<1>8. CountExact' /\ LoaderOK' /\ UpdateOK'
  BY <1>2 DEF PagingInv, CountExact, FreeFrames, LoaderOK, UpdateOK
<1> QED
  BY <1>5, <1>7, <1>8 DEF PagingInv

(* The steps of the loader and of an update lead to the same directory.    *)
LEMMA StepsKeep ==
  ASSUME PagingInv, Steps
  PROVE  PagingInv'
<1>1. /\ TypeOK /\ CountExact /\ GoalsOK /\ StaleOK /\ LoaderOK /\ UpdateOK
      /\ MarkedOK /\ LostOK
  BY DEF PagingInv
<1>2. UNCHANGED <<frameMap, freeCount, lost>>
  BY DEF Steps, ClearIdentity, StoreFlag, StoreAddress, Flush
<1>3. CountExact' /\ pc' # "loader" /\ LoaderOK'
  BY <1>1, <1>2
  DEF Steps, ClearIdentity, StoreFlag, StoreAddress, Flush, CountExact, FreeFrames, LoaderOK
<1>4. CASE ClearIdentity
  <2>1. /\ pc = "loader" /\ pc' = "flush" /\ UNCHANGED <<tlb, page, new>>
        /\ table' = [table EXCEPT ![0] = BlankEntry]
        /\ page = 0 /\ table = FirstTable /\ frameMap = [f \in Frames |-> f = 0] /\ lost = {}
    BY <1>1, <1>4 DEF ClearIdentity, LoaderOK
  <2>2. TypeOK'
    BY <1>1, <1>2, <2>1, EntryTypes DEF TypeOK
  <2>3. \A p \in Pages : Goal(p)' = IF p = KERNEL_PAGE THEN KernelEntry ELSE BlankEntry
    BY <2>1, PagingAssumption DEF Goal, FirstTable
  <2>4. \A p \in Pages, f \in Frames : Maps(p, f)' <=> p = KERNEL_PAGE /\ f = 0
    BY <2>3, EntryTypes DEF Maps
  <2>5. GoalsOK' /\ MarkedOK' /\ LostOK'
    BY <1>2, <2>1, <2>4, PagingAssumption DEF GoalsOK, MarkedOK, LostOK
  <2>6. StaleOK'
    BY <1>1, <2>1 DEF StaleOK, TypeOK
  <2>7. UpdateOK'
    BY <2>1 DEF UpdateOK
  <2> QED
    BY <1>3, <2>2, <2>5, <2>6, <2>7 DEF PagingInv
<1>5. CASE StoreFlag \/ StoreAddress \/ Flush
  <2>1. pc # "loader"
    BY <1>5 DEF StoreFlag, StoreAddress, Flush
  <2>2. TypeOK'
    <3>1. CASE StoreFlag
      BY <1>1, <1>2, <3>1 DEF TypeOK, Entry, StoreFlag
    <3>2. CASE StoreAddress
      BY <1>1, <1>2, <3>2 DEF TypeOK, Entry, StoreAddress
    <3>3. CASE Flush
      BY <1>1, <1>2, <3>3, EntryTypes, PagingAssumption DEF TypeOK, Flush, Flushed
    <3> QED
      BY <1>5, <3>1, <3>2, <3>3
  <2>3. \A p \in Pages : Goal(p)' = Goal(p) 
    <3>1. new \in Entry /\ table \in [Pages -> Entry] /\ page \in Pages
      BY <1>1 DEF TypeOK
    <3>2. CASE StoreFlag
      BY <3>1, <3>2 DEF StoreFlag, Goal
    <3>3. CASE StoreAddress
      <4>1. /\ pc = "address" /\ pc' = "flush" /\ UNCHANGED <<page, new>>
            /\ table' = [table EXCEPT ![page].frame = new.frame]
            /\ table[page].flag = new.flag
        BY <1>1, <3>3 DEF StoreAddress, UpdateOK
      <4>2. table'[page] = new
        BY <3>1, <4>1 DEF Entry
      <4> QED
        BY <3>1, <4>1, <4>2 DEF Goal
    <3>4. CASE Flush
      BY <3>1, <3>4 DEF Flush, Goal
    <3> QED
      BY <1>5, <3>2, <3>3, <3>4
  <2>4. GoalsOK' /\ MarkedOK'
    BY <1>1, <1>2, <2>1, <2>3 DEF GoalsOK, MarkedOK, Maps
  <2>7. LostOK'
    BY <1>1, <1>2, <2>3 DEF LostOK, Maps
  <2>5. StaleOK'
    BY <1>1, <1>5 DEF StaleOK, TypeOK, StoreFlag, StoreAddress, Flush, Flushed
  <2>6. UpdateOK'
    BY <1>1, <1>5 DEF UpdateOK, TypeOK, Entry, StoreFlag, StoreAddress, Flush
  <2> QED
    BY <1>3, <2>2, <2>4, <2>5, <2>6, <2>7 DEF PagingInv
<1> QED
  BY <1>4, <1>5 DEF Steps

(* An allocation marks a frame that no page maps.                          *)
LEMMA AllocateKeeps ==
  ASSUME PagingInv, NEW p \in Pages, Allocate(p)
  PROVE  PagingInv'
<1> DEFINE f == Min(FreeFrames)
           old == IF table[p].flag.present THEN {table[p].frame} ELSE {}
<1>1. TypeOK /\ CountExact /\ GoalsOK /\ StaleOK /\ MarkedOK /\ LostOK
  BY DEF PagingInv
<1>2. PICK flag \in UserFlags :
        /\ pc = "idle" /\ pc' = "flag" /\ page' = p /\ new' = [flag |-> flag, frame |-> f]
        /\ frameMap' = [frameMap EXCEPT ![f] = TRUE] /\ freeCount' = freeCount - 1
        /\ lost' = lost \cup old
        /\ UNCHANGED <<table, tlb>> /\ FreeFrames # {}
  BY DEF Allocate, Update
<1>3. f \in FreeFrames /\ f \in Frames /\ ~frameMap[f]
  BY <1>2, FreeFrameFound DEF FreeFrames
<1>12. \A g : g \in old <=> g \in Frames /\ Maps(p, g)
  BY <1>1, <1>2 DEF TypeOK, Entry, Maps, Goal
<1> HIDE DEF f, old
<1>4. FreeFrames' = FreeFrames \ {f}
  BY <1>1, <1>2, <1>3 DEF FreeFrames, TypeOK
<1>5. CountExact'
  BY <1>1, <1>2, <1>3, <1>4, FreeFramesFinite, FS_RemoveElement DEF CountExact
<1>6. TypeOK'
  <2>1. new' \in Entry
    BY <1>2, <1>3, EntryTypes DEF Entry
  <2>2. freeCount' \in 0 .. PAGE_FRAME_MAX_COUNT
    <3>1. Cardinality(FreeFrames \ {f}) \in Nat
      BY FreeFramesFinite, FS_RemoveElement, FS_CardinalityType
    <3>2. freeCount' = Cardinality(FreeFrames \ {f})
      BY <1>4, <1>5 DEF CountExact
    <3> QED
      BY <1>1, <1>2, <3>1, <3>2, PagingAssumption DEF TypeOK
  <2> QED
    BY <1>1, <1>2, <1>12, <2>1, <2>2 DEF TypeOK
<1>7. \A q \in Pages : Goal(q)' = IF q = p THEN new' ELSE Goal(q)
  BY <1>2 DEF Goal
<1>8. \A q \in Pages, g \in Frames : Maps(q, g)' <=> IF q = p THEN g = f ELSE Maps(q, g)
  BY <1>2, <1>7, EntryTypes DEF Maps
<1>9. GoalsOK'
  BY <1>1, <1>2, <1>3, <1>8 DEF GoalsOK, TypeOK
<1>10. StaleOK' /\ LoaderOK' /\ UpdateOK'
  BY <1>1, <1>2 DEF StaleOK, LoaderOK, UpdateOK
<1>11. MarkedOK'
  <2>1. \A g \in Frames : frameMap'[g] => g = f \/ frameMap[g]
    BY <1>1, <1>2 DEF TypeOK
  <2> QED
    BY <1>1, <1>2, <1>3, <1>8, <1>12, <2>1 DEF MarkedOK
<1>13. LostOK'
  <2> SUFFICES ASSUME NEW g \in lost'
               PROVE  frameMap'[g] /\ \A q \in Pages : ~Maps(q, g)'
    BY DEF LostOK
  <2>1. g \in Frames /\ frameMap[g] /\ \A q \in Pages : q # p => ~Maps(q, g)
    BY <1>1, <1>2, <1>12 DEF TypeOK, LostOK, GoalsOK
  <2> QED
    BY <1>1, <1>2, <1>3, <1>8, <2>1 DEF TypeOK
<1> QED
  BY <1>5, <1>6, <1>9, <1>10, <1>11, <1>13 DEF PagingInv

(* A free unmarks a frame that no other page maps.                         *)
LEMMA FreeKeeps ==
  ASSUME PagingInv, NEW p \in Pages, Free(p)
  PROVE  PagingInv'
<1> DEFINE f == table[p].frame
<1>1. TypeOK /\ CountExact /\ GoalsOK /\ StaleOK /\ MarkedOK /\ LostOK
  BY DEF PagingInv
<1>2. /\ pc = "idle" /\ pc' = "flag" /\ page' = p /\ new' = BlankEntry
      /\ frameMap' = [frameMap EXCEPT ![f] = FALSE] /\ freeCount' = freeCount + 1
      /\ UNCHANGED <<table, tlb, lost>> /\ table[p].flag.present
  BY DEF Free, Update, Released
<1>3. f \in Frames /\ Maps(p, f)
  BY <1>1, <1>2 DEF TypeOK, Entry, Maps, Goal
<1> HIDE DEF f
<1>4. frameMap[f] /\ \A q \in Pages : Maps(q, f) => p = q
  BY <1>1, <1>2, <1>3 DEF GoalsOK
<1>5. FreeFrames' = FreeFrames \cup {f} /\ f \notin FreeFrames
  BY <1>1, <1>2, <1>3, <1>4 DEF FreeFrames, TypeOK
<1>6. CountExact'
  BY <1>1, <1>2, <1>5, FreeFramesFinite, FS_AddElement DEF CountExact
<1>7. TypeOK'
  <2>1. freeCount' \in 0 .. PAGE_FRAME_MAX_COUNT
    <3>1. IsFiniteSet(Frames) /\ Cardinality(Frames) = PAGE_FRAME_MAX_COUNT
      BY FS_Interval, PagingAssumption DEF Frames
    <3>2. FreeFrames \cup {f} \subseteq Frames
      BY <1>3 DEF FreeFrames
    <3>3. Cardinality(FreeFrames \cup {f}) \in 0 .. PAGE_FRAME_MAX_COUNT
      BY <3>1, <3>2, FS_Subset, FS_CardinalityType, PagingAssumption
    <3> QED
      BY <1>5, <1>6, <3>3 DEF CountExact
  <2> QED
    BY <1>1, <1>2, <2>1, EntryTypes DEF TypeOK
<1>8. \A q \in Pages : Goal(q)' = IF q = p THEN new' ELSE Goal(q)
  BY <1>2 DEF Goal
<1>9. \A q \in Pages, g \in Frames : Maps(q, g)' <=> q # p /\ Maps(q, g)
  BY <1>2, <1>8, EntryTypes DEF Maps
<1>10. GoalsOK'
  BY <1>1, <1>2, <1>3, <1>4, <1>9 DEF GoalsOK, TypeOK
<1>11. StaleOK' /\ LoaderOK' /\ UpdateOK'
  BY <1>1, <1>2 DEF StaleOK, LoaderOK, UpdateOK
<1>12. MarkedOK'
  <2>1. \A g \in Frames : frameMap'[g] => frameMap[g] /\ g # f
    BY <1>1, <1>2, <1>3 DEF TypeOK
  <2>2. \A g \in Frames : Maps(p, g) => g = f
    BY <1>3 DEF Maps
  <2> QED
    BY <1>1, <1>2, <1>9, <2>1, <2>2 DEF MarkedOK
<1>13. LostOK'
  <2>1. f \notin lost
    BY <1>1, <1>3 DEF LostOK
  <2> QED
    BY <1>1, <1>2, <1>9, <2>1 DEF TypeOK, LostOK
<1> QED
  BY <1>6, <1>7, <1>10, <1>11, <1>12, <1>13 DEF PagingInv

LEMMA PagingStutter ==
  ASSUME PagingInv, UNCHANGED vars
  PROVE  PagingInv'
<1>1. \A q, g : Maps(q, g)' = Maps(q, g)
  BY DEF vars, Maps, Goal
<1> QED
  BY <1>1
  DEF vars, PagingInv, TypeOK, CountExact, FreeFrames, GoalsOK, StaleOK, LoaderOK, UpdateOK,
      MarkedOK, LostOK

-----------------------------------------------------------------------------
(* Whoever calls, with whatever page, the invariant holds.                 *)
THEOREM PagingCorrect == Spec => []PagingInv
<1>1. PagingInv /\ [Next]_vars => PagingInv'
  BY MmuKeeps, StepsKeep, AllocateKeeps, FreeKeeps, PagingStutter DEF Next, Calls
<1> QED
  BY PagingInit, <1>1, PTL DEF Spec

(* The count of free frames is exact: paging.c:80 and 117 never let it     *)
(* wrap.                                                                   *)
THEOREM CountCorrect == Spec => []CountExact
<1>1. PagingInv => CountExact
  BY DEF PagingInv
<1> QED
  BY <1>1, PagingCorrect, PTL

(* The MMU works with no stale translation once flush_single_tlb() is      *)
(* done.                                                                   *)
THEOREM TlbCorrect == Spec => []TlbFresh
<1>1. PagingInv => TlbFresh
  BY DEF PagingInv, StaleOK, TlbFresh
<1> QED
  BY <1>1, PagingCorrect, PTL

(* No two pages share a frame that paging_allocate_user_page_frame() gave. *)
THEOREM FramesCorrect == Spec => []FramesExclusive
<1>1. PagingInv => FramesExclusive
  BY DEF PagingInv, GoalsOK, Maps, Goal, TypeOK, Entry, FramesExclusive
<1> QED
  BY <1>1, PagingCorrect, PTL

(* page_frame_map marks exactly the frames that are mapped or lost.        *)
THEOREM FrameMapCorrect == Spec => []FrameMapTracks
<1>1. PagingInv => FrameMapTracks
  <2> SUFFICES ASSUME PagingInv, pc = "idle", NEW f \in Frames
               PROVE  frameMap[f] <=> \/ \E p \in Pages : table[p].flag.present /\ table[p].frame = f
                                      \/ f \in lost
    BY DEF FrameMapTracks
  <2>1. \A p \in Pages : Maps(p, f) <=> table[p].flag.present /\ table[p].frame = f
    BY DEF Maps, Goal
  <2> QED
    BY <2>1 DEF PagingInv, GoalsOK, MarkedOK, LostOK
<1> QED
  BY <1>1, PagingCorrect, PTL
=============================================================================
