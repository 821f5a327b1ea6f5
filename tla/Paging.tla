-------------------------------- MODULE Paging --------------------------------
(***************************************************************************)
(* The page frame manager (ch2/paging/paging.c), the kernel's page         *)
(* directory and the MMU that reads it.                                    *)
(*                                                                         *)
(* The kernel is one thread and its interrupt handlers leave paging alone, *)
(* so a call is cut only where the MMU, which fills its TLB from the       *)
(* directory whenever it likes, can see a difference: between the stores   *)
(* to an entry and the invlpg that ends update_page_directory_entry().     *)
(***************************************************************************)
EXTENDS Integers, FiniteSets, FiniteSetsExt

CONSTANTS
  Pages,                \* the indexes of the page directory in use
  KERNEL_PAGE,          \* 0x300, where the kernel is mapped
  PAGE_FRAME_MAX_COUNT  \* 32 in the code

Frames == 0 .. PAGE_FRAME_MAX_COUNT - 1

ASSUME PagingAssumption ==
  /\ 0 \in Pages /\ KERNEL_PAGE \in Pages \ {0}
  /\ PAGE_FRAME_MAX_COUNT \in Nat /\ 2 <= PAGE_FRAME_MAX_COUNT

(* struct PageDirectoryEntry: stray stands for write_through,              *)
(* cache_disabled, accessed and dirty.                                     *)
Flag  == [present : BOOLEAN, write : BOOLEAN, user : BOOLEAN, big : BOOLEAN, stray : BOOLEAN]
Entry == [flag : Flag, frame : Frames]

NoFlag     == [present |-> FALSE, write |-> FALSE, user |-> FALSE, big |-> FALSE, stray |-> FALSE]
KernelFlag == [present |-> TRUE, write |-> TRUE, user |-> FALSE, big |-> TRUE, stray |-> FALSE]
(* The local flag of paging_allocate_user_page_frame() is not initialised. *)
(* Mutated: nor is its present bit set.                                    *)
MutUserFlags == [present : BOOLEAN, write : {TRUE}, user : {TRUE}, big : {TRUE}, stray : BOOLEAN]

UserFlags  == [present : {TRUE}, write : {TRUE}, user : {TRUE}, big : {TRUE}, stray : BOOLEAN]

BlankEntry  == [flag |-> NoFlag, frame |-> 0]
KernelEntry == [flag |-> KernelFlag, frame |-> 0]

VARIABLES
  table,     \* _paging_kernel_page_directory
  frameMap,  \* page_manager_state.page_frame_map
  freeCount, \* page_manager_state.free_page_frame_count
  tlb,       \* the translations the MMU holds: what each page's may be
  pc,        \* where update_page_directory_entry(), or the loader, is
  page,      \* its page_index
  new,       \* the entry it stores
  lost       \* history: the frames of entries that were overwritten

vars == <<table, frameMap, freeCount, tlb, pc, page, new, lost>>

(* The static directory maps frame 0 twice.                                *)
FirstTable == [p \in Pages |-> IF p \in {0, KERNEL_PAGE} THEN KernelEntry ELSE BlankEntry]

(* The loader has turned paging on.                                        *)
Init ==
  /\ table = FirstTable
  /\ frameMap = [f \in Frames |-> f = 0]
  /\ freeCount = PAGE_FRAME_MAX_COUNT - 1
  /\ tlb = [p \in Pages |-> {}]
  /\ pc = "loader"
  /\ page = 0 /\ new = BlankEntry
  /\ lost = {}

-----------------------------------------------------------------------------
(* The MMU                                                                 *)

Fill(p) ==
  /\ table[p].flag.present
  /\ tlb' = [tlb EXCEPT ![p] = {table[p]}]
  /\ UNCHANGED <<table, frameMap, freeCount, pc, page, new, lost>>

Evict(p) ==
  /\ tlb[p] # {}
  /\ tlb' = [tlb EXCEPT ![p] = {}]
  /\ UNCHANGED <<table, frameMap, freeCount, pc, page, new, lost>>

-----------------------------------------------------------------------------
(* loader_virtual deletes the identity mapping.                            *)
ClearIdentity ==
  /\ pc = "loader"
  /\ table' = [table EXCEPT ![0] = BlankEntry]
  /\ pc' = "flush"
  /\ UNCHANGED <<frameMap, freeCount, tlb, page, new, lost>>

(* update_page_directory_entry() stores the flag, then the address, then   *)
(* invalidates the page.                                                   *)
Update(p, entry) ==
  /\ page' = p /\ new' = entry
  /\ pc' = "flag"

StoreFlag ==
  /\ pc = "flag"
  /\ table' = [table EXCEPT ![page].flag = new.flag]
  /\ pc' = "address"
  /\ UNCHANGED <<frameMap, freeCount, tlb, page, new, lost>>

StoreAddress ==
  /\ pc = "address"
  /\ table' = [table EXCEPT ![page].frame = new.frame]
  /\ pc' = "flush"
  /\ UNCHANGED <<frameMap, freeCount, tlb, page, new, lost>>

(* What flush_single_tlb() leaves.  Mutated: the translation stays.        *)
MutFlushed == tlb

Flushed == [tlb EXCEPT ![page] = {}]

Flush ==
  /\ pc = "flush"
  /\ tlb' = Flushed
  /\ pc' = "idle"
  /\ page' = 0 /\ new' = BlankEntry
  /\ UNCHANGED <<table, frameMap, freeCount, lost>>

-----------------------------------------------------------------------------
(* The page frame manager                                                  *)

(* The candidates of the search for a free frame.  Mutated: any frame; one *)
(* past the last.                                                          *)
MutFreeFramesAny  == Frames
MutFreeFramesPast == {f \in 0 .. PAGE_FRAME_MAX_COUNT : f = PAGE_FRAME_MAX_COUNT \/ ~frameMap[f]}

FreeFrames == {f \in Frames : ~frameMap[f]}

(* The map without frame f.  Mutated: the frame is not given back.         *)
MutReleased(f) == frameMap

Released(f) == [frameMap EXCEPT ![f] = FALSE]

(* With no free frame the call returns false and changes nothing.  The      *)
(* entry is overwritten whether it is present or not.                      *)
Allocate(p) ==
  /\ pc = "idle"
  /\ FreeFrames # {}
  /\ LET f == Min(FreeFrames)
     IN  /\ frameMap' = [frameMap EXCEPT ![f] = TRUE]
         /\ \E flag \in UserFlags : Update(p, [flag |-> flag, frame |-> f])
  /\ freeCount' = freeCount - 1
  /\ lost' = lost \cup (IF table[p].flag.present THEN {table[p].frame} ELSE {})
  /\ UNCHANGED <<table, tlb>>

(* The frame of an entry that is present is released, whoever owns it.     *)
Free(p) ==
  /\ pc = "idle"
  /\ table[p].flag.present
  /\ frameMap' = Released(table[p].frame)
  /\ freeCount' = freeCount + 1
  /\ Update(p, BlankEntry)
  /\ UNCHANGED <<table, tlb, lost>>

-----------------------------------------------------------------------------
(* The functions say nothing of who may call them with what.               *)
Calls == \E p \in Pages : Allocate(p) \/ Free(p)

Steps == ClearIdentity \/ StoreFlag \/ StoreAddress \/ Flush

Mmu == \E p \in Pages : Fill(p) \/ Evict(p)

Next == Steps \/ Calls \/ Mmu

Spec == Init /\ [][Next]_vars

-----------------------------------------------------------------------------
TypeOK ==
  /\ table \in [Pages -> Entry]
  /\ frameMap \in [Frames -> BOOLEAN]
  /\ freeCount \in 0 .. PAGE_FRAME_MAX_COUNT
  /\ tlb \in [Pages -> SUBSET Entry]
  /\ pc \in {"loader", "flag", "address", "flush", "idle"}
  /\ page \in Pages
  /\ new \in Entry
  /\ lost \subseteq Frames

(* The count is that of the frames marked free, at every step: it never    *)
(* wraps below zero.  (paging.c:79-81, 116-117)                            *)
CountExact == freeCount = Cardinality(FreeFrames)

(* Once an update is over the MMU translates no page otherwise than the    *)
(* directory does, whatever it filled during the update.  (paging.c:42-44) *)
TlbFresh == pc = "idle" => \A p \in Pages : tlb[p] \subseteq {table[p]}

(* No frame is mapped twice: not by two pages of a program, not by a page  *)
(* of a program and the kernel.  (paging.c:75-82, 96)                      *)
FramesExclusive ==
  pc = "idle" =>
    \A p, q \in Pages : /\ p # q
                        /\ table[p].flag.present /\ table[q].flag.present
                        => table[p].frame # table[q].frame

(* page_frame_map marks the frames that are "currently used" (paging.h:92):*)
(* those a page maps, and those whose only page was allocated once more,   *)
(* which no call can free again.  (paging.c:75-82, 96, 116)                *)
FrameMapTracks ==
  pc = "idle" =>
    \A f \in Frames :
      frameMap[f] <=> \/ \E p \in Pages : table[p].flag.present /\ table[p].frame = f
                      \/ f \in lost

-----------------------------------------------------------------------------
(* The inductive invariant: the promises above, kept at every step for the *)
(* directory as it will be when the update in progress is over.            *)

Goal(p) == IF pc \in {"flag", "address"} /\ p = page THEN new ELSE table[p]

Maps(p, f) == Goal(p).flag.present /\ Goal(p).frame = f

(* A frame has one page at most, and then it is marked.                    *)
GoalsOK ==
  pc # "loader" =>
    \A p \in Pages, f \in Frames :
      Maps(p, f) => frameMap[f] /\ \A q \in Pages : Maps(q, f) => p = q

(* Only the page being updated can have a stale translation.               *)
StaleOK ==
  \A p \in Pages : \/ tlb[p] \subseteq {table[p]}
                   \/ pc \in {"flag", "address", "flush"} /\ p = page

(* The loader runs before any call.                                        *)
LoaderOK ==
  pc = "loader" =>
    /\ page = 0 /\ table = FirstTable
    /\ frameMap = [f \in Frames |-> f = 0]
    /\ lost = {}

UpdateOK == pc = "address" => table[page].flag = new.flag

(* A marked frame has a page or is lost, and not both.                     *)
MarkedOK ==
  pc # "loader" => \A f \in Frames : frameMap[f] => f \in lost \/ \E p \in Pages : Maps(p, f)

LostOK == \A f \in lost : frameMap[f] /\ \A p \in Pages : ~Maps(p, f)

PagingInv ==
  /\ TypeOK /\ CountExact /\ GoalsOK /\ StaleOK /\ LoaderOK /\ UpdateOK
  /\ MarkedOK /\ LostOK

=============================================================================
