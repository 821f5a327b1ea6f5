-------------------------------- MODULE FAT32 --------------------------------
(***************************************************************************)
(* The FAT32 driver (ch1/fat32/fat32.c) and the disk image it keeps.       *)
(*                                                                         *)
(* The driver runs to completion: nothing else in the kernel touches its   *)
(* state while a call is in progress.  What can be seen between two of its *)
(* steps is the disk, so one action is one write_clusters() of the code    *)
(* together with the memory updates up to it, or one round of a loop over  *)
(* a FAT chain.  pc names the place.  Module FAT32Crash adds power loss.   *)
(*                                                                         *)
(* dir_table_buf holds nothing between two calls (each call overwrites it  *)
(* with read_clusters() before its first use), so it is blank when idle.   *)
(*                                                                         *)
(* An operator named Mut... is a mistake the code could have made, beside  *)
(* the operator it would replace; no definition uses it.                   *)
(***************************************************************************)
EXTENDS Integers, FiniteSets, FiniteSetsExt

CONSTANTS
  CLUSTER_MAP_SIZE,  \* entries of the FAT; 512 in the code
  DIRECTORY_ENTRIES, \* entries of a directory table; 64 in the code
  CLUSTER_SIZE,      \* bytes of a cluster; 2048 in the code
  Names, Exts,       \* the 8-byte names and 3-byte extensions callers use
  BLANK, NO_EXT,     \* the name and extension made of zero bytes
  Tokens, ZERO,      \* opaque cluster contents; the all-zero cluster
  Loads,             \* the (buffer_size, buffer) pairs given to write()
  ReadSizes          \* the buffer_size values given to read()

EMPTY           == 0          \* FAT32_FAT_EMPTY_ENTRY
EOF             == 268435455  \* FAT32_FAT_END_OF_FILE and CLUSTER_1_VALUE
CLUSTER_0_VALUE == 268435440
ROOT            == 2          \* ROOT_CLUSTER_NUMBER

Clusters     == 0 .. CLUSTER_MAP_SIZE - 1
DataClusters == ROOT .. CLUSTER_MAP_SIZE - 1
Slots        == 2 .. DIRECTORY_ENTRIES - 1
FatValues    == Clusters \cup {CLUSTER_0_VALUE, EOF}

(* struct FAT32DirectoryEntry: used is user_attribute == UATTR_NOT_EMPTY,  *)
(* sub is attribute == ATTR_SUBDIRECTORY, first is cluster_high:low.       *)
Entry == [used : BOOLEAN, name : Names \cup {BLANK}, ext : Exts \cup {NO_EXT},
          sub : BOOLEAN, first : Clusters, size : Nat]

(* The 2048 bytes of a cluster: any cluster can be read as a directory     *)
(* table, so an image says both what the bytes are (data) and how they     *)
(* look as a table (dir: entry 0 carries ATTR_SUBDIRECTORY).               *)
Image == [data : Tokens, dir : BOOLEAN, table : [Slots -> Entry]]

BlockCount(size) == size \div CLUSTER_SIZE + 1

BlankEntry == [used |-> FALSE, name |-> BLANK, ext |-> NO_EXT,
               sub |-> FALSE, first |-> 0, size |-> 0]
BlankTable == [s \in Slots |-> BlankEntry]
ZeroImage  == [data |-> ZERO, dir |-> FALSE, table |-> BlankTable]
(* create_fat32()'s root_directory_table: a table with no entry in use.    *)
RootImage  == [data |-> ZERO, dir |-> TRUE, table |-> BlankTable]

ASSUME SizeAssumption ==
  /\ CLUSTER_MAP_SIZE \in Nat /\ 3 <= CLUSTER_MAP_SIZE /\ CLUSTER_MAP_SIZE <= 512
  /\ DIRECTORY_ENTRIES \in Nat /\ 3 <= DIRECTORY_ENTRIES
  /\ CLUSTER_SIZE \in Nat \ {0}

ASSUME CallerAssumption ==
  /\ ZERO \in Tokens
  /\ ReadSizes \subseteq Nat
  \* write() reads BlockCount(size) clusters from the caller's buffer, and a
  \* buffer that looks like a directory table is one with no entry in use.
  /\ \A l \in Loads :
       /\ l.size \in Nat
       /\ \A k \in 0 .. l.size \div CLUSTER_SIZE :
            /\ l.buf[k] \in Image
            /\ l.buf[k].dir => \A s \in Slots : ~l.buf[k].table[s].used

VARIABLES
  \* non-volatile
  sig,      \* the boot sector holds fs_signature
  dfat,     \* cluster 1
  disk,     \* the clusters from ROOT on
  \* driver_state
  fat,      \* fat_table.cluster_map
  dirbuf,   \* dir_table_buf
  \* the call in progress
  pc,
  req,      \* the request: name, ext, parent, size and buf
  slot,     \* directory_table_index
  cursor,   \* fat_index, current_fat_index or cluster_number
  i,        \* clusters written or read so far
  ret       \* the error code of the last call that returned

diskVars == <<sig, dfat, disk>>
callVars == <<req, slot, cursor, i>>
vars == <<sig, dfat, disk, fat, dirbuf, pc, req, slot, cursor, i, ret>>

NoRequest == [name |-> BLANK, ext |-> NO_EXT, parent |-> 0, size |-> 0, buf |-> <<>>]

(* Nothing of a call survives its return but the error code.               *)
EndCall ==
  /\ req' = NoRequest /\ slot' = 0 /\ cursor' = 0 /\ i' = 0
  /\ dirbuf' = ZeroImage

Return(code) ==
  /\ pc' = "idle" /\ ret' = code
  /\ EndCall

(* qemu-img creates a storage file of zeros.                               *)
Init ==
  /\ sig = FALSE
  /\ dfat = [c \in Clusters |-> 0]
  /\ disk = [c \in DataClusters |-> ZeroImage]
  /\ fat = [c \in Clusters |-> 0]
  /\ dirbuf = ZeroImage
  /\ pc = "off"
  /\ req = NoRequest /\ slot = 0 /\ cursor = 0 /\ i = 0
  /\ ret = 0

-----------------------------------------------------------------------------
(* initialize_filesystem_fat32(), create_fat32()                           *)

FreshFat == [c \in Clusters |-> CASE c = 0    -> CLUSTER_0_VALUE
                                  [] c = 1    -> EOF
                                  [] c = ROOT -> EOF
                                  [] OTHER    -> EMPTY]

(* is_empty_storage() holds: the signature is written first.               *)
WriteSignature ==
  /\ pc = "off" /\ ~sig
  /\ sig' = TRUE
  /\ pc' = "format_fat"
  /\ UNCHANGED <<dfat, disk, fat, dirbuf, callVars, ret>>

FormatFat ==
  /\ pc = "format_fat"
  /\ dfat' = FreshFat
  /\ pc' = "format_root"
  /\ UNCHANGED <<sig, disk, fat, dirbuf, callVars, ret>>

FormatRoot ==
  /\ pc = "format_root"
  /\ disk' = [disk EXCEPT ![ROOT] = RootImage]
  /\ pc' = "mount"
  /\ UNCHANGED <<sig, dfat, fat, dirbuf, callVars, ret>>

(* The FAT is cached; the cached root table is never used.                 *)
Mount ==
  /\ pc = "mount" \/ (pc = "off" /\ sig)
  /\ fat' = dfat
  /\ pc' = "idle"
  /\ UNCHANGED <<diskVars, dirbuf, callVars, ret>>

-----------------------------------------------------------------------------
(* Shared by the four calls                                                *)

(* A parent is accepted when its FAT entry is end-of-file and the table    *)
(* loaded from it carries the directory attribute in entry 0.  Mutated:    *)
(* without the second check.                                               *)
MutParentOK(p) == p >= 2 /\ fat[p] = EOF

ParentOK(p) ==
  /\ p >= 2
  /\ fat[p] = EOF
  /\ disk[p].dir

Matches(img, n, e) ==
  {s \in Slots : /\ img.table[s].used
                 /\ img.table[s].name = n /\ img.table[s].ext = e}

FreeSlots(img) == {s \in Slots : ~img.table[s].used}

PutEntry(img, s, e) == [img EXCEPT !.table = [@ EXCEPT ![s] = e]]

Request(n, e, p, size, buf) ==
  [name |-> n, ext |-> e, parent |-> p, size |-> size, buf |-> buf]

Fail(code) ==
  /\ ret' = code
  /\ UNCHANGED <<diskVars, fat, dirbuf, pc, callVars>>

-----------------------------------------------------------------------------
(* write()                                                                 *)

(* The FAT entries write() chooses from.  Mutated: without looking at the  *)
(* entry; as if the clusters in use were the first ones.                   *)
MutEmptyFromAny(k)  == k .. CLUSTER_MAP_SIZE - 1
MutEmptyFromDense(k) ==
  {c \in k .. CLUSTER_MAP_SIZE - 1 : c >= ROOT + Cardinality({d \in DataClusters : fat[d] # EMPTY})}

EmptyFrom(k) == {c \in k .. CLUSTER_MAP_SIZE - 1 : fat[c] = EMPTY}

MutEnoughSpace(size) == Cardinality(EmptyFrom(2)) >= size \div CLUSTER_SIZE

EnoughSpace(size) == Cardinality(EmptyFrom(2)) >= BlockCount(size)

(* The entry keeps the fields of the deleted one whose slot it takes: the  *)
(* attribute is only ever set, never cleared.                              *)
NewEntry(old, n, e, size) ==
  [old EXCEPT !.used = TRUE, !.name = n, !.ext = e, !.sub = (@ \/ size = 0)]

(* Without the search for an entry of the same name.                       *)
MutWriteCode(n, e, p, size) ==
  IF ~ParentOK(p) THEN 2
  ELSE IF FreeSlots(disk[p]) = {} \/ ~EnoughSpace(size) THEN -1
  ELSE 0

WriteCode(n, e, p, size) ==
  IF ~ParentOK(p) THEN 2
  ELSE IF Matches(disk[p], n, e) # {} THEN 1
  ELSE IF FreeSlots(disk[p]) = {} \/ ~EnoughSpace(size) THEN -1
  ELSE 0

WriteRefused(n, e, p, l) ==
  /\ pc = "idle"
  /\ WriteCode(n, e, p, l.size) # 0
  /\ Fail(WriteCode(n, e, p, l.size))

WriteStart(n, e, p, l) ==
  /\ pc = "idle"
  /\ WriteCode(n, e, p, l.size) = 0
  /\ LET s == Min(FreeSlots(disk[p]))
     IN  /\ slot' = s
         /\ dirbuf' = PutEntry(disk[p], s, NewEntry(disk[p].table[s], n, e, l.size))
  /\ req' = Request(n, e, p, l.size, l.buf)
  /\ cursor' = 2 /\ i' = 0
  /\ pc' = "write"
  /\ UNCHANGED <<diskVars, fat, ret>>

(* The FAT after the cluster found, f, is linked to the one before it.     *)
(* Mutated: the two swapped.                                               *)
MutLinked(f) == IF i = 0 THEN fat ELSE [fat EXCEPT ![f] = cursor]

Linked(f) == IF i = 0 THEN fat ELSE [fat EXCEPT ![cursor] = f]

Block == req.buf[i]

(* One round of the do-while loop.  The FAT entry of the cluster found is  *)
(* not marked before the next round, whose search starts at that cluster   *)
(* again; previous_fat_index always equals fat_index at the loop head.     *)
WriteBlock ==
  /\ pc = "write"
  /\ EmptyFrom(cursor) # {}
  /\ LET f == Min(EmptyFrom(cursor))
     IN  /\ dirbuf' = IF i = 0
                        THEN PutEntry(dirbuf, slot, [dirbuf.table[slot] EXCEPT !.first = f])
                        ELSE dirbuf
         /\ fat' = Linked(f)
         /\ disk' = [disk EXCEPT ![f] = Block]
         /\ cursor' = f
  /\ i' = i + 1
  /\ pc' = IF i + 1 < BlockCount(req.size) THEN "write" ELSE "write_fat"
  /\ UNCHANGED <<sig, dfat, req, slot, ret>>

(* The FAT with the chain just written ended.  Mutated: not ended.         *)
MutEnded == fat

Ended == [fat EXCEPT ![cursor] = EOF]

WriteFat ==
  /\ pc = "write_fat"
  /\ dirbuf' = PutEntry(dirbuf, slot, [dirbuf.table[slot] EXCEPT !.size = i * CLUSTER_SIZE])
  /\ fat' = Ended
  /\ dfat' = Ended
  /\ pc' = "write_dir"
  /\ UNCHANGED <<sig, disk, callVars, ret>>

WriteDir ==
  /\ pc = "write_dir"
  /\ disk' = [disk EXCEPT ![req.parent] = dirbuf]
  /\ Return(0)
  /\ UNCHANGED <<sig, dfat, fat>>

-----------------------------------------------------------------------------
(* delete()                                                                *)

Found(n, e, p) == disk[p].table[Min(Matches(disk[p], n, e))]

(* The emptiness check reads the entry's first cluster as a table whether  *)
(* or not that cluster holds one.  Mutated: it overlooks the first slot.   *)
MutHasEntries(img) == FreeSlots(img) \cup {2} # Slots

HasEntries(img) == FreeSlots(img) # Slots

DeleteCode(n, e, p) ==
  IF ~ParentOK(p) THEN -1
  ELSE IF Matches(disk[p], n, e) = {} THEN 1
  ELSE IF Found(n, e, p).sub /\ HasEntries(disk[Found(n, e, p).first]) THEN 2
  ELSE 0

DeleteRefused(n, e, p) ==
  /\ pc = "idle"
  /\ DeleteCode(n, e, p) # 0
  /\ Fail(DeleteCode(n, e, p))

(* dir_table_buf, overwritten by the emptiness check, is loaded again.     *)
DeleteStart(n, e, p) ==
  /\ pc = "idle"
  /\ DeleteCode(n, e, p) = 0
  /\ dirbuf' = disk[p]
  /\ slot' = Min(Matches(disk[p], n, e))
  /\ cursor' = Found(n, e, p).first
  /\ req' = Request(n, e, p, 0, <<>>)
  /\ i' = 0
  /\ pc' = "delete"
  /\ UNCHANGED <<diskVars, fat, ret>>

(* The FAT without the cluster at cursor.  Mutated: the last cluster of    *)
(* the chain is kept.                                                      *)
MutFreed == IF fat[cursor] = EOF THEN fat ELSE [fat EXCEPT ![cursor] = EMPTY]

Freed == [fat EXCEPT ![cursor] = EMPTY]

(* Where the walk along a chain goes on.  Mutated: it stays; it takes the  *)
(* cluster behind.                                                         *)
MutNextOf(c) == c
MutNextOfDense(c) == IF c < CLUSTER_MAP_SIZE - 1 THEN c + 1 ELSE c

NextOf(c) == fat[c]

(* One round of the loop that frees the chain, the last one with the       *)
(* clearing of the entry's user_attribute.                                 *)
FreeCluster ==
  /\ pc = "delete"
  /\ cursor \in DataClusters
  /\ fat' = Freed
  /\ IF fat[cursor] # EOF
       THEN /\ cursor' = NextOf(cursor)
            /\ UNCHANGED <<pc, dirbuf>>
       ELSE /\ dirbuf' = PutEntry(dirbuf, slot, [dirbuf.table[slot] EXCEPT !.used = FALSE])
            /\ pc' = "delete_fat"
            /\ UNCHANGED cursor
  /\ UNCHANGED <<diskVars, req, slot, i, ret>>

DeleteFat ==
  /\ pc = "delete_fat"
  /\ dfat' = fat
  /\ pc' = "delete_dir"
  /\ UNCHANGED <<sig, disk, fat, dirbuf, callVars, ret>>

(* Without the write of the directory table.                               *)
MutDeleteDir ==
  /\ pc = "delete_dir"
  /\ Return(0)
  /\ UNCHANGED <<diskVars, fat>>

DeleteDir ==
  /\ pc = "delete_dir"
  /\ disk' = [disk EXCEPT ![req.parent] = dirbuf]
  /\ Return(0)
  /\ UNCHANGED <<sig, dfat, fat>>

-----------------------------------------------------------------------------
(* read() and read_directory()                                             *)

(* Without the check of the buffer size.                                   *)
MutReadCode(n, e, p, size) ==
  IF ~ParentOK(p) THEN -1
  ELSE IF Matches(disk[p], n, e) = {} THEN 3
  ELSE IF Found(n, e, p).sub THEN 1
  ELSE 0

ReadCode(n, e, p, size) ==
  IF ~ParentOK(p) THEN -1
  ELSE IF Matches(disk[p], n, e) = {} THEN 3
  ELSE IF Found(n, e, p).sub THEN 1
  ELSE IF size < Found(n, e, p).size THEN 2
  ELSE 0

ReadRefused(n, e, p, size) ==
  /\ pc = "idle"
  /\ ReadCode(n, e, p, size) # 0
  /\ Fail(ReadCode(n, e, p, size))

ReadStart(n, e, p, size) ==
  /\ pc = "idle"
  /\ ReadCode(n, e, p, size) = 0
  /\ dirbuf' = disk[p]
  /\ slot' = Min(Matches(disk[p], n, e))
  /\ cursor' = Found(n, e, p).first
  /\ req' = Request(n, e, p, size, <<>>)
  /\ i' = 0
  /\ pc' = "read"
  /\ UNCHANGED <<diskVars, fat, ret>>

(* One round of the loop: cluster number cursor goes to the caller's       *)
(* buffer at offset i * CLUSTER_SIZE.                                      *)
ReadBlock ==
  /\ pc = "read"
  /\ cursor \in DataClusters
  /\ IF fat[cursor] # EOF
       THEN /\ cursor' = NextOf(cursor)
            /\ i' = i + 1
            /\ UNCHANGED <<pc, req, slot, dirbuf, ret>>
       ELSE Return(0)
  /\ UNCHANGED <<diskVars, fat>>

ReadDirectoryCode(n, p, size) ==
  IF size # CLUSTER_SIZE \/ ~ParentOK(p) THEN -1
  ELSE IF Matches(disk[p], n, NO_EXT) = {} THEN 2
  ELSE IF ~Found(n, NO_EXT, p).sub THEN 1
  ELSE 0

(* The whole call: it hands one cluster to the caller and changes nothing. *)
ReadDirectory(n, p, size) ==
  /\ pc = "idle"
  /\ Fail(ReadDirectoryCode(n, p, size))

-----------------------------------------------------------------------------
Boot == WriteSignature \/ FormatFat \/ FormatRoot \/ Mount

Calls ==
  \E n \in Names, e \in Exts, p \in Clusters :
    \/ \E l \in Loads : WriteRefused(n, e, p, l) \/ WriteStart(n, e, p, l)
    \/ DeleteRefused(n, e, p) \/ DeleteStart(n, e, p)
    \/ \E size \in ReadSizes :
         \/ ReadRefused(n, e, p, size) \/ ReadStart(n, e, p, size)
         \/ ReadDirectory(n, p, size)

Steps ==
  \/ WriteBlock \/ WriteFat \/ WriteDir
  \/ FreeCluster \/ DeleteFat \/ DeleteDir
  \/ ReadBlock

Next == Boot \/ Calls \/ Steps

Spec == Init /\ [][Next]_vars

(* Boot and the body of a call are straight-line kernel code: they run on  *)
(* once begun.  Nobody has to make a call.                                 *)
FairSpec == Spec /\ WF_vars(Boot \/ Steps)

=============================================================================
