------------------------------ MODULE FileStore ------------------------------
(***************************************************************************)
(* What the file system promises to its callers (ch1/fat32/fat32.h): a     *)
(* tree of directories in which each call happens at once, on a storage    *)
(* whose free space is what no entry occupies.  Nothing here knows of a    *)
(* FAT, a cluster chain or a cached table.                                 *)
(*                                                                         *)
(* Three weaknesses of the code show in the promise: of a file longer than *)
(* a block every other block is kept (Kept), an entry made for a file may  *)
(* come out as a folder (the attribute of a deleted one sticks), and what  *)
(* is marked as a folder cannot be deleted when its contents, though no    *)
(* directory table, would show entries if it were one (filled).            *)
(***************************************************************************)
EXTENDS Integers, FiniteSets

CONSTANTS
  Ids, ROOT,        \* what a directory is called by; the root's
  CAPACITY, SLOTS,  \* blocks of the storage, entries of a directory
  BLOCK,            \* bytes of a block
  Names, Exts, NO_EXT,
  Loads, ReadSizes

VARIABLES
  dirs,  \* the directories: each maps names to entries
  ret    \* the error code of the last call

storeVars == <<dirs, ret>>

Blocks(size) == size \div BLOCK + 1

(* What write() keeps of its buffer: the blocks at odd places, and the     *)
(* last one.                                                               *)
Kept(l) ==
  LET last == l.size \div BLOCK
  IN  [k \in 1 .. last \div 2 + 1 |-> l.buf[IF 2 * k - 1 <= last THEN 2 * k - 1 ELSE last].data]

(* A folder's buffer is taken for its table if it looks like one.          *)
MakesTable(l) == l.size = 0 /\ l.buf[0].dir

(* Memory that is no table, read as one, shows an entry in use.            *)
LooksFilled(block) ==
  ~block.dir /\ \E s \in DOMAIN block.table : block.table[s].used

NewEntry(l, sub, id) ==
  [sub |-> sub, id |-> id, size |-> Blocks(l.size) * BLOCK, blocks |-> Kept(l),
   filled |-> LooksFilled(l.buf[IF l.size \div BLOCK = 0 THEN 0 ELSE 1])]

Put(dir, k, entry) == [q \in DOMAIN dir \cup {k} |-> IF q = k THEN entry ELSE dir[q]]

Remove(dir, k) == [q \in DOMAIN dir \ {k} |-> dir[q]]

Places == UNION {{d} \X DOMAIN dirs[d] : d \in DOMAIN dirs}

EntryAt(place) == dirs[place[1]][place[2]]

(* The storage less the blocks of every entry.                             *)
Occupied == UNION {{place} \X DOMAIN EntryAt(place).blocks : place \in Places}

Free == CAPACITY - Cardinality(Occupied)

-----------------------------------------------------------------------------
Init == dirs = << >> /\ ret = 0

Format ==
  /\ dirs = << >>
  /\ dirs' = [d \in {ROOT} |-> << >>]
  /\ UNCHANGED ret

Refuse(code) == code # 0 /\ ret' = code /\ UNCHANGED dirs

WriteCode(k, p, size) ==
  IF p \notin DOMAIN dirs THEN 2
  ELSE IF k \in DOMAIN dirs[p] THEN 1
  ELSE IF Cardinality(DOMAIN dirs[p]) = SLOTS \/ Free < Blocks(size) THEN -1
  ELSE 0

Write(k, p, l) ==
  /\ WriteCode(k, p, l.size) = 0
  /\ \E id \in Ids \ ({ROOT} \cup {EntryAt(q).id : q \in Places}), sub \in BOOLEAN :
       /\ l.size = 0 => sub
       /\ dirs' = [d \in DOMAIN dirs \cup (IF MakesTable(l) THEN {id} ELSE {}) |->
                     IF d = p THEN Put(dirs[p], k, NewEntry(l, sub, id))
                     ELSE IF d \in DOMAIN dirs THEN dirs[d]
                     ELSE << >>]
  /\ ret' = 0

(* A folder with something in it is not deleted.                           *)
DeleteCode(k, p) ==
  IF p \notin DOMAIN dirs THEN -1
  ELSE IF k \notin DOMAIN dirs[p] THEN 1
  ELSE IF dirs[p][k].id \in DOMAIN dirs /\ dirs[dirs[p][k].id] # << >> THEN 2
  ELSE IF dirs[p][k].sub /\ dirs[p][k].filled THEN 2
  ELSE 0

Delete(k, p) ==
  /\ DeleteCode(k, p) = 0
  /\ dirs' = [d \in DOMAIN dirs \ {dirs[p][k].id} |->
                IF d = p THEN Remove(dirs[p], k) ELSE dirs[d]]
  /\ ret' = 0

ReadCode(k, p, size) ==
  IF p \notin DOMAIN dirs THEN -1
  ELSE IF k \notin DOMAIN dirs[p] THEN 3
  ELSE IF dirs[p][k].sub THEN 1
  ELSE IF size < dirs[p][k].size THEN 2
  ELSE 0

ReadDirectoryCode(k, p, size) ==
  IF size # BLOCK \/ p \notin DOMAIN dirs THEN -1
  ELSE IF k \notin DOMAIN dirs[p] THEN 2
  ELSE IF ~dirs[p][k].sub THEN 1
  ELSE 0

Read(k, p, size) == ret' = ReadCode(k, p, size) /\ UNCHANGED dirs

ReadDirectory(k, p, size) == ret' = ReadDirectoryCode(k, p, size) /\ UNCHANGED dirs

Next ==
  \/ Format
  \/ \E k \in Names \X Exts, p \in Ids \cup {0, 1} :
       \/ \E l \in Loads : Write(k, p, l) \/ Refuse(WriteCode(k, p, l.size))
       \/ Delete(k, p) \/ Refuse(DeleteCode(k, p))
       \/ \E size \in ReadSizes : Read(k, p, size) \/ ReadDirectory(<<k[1], NO_EXT>>, p, size)

Spec == Init /\ [][Next]_storeVars

-----------------------------------------------------------------------------
(* What write() and delete() make is a tree: no two entries stand for one  *)
(* directory, none for the root, and each directory can be reached from    *)
(* the root, as of any set of others one is entered from outside the set.  *)
(* (fat32.c:253-283, 399-416)                                              *)
Rooted ==
  \/ dirs = << >>
  \/ /\ ROOT \in DOMAIN dirs
     /\ \A q \in Places : EntryAt(q).id # ROOT
     /\ \A q, r \in Places : EntryAt(q).id = EntryAt(r).id => q = r
     /\ \A S \in SUBSET (DOMAIN dirs \ {ROOT}) :
          S # {} => \E q \in Places : q[1] \notin S /\ EntryAt(q).id \in S

(* Neither the storage nor a directory holds more than write() has found   *)
(* room for.  (fat32.c:285-311)                                            *)
WithinBounds ==
  /\ IsFiniteSet(Occupied) /\ Cardinality(Occupied) <= CAPACITY
  /\ \A d \in DOMAIN dirs :
       IsFiniteSet(DOMAIN dirs[d]) /\ Cardinality(DOMAIN dirs[d]) <= SLOTS

(* write() makes one entry, delete() takes one away, and no call changes   *)
(* another.  (fat32.c:253-441)                                             *)
Alters(q) == ~(q \in Places /\ q \in Places' /\ EntryAt(q)' = EntryAt(q))

OneEntryAtATime ==
  [][\A q, r \in Places \cup Places' : Alters(q) /\ Alters(r) => q = r]_storeVars

=============================================================================
