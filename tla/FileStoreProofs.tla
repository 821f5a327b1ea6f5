---------------------------- MODULE FileStoreProofs ----------------------------
(***************************************************************************)
(* What FileStore itself promises, for any storage: its directories are a  *)
(* tree, it holds no more than it has room for, and a call touches one     *)
(* entry.                                                                  *)
(***************************************************************************)
EXTENDS FileStore, FiniteSetTheorems, TLAPS

(* A place is a directory and a name in it.                                *)
LEMMA PlaceParts ==
  ASSUME NEW d, NEW k
  PROVE  <<d, k>> \in Places <=> d \in DOMAIN dirs /\ k \in DOMAIN dirs[d]
BY DEF Places

LEMMA PlaceIsPair ==
  ASSUME NEW q \in Places
  PROVE  q = <<q[1], q[2]>> /\ q[1] \in DOMAIN dirs /\ q[2] \in DOMAIN dirs[q[1]]
BY DEF Places

(* What write() and delete() make of the directories.                      *)
LEMMA WriteDirs ==
  ASSUME NEW k, NEW p, NEW l, Write(k, p, l)
  PROVE  \E id \in Ids \ {ROOT}, sub \in BOOLEAN :
           /\ \A q \in Places : EntryAt(q).id # id
           /\ p \in DOMAIN dirs /\ k \notin DOMAIN dirs[p]
           /\ DOMAIN dirs' = DOMAIN dirs \cup (IF MakesTable(l) THEN {id} ELSE {})
           /\ dirs'[p] = Put(dirs[p], k, NewEntry(l, sub, id))
           /\ \A d \in DOMAIN dirs \ {p} : dirs'[d] = dirs[d]
           /\ \A d \in DOMAIN dirs' \ DOMAIN dirs : dirs'[d] = << >>
<1>1. p \in DOMAIN dirs /\ k \notin DOMAIN dirs[p]
  BY DEF Write, WriteCode
<1>2. PICK id \in Ids \ ({ROOT} \cup {EntryAt(q).id : q \in Places}), sub \in BOOLEAN :
        dirs' = [d \in DOMAIN dirs \cup (IF MakesTable(l) THEN {id} ELSE {}) |->
                   IF d = p THEN Put(dirs[p], k, NewEntry(l, sub, id))
                   ELSE IF d \in DOMAIN dirs THEN dirs[d]
                   ELSE << >>]
  BY DEF Write
<1>3. id \in Ids \ {ROOT} /\ \A q \in Places : EntryAt(q).id # id
  BY <1>2
<1> WITNESS id \in Ids \ {ROOT}
<1> WITNESS sub \in BOOLEAN
<1> QED
  BY <1>1, <1>2, <1>3

LEMMA WritePlaces ==
  ASSUME NEW k, NEW p, NEW l, Write(k, p, l)
  PROVE  \E id \in Ids \ {ROOT}, sub \in BOOLEAN :
           /\ \A q \in Places : EntryAt(q).id # id
           /\ p \in DOMAIN dirs
           /\ DOMAIN dirs \subseteq DOMAIN dirs' /\ DOMAIN dirs' \subseteq DOMAIN dirs \cup {id}
           /\ DOMAIN dirs'[p] = DOMAIN dirs[p] \cup {k}
           /\ \A d \in DOMAIN dirs' \ {p} : DOMAIN dirs'[d] = IF d \in DOMAIN dirs THEN DOMAIN dirs[d] ELSE {}
           /\ Places' = Places \cup {<<p, k>>} /\ <<p, k>> \notin Places
           /\ \A q \in Places : EntryAt(q)' = EntryAt(q)
           /\ EntryAt(<<p, k>>)' = NewEntry(l, sub, id)
<1>1. PICK id \in Ids \ {ROOT}, sub \in BOOLEAN :
        /\ \A q \in Places : EntryAt(q).id # id
        /\ p \in DOMAIN dirs /\ k \notin DOMAIN dirs[p]
        /\ DOMAIN dirs' = DOMAIN dirs \cup (IF MakesTable(l) THEN {id} ELSE {})
        /\ dirs'[p] = Put(dirs[p], k, NewEntry(l, sub, id))
        /\ \A d \in DOMAIN dirs \ {p} : dirs'[d] = dirs[d]
        /\ \A d \in DOMAIN dirs' \ DOMAIN dirs : dirs'[d] = << >>
  BY WriteDirs
<1>2. /\ DOMAIN dirs \subseteq DOMAIN dirs' /\ DOMAIN dirs' \subseteq DOMAIN dirs \cup {id}
      /\ DOMAIN dirs'[p] = DOMAIN dirs[p] \cup {k}
      /\ dirs'[p][k] = NewEntry(l, sub, id)
      /\ \A j \in DOMAIN dirs[p] : dirs'[p][j] = dirs[p][j]
  BY <1>1 DEF Put
<1>3. \A d \in DOMAIN dirs' \ {p} :
        DOMAIN dirs'[d] = IF d \in DOMAIN dirs THEN DOMAIN dirs[d] ELSE {}
  BY <1>1
<1>4. \A d, j : <<d, j>> \in Places' <=> <<d, j>> \in Places \/ (d = p /\ j = k)
  <2>1. \A d, j : <<d, j>> \in Places' <=> d \in DOMAIN dirs' /\ j \in DOMAIN dirs'[d]
    BY DEF Places
  <2> QED
    BY <1>1, <1>2, <1>3, <2>1, PlaceParts
<1>5. Places' = Places \cup {<<p, k>>}
  <2>1. \A q \in Places' : q = <<q[1], q[2]>>
    BY DEF Places
  <2> QED
    BY <1>4, <2>1, PlaceIsPair
<1>6. <<p, k>> \notin Places
  BY <1>1, PlaceParts
<1>7. EntryAt(<<p, k>>)' = NewEntry(l, sub, id)
  BY <1>2 DEF EntryAt
<1>8. \A q \in Places : EntryAt(q)' = EntryAt(q)
  BY <1>1, <1>2, PlaceIsPair DEF EntryAt
<1> QED
  BY <1>1, <1>2, <1>3, <1>5, <1>6, <1>7, <1>8

LEMMA DeletePlaces ==
  ASSUME NEW k, NEW p, Delete(k, p)
  PROVE  LET id == EntryAt(<<p, k>>).id
         IN  /\ <<p, k>> \in Places
             /\ DOMAIN dirs' = DOMAIN dirs \ {id}
             /\ id \in DOMAIN dirs => dirs[id] = << >>
             /\ \A d \in DOMAIN dirs' : DOMAIN dirs'[d] \subseteq DOMAIN dirs[d]
             /\ Places' = Places \ {<<p, k>>}
             /\ \A q \in Places' : EntryAt(q)' = EntryAt(q)
<1> DEFINE id == EntryAt(<<p, k>>).id
<1>1. /\ p \in DOMAIN dirs /\ k \in DOMAIN dirs[p]
      /\ id \in DOMAIN dirs => dirs[id] = << >>
      /\ dirs' = [d \in DOMAIN dirs \ {id} |-> IF d = p THEN Remove(dirs[p], k) ELSE dirs[d]]
  BY DEF Delete, DeleteCode, EntryAt
<1>2. p # id
  BY <1>1
<1> HIDE DEF id
<1>3. /\ DOMAIN dirs' = DOMAIN dirs \ {id}
      /\ DOMAIN dirs'[p] = DOMAIN dirs[p] \ {k}
      /\ \A j \in DOMAIN dirs[p] \ {k} : dirs'[p][j] = dirs[p][j]
      /\ \A d \in DOMAIN dirs \ {id, p} : dirs'[d] = dirs[d]
  BY <1>1, <1>2 DEF Remove
<1>4. \A d, j : <<d, j>> \in Places' <=> <<d, j>> \in Places /\ <<d, j>> # <<p, k>>
  <2>1. \A d, j : <<d, j>> \in Places' <=> d \in DOMAIN dirs' /\ j \in DOMAIN dirs'[d]
    BY DEF Places
  <2>2. \A j : id \in DOMAIN dirs => j \notin DOMAIN dirs[id]
    BY <1>1
  <2> QED
    BY <1>1, <1>2, <1>3, <2>1, <2>2, PlaceParts
<1>5. Places' = Places \ {<<p, k>>}
  <2>1. \A q \in Places' : q = <<q[1], q[2]>>
    BY DEF Places
  <2> QED
    BY <1>4, <2>1, PlaceIsPair
<1>6. \A q \in Places' : EntryAt(q)' = EntryAt(q)
  <2> SUFFICES ASSUME NEW q \in Places' PROVE EntryAt(q)' = EntryAt(q)
    OBVIOUS
  <2>1. q \in Places /\ q # <<p, k>>
    BY <1>5
  <2>2. q = <<q[1], q[2]>> /\ q[1] \in DOMAIN dirs /\ q[2] \in DOMAIN dirs[q[1]]
    BY <2>1, PlaceIsPair
  <2>3. q[1] # id
    BY <1>1, <2>2
  <2> QED
    BY <1>3, <2>1, <2>2, <2>3 DEF EntryAt
<1>7. \A d \in DOMAIN dirs' : DOMAIN dirs'[d] \subseteq DOMAIN dirs[d]
  BY <1>3
<1> QED
  BY <1>1, <1>3, <1>5, <1>6, <1>7, PlaceParts DEF id

(* The steps of Next that leave the directories alone.                     *)
LEMMA OtherSteps ==
  ASSUME [Next]_storeVars
  PROVE  \/ dirs' = dirs
         \/ Format
         \/ \E k, p : Delete(k, p) \/ \E l \in Loads : Write(k, p, l)
BY DEF Next, storeVars, Refuse, Read, ReadDirectory

LEMMA SamePlaces ==
  ASSUME dirs' = dirs
  PROVE  Places' = Places /\ \A q : EntryAt(q)' = EntryAt(q)
BY DEF Places, EntryAt

LEMMA FormatPlaces ==
  ASSUME Format
  PROVE  /\ Places = {} /\ Places' = {}
         /\ DOMAIN dirs' = {ROOT} /\ DOMAIN dirs'[ROOT] = {}
<1>1. DOMAIN dirs = {}
  BY DEF Format
<1>2. DOMAIN dirs' = {ROOT} /\ DOMAIN dirs'[ROOT] = {}
  BY DEF Format
<1> QED
  BY <1>1, <1>2 DEF Places

-----------------------------------------------------------------------------
(* The directories are a tree.                                             *)

LEMMA WriteRooted ==
  ASSUME Rooted, NEW k, NEW p, NEW l, Write(k, p, l)
  PROVE  Rooted'
<1>1. PICK id \in Ids \ {ROOT}, sub \in BOOLEAN :
        /\ \A q \in Places : EntryAt(q).id # id
        /\ p \in DOMAIN dirs
        /\ DOMAIN dirs \subseteq DOMAIN dirs' /\ DOMAIN dirs' \subseteq DOMAIN dirs \cup {id}
        /\ DOMAIN dirs'[p] = DOMAIN dirs[p] \cup {k}
        /\ Places' = Places \cup {<<p, k>>} /\ <<p, k>> \notin Places
        /\ \A q \in Places : EntryAt(q)' = EntryAt(q)
        /\ EntryAt(<<p, k>>)' = NewEntry(l, sub, id)
  BY WritePlaces
<1>2. /\ ROOT \in DOMAIN dirs
      /\ \A q \in Places : EntryAt(q).id # ROOT
      /\ \A q, r \in Places : EntryAt(q).id = EntryAt(r).id => q = r
      /\ \A S \in SUBSET (DOMAIN dirs \ {ROOT}) :
           S # {} => \E q \in Places : q[1] \notin S /\ EntryAt(q).id \in S
  BY <1>1 DEF Rooted
<1>3. EntryAt(<<p, k>>)'.id = id
  BY <1>1 DEF NewEntry
<1>4. id \notin DOMAIN dirs
  BY <1>1, <1>2
<1>5. ASSUME NEW S \in SUBSET (DOMAIN dirs' \ {ROOT}), S # {}
      PROVE  \E q \in Places' : q[1] \notin S /\ EntryAt(q)'.id \in S
  <2>1. CASE S = {id}
    <3>1. p \notin S
      BY <1>1, <1>4, <2>1
    <3> QED
      BY <1>1, <1>3, <2>1, <3>1
  <2>2. CASE S # {id}
    <3>1. S \ {id} \in SUBSET (DOMAIN dirs \ {ROOT}) /\ S \ {id} # {}
      BY <1>1, <1>5, <2>2
    <3>2. PICK q \in Places : q[1] \notin S \ {id} /\ EntryAt(q).id \in S \ {id}
      BY <1>2, <3>1
    <3>3. q[1] # id
      BY <1>4, PlaceIsPair
    <3> QED
      BY <1>1, <3>2, <3>3
  <2> QED
    BY <2>1, <2>2
<1>6. \A q \in Places' : EntryAt(q)'.id # ROOT
  BY <1>1, <1>2, <1>3
<1>7. ASSUME NEW q \in Places', NEW r \in Places', EntryAt(q)'.id = EntryAt(r)'.id
      PROVE  q = r
  BY <1>1, <1>2, <1>3, <1>7
<1> QED
  BY <1>1, <1>2, <1>5, <1>6, <1>7 DEF Rooted

LEMMA DeleteRooted ==
  ASSUME Rooted, NEW k, NEW p, Delete(k, p)
  PROVE  Rooted'
<1>1. PICK id :
        /\ id = EntryAt(<<p, k>>).id
        /\ <<p, k>> \in Places
        /\ DOMAIN dirs' = DOMAIN dirs \ {id}
        /\ Places' = Places \ {<<p, k>>}
        /\ \A q \in Places' : EntryAt(q)' = EntryAt(q)
  BY DeletePlaces
<1>2. /\ ROOT \in DOMAIN dirs
      /\ \A q \in Places : EntryAt(q).id # ROOT
      /\ \A q, r \in Places : EntryAt(q).id = EntryAt(r).id => q = r
      /\ \A S \in SUBSET (DOMAIN dirs \ {ROOT}) :
           S # {} => \E q \in Places : q[1] \notin S /\ EntryAt(q).id \in S
  BY <1>1, PlaceIsPair DEF Rooted
<1>3. ASSUME NEW S \in SUBSET (DOMAIN dirs' \ {ROOT}), S # {}
      PROVE  \E q \in Places' : q[1] \notin S /\ EntryAt(q)'.id \in S
  <2>1. S \in SUBSET (DOMAIN dirs \ {ROOT})
    BY <1>1
  <2>2. PICK q \in Places : q[1] \notin S /\ EntryAt(q).id \in S
    BY <1>2, <1>3, <2>1
  <2>3. q # <<p, k>>
    BY <1>1, <2>2
  <2> QED
    BY <1>1, <2>2, <2>3
<1> QED
  BY <1>1, <1>2, <1>3 DEF Rooted

(* Whatever is created and deleted, every directory can be reached from    *)
(* the root, in one way.                                                   *)
THEOREM RootedCorrect == Spec => []Rooted
<1>1. Init => Rooted
  BY DEF Init, Rooted
<1>2. Rooted /\ [Next]_storeVars => Rooted'
  <2> SUFFICES ASSUME Rooted, [Next]_storeVars PROVE Rooted'
    OBVIOUS
  <2>1. CASE dirs' = dirs
    BY <2>1, SamePlaces DEF Rooted
  <2>2. CASE Format
    BY <2>2, FormatPlaces DEF Rooted
  <2> QED
    BY <2>1, <2>2, OtherSteps, WriteRooted, DeleteRooted
<1> QED
  BY <1>1, <1>2, PTL DEF Spec

-----------------------------------------------------------------------------
(* A call touches one entry.                                               *)
THEOREM OneEntryCorrect == Spec => OneEntryAtATime
<1>1. [Next]_storeVars =>
        [\A q, r \in Places \cup Places' : Alters(q) /\ Alters(r) => q = r]_storeVars
  <2> SUFFICES ASSUME [Next]_storeVars, NEW q \in Places \cup Places', NEW r \in Places \cup Places',
                      Alters(q), Alters(r)
               PROVE  q = r
    OBVIOUS
  <2>1. CASE dirs' = dirs
    BY <2>1, SamePlaces DEF Alters
  <2>2. CASE Format
    BY <2>2, FormatPlaces
  <2>3. ASSUME NEW k, NEW p, Delete(k, p) PROVE q = r
    BY <2>3, DeletePlaces DEF Alters
  <2>4. ASSUME NEW k, NEW p, NEW l, Write(k, p, l) PROVE q = r
    <3>1. /\ Places' = Places \cup {<<p, k>>}
          /\ \A e \in Places : EntryAt(e)' = EntryAt(e)
      BY <2>4, WritePlaces
    <3> QED
      BY <3>1 DEF Alters
  <2> QED
    BY <2>1, <2>2, <2>3, <2>4, OtherSteps
<1> QED
  BY <1>1, PTL DEF Spec, OneEntryAtATime

-----------------------------------------------------------------------------
(* Nothing overflows.                                                      *)

(* What is assumed of the sizes of a storage, and of the buffers written.  *)
Sizes ==
  /\ CAPACITY \in Nat /\ SLOTS \in Nat /\ BLOCK \in Nat \ {0}
  /\ \A l \in Loads : l.size \in Nat

(* write() stores no more blocks than it counts.                           *)
LEMMA BlocksOfNew ==
  ASSUME Sizes, NEW l \in Loads, NEW sub, NEW id
  PROVE  \E n \in Nat : /\ DOMAIN NewEntry(l, sub, id).blocks = 1 .. n
                        /\ n <= Blocks(l.size) /\ Blocks(l.size) \in Nat
<1>1. PICK last : last = l.size \div BLOCK
  OBVIOUS
<1>2. last \in Nat
  <2>1. ASSUME NEW n \in Nat, NEW b \in Nat \ {0} PROVE n \div b \in Nat
    OBVIOUS
  <2> QED
    BY <1>1, <2>1 DEF Sizes
<1>3. DOMAIN NewEntry(l, sub, id).blocks = 1 .. last \div 2 + 1
  <2>1. NewEntry(l, sub, id).blocks = Kept(l)
    BY DEF NewEntry
  <2> QED
    BY <1>1, <2>1 DEF Kept
<1>4. Blocks(l.size) = last + 1
  BY <1>1 DEF Blocks
<1>5. last \div 2 + 1 \in Nat /\ last \div 2 + 1 <= last + 1
  BY <1>2
<1> QED
  BY <1>2, <1>3, <1>4, <1>5

LEMMA OccupiedAt ==
  ASSUME NEW q, NEW j
  PROVE  <<q, j>> \in Occupied <=> q \in Places /\ j \in DOMAIN EntryAt(q).blocks
BY DEF Occupied

LEMMA OccupiedIsPair ==
  ASSUME NEW o \in Occupied
  PROVE  o = <<o[1], o[2]>>
BY DEF Occupied

LEMMA WriteBounded ==
  ASSUME Sizes, WithinBounds, NEW k, NEW p, NEW l \in Loads, Write(k, p, l)
  PROVE  WithinBounds'
<1>1. PICK id \in Ids \ {ROOT}, sub \in BOOLEAN :
        /\ p \in DOMAIN dirs
        /\ DOMAIN dirs'[p] = DOMAIN dirs[p] \cup {k}
        /\ \A d \in DOMAIN dirs' \ {p} :
             DOMAIN dirs'[d] = IF d \in DOMAIN dirs THEN DOMAIN dirs[d] ELSE {}
        /\ Places' = Places \cup {<<p, k>>} /\ <<p, k>> \notin Places
        /\ \A q \in Places : EntryAt(q)' = EntryAt(q)
        /\ EntryAt(<<p, k>>)' = NewEntry(l, sub, id)
  BY WritePlaces
<1>2. PICK n \in Nat : /\ DOMAIN NewEntry(l, sub, id).blocks = 1 .. n
                      /\ n <= Blocks(l.size) /\ Blocks(l.size) \in Nat
  BY BlocksOfNew
<1>3. Cardinality(DOMAIN dirs[p]) # SLOTS /\ ~(Free < Blocks(l.size))
  BY DEF Write, WriteCode
<1> DEFINE New == {<<p, k>>} \X (1 .. n)
<1>4. Occupied' = Occupied \cup New
  <2>1. ASSUME NEW q, NEW j
        PROVE  <<q, j>> \in Occupied' <=> <<q, j>> \in Occupied \cup New
    <3>1. <<q, j>> \in Occupied' <=> q \in Places' /\ j \in DOMAIN EntryAt(q)'.blocks
      BY DEF Occupied
    <3>2. <<q, j>> \in New <=> q = <<p, k>> /\ j \in 1 .. n
      OBVIOUS
    <3>3. CASE q = <<p, k>>
      <4>1. DOMAIN EntryAt(q)'.blocks = 1 .. n
        BY <1>1, <1>2, <3>3
      <4> QED
        BY <1>1, <3>1, <3>2, <3>3, <4>1, OccupiedAt
    <3>4. CASE q # <<p, k>>
      BY <1>1, <3>1, <3>2, <3>4, OccupiedAt
    <3> QED
      BY <3>3, <3>4
  <2>2. \A o \in Occupied' : o = <<o[1], o[2]>>
    BY DEF Occupied
  <2>3. \A o \in New : o = <<o[1], o[2]>>
    OBVIOUS
  <2> HIDE DEF New
  <2> QED
    BY <2>1, <2>2, <2>3, OccupiedIsPair
<1>5. IsFiniteSet(New) /\ Cardinality(New) = n
  <2>1. IsFiniteSet(1 .. n) /\ Cardinality(1 .. n) = n
    BY FS_Interval
  <2>2. IsFiniteSet({<<p, k>>}) /\ Cardinality({<<p, k>>}) = 1
    BY FS_Singleton
  <2>3. IsFiniteSet(New) /\ Cardinality(New) = Cardinality({<<p, k>>}) * Cardinality(1 .. n)
    BY <2>1, <2>2, FS_Product
  <2> HIDE DEF New
  <2> QED
    BY <2>1, <2>2, <2>3
<1> HIDE DEF New
<1>6. IsFiniteSet(Occupied') /\ Cardinality(Occupied') <= CAPACITY
  <2>1. IsFiniteSet(Occupied) /\ Cardinality(Occupied) \in Nat
    BY FS_CardinalityType DEF WithinBounds
  <2>2. /\ IsFiniteSet(Occupied \cup New)
        /\ Cardinality(Occupied \cup New) = Cardinality(Occupied) + n - Cardinality(Occupied \cap New)
    BY <1>5, <2>1, FS_Union
  <2>3. Cardinality(Occupied \cap New) \in Nat
    BY <2>1, FS_Subset, FS_CardinalityType
  <2>4. Cardinality(Occupied) + n <= CAPACITY
    BY <1>2, <1>3, <2>1 DEF Free, Sizes
  <2> QED
    BY <1>2, <1>4, <2>1, <2>2, <2>3, <2>4 DEF Sizes
<1>7. ASSUME NEW d \in DOMAIN dirs'
      PROVE  IsFiniteSet(DOMAIN dirs'[d]) /\ Cardinality(DOMAIN dirs'[d]) <= SLOTS
  <2>1. CASE d = p
    <3>1. /\ IsFiniteSet(DOMAIN dirs[p]) /\ Cardinality(DOMAIN dirs[p]) \in Nat
          /\ Cardinality(DOMAIN dirs[p]) <= SLOTS
      BY <1>1, FS_CardinalityType DEF WithinBounds
    <3>2. /\ IsFiniteSet(DOMAIN dirs'[p])
          /\ Cardinality(DOMAIN dirs'[p]) <= Cardinality(DOMAIN dirs[p]) + 1
      <4>1. PICK D : D = DOMAIN dirs[p]
        OBVIOUS
      <4>2. IsFiniteSet(D \cup {k}) /\ Cardinality(D \cup {k}) <= Cardinality(D) + 1
        BY <3>1, <4>1, FS_AddElement
      <4> QED
        BY <1>1, <4>1, <4>2
    <3>3. Cardinality(DOMAIN dirs'[p]) \in Nat
      BY <3>2, FS_CardinalityType
    <3> QED
      BY <1>3, <2>1, <3>1, <3>2, <3>3 DEF Sizes
  <2>2. CASE d # p /\ d \in DOMAIN dirs
    BY <1>1, <2>2 DEF WithinBounds
  <2>3. CASE d # p /\ d \notin DOMAIN dirs
    BY <1>1, <2>3, FS_EmptySet DEF Sizes
  <2> QED
    BY <2>1, <2>2, <2>3
<1> QED
  BY <1>6, <1>7 DEF WithinBounds

LEMMA DeleteBounded ==
  ASSUME Sizes, WithinBounds, NEW k, NEW p, Delete(k, p)
  PROVE  WithinBounds'
<1>1. /\ DOMAIN dirs' \subseteq DOMAIN dirs
      /\ \A d \in DOMAIN dirs' : DOMAIN dirs'[d] \subseteq DOMAIN dirs[d]
      /\ Places' \subseteq Places
      /\ \A q \in Places' : EntryAt(q)' = EntryAt(q)
  BY DeletePlaces
<1>2. Occupied' \in SUBSET Occupied
  BY <1>1 DEF Occupied
<1>3. IsFiniteSet(Occupied') /\ Cardinality(Occupied') <= CAPACITY
  <2>1. /\ IsFiniteSet(Occupied) /\ Cardinality(Occupied) <= CAPACITY
        /\ IsFiniteSet(Occupied') /\ Cardinality(Occupied') <= Cardinality(Occupied)
    BY <1>2, FS_Subset DEF WithinBounds
  <2>2. Cardinality(Occupied) \in Nat /\ Cardinality(Occupied') \in Nat
    BY <2>1, FS_CardinalityType
  <2> QED
    BY <2>1, <2>2 DEF Sizes
<1>4. ASSUME NEW d \in DOMAIN dirs'
      PROVE  IsFiniteSet(DOMAIN dirs'[d]) /\ Cardinality(DOMAIN dirs'[d]) <= SLOTS
  <2>1. IsFiniteSet(DOMAIN dirs[d]) /\ Cardinality(DOMAIN dirs[d]) <= SLOTS
    BY <1>1 DEF WithinBounds
  <2>2. /\ IsFiniteSet(DOMAIN dirs'[d])
        /\ Cardinality(DOMAIN dirs'[d]) <= Cardinality(DOMAIN dirs[d])
    BY <1>1, <2>1, FS_Subset
  <2>3. Cardinality(DOMAIN dirs[d]) \in Nat /\ Cardinality(DOMAIN dirs'[d]) \in Nat
    BY <2>1, <2>2, FS_CardinalityType
  <2> QED
    BY <2>1, <2>2, <2>3 DEF Sizes
<1> QED
  BY <1>3, <1>4 DEF WithinBounds

(* The entries never stand for more than the storage, or their directory,  *)
(* has room for.                                                           *)
THEOREM WithinBoundsCorrect == ASSUME Sizes PROVE Spec => []WithinBounds
<1>1. Init => WithinBounds
  <2> SUFFICES ASSUME Init PROVE WithinBounds
    OBVIOUS
  <2>1. DOMAIN dirs = {}
    BY DEF Init
  <2>2. Occupied = {}
    BY <2>1 DEF Occupied, Places
  <2> QED
    BY <2>1, <2>2, FS_EmptySet DEF WithinBounds, Sizes
<1>2. WithinBounds /\ [Next]_storeVars => WithinBounds'
  <2> SUFFICES ASSUME WithinBounds, [Next]_storeVars PROVE WithinBounds'
    OBVIOUS
  <2>1. CASE dirs' = dirs
    <3>1. Occupied' = Occupied
      BY <2>1, SamePlaces DEF Occupied
    <3> QED
      BY <2>1, <3>1 DEF WithinBounds
  <2>2. CASE Format
    <3>1. DOMAIN dirs' = {ROOT} /\ DOMAIN dirs'[ROOT] = {} /\ Occupied' = {}
      BY <2>2, FormatPlaces DEF Occupied
    <3> QED
      BY <3>1, FS_EmptySet DEF WithinBounds, Sizes
  <2> QED
    BY <2>1, <2>2, OtherSteps, WriteBounded, DeleteBounded
<1> QED
  BY <1>1, <1>2, PTL DEF Spec

=============================================================================
