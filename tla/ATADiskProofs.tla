---------------------------- MODULE ATADiskProofs ----------------------------
(***************************************************************************)
(* The disk driver implements the block store, for drives, blocks and      *)
(* calls of any size, with a drive that neither lags nor fails.            *)
(***************************************************************************)
EXTENDS ATADisk, TLAPS

Perfect == ~Lag /\ ~Failures

LEMMA DiskInit == Init => DiskInv
<1> SUFFICES ASSUME Init PROVE DiskInv
  OBVIOUS
<1>1. 0 \in Blocks /\ 1 \in Offsets /\ 1 \in 1 .. MAX_COUNT + 1 /\ 0 \in 0 .. MAX_COUNT /\ 0 \in 0 .. BLOCK_COUNT
  BY ATAAssumption DEF Blocks, Offsets
<1>2. disk \in [Blocks -> Contents] /\ sector \in Contents
  BY <1>1 DEF Init
<1>3. mem \in Buffers
  BY DEF Init, Unfilled, Buffers
<1>4. TypeOK
  BY <1>1, <1>2, <1>3 DEF Init, TypeOK
<1> QED
  BY <1>4 DEF Init, DiskInv, InStep, DriveOK, CallOK, PlaceOK, WordsOK

(* What the drive does of itself changes nothing a reader could see.       *)
LEMMA DriveKeeps ==
  ASSUME Perfect, DiskInv, Drive
  PROVE  DiskInv' /\ Stored' = Stored /\ UNCHANGED <<callVars, pc, i, j, mem>>
<1>1. /\ TypeOK /\ DriveOK /\ PlaceOK /\ InStep /\ CallOK /\ WordsOK
      /\ pc # "word" /\ dev = "busy" /\ lba \in Blocks /\ left \in 1 .. MAX_COUNT
  BY DEF Perfect, DiskInv, InStep, DriveOK, TypeOK, Drive, LagEnds, OfferSector, StoreSector, Fail
<1>2. UNCHANGED <<callVars, pc, i, j, mem, cmd>>
  BY DEF Drive, LagEnds, OfferSector, StoreSector, Fail
<1>3. CASE OfferSector
  <2>1. /\ pending = FALSE /\ dev' = "drq" /\ pos' = 1 /\ UNCHANGED <<disk, lba, left, pending>>
        /\ sector' = IF cmd = "read" THEN disk[lba] ELSE sector
    BY <1>1, <1>3 DEF OfferSector, TypeOK
  <2>2. TypeOK'
    BY <1>1, <1>2, <2>1, ATAAssumption DEF TypeOK, Offsets, callVars
  <2>3. pc \notin {"idle", "free"}
    BY <1>1, <2>1 DEF DriveOK
  <2>4. InStep' /\ DriveOK' /\ CallOK' /\ WordsOK'
    BY <1>1, <1>2, <2>1, <2>3 DEF InStep, DriveOK, CallOK, WordsOK, callVars
  <2>5. PlaceOK'
    BY <1>1, <1>2, <2>1, <2>3 DEF PlaceOK, callVars
  <2>6. Stored' = Stored
    BY <2>1 DEF Stored
  <2> QED
    BY <1>2, <2>2, <2>4, <2>5, <2>6 DEF DiskInv
<1>4. CASE StoreSector
  <2>1. /\ pending = TRUE /\ pending' = FALSE /\ disk' = [disk EXCEPT ![lba] = sector]
        /\ lba' = lba + 1 /\ left' = left - 1 /\ UNCHANGED <<sector, pos>>
        /\ dev' = IF left = 1 THEN "idle" ELSE "busy"
    BY <1>1, <1>4 DEF StoreSector, TypeOK
  <2>2. lba' \in 0 .. BLOCK_COUNT /\ left' \in 0 .. MAX_COUNT
    BY <1>1, <2>1, ATAAssumption DEF Blocks
  <2>3. TypeOK'
    BY <1>1, <1>2, <2>1, <2>2 DEF TypeOK, callVars
  <2>4. InStep' /\ CallOK' /\ WordsOK'
    BY <1>1, <1>2, <2>1 DEF InStep, CallOK, WordsOK, callVars
  <2>5. PlaceOK'
    BY <1>1, <1>2, <2>1 DEF PlaceOK, TypeOK, Blocks, callVars
  <2>6. left # 1 => lba + 1 \in Blocks
    BY <1>1, <2>1, ATAAssumption DEF DriveOK, PlaceOK, CallOK, TypeOK, Blocks
  <2>7. DriveOK'
    BY <1>1, <1>2, <2>1, <2>2, <2>6 DEF DriveOK
  <2>8. Stored' = Stored
    BY <1>1, <2>1 DEF Stored, TypeOK
  <2> QED
    BY <1>2, <2>3, <2>4, <2>5, <2>7, <2>8 DEF DiskInv
<1>5. ~LagEnds /\ ~Fail
  BY <1>1 DEF Perfect, LagEnds, Fail
<1> QED
  BY <1>3, <1>4, <1>5 DEF Drive

(* A call begins in the store when it begins in the driver.                *)
LEMMA CallKeeps ==
  ASSUME DiskInv, Call
  PROVE  DiskInv' /\ BS!Begin
<1>1. /\ pc = "idle" /\ pc' = "free" /\ op' \in {"read", "write"} /\ addr' \in Blocks
      /\ count' \in 1 .. MAX_COUNT /\ addr' + count' <= BLOCK_COUNT
      /\ IF op' = "write" THEN data' \in [1 .. MAX_COUNT -> Contents] ELSE data' = data
      /\ mem' = Unfilled /\ i' = 1 /\ j' = 1 /\ UNCHANGED driveVars
  BY DEF Call
<1>2. TypeOK /\ InStep /\ DriveOK
  BY DEF DiskInv
<1>3. mem' \in Buffers /\ 1 \in 1 .. MAX_COUNT + 1 /\ 1 \in Offsets /\ count' \in 0 .. MAX_COUNT
  BY <1>1, ATAAssumption DEF Unfilled, Buffers, Offsets
<1>4. TypeOK'
  BY <1>1, <1>2, <1>3 DEF TypeOK, driveVars
<1>12. PICK a \in Blocks, n \in 1 .. MAX_COUNT : addr' = a /\ count' = n /\ a + n <= BLOCK_COUNT
  BY <1>1
<1>5. CallOK'
  <2>1. 1 <= n /\ 1 <= n + 1
    BY <1>12, ATAAssumption
  <2>2. 1 <= count' /\ addr' + count' <= BLOCK_COUNT /\ i' <= count' + 1
    BY <1>1, <1>12, <2>1
  <2> QED
    BY <1>1, <2>2 DEF CallOK
<1>11. InStep' /\ DriveOK' /\ PlaceOK' /\ WordsOK'
  BY <1>1, <1>2 DEF InStep, DriveOK, PlaceOK, WordsOK, driveVars
<1>6. Stored' = Stored
  BY <1>1 DEF Stored, driveVars
<1>7. Moved' = 0
  BY <1>1 DEF Moved
<1>8. [k \in 1 .. Moved' |-> IF op' = "write" THEN data'[k] ELSE mem'[k]] = [k \in {} |-> 0]
  <2>1. 1 .. Moved' = {}
    BY <1>7
  <2> QED
    BY <2>1
<1>9. \A k \in 0 .. count' - 1 : addr' + k \in Blocks
  <2>1. \A k \in 0 .. n - 1 : a + k \in Blocks
    BY <1>12, ATAAssumption DEF Blocks
  <2> QED
    BY <1>12, <2>1
<1>10. BS!Begin
  BY <1>1, <1>6, <1>7, <1>8, <1>9 DEF BS!Begin
<1> QED
  BY <1>4, <1>5, <1>10, <1>11 DEF DiskInv

LEMMA SendKeeps ==
  ASSUME Perfect, DiskInv, SendCommand
  PROVE  DiskInv' /\ Stored' = Stored /\ Moved' = Moved /\ UNCHANGED <<callVars, i, j, mem>> /\ pc' # "idle" /\ pc # "idle"
<1>1. /\ pc = "free" /\ pc' = "next" /\ dev \in {"idle", "drq", "lag", "error"}
      /\ cmd' = op /\ lba' = addr /\ left' = count /\ dev' = "busy" /\ pending' = FALSE
      /\ UNCHANGED <<disk, sector, pos, callVars, i, j, mem>>
  BY DEF SendCommand, NotBusy, Idle, Working, Perfect
<1>2. TypeOK /\ DriveOK /\ CallOK
  BY DEF DiskInv
<1>3. pending = FALSE /\ i = 1 /\ 1 <= count
  BY <1>1, <1>2 DEF DriveOK, CallOK, TypeOK
<1>4. TypeOK'
  <2>1. lba' \in 0 .. BLOCK_COUNT /\ left' \in 0 .. MAX_COUNT
    BY <1>1, <1>2, ATAAssumption DEF TypeOK, Blocks
  <2>2. disk' \in [Blocks -> Contents] /\ sector' \in Contents /\ pos' \in Offsets /\ j' \in Offsets
    BY <1>1, <1>2 DEF TypeOK
  <2>3. /\ data' \in [1 .. MAX_COUNT -> Contents] /\ mem' \in Buffers
        /\ addr' \in Blocks /\ count' \in 0 .. MAX_COUNT /\ i' \in 1 .. MAX_COUNT + 1
    BY <1>1, <1>2 DEF TypeOK, callVars
  <2>4. op' \in {"read", "write"} /\ cmd' \in {"read", "write"} /\ pending' \in BOOLEAN
    BY <1>1, <1>2 DEF TypeOK, callVars
  <2> QED
    BY <1>1, <2>1, <2>2, <2>3, <2>4 DEF TypeOK
<1>5. InStep' /\ CallOK' /\ WordsOK' /\ DriveOK'
  BY <1>1, <1>2, <1>3 DEF InStep, CallOK, WordsOK, DriveOK, TypeOK, callVars
<1>6. PlaceOK'
  BY <1>1, <1>2, <1>3 DEF PlaceOK, TypeOK, Blocks, callVars
<1>7. Stored' = Stored
  BY <1>1, <1>3 DEF Stored
<1>8. Moved' = Moved
  BY <1>1, <1>3 DEF Moved
<1> QED
  BY <1>1, <1>4, <1>5, <1>6, <1>7, <1>8 DEF DiskInv

LEMMA AwaitKeeps ==
  ASSUME DiskInv, AwaitBlock
  PROVE  DiskInv' /\ Stored' = Stored /\ Moved' = Moved /\ UNCHANGED <<callVars, i, mem>> /\ pc' # "idle" /\ pc # "idle"
<1>1. /\ pc = "next" /\ pc' = "word" /\ i <= count /\ dev # "busy" /\ j' = 1
      /\ UNCHANGED <<driveVars, callVars, i, mem>>
  BY DEF AwaitBlock, NotBusy, DrqWaitOver, Idle
<1>2. TypeOK /\ DriveOK /\ CallOK /\ PlaceOK
  BY DEF DiskInv
<1>3. pending = FALSE /\ left = count - i + 1 /\ lba = addr + i - 1 /\ cmd = op
  BY <1>1, <1>2 DEF DriveOK, PlaceOK, TypeOK
<1>4. left # 0
  BY <1>1, <1>2, <1>3 DEF TypeOK
<1>5. dev = "drq" /\ pos = 1
  BY <1>1, <1>2, <1>4 DEF DriveOK, PlaceOK
<1>6. TypeOK'
  BY <1>1, <1>2, ATAAssumption DEF TypeOK, Offsets, driveVars, callVars
<1>7. InStep' /\ DriveOK' /\ CallOK' /\ PlaceOK' /\ WordsOK'
  BY <1>1, <1>2, <1>3, <1>5 DEF InStep, DriveOK, CallOK, PlaceOK, WordsOK, driveVars, callVars
<1>8. Stored' = Stored /\ Moved' = Moved
  BY <1>1 DEF Stored, Moved, driveVars
<1> QED
  BY <1>1, <1>6, <1>7, <1>8 DEF DiskInv

(* While a word is moved the drive is at it, and there is no store to do.  *)
LEMMA AtWord ==
  ASSUME DiskInv, pc = "word"
  PROVE  /\ dev = "drq" /\ cmd = op /\ pos = j /\ pending = FALSE
         /\ lba = addr + i - 1 /\ lba \in Blocks
         /\ left = count - i + 1 /\ left \in 1 .. MAX_COUNT
         /\ i \in 1 .. MAX_COUNT /\ i <= count /\ count <= MAX_COUNT /\ addr + count <= BLOCK_COUNT
         /\ op = "read" => sector = disk[lba]
         /\ Stored = disk
<1>1. TypeOK /\ InStep /\ DriveOK /\ CallOK /\ PlaceOK /\ WordsOK
  BY DEF DiskInv
<1>2. dev = "drq" /\ cmd = op /\ pos = j /\ lba = addr + i - 1
  BY <1>1 DEF InStep
<1>3. pending = FALSE
  BY <1>1, <1>2 DEF DriveOK, TypeOK
<1>4. left = count - i + 1 /\ i <= count /\ (op = "read" => sector = disk[lba]) /\ addr + count <= BLOCK_COUNT
  BY <1>1, <1>2, <1>3 DEF PlaceOK, WordsOK, CallOK
<1>5. count \in 0 .. MAX_COUNT /\ i \in 1 .. MAX_COUNT + 1 /\ addr \in Blocks /\ left \in 0 .. MAX_COUNT
  BY <1>1 DEF TypeOK
<1>6. i \in 1 .. MAX_COUNT /\ count <= MAX_COUNT /\ left \in 1 .. MAX_COUNT
  BY <1>4, <1>5, ATAAssumption
<1>7. lba \in Blocks
  BY <1>2, <1>4, <1>5, ATAAssumption DEF Blocks
<1>8. Stored = disk
  <2>1. disk = [b \in Blocks |-> disk[b]]
    BY <1>1 DEF TypeOK
  <2> QED
    BY <1>3, <2>1 DEF Stored
<1> QED
  BY <1>2, <1>3, <1>4, <1>6, <1>7, <1>8

(* The sequence of blocks moved so far.                                    *)
MovedBlocks == [k \in 1 .. Moved |-> IF op = "write" THEN data[k] ELSE mem[k]]

(* A word read that does not end its block changes nothing in the store;   *)
(* the one that ends it reads the block.                                   *)
LEMMA ReadWordKeeps ==
  ASSUME Perfect, DiskInv, ReadWord
  PROVE  DiskInv' /\ (BS!ReadBlock \/ UNCHANGED <<Stored, Moved, MovedBlocks, callVars, pc # "idle">>)
<1>1. pc = "word" /\ op = "read" /\ TypeOK /\ WordsOK
  BY DEF ReadWord, DiskInv
<1>2. /\ dev = "drq" /\ cmd = op /\ pos = j /\ pending = FALSE
      /\ lba = addr + i - 1 /\ lba \in Blocks
      /\ left = count - i + 1 /\ left \in 1 .. MAX_COUNT
      /\ i \in 1 .. MAX_COUNT /\ i <= count /\ count <= MAX_COUNT /\ addr + count <= BLOCK_COUNT
      /\ sector = disk[lba]
      /\ Stored = disk
  BY <1>1, AtWord
<1>3. /\ mem' = [mem EXCEPT ![i][j] = sector[j]]
      /\ UNCHANGED <<disk, cmd, sector, pending, callVars>>
  BY <1>2 DEF ReadWord, Target
<1>4. /\ mem' \in Buffers
      /\ \A k \in 1 .. MAX_COUNT : k # i => mem'[k] = mem[k]
      /\ mem'[i] \in [Offsets -> Words \cup {Garbage}]
      /\ \A o \in Offsets : mem'[i][o] = IF o = j THEN sector[o] ELSE mem[i][o]
  BY <1>1, <1>2, <1>3 DEF TypeOK, Buffers, Contents
<1>5. j \in 1 .. HALF_BLOCK_SIZE /\ HALF_BLOCK_SIZE \in Nat /\ BLOCK_COUNT \in Nat /\ MAX_COUNT \in Nat
      /\ addr \in Blocks /\ count \in 0 .. MAX_COUNT
  BY <1>1, ATAAssumption DEF TypeOK, Offsets
<1>6. \A o \in 1 .. j : mem'[i][o] = sector[o]
  <2> SUFFICES ASSUME NEW o \in 1 .. j PROVE mem'[i][o] = sector[o]
    OBVIOUS
  <2>1. o \in Offsets /\ (o = j \/ o \in 1 .. j - 1)
    BY <1>5 DEF Offsets
  <2> QED
    BY <1>1, <1>4, <2>1 DEF WordsOK
<1>7. Stored' = disk
  BY <1>2, <1>3 DEF Stored
<1>8. CASE j < HALF_BLOCK_SIZE
  <2>1. /\ pc' = "word" /\ i' = i /\ j' = j + 1 /\ pos' = j + 1 /\ UNCHANGED <<dev, lba, left>>
    BY <1>2, <1>5, <1>8 DEF ReadWord, Advance, LastWord
  <2>2. j + 1 \in Offsets
    BY <1>5, <1>8 DEF Offsets
  <2>3. TypeOK'
    BY <1>1, <1>3, <1>4, <2>1, <2>2 DEF TypeOK, callVars
  <2>4. InStep' /\ DriveOK' /\ CallOK' /\ PlaceOK'
    BY <1>1, <1>2, <1>3, <2>1 DEF DiskInv, InStep, DriveOK, CallOK, PlaceOK, callVars
  <2>5. WordsOK'
    <3>1. \A o \in 1 .. j' - 1 : mem'[i'][o] = sector'[o]
      BY <1>3, <1>5, <1>6, <2>1
    <3> QED
      BY <1>1, <1>2, <1>3, <2>1, <3>1 DEF WordsOK, callVars
  <2>6. Moved = i - 1 /\ Moved' = Moved
    BY <1>1, <2>1 DEF Moved
  <2>7. MovedBlocks' = MovedBlocks
    <3>1. \A k \in 1 .. Moved : mem'[k] = mem[k]
      BY <1>2, <1>4, <1>5, <2>6
    <3> QED
      BY <1>1, <1>3, <2>6, <3>1 DEF MovedBlocks, callVars
  <2> QED
    BY <1>1, <1>2, <1>3, <1>7, <2>1, <2>3, <2>4, <2>5, <2>6, <2>7 DEF DiskInv
<1>9. CASE j = HALF_BLOCK_SIZE
  <2>1. /\ pc' = "next" /\ i' = i + 1 /\ j' = 1 /\ pos' = 1 /\ lba' = lba + 1 /\ left' = left - 1
        /\ dev' = IF left = 1 THEN "idle" ELSE "busy"
    BY <1>2, <1>5, <1>9 DEF ReadWord, Advance, LastWord, Working, Perfect
  <2>2. 1 \in Offsets /\ i + 1 \in 1 .. MAX_COUNT + 1 /\ lba + 1 \in 0 .. BLOCK_COUNT /\ left - 1 \in 0 .. MAX_COUNT
    BY <1>2, <1>5, ATAAssumption DEF Offsets, Blocks
  <2>3. TypeOK'
    BY <1>1, <1>3, <1>4, <2>1, <2>2 DEF TypeOK, callVars
  <2>4. left # 1 => lba + 1 \in Blocks /\ 1 <= left - 1
    BY <1>2, <1>5 DEF Blocks
  <2>5. InStep' /\ DriveOK' /\ WordsOK'
    BY <1>1, <1>2, <1>3, <2>1, <2>4 DEF InStep, DriveOK, WordsOK
  <2>6. CallOK'
    BY <1>1, <1>2, <1>3, <1>5, <2>1 DEF CallOK, callVars
  <2>7. PlaceOK'
    BY <1>1, <1>2, <1>3, <1>5, <2>1 DEF PlaceOK, Blocks, callVars
  <2>8. Moved = i - 1 /\ Moved' = i
    BY <1>1, <1>2, <2>1 DEF Moved
  <2>9. mem'[i] = disk[addr + Moved]
    <3>1. sector \in Contents /\ lba = addr + Moved
      BY <1>1, <1>2, <1>5, <2>8 DEF TypeOK, Blocks
    <3>2. \A o \in Offsets : mem'[i][o] = sector[o]
      BY <1>6, <1>9 DEF Offsets
    <3>3. mem'[i] = sector
      BY <1>4, <3>1, <3>2 DEF Contents
    <3> QED
      BY <1>2, <3>1, <3>3
  <2>10. MovedBlocks' = [k \in 1 .. Moved + 1 |-> IF k <= Moved THEN MovedBlocks[k] ELSE Stored[addr + Moved]]
    <3>1. Moved + 1 = i /\ Moved' = Moved + 1
      BY <1>2, <1>5, <2>8
    <3>2. \A k \in 1 .. Moved + 1 :
            mem'[k] = IF k <= Moved THEN MovedBlocks[k] ELSE Stored[addr + Moved]
      <4> SUFFICES ASSUME NEW k \in 1 .. Moved + 1
                   PROVE  mem'[k] = IF k <= Moved THEN MovedBlocks[k] ELSE Stored[addr + Moved]
        OBVIOUS
      <4>1. CASE k <= Moved
        <5>1. k \in 1 .. Moved /\ k \in 1 .. MAX_COUNT /\ k # i
          BY <1>2, <1>5, <2>8, <4>1
        <5>2. MovedBlocks[k] = mem[k]
          BY <1>1, <5>1 DEF MovedBlocks
        <5> QED
          BY <1>4, <4>1, <5>1, <5>2
      <4>2. CASE ~(k <= Moved)
        <5>1. k = i
          BY <1>2, <1>5, <2>8, <4>2
        <5> QED
          BY <1>2, <2>9, <4>2, <5>1
      <4> QED
        BY <4>1, <4>2
    <3> QED
      BY <1>1, <1>3, <3>1, <3>2 DEF MovedBlocks, callVars
  <2>11. Moved < count
    BY <1>2, <1>5, <2>8
  <2>12. BS!ReadBlock
    BY <1>1, <1>2, <1>3, <1>7, <2>1, <2>8, <2>10, <2>11 DEF BS!ReadBlock, BS!Move, MovedBlocks, callVars
  <2> QED
    BY <2>3, <2>5, <2>6, <2>7, <2>12 DEF DiskInv
<1> QED
  BY <1>5, <1>8, <1>9

(* A word written that does not end its block changes nothing in the       *)
(* store; the one that ends it writes the block, whatever time the drive   *)
(* takes to put it on the medium.                                          *)
LEMMA WriteWordKeeps ==
  ASSUME Perfect, DiskInv, WriteWord
  PROVE  DiskInv' /\ (BS!WriteBlock \/ UNCHANGED <<Stored, Moved, MovedBlocks, callVars, pc # "idle">>)
<1>1. pc = "word" /\ op = "write" /\ TypeOK /\ WordsOK
  BY DEF WriteWord, DiskInv
<1>2. /\ dev = "drq" /\ cmd = op /\ pos = j /\ pending = FALSE
      /\ lba = addr + i - 1 /\ lba \in Blocks
      /\ left = count - i + 1 /\ left \in 1 .. MAX_COUNT
      /\ i \in 1 .. MAX_COUNT /\ i <= count /\ count <= MAX_COUNT /\ addr + count <= BLOCK_COUNT
      /\ Stored = disk
  BY <1>1, AtWord
<1>3. /\ sector' = [sector EXCEPT ![j] = data[i][j]]
      /\ UNCHANGED <<disk, cmd, lba, left, callVars, mem>>
  BY <1>2 DEF WriteWord, Target
<1>4. /\ j \in 1 .. HALF_BLOCK_SIZE /\ HALF_BLOCK_SIZE \in Nat /\ BLOCK_COUNT \in Nat /\ MAX_COUNT \in Nat
      /\ addr \in Blocks /\ count \in 0 .. MAX_COUNT
      /\ data[i] \in Contents /\ sector \in Contents
  BY <1>1, <1>2, ATAAssumption DEF TypeOK, Offsets
<1>5. /\ sector' \in Contents
      /\ \A o \in Offsets : sector'[o] = IF o = j THEN data[i][o] ELSE sector[o]
  BY <1>3, <1>4 DEF Contents, Offsets
<1>6. \A o \in 1 .. j : sector'[o] = data[i][o]
  <2> SUFFICES ASSUME NEW o \in 1 .. j PROVE sector'[o] = data[i][o]
    OBVIOUS
  <2>1. o \in Offsets /\ (o = j \/ o \in 1 .. j - 1)
    BY <1>4 DEF Offsets
  <2> QED
    BY <1>1, <1>5, <2>1 DEF WordsOK
<1>7. CASE j < HALF_BLOCK_SIZE
  <2>1. /\ pc' = "word" /\ i' = i /\ j' = j + 1 /\ pos' = j + 1 /\ UNCHANGED <<dev, pending>>
    BY <1>2, <1>4, <1>7 DEF WriteWord, Advance, LastWord
  <2>2. j + 1 \in Offsets
    BY <1>4, <1>7 DEF Offsets
  <2>3. TypeOK'
    BY <1>1, <1>3, <1>5, <2>1, <2>2 DEF TypeOK, callVars
  <2>4. InStep' /\ DriveOK' /\ CallOK' /\ PlaceOK'
    BY <1>1, <1>2, <1>3, <2>1 DEF DiskInv, InStep, DriveOK, CallOK, PlaceOK, callVars
  <2>5. WordsOK'
    <3>1. \A o \in 1 .. j' - 1 : sector'[o] = data'[i'][o]
      BY <1>3, <1>4, <1>6, <2>1 DEF callVars
    <3> QED
      BY <1>1, <1>2, <1>3, <2>1, <3>1 DEF WordsOK, callVars
  <2>6. Stored' = Stored
    BY <1>2, <1>3, <2>1 DEF Stored
  <2>7. Moved' = Moved /\ MovedBlocks' = MovedBlocks
    BY <1>1, <1>3, <2>1 DEF Moved, MovedBlocks, callVars
  <2> QED
    BY <1>1, <1>3, <2>1, <2>3, <2>4, <2>5, <2>6, <2>7 DEF DiskInv
<1>8. CASE j = HALF_BLOCK_SIZE
  <2>1. /\ pc' = "next" /\ i' = i + 1 /\ j' = 1 /\ pos' = 1 /\ pending' = TRUE /\ dev' = "busy"
    BY <1>2, <1>4, <1>8 DEF WriteWord, Advance, LastWord, Working, Perfect
  <2>2. 1 \in Offsets /\ i + 1 \in 1 .. MAX_COUNT + 1
    BY <1>2, <1>4 DEF Offsets
  <2>3. TypeOK'
    BY <1>1, <1>3, <1>5, <2>1, <2>2 DEF TypeOK, callVars
  <2>4. InStep' /\ DriveOK' /\ WordsOK'
    BY <1>1, <1>2, <1>3, <2>1 DEF InStep, DriveOK, WordsOK
  <2>5. CallOK'
    BY <1>1, <1>2, <1>3, <1>4, <2>1 DEF CallOK, callVars
  <2>6. PlaceOK'
    BY <1>1, <1>2, <1>3, <1>4, <2>1 DEF PlaceOK, Blocks, callVars
  <2>7. Moved = i - 1 /\ Moved' = Moved + 1 /\ Moved + 1 = i /\ Moved < count
    BY <1>1, <1>2, <1>4, <2>1 DEF Moved
  <2>8. sector' = data[Moved + 1] /\ lba = addr + Moved
    <3>1. \A o \in Offsets : sector'[o] = data[i][o]
      BY <1>6, <1>8 DEF Offsets
    <3>2. sector' = data[i]
      BY <1>4, <1>5, <3>1 DEF Contents
    <3> QED
      BY <1>2, <1>4, <2>7, <3>2 DEF Blocks
  <2>9. Stored' = [Stored EXCEPT ![addr + Moved] = data[Moved + 1]]
    BY <1>1, <1>2, <1>3, <2>1, <2>8 DEF Stored, TypeOK
  <2>10. MovedBlocks' = [k \in 1 .. Moved + 1 |-> IF k <= Moved THEN MovedBlocks[k] ELSE data[Moved + 1]]
    <3>1. \A k \in 1 .. Moved + 1 : data[k] = IF k <= Moved THEN MovedBlocks[k] ELSE data[Moved + 1]
      <4> SUFFICES ASSUME NEW k \in 1 .. Moved + 1
                   PROVE  data[k] = IF k <= Moved THEN MovedBlocks[k] ELSE data[Moved + 1]
        OBVIOUS
      <4>1. k \in 1 .. Moved \/ (k = Moved + 1 /\ ~(k <= Moved))
        BY <1>2, <2>7
      <4> QED
        BY <1>1, <4>1 DEF MovedBlocks
    <3> QED
      BY <1>1, <1>3, <2>7, <3>1 DEF MovedBlocks, callVars
  <2>11. BS!WriteBlock
    BY <1>1, <1>3, <2>1, <2>7, <2>9, <2>10 DEF BS!WriteBlock, BS!Move, MovedBlocks, callVars
  <2> QED
    BY <2>3, <2>4, <2>5, <2>6, <2>11 DEF DiskInv
<1> QED
  BY <1>4, <1>7, <1>8

LEMMA ReturnKeeps ==
  ASSUME DiskInv, Return
  PROVE  DiskInv' /\ BS!Return
<1>1. /\ pc = "next" /\ pc' = "idle" /\ i > count
      /\ UNCHANGED <<driveVars, callVars, i, j, mem>>
  BY DEF Return
<1>2. TypeOK /\ DriveOK /\ CallOK /\ PlaceOK
  BY DEF DiskInv
<1>3. i = count + 1
  BY <1>1, <1>2 DEF CallOK, TypeOK
<1>4. IF pending THEN left = 1 /\ dev = "busy" ELSE left = 0 /\ dev = "idle"
  BY <1>1, <1>2, <1>3 DEF PlaceOK, DriveOK, TypeOK
<1>5. TypeOK'
  BY <1>1, <1>2 DEF TypeOK, driveVars, callVars
<1>6. DriveOK'
  BY <1>1, <1>2, <1>4 DEF DriveOK, TypeOK, driveVars
<1>7. InStep' /\ CallOK' /\ PlaceOK' /\ WordsOK'
  BY <1>1, <1>2, <1>3 DEF InStep, CallOK, PlaceOK, WordsOK, driveVars, callVars
<1>8. Stored' = Stored /\ Moved' = Moved /\ Moved = count /\ MovedBlocks' = MovedBlocks
  <2>1. Stored' = Stored /\ Moved' = Moved
    BY <1>1 DEF Stored, Moved, driveVars
  <2>2. Moved = count
    BY <1>1, <1>2, <1>3 DEF Moved, TypeOK
  <2> QED
    BY <1>1, <2>1, <2>2 DEF MovedBlocks, callVars
<1>9. BS!Return
  BY <1>1, <1>8 DEF BS!Return, MovedBlocks, callVars
<1> QED
  BY <1>5, <1>6, <1>7, <1>9 DEF DiskInv

LEMMA StutterKeeps ==
  ASSUME DiskInv, UNCHANGED vars
  PROVE  DiskInv' /\ UNCHANGED <<Stored, Moved, MovedBlocks, callVars, pc # "idle">>
BY DEF vars, driveVars, callVars, DiskInv, TypeOK, InStep, DriveOK, CallOK, PlaceOK, WordsOK,
       Stored, Moved, MovedBlocks

(* Every step keeps the invariant, and is a step of the store or none.     *)
LEMMA StepRefines ==
  ASSUME Perfect, DiskInv, [Next]_vars
  PROVE  DiskInv' /\ [BS!Next]_(BS!storeVars)
<1>1. UNCHANGED <<Stored, Moved, MovedBlocks, callVars, pc # "idle">> => UNCHANGED BS!storeVars
  BY DEF BS!storeVars, MovedBlocks, callVars
<1>2. CASE Drive
  BY <1>1, <1>2, DriveKeeps DEF Moved, MovedBlocks, callVars
<1>3. CASE Call
  BY <1>3, CallKeeps DEF BS!Next
<1>4. CASE SendCommand
  BY <1>1, <1>4, SendKeeps DEF MovedBlocks, callVars
<1>5. CASE AwaitBlock
  BY <1>1, <1>5, AwaitKeeps DEF MovedBlocks, callVars
<1>6. CASE ReadWord
  BY <1>1, <1>6, ReadWordKeeps DEF BS!Next
<1>7. CASE WriteWord
  BY <1>1, <1>7, WriteWordKeeps DEF BS!Next
<1>8. CASE Return
  BY <1>8, ReturnKeeps DEF BS!Next
<1>9. CASE UNCHANGED vars
  BY <1>1, <1>9, StutterKeeps
<1>10. CASE Poll
  BY <1>9, <1>10 DEF Poll
<1> QED
  BY <1>2, <1>3, <1>4, <1>5, <1>6, <1>7, <1>8, <1>9, <1>10 DEF Next, Driver

LEMMA InitRefines == Init => BS!Init
<1> SUFFICES ASSUME Init PROVE BS!Init
  OBVIOUS
<1>1. pc = "idle" /\ pending = FALSE /\ i = 1 /\ disk \in [Blocks -> Contents]
  BY DEF Init
<1>2. Stored \in [Blocks -> Contents]
  BY <1>1 DEF Stored
<1>3. Moved = 0
  BY <1>1 DEF Moved
<1>4. [k \in 1 .. Moved |-> IF op = "write" THEN data[k] ELSE mem[k]] = [k \in {} |-> 0]
  <2>1. 1 .. Moved = {}
    BY <1>3
  <2> QED
    BY <2>1
<1> QED
  BY <1>2, <1>3, <1>4 DEF Init, BS!Init

(* The invariant behind the two theorems below: where the drive is when    *)
(* the driver is at each place of disk.c, and what has been moved.         *)
THEOREM DiskCorrect == ASSUME Perfect PROVE Spec => []DiskInv
<1>1. Init => DiskInv
  BY DiskInit
<1>2. DiskInv /\ [Next]_vars => DiskInv'
  BY StepRefines
<1> QED
  BY <1>1, <1>2, PTL DEF Spec

(* A word is moved only while the drive offers or asks for it: the waits   *)
(* of disk.c:23-24 and 41-42 suffice.                                      *)
THEOREM InStepCorrect == ASSUME Perfect PROVE Spec => []InStep
<1>1. DiskInv => InStep
  BY DEF DiskInv
<1> QED
  BY <1>1, DiskCorrect, PTL

(* read_blocks() and write_blocks() are the reads and writes of a block    *)
(* store: a reader never finds a block half written, nor a write that has  *)
(* returned undone, although write_blocks() does not wait for its end.     *)
THEOREM DriverRefines == ASSUME Perfect PROVE Spec => ImplementsBlockStore
<1>1. Init => BS!Init
  BY InitRefines
<1>2. DiskInv /\ [Next]_vars => [BS!Next]_(BS!storeVars)
  BY StepRefines
<1> QED
  BY <1>1, <1>2, DiskCorrect, PTL DEF Spec, ImplementsBlockStore, BS!Spec

=============================================================================
