-------------------------------- MODULE ATADisk --------------------------------
(***************************************************************************)
(* The disk driver (ch1/disk/disk.c): read_blocks() and write_blocks()     *)
(* with the drive they talk to over ports 0x1F0 - 0x1F7, in steps of one   *)
(* status or data access.  Nobody else uses the ports, so the registers    *)
(* set before a command are part of sending it.                            *)
(***************************************************************************)
EXTENDS Integers, FiniteSets

CONSTANTS
  BLOCK_COUNT,      \* the size of the drive
  HALF_BLOCK_SIZE,  \* words in a block: 256 in the code
  Words,            \* what a word on the disk may be
  Garbage,          \* what the data port gives when the drive offers no data
  MAX_COUNT,        \* bound: the largest block_count, 4 in fat32.c
  Lag,              \* the drive takes a while to raise BSY, as the ATA
                    \* standard lets it (400 ns) and QEMU does not
  Failures          \* commands may fail

ASSUME ATAAssumption ==
  /\ BLOCK_COUNT \in Nat \ {0}
  /\ HALF_BLOCK_SIZE \in Nat \ {0}
  /\ MAX_COUNT \in Nat \ {0}
  /\ Words # {} /\ Garbage \notin Words
  /\ Lag \in BOOLEAN /\ Failures \in BOOLEAN

Blocks   == 0 .. BLOCK_COUNT - 1
Offsets  == 1 .. HALF_BLOCK_SIZE
Contents == [Offsets -> Words]
Buffers  == [1 .. MAX_COUNT -> [Offsets -> Words \cup {Garbage}]]

Unfilled == [k \in 1 .. MAX_COUNT |-> [o \in Offsets |-> Garbage]]

VARIABLES
  disk,     \* the medium
  dev,      \* what the status register tells of the drive
  cmd,      \* its command
  lba,      \* the block it is at
  left,     \* how many blocks of the command it has not finished
  sector,   \* its sector buffer
  pos,      \* the word of it that the data port is at
  pending,  \* the sector buffer is full and not yet on the medium
  pc,       \* where the driver is
  op,       \* the function called
  addr,     \* logical_block_address
  count,    \* block_count
  i, j,     \* the loop counters, from 1
  data,     \* the memory ptr points to, for write_blocks()
  mem       \* the same for read_blocks()

driveVars == <<disk, dev, cmd, lba, left, sector, pos, pending>>
callVars  == <<op, addr, count, data>>
vars      == <<driveVars, callVars, pc, i, j, mem>>

Init ==
  /\ disk \in [Blocks -> Contents]
  /\ dev = "idle" /\ cmd = "read" /\ lba = 0 /\ left = 0 /\ pos = 1
  /\ sector = disk[0] /\ pending = FALSE
  /\ pc = "idle" /\ op = "read" /\ addr = 0 /\ count = 0 /\ i = 1 /\ j = 1
  /\ data \in [1 .. MAX_COUNT -> Contents]
  /\ mem = Unfilled

-----------------------------------------------------------------------------
(* The drive.  It shows RDY whenever it does not show BSY.                 *)

Idle == dev \in {"idle", "drq", "lag", "error"}

(* What it shows first when it starts to work.                             *)
Working == IF Lag THEN "lag" ELSE "busy"

LagEnds ==
  /\ dev = "lag" /\ dev' = "busy"
  /\ UNCHANGED <<disk, cmd, lba, left, sector, pos, pending, callVars, pc, i, j, mem>>

OfferSector ==
  /\ dev = "busy" /\ ~pending
  /\ dev' = "drq" /\ pos' = 1
  /\ sector' = IF cmd = "read" THEN disk[lba] ELSE sector
  /\ UNCHANGED <<disk, cmd, lba, left, pending, callVars, pc, i, j, mem>>

StoreSector ==
  /\ dev = "busy" /\ pending
  /\ disk' = [disk EXCEPT ![lba] = sector]
  /\ pending' = FALSE
  /\ lba' = lba + 1 /\ left' = left - 1
  /\ dev' = IF left = 1 THEN "idle" ELSE "busy"
  /\ UNCHANGED <<cmd, sector, pos, callVars, pc, i, j, mem>>

(* ERR is set; the drive offers and takes no more data.                    *)
Fail ==
  /\ Failures /\ dev = "busy"
  /\ dev' = "error" /\ pending' = FALSE /\ left' = 0
  /\ UNCHANGED <<disk, cmd, lba, sector, pos, callVars, pc, i, j, mem>>

Drive == LagEnds \/ OfferSector \/ StoreSector \/ Fail

-----------------------------------------------------------------------------
(* The driver                                                              *)

Call ==
  /\ pc = "idle" /\ pc' = "free"
  /\ op' \in {"read", "write"}
  /\ addr' \in Blocks
  /\ count' \in {n \in 1 .. MAX_COUNT : addr' + n <= BLOCK_COUNT}
  /\ IF op' = "write" THEN data' \in [1 .. MAX_COUNT -> Contents] ELSE data' = data
  /\ mem' = Unfilled
  /\ i' = 1 /\ j' = 1
  /\ UNCHANGED driveVars

(* What ATA_busy_wait() waits for.  Mutated: there is no wait.             *)
MutNotBusy == TRUE

NotBusy == Idle

(* What ATA_DRQ_wait() waits for: RDY.  Mutated: DRQ, which a drive that   *)
(* has failed never shows.                                                 *)
MutDrqWaitOver == dev = "drq"

DrqWaitOver == Idle

SendCommand ==
  /\ pc = "free" /\ NotBusy
  /\ pc' = "next"
  /\ cmd' = op /\ lba' = addr /\ left' = count
  /\ dev' = Working /\ pending' = FALSE
  /\ UNCHANGED <<disk, sector, pos, callVars, i, j, mem>>

AwaitBlock ==
  /\ pc = "next" /\ i <= count
  /\ NotBusy /\ DrqWaitOver
  /\ pc' = "word" /\ j' = 1
  /\ UNCHANGED <<driveVars, callVars, i, mem>>

(* One more reading of the status register that tells the driver to wait.  *)
Poll ==
  /\ \/ pc = "free" /\ ~NotBusy
     \/ pc = "next" /\ i <= count /\ ~(NotBusy /\ DrqWaitOver)
  /\ UNCHANGED vars

(* The inner loop's test after word j.  Mutated: it stops one word early.  *)
MutLastWord == j >= HALF_BLOCK_SIZE - 1

LastWord == j = HALF_BLOCK_SIZE

Advance ==
  IF LastWord THEN pc' = "next" /\ i' = i + 1 /\ j' = 1
              ELSE pc' = "word" /\ i' = i /\ j' = j + 1

(* Where the words of block i lie behind ptr.  Mutated: target stays at    *)
(* the first block.                                                        *)
MutTarget == 1

Target == i

ReadWord ==
  /\ pc = "word" /\ op = "read"
  /\ mem' = [mem EXCEPT ![Target][j] = IF dev = "drq" THEN sector[pos] ELSE Garbage]
  /\ Advance
  /\ IF dev = "drq"
     THEN IF pos < HALF_BLOCK_SIZE
          THEN pos' = pos + 1 /\ UNCHANGED <<dev, lba, left>>
          ELSE /\ pos' = 1 /\ lba' = lba + 1 /\ left' = left - 1
               /\ dev' = IF left = 1 THEN "idle" ELSE Working
     ELSE UNCHANGED <<dev, lba, left, pos>>
  /\ UNCHANGED <<disk, cmd, sector, pending, callVars>>

WriteWord ==
  /\ pc = "word" /\ op = "write"
  /\ Advance
  /\ IF dev = "drq"
     THEN /\ sector' = [sector EXCEPT ![pos] = data[Target][j]]
          /\ IF pos < HALF_BLOCK_SIZE
             THEN pos' = pos + 1 /\ UNCHANGED <<dev, pending>>
             ELSE pos' = 1 /\ pending' = TRUE /\ dev' = Working
     ELSE UNCHANGED <<dev, sector, pos, pending>>
  /\ UNCHANGED <<disk, cmd, lba, left, callVars, mem>>

Return ==
  /\ pc = "next" /\ i > count
  /\ pc' = "idle"
  /\ UNCHANGED <<driveVars, callVars, i, j, mem>>

Driver == Poll \/ SendCommand \/ AwaitBlock \/ ReadWord \/ WriteWord \/ Return

Next == Drive \/ Call \/ Driver

Spec == Init /\ [][Next]_vars

(* The drive goes on working and the driver goes on polling.               *)
FairSpec == Spec /\ WF_vars(Drive) /\ WF_vars(Driver)

-----------------------------------------------------------------------------
TypeOK ==
  /\ disk \in [Blocks -> Contents]
  /\ dev \in {"idle", "lag", "busy", "drq", "error"}
  /\ cmd \in {"read", "write"} /\ op \in {"read", "write"}
  /\ lba \in 0 .. BLOCK_COUNT /\ left \in 0 .. MAX_COUNT
  /\ sector \in Contents /\ pos \in Offsets /\ pending \in BOOLEAN
  /\ pc \in {"idle", "free", "next", "word"}
  /\ addr \in Blocks /\ count \in 0 .. MAX_COUNT
  /\ i \in 1 .. MAX_COUNT + 1 /\ j \in Offsets
  /\ data \in [1 .. MAX_COUNT -> Contents] /\ mem \in Buffers

(* The driver moves a word only while the drive asks for or offers it, and *)
(* the two agree on the block and the word.  (disk.c:22-27, 40-45)         *)
InStep ==
  pc = "word" => dev = "drq" /\ cmd = op /\ lba = addr + i - 1 /\ pos = j

(* What a reader will find, once the drive has stored what it took.        *)
Stored == [b \in Blocks |-> IF pending /\ b = lba THEN sector ELSE disk[b]]

Moved == IF pc = "free" THEN 0 ELSE i - 1

(* Reads and writes are those of BlockStore, although write_blocks()       *)
(* returns while the drive still works on the last block: the wait that    *)
(* begins every call makes up for it.  (disk.c:13, 32)                     *)
BS == INSTANCE BlockStore WITH
  store  <- Stored,
  active <- pc # "idle",
  done   <- Moved,
  moved  <- [k \in 1 .. Moved |-> IF op = "write" THEN data[k] ELSE mem[k]]

ImplementsBlockStore == BS!Spec

(* Every call returns, whether its command succeeds or fails.              *)
(* (disk.c:5, 9)                                                           *)
CallsReturn == pc = "free" ~> pc = "idle"

(* read_blocks() "Will blocking until read is completed" (disk.h:28): what *)
(* it returns is what the blocks hold.                                     *)
ReadCompleted ==
  pc = "next" /\ i > count /\ op = "read" =>
    \A k \in 1 .. count : mem[k] = disk[addr + k - 1]

-----------------------------------------------------------------------------
(* The inductive invariant, for a drive that neither lags nor fails.       *)

(* The only work the drive may do without a call is to store one sector.   *)
DriveOK ==
  /\ dev \in {"idle", "busy", "drq"}
  /\ pending => dev = "busy" /\ cmd = "write"
  /\ dev = "busy" => lba \in Blocks /\ 1 <= left
  /\ pc \in {"idle", "free"} =>
       /\ dev \in {"idle", "busy"}
       /\ dev = "busy" => pending /\ left = 1

CallOK ==
  /\ pc = "idle" => i = count + 1
  /\ pc # "idle" => 1 <= count /\ addr + count <= BLOCK_COUNT /\ i <= count + 1
  /\ pc = "free" => i = 1

(* The drive is at the block the driver is at, or stores the one before.   *)
PlaceOK ==
  pc \in {"next", "word"} =>
    /\ cmd = op
    /\ IF pending THEN 2 <= i /\ lba = addr + i - 2 /\ left = count - i + 2
                  ELSE lba = addr + i - 1 /\ left = count - i + 1
    /\ dev = "idle" <=> left = 0
    /\ dev = "drq" => pos = IF pc = "word" THEN j ELSE 1
    /\ dev = "drq" /\ op = "read" => sector = disk[lba]

(* The words of the block moved so far are where they belong.              *)
WordsOK ==
  pc = "word" =>
    /\ i <= count
    /\ \A o \in 1 .. j - 1 :
         IF op = "read" THEN mem[i][o] = sector[o] ELSE sector[o] = data[i][o]

DiskInv == TypeOK /\ InStep /\ DriveOK /\ CallOK /\ PlaceOK /\ WordsOK

=============================================================================
