# TLA+ models of dupaktingitngjos

A small x86 kernel written for a course: it boots with GRUB into QEMU, sets up
segments, interrupts and paging, keeps files on an IDE disk with a FAT-like
file system, and jumps into one user program. This directory holds TLA+ modules
of the parts that have state worth reasoning about, TLC configurations that
check them on small instances, and proofs checked by TLAPS. Paths in the text
and in the modules are relative to `src/` of the repository.

Contents: 1 the system, 2 modules, 3 what the runs check, 4 bounds,
5 fairness, 6 proofs, 7 disagreements found, 8 not modelled, 9 plan,
10 running it.

## 1. The system

The kernel is one thread. What interleaves with it is hardware: the keyboard's
interrupt, the MMU that reads the page directory when it likes, the drive that
goes on working after a call has returned, and power loss.

| Component | State | Operations | Who it meets | What is hard |
|---|---|---|---|---|
| FAT32 driver, `ch1/fat32/` | `driver_state`: the cached FAT, one cluster buffer, one directory buffer; on disk the boot sector, the FAT (cluster 1), clusters from 2 on | `initialize_filesystem_fat32`, `create_fat32`, `write`, `read`, `read_directory`, `delete` | called by `kernel_setup`, by the host's inserter and (in the text) by `syscall`; calls the disk driver | several disk writes per call and no journal; caches and buffers used again half-way; loops along chains with no bound; long sequences of calls |
| Disk driver, `ch1/disk/` | loop counters; the drive's registers, sector buffer and medium | `read_blocks`, `write_blocks` | FAT32 above, ATA ports below | busy waiting, a drive that is still at work when the call is over, errors |
| Paging, `ch2/paging/` | page directory, frame map, free count; the TLB | `update_page_directory_entry`, `paging_allocate_check`, allocate, free | the loader and `kernel_setup`; the MMU | two stores per entry with a page walk between them, stale translations, map and count kept apart |
| Keyboard driver, `ch1/keyboard/` | `keyboard_state` (input on, extended, one character); the 8042's output buffer | `keyboard_isr`, activate, deactivate, `get_keyboard_buffer` | the interrupt path; programs | handler against program; a byte that is never read stops the keyboard |
| Interrupts, `ch1/interrupt/`, `ch1/idt/`, `ch1/intsetup/` | PIC request, service and mask bits; the interrupt flag; the kernel stack | `pic_remap`, `initialize_idt`, masking, stubs, `main_interrupt_handler`, `pic_ack` | CPU, PIC, keyboard driver | nesting, one acknowledgement per interrupt on every path, stack balance, exceptions that repeat for ever |
| Start and main, `kernel.c`, `ch0/kernel-entrypoint/` | the buffer `cbuf`, the memory behind page 0 | the order of all the above, `read` of the shell, two `write`s, the jump to ring 3 | everything | error codes nobody looks at; a second boot on the same disk |
| GDT and TSS, `ch0/gdt/` | descriptors, the task register, `esp0` | `load_gdt`, `gdt_install_tss`, `set_tss_register`, `set_tss_kernel_current_stack` | `kernel_setup`; the CPU in every change of ring | a base spread over three fields; the order of the four steps; a mistake resets the machine |
| Console, `ch1/framebuffer/`, `putc`, `puts` | cells, cursor | write, clear, scroll by clearing | `kernel_setup`, `syscall` | boundaries |
| String library, `ch0/stdlib/` | none | `memcpy`, `memmove`, `strcmp`, ... | everyone | overlap, terminators |
| Shell, `ch2/user-shell/` | none: `main` returns | `cp`, `mkdir`, `cd`, `ls` are not built | `syscall` | |
| Inserter, `ch2/external-inserter/` | a copy of the image | the FAT32 driver on the host, then the image saved whole | the image the kernel boots from | |

What makes each correct:

* FAT32: chains never share a cluster or run in a circle, every entry names an
  allocated chain, no cluster is lost, names are unique, what is stored can be
  read back, a call leaves other files alone, every call returns, and a power
  loss harms nothing that was there.
* Disk: a call moves the blocks it was asked for, in order, each exactly once,
  and a later call sees them.
* Paging: no frame has two owners, marked frames are the mapped ones, the count
  is exact, and no stale translation survives an update.
* Keyboard and interrupts: handlers do not nest, every interrupt is
  acknowledged once, no byte is read twice or stays unread, and characters reach
  the program in order.
* Segments and stubs: the handler sees the registers of what was interrupted, a
  trap gives every one of them back, and the CPU never refuses a segment.
* Start: the page the kernel jumps into holds the shell that was inserted, boots
  come to an end whatever the calls return, and leave the storage alone once
  there is nothing left to do.

`PROJECT.json` lists every component, and under `hazards` each place of the code
where one of these could go wrong, with the properties that would show it.

## 2. Modules

A module holds the state and one action per step of the code; its properties
stand in the same module, or beside it when several modules share the state. An
operator `Mut...` is a mistake the code could have made, kept next to the
operator it would replace: nothing uses it, and replacing the one by the other
must break the property that `PROJECT.json` names.

### FAT32

* `FAT32` - the driver and the disk image. One action is one
  `write_clusters()` with the memory updates before it, or one round of a loop
  along a chain, so every state the disk can be left in is a state of the
  model. `pc` names the place in the code: `off` (no power, or the zeroed image
  of `qemu-img`), `format_fat`, `format_root`, `mount`, `idle`, and for each
  call its steps (`write`, `write_fat`, `write_dir`, ...). `req`, `slot`,
  `cursor`, `i` are the locals. A cluster is a record of what it holds as data
  and how it looks when read as a directory table, since the driver reads any
  cluster a caller names as one. Early returns are `WriteRefused`,
  `DeleteRefused`, `ReadRefused`, with the codes in the order the code tests.
* `FAT32Props` - type and safety properties, `CallsReturn`.
* `FAT32Docs` - what comments of the repository say that `write()` stores.
* `FileStore` - the abstract specification: a tree of directories, each a
  function from names to entries, on a storage with a number of free blocks; a
  call, refused or not, happens at once. It knows of no FAT and no chain. What
  it does keep of the code are three weaknesses a caller can see: of a longer
  file only every other block is stored (`Kept`), an entry made for a file may be
  a folder, and what is marked as a folder but holds no directory table cannot be
  deleted when its contents, read as a table, show an entry (`filled`).
* `FAT32Store` - `FAT32` implements `FileStore`. The mapping reads the tree off
  the disk (`Tree`): a `write()` happens when the parent's table is written, a
  `delete()` when it is accepted, although four more disk writes follow it.
* `FAT32Inv` - the inductive invariant of the driver (`DriverInv`): the image,
  the buffers of a call in progress, and who owns each allocated cluster.
* `FAT32StoreInv` - what ties the call in progress to the abstract store
  (`StoreInv`).
* `FAT32Crash` - `FAT32` with power lost between two cluster writes or within
  the write of the FAT (four blocks, ascending), and the next boot.
* `FAT32CrashInv` - what of the invariant survives a power loss (`CrashInv`).
* `FAT32Proofs` (`DriverInv`), `StoreProofs` (`StoreInv` and the refinement),
  `CrashProofs` (`CrashInv`), `FileStoreProofs` (the laws of `FileStore` by
  itself, which `StoreProofs` carries over to the driver).

### Disk

* `BlockStore` - the abstract specification: each block of a call is read or
  written at once, then the call returns.
* `ATADisk` - `read_blocks()` and `write_blocks()` one status or data access at
  a time, together with the drive: its status, the sector buffer, the place of
  the data port in it, the medium, and `pending`, a sector taken and not yet
  stored. `Lag` and `Failures` choose a drive that is slow to show BSY, or whose
  commands may fail. The refinement mapping takes the medium with the pending
  sector on it for the store (`Stored`) and the loop counter for the number of
  blocks moved (`Moved`).
* `ATADiskProofs`.

`FAT32` does not INSTANCE `BlockStore`: it takes a cluster write as one step,
which the refinement and the single thread justify, and its crash module cuts
that step where it matters.

### Paging

* `Paging` - the directory, frame map and count; the two stores and the
  `invlpg` of `update_page_directory_entry()` as three actions with the MMU's
  `Fill` and `Evict` between them; the loader that deletes the identity mapping.
  Calls come with any page, since the functions
  refuse none: an allocation may name a page that is mapped, a free the kernel's
  page. The history variable `lost` holds the frames of entries that were
  overwritten. The stray bits of the uninitialised flag are one
  nondeterministic Boolean.
* `PagingProofs`.

### Keyboard and interrupts

* `Keyboard` - the driver with the 8042. The bytes the keyboard will send are a
  `script` of kinds (a press with a character, one without, a release, the
  extended prefix); a character is known by the number of its byte, 0 is none.
* `Interrupts` - composes `Keyboard` with the PIC (request, service, mask), the
  CPU (interrupt flag, a stack of frames with the number of words under the
  return address), the boot steps, the stubs, `main_interrupt_handler()` and
  a program that calls the driver, faults and uses `int`. A call of
  `get_keyboard_buffer()` runs with interrupts on (`pc = "flush"`), as in
  `kernel.c:78-80`, or behind an interrupt gate (`"sysflush"`), as it would from
  `syscall()`. The history variable `missed` says that an interrupt was spent
  before the driver listened.
* `InterruptsProofs`.

### Segments, stubs and the whole machine

* `Traps` - the GDT by kind and privilege, the TSS with the base spread over its
  descriptor, the way into ring 3, and a trap word by word: what the CPU pushes,
  from ring 0 and from ring 3, the stubs with and without an error code, the
  segment registers, `pushad`, the handler that may use any register C lets it
  use, and the way back. The words are numbers that nobody computes with, all
  different, so a word in the wrong place shows. `Interrupts` counts the words of
  the same stack with all devices around; `Traps` says which they are.
* `Kernel` - the machine. It extends `FAT32Crash`, `FAT32Store` and `Traps`,
  instantiates `Paging` with two pages, and drives their actions in the order
  `kernel_setup()` calls them. `at` is the place in `kernel_setup()` or in the
  inserter; `mem` is what the kernel has copied into each frame, through the
  translation the MMU uses, which may be a stale one. Power is lost at any step;
  while the machine is off the inserter may run the same driver on the storage.
  Two history variables: `shell`, what the storage keeps of the first shell, and
  `settled`, that some boot has come to its end.
* `KernelProofs` - of traps, of `Traps` and of the machine.

`MCFAT32`, `MCFAT32Crash`, `MCATADisk`, `MCPaging`, `MCInterrupts` and `MCKernel`
give the constants their values.

## 3. What the runs check

Runs that pass:

| Run | Shows |
|---|---|
| `fat32_chains` | two files of one to three clusters, written and deleted in any order so that free clusters get scattered: `StoreInv` (the whole inductive invariant), `NoCrossLinks`, `NoDangling`, `NoLeak`, `ReadFitsBuffer`, `ReadsStored` (what `read()` copies is what is stored), `OthersUntouched`, `CallsReturn`, and `ImplementsFileStore`: every call does what the abstract store does, with the same code, and space is refused exactly when entries occupy it |
| `fat32_tables` | nested folders, folders made of any memory, two names, a storage that runs full: no folder that is accepted as a parent is ever cut off from the root (`FoldersReachable`), and `ImplementsFileStore` with directories inside directories |
| `fat32_crash` | power lost at every step, and any number of boots: `CrashInv`, `FilesSurvive`, `WriteKeepsFiles`; `WildOnlyIfTorn` and `MountedRootValid` say that only `delete()` and formatting leave a disk later calls cannot work with |
| `atadisk` | calls of one and two blocks: driver and drive are in step (`InStep`), `DiskInv`, and the pair implements `BlockStore` although `write_blocks()` returns early |
| `atadisk_fail` | with a drive that may fail any command and is slow to raise BSY, every call returns (`CallsReturn`) |
| `paging` | `CountExact`, `TlbFresh`, `FramesExclusive`, `FrameMapTracks` (a frame is marked exactly when it is mapped or lost) and the invariant `PagingInv`, whoever calls |
| `interrupts` | `OneHandler`, `EoiPaired`, `NoPhantomRead`, `NoByteStuck`, `GotInOrder`, `FlushedWasGot` behind an interrupt gate, `InterruptsInv`, and `BytesHandled`, even by a program that faults for ever |
| `kernel` | boots, power losses and runs of the inserter in any order: the kernel jumps into the shell inserted first, or into an empty page, and reading it touches no other memory (`JumpHoldsShell`); a storage whose formatting was cut is never written again, by either (`TornStays`); after a boot that reached the shell no boot writes (`BootsSettle`); every boot ends (`BootEnds`); and through all that, traps in kernel and program see and give back every register (`FrameTrue`, `ContextRestored`) and the CPU refuses no segment (`NoFault`) |

Runs that fail on purpose are the disagreements of section 7.

Every property of a passing run has a mutant in `PROJECT.json` that it catches.

## 4. Bounds

* FAT32: `CLUSTER_MAP_SIZE` 9, 5 and 6 instead of 512, `DIRECTORY_ENTRIES` 3
  or 4 (one or two usable slots) instead of 64, `CLUSTER_SIZE` 2. Nine entries
  leave six data clusters beside the root: a chain of three clusters fits around
  another file and in the holes it leaves. With five entries two clusters are
  left: a folder with a folder in it fills the storage. The loops make no other
  use of the sizes, and the proofs hold for all of them.
* Disk: three blocks (two in the runs with failures) of two words, two values per
  word, calls of up to two blocks: a block can be first, last or in the middle,
  and the next call can come while the last block is still being stored.
* Paging: four pages, three frames: frames run out, and the kernel's page is
  among those a caller can name.
* Interrupts: `MAX_BYTES` is 4 (2 in the failing run): a prefix, an arrow, a key
  and a release in any order; faults with and without an error code. Faults,
  software interrupts and calls are not bounded, since they do not lengthen the
  state.
* Kernel: 8 FAT entries (five data clusters beside the root), three slots in the
  root, files of one and three blocks and one that does not exist, under the
  shell's name or another, in the root or in a parent that is none: the two text
  files of `kernel_setup()` find room, find no room, or find no slot. Two frames and two pages. A trap
  with an error code (14, in the program) and one without (33, anywhere). The
  boot loader's `fs` and `gs` have a value unlike all others, so that mixing them
  with `ds` and `es` shows. Interrupts come between the calls of
  `kernel_setup()`, not inside: they touch neither files nor paging, and
  `Interrupts` has them everywhere. Boots and power losses are not bounded.

## 5. Fairness

* `FAT32!FairSpec`: the call in progress goes on. The driver is sequential
  code; that it begins another call is not assumed.
* `ATADisk!FairSpec`: the drive goes on working and the driver goes on polling.
  `Poll` is the reading of the status that changes nothing; it is why a wait
  that never ends is a livelock here and no deadlock, as in the code.
* `Interrupts!FairSpec`: weak fairness of boot, handlers and the second half of
  `get_keyboard_buffer()`, which are straight-line code, and strong fairness of
  `Dispatch`: the CPU looks for an interrupt between any two instructions, so a
  program whose every instruction faults cannot keep it out although the
  interrupt flag goes on and off. Nothing is assumed of the program or of when
  bytes are sent.

* `Kernel!KernelSpec`: strong fairness of the code between interrupts (`Setup`)
  and weak fairness of a trap in progress. Strong, because a trap disables the
  code it interrupts and a keyboard may interrupt for ever; justified, because
  keys come slower than instructions. Nothing is assumed of when power comes,
  of the MMU, or of the person who runs the inserter.

## 6. Proofs

TLAPS proves, for every value of the constants that the named `ASSUME`s allow:

* `FAT32Proofs`: `DriverInv`; from it `TypeOK`, `LinksForward`, `NoCrossLinks`,
  `NoDangling`, `RootIntact`, `UniqueNames`, `CacheCoherent`, `WalkOnChain`,
  `RoomForNextBlock`, the action property `OthersUntouched` and, if
  `TablesInFolders`, `NoLeak`.
* `StoreProofs`: `StoreInv`; from it `ReadFitsBuffer`, `ReadsStored` and, if
  `TablesInFolders`, `ImplementsFileStore`, `FoldersReachable` and the laws below
  for what the driver stores (`StoreLawsCorrect`).
* `FileStoreProofs`, of `FileStore` alone, whatever implements it: `Rooted` (no two
  entries stand for one directory, and each can be reached from the root),
  `WithinBounds` if the sizes are numbers (`Sizes`), and the action property
  `OneEntryAtATime`.
* `CrashProofs`: `CrashInv`; from it `FilesSurvive`, `WildOnlyIfTorn`,
  `MountedRootValid` and the action property `WriteKeepsFiles`.
* `PagingProofs`: `PagingInv`; from it `CountExact`, `TlbFresh`,
  `FramesExclusive`, `FrameMapTracks`.
* `InterruptsProofs`: `InterruptsInv`; from it `OneHandler`, `EoiPaired`,
  `NoPhantomRead`, `NoByteStuck`, `GotInOrder` and `FlushedWasGot`.
* `ATADiskProofs`: `DiskInv`, `InStep`, and that `ATADisk` implements
  `BlockStore`, for a drive that neither lags nor fails (`Perfect`). A drive that
  lags breaks the refinement: the driver looks for BSY once the command is
  sent, finds none yet, and takes words before the sector is there (TLC shows it
  with `Lag = TRUE` and `ImplementsBlockStore` alone).
* `KernelProofs`, of `KernelSpec`: `FrameTrue` and `ContextRestored` (also of
  `TrapsSpec`, in which traps come in any order with the steps of
  `kernel_setup()`), `NoFault` if `SegmentsDefined`, `TornStays`, `BootsSettle`,
  `JumpHoldsShell`, and `MachineIsCrash`: what the machine does to its storage is a behaviour of
  `FAT32Crash`, so the theorems of `CrashProofs` hold of it. And `BaseRead`, that
  the TSS's address survives being spread over its descriptor.

`TypeOK`, `RootIntact`, `UniqueNames`, `CacheCoherent`, `WalkOnChain`,
`RoomForNextBlock`, `FramesBalanced`, `ExtendedTracks` and `BufferIsLast` are in no configuration by
name: the runs check the inductive invariants they follow from.

What the theorems assume beyond the sizes:

* `CallerAssumption`: callers give no buffer that looks like a directory with
  entries. The code would take a file's last cluster for a directory if its
  twelfth byte says so, and with entries in it everything is in the caller's
  hands.
* `TablesInFolders` (`NoLeak`, `ImplementsFileStore` and what follows from it): a buffer of a file does not
  look like a directory table at all. `delete()` looks for entries only behind an
  entry marked as a subdirectory, so a file used as a parent is deleted with its
  entries, and their clusters are lost: TLC finds `NoLeak` violated with such a
  load. Both `MCFAT32` load sets satisfy it.
* `SegmentsDefined` (`NoFault`): the selectors GRUB leaves in `fs` and `gs` are in
  the kernel's GDT. `load_gdt` reloads the other four only, and the first
  interrupt pops these two.
* `TrapsAssumption`: any vectors but 21 and 29, whose stubs push a code of their
  own on top of the CPU's.
* `KernelAssumption`: what the kernel and the inserter ask of the driver is among
  the calls `FAT32` lets callers make; page 0 is not the kernel's page, and there
  are two frames or more.

The arguments, in short.

*FAT32.* The image properties are not inductive by themselves: half-way through
`write()` or `delete()` the cached FAT differs from the disk's, and what it will
be when written out depends on how the loop has built it. `NewChainOK` says that
the part of the cached FAT that differs is a single chain over clusters free on
disk, from the entry's first cluster to `cursor`; `FreedOK` that a freed cluster
has its predecessor freed, so no link of what remains leads to it; `BufferOK`
that the directory buffer differs from the parent in one slot. `RoomOK` bounds
the search, which has no bound in the code: each round uses up at most one of the free entries from `cursor` on
that were counted before the loop.

That no space is lost needs to know whose each allocated cluster is (`OwnersOK`),
not how long a chain is: a cluster is named by a FAT entry or by a directory
entry. A cluster accepted as a parent is alone in its chain and belongs to an
entry marked as a folder (`FoldersOK`); `delete()` has checked such a cluster to
be empty, so the entries it takes away with a chain are none
(`FreedOwnersOK`).

*FAT32 with power loss.* After a cut `write()` there are chains nobody owns, with
links into free clusters another file may take, so `FAT32Inv` does not survive.
`CrashInv` speaks of the chains of the entries in use alone (`FilesApart`,
`WalkInFile`), and says of everything else only that links run forward.
The set of clusters of a chain is a recursive function; the proofs replace it by
the least set closed under links (`Reach`, `ChainIsReach`), of which it is easy to
say what a step that changes one FAT entry does to it. A FAT cut in the middle
is, entry by entry, the old one or the new one (`EndedMixture`, `FreedMixture`).

*FAT32 as a store.* `Tree` reads files along chains by a recursive function, over
which no induction theorem can be instantiated. What is needed of it is proved
from a last or a first cluster at which it would fail, which a finite set has.
`NewFileOK` describes the chain `write()` builds, its odd blocks
included, as a sequence of clusters; `ReadOK` that what is copied and what is
left make the file. Steps that only move buffers leave the tree alone (the
`Unseen` lemmas); the codes of all calls are the abstract ones for a tree like
the disk's; that `write()` refuses for space exactly when the store does is a
bijection between the blocks the entries store and the allocated clusters,
which is where `NoLeak` comes in.

*The laws of a store.* What can be reached from the root is not defined by
following entries, which would need an induction, but by what it comes to: of any
set of other directories one is entered from outside the set. That is inductive
as it stands, because a new directory has nothing in it and `delete()` takes away
empty ones only. The proofs know of no cluster; the refinement carries their
results to the driver, where the directories are the clusters it accepts as parents
(`DirsIdle`, by way of `FoldersOK`).
None of this is claimed after a power loss: a `write()` of a folder cut between the
FAT and the parent's table leaves a cluster that is accepted as a parent and that
no entry names (TLC finds it with `FoldersReachable` as an invariant of
`FAT32_crash.cfg`). What survives a cut is in `CrashProofs`.

*Paging.* `Goal(p)` is the entry a page will have when the update in progress is
over. The promises hold of the goals at every step (`GoalsOK`), and the only
page with a stale translation is the one being updated (`StaleOK`), so both hold
of the directory itself between calls. A marked frame is some page's goal or
lost, and never both (`MarkedOK`, `LostOK`). `CountExact` rests on cardinalities of
the set of unmarked frames with one element added or taken.

*Interrupts.* Interrupts are off in a handler, so the stack holds one frame; a
request in the PIC is for the byte that waits (`RequestOK`), so a handler that
runs has a byte to read; `GotOK` orders the numbers of the characters the
program has, holds and will get.

*Disk.* `PlaceOK` says where the drive is at each loop counter of the driver:
at the same block, or storing the one before; `WordsOK` that the words of the
current block are moved up to the current one; `DriveOK` that the only work left
between calls is one pending sector. A step of the drive then changes nothing a
reader could see, and the last word of a block is the abstract read or write.

*Traps.* `AllWords` says what the words over `Base` are, the part of the kernel's
stack the trap must not touch: from a program that is the stack up to `esp0`. Each
push moves the words found so far one place down (`Pushed`), so each of the
stub's three groups has a lemma that takes the words before it along. On the way
back the ring is read from the stack, from the word that `CpuWords` says is
the old `cs`.

*The machine.* `RingInv` adds to `TrapsInv` what the CPU accepts: the registers of
what runs, and those saved by a trap, hold selectors of the GDT; a program runs
only after the task register and `esp0` have been set. `PlaceOK` says which
calls can be in progress at each place of `kernel_setup()` and of the inserter; by
it each step is one of `FAT32Crash` (`CrashOfKernel`), and none is a `delete()`.
On a storage whose formatting was cut no cluster is accepted as a parent
(`TornInv`), so every call is refused. Boots settle because what `kernel_setup()` has
tried to write has no place afterwards (`SettleInv`: the file is there, or there is
no slot, or no room), and without a `delete()` it gets none (`NoPlaceStep`).

*The shell.* `ShellInv` follows it over every boot. On the storage (`ShellKept`):
the entry of that name speaks of a chain whose stored blocks are `shell`, or there
is no such entry and nothing is in `shell`. A `write()` of any other file, and the
cut at any of its steps, leaves the chains of the entries in use alone
(`StoredKept`), which is `FilesKept` of `CrashInv` again, now read block by block.
While the shell itself is written `NewFileOK` says what the chain under
construction stores; it needs no owner of the other clusters, so it holds after a
power loss too (`WritingStep`), where `FAT32Inv` is lost. In memory (`PageOK`,
`MemOK`): page 0 has a user's entry before `read()` begins, no stale
translation of it is left, and what has been copied followed by what is stored from
`cursor` on is `shell`.

Checked by TLC only:

* all liveness properties (`CallsReturn` of FAT32 and of the disk, `BytesHandled`,
  `BootEnds`): fairness and `ENABLED` are out of the prover's reach;
* the failing runs' properties, which the code does not have.

## 7. Disagreements found

Each is a run that fails, with the line of the repository it quotes in
`PROJECT.json`.

| Run | The code |
|---|---|
| `write_multiblock` | `write()` marks the FAT entry it found only after the next search, which finds it again: every other block of a longer file is overwritten, and the file read back is not the one written |
| `stale_attribute` | a slot once used for a folder keeps the attribute when a file takes it |
| `atadisk_error` | errors are not looked at: garbage is returned |
| `interrupts_listen` | a key pressed while input is off stops the keyboard for good |

Others that the models show without a run of their own, or that a reading shows:

* `paging_allocate_check()` compares bytes with a number of frames
  (`paging.c:57`); it has no caller.
* `kaikai.txt` and `lain.txt` never hold their texts: `kernel_setup()` writes
  `CLUSTER_SIZE` bytes, for which `write()` takes two blocks and keeps the second,
  the uninitialised `cbuf[1]` (`kernel.c:161-173`, `fat32.c:309`). `Kernel` has
  the buffer, and `FileStore!Kept` says it of every call.
* A file the inserter cannot open becomes a folder of its name
  (`external-inserter.c:50`), and no later run replaces it: `JumpHoldsShell` has
  the boots that then jump into an empty page.
* A storage whose formatting was cut stays unusable for good (`TornStays`).
* `struct CPURegister` has `esp` and `ebp` the other way round than `pushad`
  pushes them (`interrupt.h:78-81`, and the comment at `intsetup.s:21-22`):
  `FrameTrue` leaves the two out. No code reads them.
* A folder gets a file size of one cluster (`fat32.c:348`), not 0 (`fat32.h:80`),
  and its cluster is the caller's memory, not a directory table
  (`fat32.h:236`): `fat32_tables` has such folders.
* Allocating a mapped page loses its frame (`paging.c:96`; `lost` in `Paging`),
  and the kernel's page can be freed (`paging.c:116`).
* With interrupts on, a key pressed between the two assignments of
  `get_keyboard_buffer()` is cleared unseen (`keyboard.c:46-47`):
  `FlushedWasGot` holds for calls behind an interrupt gate only.
* `write_blocks()` returns before its last block is stored (`disk.h:40`): the
  refinement shows that no later call can tell. The wait for DRQ tests RDY
  (`disk.c:9`).
* No vector leads to `syscall()` (`interrupt.h:148-149`).

## 8. Not modelled

* The linker's scripts and the makefile. Port I/O: one instruction each, part of
  the steps that use them.
* Segment limits, granularity and the other bits of a descriptor the CPU does not
  test on the paths of `Traps`; double faults and what the BIOS does after a
  reset.
* The console: sequential code on cells nothing reads back. `framebuffer_clear()`
  and `framebuffer_set_cursor()` are called once; `putc()` and `puts()` have no
  caller but `syscall()`, which has none itself.
* `init_directory_table()` and `paging_allocate_check()`: no caller, no change of
  the state.
* The string library, but for what its callers see: FAT32 compares names as
  wholes and copies clusters as wholes. `memmove()`, `strcpy()` and `strcmp()`
  have no caller that is built.
* A host that fails while the inserter saves the image.
* The user shell: `main()` returns at once, everything else in `user-shell.c` and
  `user-shell.h` is commented out, and `cp.c`, `mkdir.c`, `cd.c`, `ls.c` are not
  built (the makefile's lines are comments) and do not compile without that
  header.
* Bytes as bytes: names, contents and scancodes are model values or kinds.
* Parents of 512 and more (`fat32.c:259` reads past the FAT): a caller's number
  is taken in range.
* The CPU's other exceptions than those `MCInterrupts` lists take the same path;
  vectors 21 and 29, whose stubs push a code over the CPU's, need CPU features the
  kernel does not turn on.

## 9. Plan

Done: FAT32 with power loss, its abstract specification and the refinement;
disk driver and its refinement; paging; keyboard and interrupts; segments and
stubs; the machine from power on to the shell, with the inserter; the proofs of
section 6: every invariant and every action property the runs check, and both
refinements; and the laws of the abstract store, carried over to the driver.
Left: nothing of the safety properties the runs check. What stays with TLC is
listed at the end of section 6.

## 10. Running it

    tlc -config FAT32_chains.cfg MCFAT32.tla
    tlapm StoreProofs.tla

Each run's module and configuration are in `PROJECT.json`.
