# Asas OS: TLA+ models and proofs

Asas OS is a small x86_64 operating system: a UEFI boot loader, one kernel image
(`src/src/kernel`), a desktop and a user library.  This directory models the kernel's
core, its storage stack, its filesystems and its drivers in TLA+, model-checks it with
TLC on small instances and proves theorems about it with TLAPS.  Paths below are relative to
`src/` of the repository unless they start with `src/`.

To check a run: `tlc -config <cfg> <module>`.  To check the proofs: `tlapm <module>`
for `IpcProofs`, `SchedulerProofs`, `SpacesProofs`, `HeapProofs`, `DiskProofs`,
`VfsProofs`, `DevicesProofs` and `RingsProofs`.

## 1. Inventory

How the parts work together: `main.c` initialises everything on the boot processor and
then becomes thread 0.  Threads share one address space and one processor (the
application processors started by `smp.c` only halt), so concurrency is the interleaving
of threads at `scheduler_yield`, plus the timer interrupt, which may call
`scheduler_yield` itself when preemption is on.  Preemption is off for nearly all of the
system's life: it is on from the second self test (`main.c:908`) to `main.c:1021`, and
from `main.c:1119` on when the user program cannot be loaded on Hyper-V.  Storage is a
stack: the shell, the desktop and the PE loader call the VFS, the VFS calls the mounted
filesystem driver, which calls the block device layer, which calls a partition's parent
disk and then a device driver that polls with a bounded wait.  Nothing is asynchronous
above the device rings.

| component | state | operations | hard behaviour | what makes it correct |
|---|---|---|---|---|
| IPC queue, `ipc.c` | ring of 32 slots, used flags, head, tail, count, spin lock | send, receive by receiver id | callers interleave; holes; full; reset when empty | every accepted message delivered once, intact, to its receiver; loops end |
| Scheduler, `scheduler.c`, `x86_64.asm` | thread table, current thread, stacks, lock, preemption flag | yield, create, end, tick | interrupts inside yield; flags not switched; stack reuse | contexts never mixed up; no deadlock with the handler; nobody starves |
| Frame allocator, `memory.c` | bump pointer over the memory map, bounded free list, count | allocate, free | list full; regions that straddle the reserve | no frame handed out twice; count exact |
| Paging and processes, `paging.c`, `process.c` | page tables in frames, process table | create, map, destroy, kill | failure at any table level; kill twice; kernel mappings added later | isolation; shared kernel half; all frames back |
| Heap, `heap.c` | list of blocks in the heap | kmalloc, kfree | split and merge; size overflow | blocks tile the heap; nothing leaks |
| SMP start, `smp.c` | online count, shared trampoline | start each processor, wait | late and silent processors | distinct stacks; success means all are online; start ends |
| Block layer, `block_device.c` | device table, 16-entry cache | read, write, flush, register, remove | partial failure; the same block cached twice; read-ahead at the end | hits equal the medium except where stated |
| VFS, `vfs.c`, `filesystem.c` | volume table, mount slots, 8 handles | mount, unmount, remount, rescan, removal, open, read, close | slot reuse; removal with open handles; unmount racing open | the tables agree; handles keep their mount |
| Partition tables, `partition.c`, `disk_management.c` | MBR/GPT on disk, partition table in memory | scan, create, delete, resize, format | power lost between the two GPT copies; failing calls and their undo | a scan finds the old or the new table |
| Virtual disks, `virtual_disk.c` | 8 slots, the devices registered for them | attach, detach, check, read, write | a slot used again while its old device lives on | reads and writes belong to the image |
| FAT16/FAT32, `fat16.c`, `fat32.c` | FATs, directories, FSInfo | create, write, delete, rename | crash or failure between writes; clean-up | no cluster in two files; old or new contents |
| exFAT, `exfat.c` | bitmap, FAT, entry sets, dirty mark, undo journal in memory | create, write, delete, rename, directories | failing step and rollback; write cache; the mark and the flushes around it | a failed operation leaves nothing; an unmarked volume is whole |
| NTFS, `ntfs.c` | file records, two bitmaps, directory indexes, run lists, dirty mark, undo journal | create, write, append, delete, rename, lookup | the same; splits and rebuilds of an index; run lists over several records | the same; the index finds what it holds; streams read back |
| ext2, ISO 9660, UDF | none of their own | read, list | malformed structures | walks end |
| VirtIO block, NVMe, AHCI, IDE | rings or slots, one request at a time | submit and poll | a wait given up and a late completion | answers belong to the request |
| Hyper-V, `hyperv_storage.c` | VMBus messages, channels, rings | contact, offers, open, probe, transfer | one message slot, loops that drop what they do not know; ids not compared | driver and host agree; packets come out as they went in |
| xHCI, `xhci.c` | command, event and transfer rings, three roles | enumerate, poll, transfer | one event ring for all devices, gone through once | roles hold the right devices; input goes on until the ring ends |
| Network, `virtio_net.c` | addresses, connections, receive buffers | DHCP, DNS, ARP, ping, HTTP client and server | loss, repetition, reordering | answers belong to the question; nothing is used up |
| Input, `keyboard.c`, `mouse.c` | ring of characters, modifiers, sums of movement | push, pop | interrupt against polling thread; full | in order, once each |
| Desktop, `gui_*.c` | window stack, notifications, widgets | open, close, focus, draw | slots used up; close while dragging | stacking and focus agree |
| Shell, system calls, PE loader, crash log, platform | see `PROJECT.json` | | | |

`PROJECT.json` lists every component with its status, and under `hazards` what in this
code is hard to test, each at its line and with the properties that are aimed at it.

## 2. Plan

The order is by importance; 1 to 9 are done.

1. `IpcCalls`, `IpcMailbox`, `Ipc`: the queue, its abstract specification, the
   refinement, and the proofs (`IpcProofs`).
2. `Scheduler`, and `SchedulerBoot`, which composes it with the two self tests.
3. `FrameAllocator`, used by `AddressSpaces`; `Heap`; `Smp`.
4. `BlockCache`, `Vfs`, `MountRace`, `VirtualDisk`.
5. Partition tables: `Gpt`, the edits with a loss of power between any two writes; `Mbr`,
   the scan with its chain of extended records and the edits.
6. `FileStore`, what a filesystem driver promises across a loss of power, and `Fat32`,
   which is shown to implement it.
7. The drivers with transactions: `Ntfs`, `NtfsIndex` and `NtfsRuns`; `Exfat`.
8. Device queues: `VirtioBlock`, `Nvme`, `Ahci`, `StorVsc`, `Vmbus`, `VmbusRing`, `Xhci`,
   `UsbStorage`, with bounded waits and answers that come after them.
9. `VirtioNet` over an unreliable network, and `Keyboard`.
10. Next: window stacking, focus and notification slots of the desktop; the PE loader on
    top of `AddressSpaces`; the registration of partitions, which joins `Mbr` and `Gpt`
    to `Vfs`; sectors with more than 16 entries in `Fat32`.

Theorems (section 6): the message queue, the start of processors, the scheduler, frames
and address spaces, the heap, the block cache, the partition tables, the VFS tables and the
virtual disks, the device queues that fall behind, the rings that hold data, the roles of the
USB devices and their event ring, and the network driver's address, requests and buffers are
proved.  Next in order: `VmbusSound`, whose module has no bounds to generalise, and
`AnswersTrue` for the drivers with queues.

## 3. Modules

**`IpcCalls`, `IpcMailbox`, `Ipc`** (`ipc.c`).  `IpcCalls` has the interface: messages,
arguments, answers.  `IpcMailbox` is the promise: a bounded set of cells where every
call takes effect in one step.  `Ipc` is the code: the variables are the file's static
variables, plus for every caller its place in the code (`pc`), its loop index and its
arguments or answer.  Each iteration of the three loops is a step; a slot is marked used
in one step (`Reserve`) and filled in the next (`Fill`), as in the code.  The mapping to
the mailbox takes the used slots that are not being filled as the stored messages.  A
slot's `data` keeps bytes of older messages behind the current length, as the code does.
The queue is not first-in first-out: `ipc_send` reuses holes.  `ScanOrderKept` says what
order it does keep.

**`Scheduler`** (`scheduler.c`, `context_switch` and the timer entry in `x86_64.asm`).
One processor with an interrupt flag executes on one of the stacks.  A stack is the
sequence of its procedure frames; a stack pointer is a stack and a depth, so a context
saved in the wrong place is visible.  `scheduler_yield` is cut at every access that the
interrupt can come between: reading `current_thread`, the lock, the choice, the unlock,
loading the arguments, the switch.  `Tick` may fire wherever the flag is set.
`Cooperative` has preemption off, `Preemptive` lets the boot thread turn it on and off.
**`SchedulerBoot`** replaces the arbitrary code of the threads by the boot thread's two
self tests and their workers.

**`FrameAllocator`, `AddressSpaces`** (`memory.c`, `paging.c`, `process.c`).  The
allocator is a record and its operations are functions of it, because the callers make
several in one call.  Memory maps each frame to its table entries; a virtual address is
the tuple of its four indices, and a zero entry is one that is not present.  Flags of
entries are left out, and so is the firmware's identity map that the kernel's lower half
starts with.  The four nested loops of `paging_destroy_address_space` are one recursive
function over the entries of a table (`FreeBelow`), with what is done below an entry as
its parameter.  In its own half the kernel maps only what it maps at boot
(`BootIndices`), and no process is created before that is done: `main.c` stops when one
of these mappings fails.

**`Heap`** (`heap.c`).  The list of block headers with their addresses; sizes are
modulo `HeapWord`, so that `align_size` wraps as the machine does.

**`Smp`** (`smp.c`, `ap_trampoline.asm`).  The boot processor's loop, and every started
processor loading the trampoline's stack at a time of its own choosing, or never.

**`BlockCache`** (`block_device.c`).  One disk and a partition on it.  Reads and writes
are whole calls (the layer is called by one thread at a time) whose driver calls may
fail after their retries; a failed write has reached a prefix of its blocks.  `torn` and
`shadowed` are history variables: they record the two cases in which the code leaves a
cache entry different from the medium.

**`Vfs`** (`vfs.c`, `filesystem.c`).  Devices, the mount slots, the volume table, the
handles and the result of the last call.  A driver's answer to probing and mounting is
chosen from what the device may answer, and so is the failure of a context's sync at
unmount.  Paths are tuples of names; the automatic mount points are a constant that gives
each kind of volume more names than there are volumes, as the code's numbering does.  A
released volume entry keeps its old mount point, as in the code.  **`MountRace`** takes
`vfs_open`, `vfs_close` and `vfs_unmount` apart for two preemptive threads on one mount.

**`Gpt`** (`partition.c`, guards from `disk_management.c`).  The sectors of both copies
of the table on the medium, what is in the disk's write cache, and what the kernel's
block cache has.  A disk with a write cache destages its sectors in any order until a
flush; one without has written them before the call returns.  Each
`block_device_write` and `block_device_flush` of `partition_gpt_commit` is a step, and so
is each of the undo.  A write that fails may have written any of its sectors.  `Crash`
may come anywhere; the disk is then scanned again.  A checksum is the entries it was
computed from.  `expected`, `failures` and `split` are history variables: the tables a
scan may find, the failures that the undo has not yet made up for, and whether a crash
has left the two copies different (after which the code refuses all edits).

**`FileStore`, `Fat32`** (`fat32.c`, its adapters in `filesystem.c`).  `FileStore` is
the promise: a tree of files that changes by whole operations, a rename by two steps with
both names in between.  `Fat32` has the volume (both copies of the FAT and of FSInfo, the
clusters with their directory entries or bytes), what the driver keeps in memory, and the
operation in progress as the list of sector writes it has still to make (`todo`).  The
list is computed when the operation starts, which is sound because the mount's lock lets
one operation at a time in; each write is a step of its own, may fail, and carries the
clean-up of the code for that failure, which is again a list of writes that may fail.
`Crash` may come between any two writes; mounting then makes the second copy of the FAT
equal to the first and reads FSInfo.  `tree` is what the paths lead to, `flaws` the three
events after which the code itself does not keep the volume sound (see section 5); the
model stops issuing calls after one.  A name takes one entry, or two if it is long.

**`Mbr`** (`partition.c`, guards from `disk_management.c`).  The entries of sector 0 and the
extended records, as they are on the disk; `Found` is the scan with its list of
candidates, its bounds and its checks, and each edit is one step that may fail before,
in or after its write.  The tables to begin with are arbitrary, broken ones included.
A disk with a protective entry belongs to `Gpt`.

**`VirtualDisk`** (`virtual_disk.c`, the device table and the cache of `block_device.c`).
Files are sequences of sectors, slots tie an image to a registered device, and devices
are never unregistered.  Reads go through the cache with its read-ahead; a write reads the
whole file, changes it and writes it back, as in the code.  `d_touched` is a history
variable: the files that somebody else has written, that a failed write may have changed
or that are attached twice.

**`Ntfs`** (`ntfs.c`, transactions).  The sectors of file records (two each, tied by the
update sequence number), of the two bitmaps and of clusters, on the medium and in the
disk's cache.  An operation is a list of steps (`op.steps`): mark, reads and writes of
sectors, flushes, the second mount that looks at the result, the clean mark.  The first
write of a sector keeps what was there; a failing step turns the list into the undo.  A
volume found marked is mounted read-only.  **`NtfsIndex`**: a directory is its root
entries, its index records and their bitmap; inserting, converting, splitting, removing
with the rebuild of the tree and its fallback, moving, and the lookup of paths, each one
step.  Where the code reads an offset that was never set the model chooses.
**`NtfsRuns`**: run lists as bytes of `ByteValues` values, the packing of lists into a
record and extension records, and reads and writes at any offset.

**`Exfat`** (`exfat.c`).  Both boot sectors with the mark, the bitmap, the FAT and clusters
with parts of entry sets, each a sector; `x_older` is what a sector may still hold on the
medium, so that a write cache needs no steps of its own.  An operation is a list of
steps, some of which compute what they write when they come to it (allocation, growth of
a directory, the entry set).  The journal keeps a sector once and has room for
`JournalRoom`.  `x_flaws` records the events after which the code does not keep the
volume sound.

**`VirtioBlock`, `Nvme`, `Ahci`, `StorVsc`** (the drivers of the same names,
`hyperv_storage.c` for the last).  The driver's memory that the device sees (header,
descriptors and status; rings and phase; the DMA buffer; the packets of two rings), the
device, which takes requests up at any time and in order, and the call in progress.  A
wait either finds a completion or is given up; the device does not learn of that.
`*_expected` is what the medium should hold.

**`Vmbus`**: the connection with the host through one message slot; each polling loop is a
state that takes any message, uses it or drops it, or runs out.  **`VmbusRing`**: packets
of several words in a ring that wraps, a receiver that copies what fits.

**`Xhci`**: the search of the ports for the three roles, with waits for commands and
control transfers that take the next event of their type, and the polling afterwards; waits
for commands that run out are counted apart (`late`), since only they can mix up the slots.
`x_taken` is `event_dequeue_index` and `x_asked` the enqueue index of each interrupt ring:
both only grow, as in the code, and at `UsbRing` (256) the driver finds nothing any more
(`EventFound`).  A port reset can fail after it has reset the device (`ResetPort`).
**`UsbStorage`**: the two transfer rings with link and cycle bit, and the three parts of a
command of the bulk-only protocol.

**`VirtioNet`**: the frames in flight (kept, so that they can come late or twice), the
receive ring, the addresses, the connections and the call in progress, in the steps
between which frames are handled.

**`Keyboard`**: the ring of characters, the controller's buffer and the modifiers; the
thread's steps are cut where the interrupt can come between, the handler is one step.
`k_raced` records which of the races has happened.

`MC*` modules give the instances; where a `.cfg` says all there is to say, the module itself
is run.  `MCNtfs` serves three runs, which choose its `Parts`.  Definitions whose comment
begins with "Faulty variant" are not part of the model: each is one definition with a
plausible mistake, kept to show that a property notices it (`mutants` in `PROJECT.json`).

## 4. Runs

A run looks at several modules by choosing one of them initially (`part`, `device`) and
stepping only that one.

| run | modules | checks | shows |
|---|---|---|---|
| `threads` | `Ipc`, `Scheduler`, `Smp` | `IpcTypeOK`, `CountMatchesUsed`, `HeadAtMessage`, `ImplementsMailbox`, `LockReleased`, `ScanOrderKept`, `SwitchesSound`, `StartupSound`, `NobodyStarves`, `StartupAlwaysEnds` | two callers, three slots: the ring is consistent and is the abstract mailbox, and the lock is always released; with preemption off the scheduler is correct, ticks at every point included; late processors never share a stack |
| `scheduler_boot` | `SchedulerBoot` | `SelfTestsPass`: violated | a tick while the self test's yield holds the lock stops the machine (finding 1) |
| `kernel` | `Heap`, `AddressSpaces`, `Scheduler` | `HeapSound`, `SpacesSeparate`, `AccountingExact`, `KillReleases`, `LockProtects` | splits and merges lose nothing in any order; processes share nothing but the kernel half, through exhaustion and double kills; with preemption on the scheduler's lock still excludes (its other guarantees fail then) |
| `disk` | `BlockCache`, `Gpt`, `Mbr` | `CacheSound`, `GptCrashSafe`, `TablesSound` | exactly two ways for a cache hit to be stale; one copy of a GPT is whole at every moment and a failed edit leaves no trace; the two checks of an MBR agree |
| `vfs` | `Vfs`, `VirtualDisk` | `StorageSound`, `HandlesSound`, `FailedRemountKeepsReadOnly` | volumes, mounts and handles agree through removal and reuse; images keep their data while slots are used again |
| `mount_race` | `MountRace` | `BusyProtected`: violated | unmount can destroy a mount that has an open handle (finding 2) |
| `fat32` | `Fat32`, `FileStore` | `ChainsSound`, `SpaceAccounted`, `ImplementsFileStore` | no two files ever share a cluster, the free count is exact while nothing was cut, and every path shows the old or the new state at every moment |
| `ntfs` | `Ntfs`, `NtfsIndex`, `NtfsRuns`, `Exfat` | `CrashSafe`, `OperationsAtomic`, `IndexSound`, `DirectoriesFormTree`, `StreamsReadBack`, `ExfatCrashSafe`, `ExfatAtomic` | an unmarked volume is whole and holds the state before or after the operation; a failed operation leaves nothing; indexes stay complete and in order; whatever was written is read back |
| `ntfs_resolve` | `NtfsIndex` | `ResolvesTheFile`: violated | a path is looked up in the wrong directory's index records (finding 3) |
| `devices` | nine driver modules, all but `Xhci` | `AnswersTrue`, `StaysBehind`, `VmbusSound`, `RingsInStep`, `GetsOwnAnswer`, `AddressLeased`, `NetResourcesKept` | answers are true as long as no wait is given up, and what still holds afterwards |
| `usb_roles` | `Xhci` | `UsbRolesRight`, `UsbDevicesServe` | each role ends with its own device whatever arrives meanwhile, and input goes on until the event ring has been used up |
| `exfat_move` | `Exfat` | `DirectoriesStayReachable`: violated | a directory is moved into itself under another spelling (finding 4) |

Several properties are conjunctions of parts that belong together, and each part has a
comment of its own in its module: `SwitchesSound`, `StartupSound`, `HeapSound`,
`SpacesSeparate`, `CacheSound`, `HandlesSound`, `IndexSound`, `VmbusSound`,
`UsbDevicesServe`; and `StorageSound`, `TablesSound`, `AnswersTrue`, `StaysBehind` and
`RingsInStep` say one thing of several modules.

Some properties state their exceptions.  These are events in which the code itself does
not keep the promise; each is a history variable of the model (`flaws`, `x_flaws`,
`damaged`, `split`, `torn`, `shadowed`, `d_touched`, `k_raced`, `x_lost`, the counts of
waits given up), set only by the step in which the event happens, and is described in
section 5.

Bounds and why they are enough:

- `threads`, messages: three slots are the fewest that let a hole lie between two messages while the
  tail wraps; two receivers, one length that fits and one that does not; two callers
  meet at every step.
- `threads`, scheduler: four thread entries let a thread end, its entry be used again and others
  run meanwhile; `MaxDepth` bounds the frames on a stack, and four admit an interrupt
  inside a yield inside a call.  Two entries with preemption on (`kernel`).  The number
  of processors only lengthens the loop.
- `kernel`: a memory map with low memory, a region that straddles the reserve, a
  reserved, an empty and a second usable region; three process slots and a free list
  that overflows when two processes die.  A heap with room for five blocks; sizes 0,
  small, exact, too large and one that wraps.
- `disk`: three cache entries are the fewest for a read-ahead through a partition (the
  disk's block, the disk's read-ahead, the partition's entry); the code has 16.
  Addresses at both ends of the address space, one past the end included.  GPT: two
  entries in two sectors, so that a copy can be torn between its sectors; two usable
  blocks, so that entries can overlap, and extents that lie outside, are empty or pass
  the end of the address space; two failing calls, one more than the properties
  tolerate.  MBR: three entries and four candidates, so that the list of candidates
  fills up; extended records in three sectors, with every link that ends, goes on, loops
  or leads away; two edits, so that one follows a failed one.
- `vfs`: four devices for three mount slots and two volume entries, so that both tables
  fill up; generations count modulo a small number.  A handle would have to stay open
  over a whole cycle of generations for the wrap to matter, and the check that refuses
  unmounting a busy mount rules that out.  Virtual disks: two slots and two devices, five
  calls (attach, write, detach, attach, read is the shortest history of a slot used
  again), a raw image with two spellings and a fixed VHD.
- `fat32`: five clusters of two entries, so that a long name makes a directory grow and
  the volume fills up; four paths, of which two pairs differ by a directory that can be
  renamed; files of none and of two clusters, the fewest with a link in the chain; three
  operations (make, fill, move or remove) and one failing write anywhere, also in the
  clean-up of a full volume.
- `ntfs`: two names; contents that fit a record, take one cluster, and take two in
  separate runs, so that an extension record is needed; bitmaps with one bit more than
  the volume; three operations, one failing step each; sequence numbers that wrap at 2.
  Indexes: four names and room for two in the root, so that the third converts and the
  fourth splits; five changes.  Runs: numbers of one to three bytes of both signs, up to
  three runs, and a sparse one.  exFAT: a volume as another system may have left it, with
  a directory without FAT chain that must grow, and a journal that overflows in the
  longest operation; two operations and one failing step.  `exfat_move` starts from an
  empty volume, three operations, no failure.
- `devices`: enough calls to go round each ring once and to follow a wait that was given
  up; every host with and without each channel; one repeated, late or empty frame, one wait
  given up.
- `usb_roles`: every choice of devices on three ports, and two faults: a port reset that
  fails, a wait that runs out, or a port that changes after the initialization.  Two, since
  the answer of the first command given up can be taken for that of one which runs out in
  its turn.  An event ring of 26: keyboard, mouse and storage device found
  on ports 1, 2 and 3 in this order take 19 events, two other orders 24, so that the ring
  ends seven or two events after all roles are filled; the remaining three orders take 29,
  29 and 34, and the ring ends during the search.  The run was made with rings of 30 and 34 as
  well.  An interrupt ring has the same length.  The command ring, whose index never goes
  back either, has no end in the model: a command that is answered costs an event and each
  device that is asked for a descriptor costs more, so that the event ring ends first unless
  dozens of commands are given up or dozens of devices refuse their address.

Deadlock is checked in `threads`, `mount_race`, `fat32`, `ntfs_resolve` and
`exfat_move`.  It is not in the others: their models end when the bounds on calls are used
up, the address space or the device is idle, or, with preemption on, the machine hangs
(finding 1).

Fairness:

- `threads`, messages: a caller inside a call keeps running.  Threads are never stopped for
  good, and the spin lock is released by a caller that keeps running too; weak fairness per
  caller is all that is assumed, and that a caller which waits for the lock is not passed
  over for ever is not claimed.
- `threads`, scheduler: strong fairness of the code, because it is interrupted again and again but
  ticks are 10 ms apart, and weak fairness of the handler; and threads keep yielding, as
  the desktop's and the shell's loops do.  For the start of processors weak fairness of
  the boot processor only: another processor may never answer.

## 5. Findings

1. **A timer tick inside `scheduler_yield` with preemption on stops the machine**
   (`scheduler.c:106-116`).  The yield takes a spin lock with interrupts enabled; the
   handler's own yield spins on it with interrupts disabled.  During boot this needs one
   tick in the self test's yield.  With two ticks the self test can fail instead and
   `main.c:909` panics.  `tests/Run-QemuBootTest.ps1:291` waits for the line
   "preemptive scheduler verified" on every boot.
2. **`filesystem_unmount` tests the reference count before it takes the lock**
   (`filesystem.c:749-753`), so an open in between keeps a handle to a destroyed mount.
   `DISK_MANAGEMENT_PLAN_AR.md:455` says unmounting is prevented while handles are open.
   It needs preemption.

3. **`ntfs_resolve` never goes on to the next directory** (`ntfs.c:4136-4166`).  The root
   entries it searches are those of the record read last, the index records always those
   of the root directory.  A name below a directory with index records is not found, or
   is found in the root directory.  The comment at `ntfs.c:4131` promises "Resolve an
   absolute path to its MFT record number."
4. **An exFAT directory can be moved into itself** (`exfat.c:1379`): the test compares
   spellings, names are compared without regard to case.
   `DISK_MANAGEMENT_PLAN_AR.md:373` says this is prevented.

Behaviour met while modelling that no text of the repository contradicts, kept in the
models: messages of one sender can overtake each other (`Ipc`); process slots are never
used again, so 16 processes can be created per boot (`AddressSpaces`); the frames that
do not fit on the free list are lost; a failed remount drops no-exec (`Vfs`); a device
plugged in again gets the next mount point instead of its old one, because its reused
table entry still holds the old one (`vfs.c:1148`, `1174`); `/system` can appear twice
after the system device was removed; a disk can be mounted while a partition's parent
check looks in one direction only (`filesystem.c:742`); the undo of a GPT edit writes
both copies without a flush in between, so on a disk with a write cache a failing call
followed by a loss of power can leave no whole copy, and so can two failing calls on any
disk (`partition.c:777-784`, the cases `GptCrashSafe` excludes); after power is lost between
the two copies, edits of that disk are refused for good.  In `Fat32`, the three flaws:
when a directory grows and only the second copy of the FAT cannot be written, the new
cluster is freed while the first copy still links to it (`fat32.c:1021-1023`); a rename
that is cut or fails after the new entry leaves two entries for one chain, and deleting
one frees the clusters of the other (`fat32.c:1699-1717`); a directory can be moved below
itself and is lost (`vfs_rename` and `fat32_context_rename` do not look).  Also, an
interrupted delete of a long name can leave the file under its short alias only.

Virtual disks: a device outlives its slot, and when the slot has a new image the name
`vdisk0` still leads to the old device, with the old size and cached blocks, which now
reads the new image; detaching looks only at the slot's present device, so a volume
mounted through an old one does not prevent it, although `DISK_MANAGEMENT_PLAN_AR.md:487`
says a mounted disk is not detached; one image can be attached twice under two spellings,
and each then overwrites what the other has written.

MBR: partitions registered at the last scan keep their geometry after an edit until the
next start; one bad entry hides every partition of a disk; a logical partition may begin
on its own extended record.

exFAT: nobody looks at the dirty mark when a volume is mounted; the results of the writes
of a rollback are ignored; between the restored sectors and the clean mark there is no
barrier; a read error in `exfat_context_exists` counts as "no such name", so that a second
entry of the name can be made; an empty file can be neither overwritten nor deleted,
because its list of clusters is `kmalloc(0)` (`exfat.c:464`); a failure of the verifying
mount reports a durable change as failed.

NTFS: when the tree of an index cannot be rebuilt the removal goes on with the half-built
one and may be committed (`ntfs.c:3249`); a split reads an offset that was never set when
the new entry is the last (`ntfs.c:2813-2818`); a tree rebuilt to nothing keeps its
attributes, and the next conversion adds second ones; deleting does not free extension
records, and deleting a directory does not free its index records; writing in place
updates the size in the file record and not in the directory entry (contrary to the
plan, `DISK_MANAGEMENT_PLAN_AR.md:325-330`); the result of an undo is ignored.

Drivers: after a wait that was given up, `virtio_block.c` takes the late completion for
the next request's (243), `nvme.c` and the StorVSC client answer every later request with
the completion of the one before (`NvmeBehind`, `StorBehind`), and AHCI may write what it
has staged in the buffer for the next command (168).  VMBus rings are written without a
look at the read index (971, 1003, 1137); the loop over the offers ends as soon as storage
and one input channel are there (558); a keyboard that answers late is never used, a HID
device is.  xHCI: a key pressed while the mouse or the storage device is set up ends the
wait for a control transfer, and the keyboard is never asked again (271-300); the answer to a
command whose wait ran out is taken for that of the next (242-268), which two of them
survive, because Address Device and Configure Endpoint compare the slot and the descriptor
is cleared before it is read, and more do not: after three on four ports, or five on three,
all answers that are still to come are about one slot that has been freed and given out again,
and a role ends with a slot that serves the port of another; a port that
changes after the boot blocks input until a storage transfer discards its event (1614); a
failed bulk transfer before the link leaves the ring without it (1301-1352).
`event_dequeue_index` never returns to 0 (255, 285, 323, 1581, 1626): after 256 events, of
whatever devices, the driver looks behind the array.  The controller goes on at the start of
its ring with the other cycle bit, and no event is found any more: keyboard and mouse are
silent and each storage transfer runs out, for good.  That is where `UsbInputFlows` ends
(`x_taken < UsbRing`).  What lies behind the array depends on the build; words there that
look like a completion are not followed in the model.  The interrupt rings do not begin
again either (1597, 1642), but their link at 255 is never written over: before the first
report is asked for six events have been taken, each further one takes an event of its
own, and the event ring of the same length ends first (`UsbRingsLast`, proved as
`InputRingsLast`).  For the same reason a bulk ring does not reach its link without a
failure: that takes about 380 events.  `UsbStorage`, which has no event ring, passes it all
the same; what `RingsInStep` says there is of the code that hands the link over, and its
weight is on VMBus and the keyboard.  Network: every awaited ARP answer replaces
the gateway's address (492), empty receive buffers are not given back, a late echo reply
counts for a later ping, offers are accepted at any time (536).  Keyboard: the interrupt
can overwrite or reorder what the polling thread puts into the ring (44-52) and both can
read the same scan code (133).

## 6. Proofs

`IpcProofs` proves, for every capacity, message size, set of callers, receivers and
payloads (assumption `IpcAssumption`: the capacity is positive and the others are sets of
naturals):

- `TypeCorrect`: `IpcSpec => []IpcTypeOK`;
- `CountCorrect`: `IpcSpec => []CountMatchesUsed`;
- `HeadCorrect`: `IpcSpec => []HeadAtMessage`;
- `ScanOrderCorrect`: `IpcSpec => ScanOrderKept`;
- `RingImplementsMailbox`: `IpcSpec => ImplementsMailbox`.

All rest on `InvHolds`: `IpcSpec => []IpcInv`.  None of the properties is inductive alone.
`CountMatchesUsed` needs that only one caller is inside (`MutualExclusion`: the lock's
value tells whether somebody is, and at most one is); the refinement needs that a
receiver that reaches the end has passed over nothing that matches (`Scanned`: every
slot looked at so far does not match), that what a used slot holds is a message
somebody sent (`StoredAreMessages`), and that the slot being filled is used and its
caller carries a message that fits (`CallFits`).  `IpcInv` is the conjunction; each
action has a lemma that it keeps `IpcInv`,
and each has a step of the refinement proof that maps it to a step of `IpcMailbox` or to
a stutter.  `FillStoresMessage` shows that the bytes left over from an older message
never show.  The order rests on `DistanceIs`, which does away with the modulus: taking a
message moves nothing, and moving the head over a hole brings every message one place
nearer.  `UsedSlotIsCounted` and the cardinality lemmas tie the count to the set of
used slots.

`SchedulerProofs` proves two theorems about the scheduler, for any size of the thread table
and any depth of nested interrupts (`SchedulerAssumption`), and one about `Smp`, for any
number of processors (`SmpAssumption`).

- `LockCorrect`: `Preemptive => []LockProtects`.  `LockInv` says which sequences of frames
  a stack may hold (`WellFormed`: what may lie above what, with which saved flag), and
  who holds the lock: if it is held, one stack is inside and the others wait before it,
  at a switch or in an interrupt (`Quiet`, `HolderRuns`).
- `SwitchesCorrect`: `Cooperative => []SwitchesSound`.  `SwitchInv` says that every stack
  that does not run ends in a saved context and that `stack_pointer` leads to it
  (`OthersWait`), that the processor runs on the stack of the current thread
  (`CurrentKnown`), and ties the thread table to the stacks (`TableKnown`).
- `StartupCorrect`: `SmpSpec => []StartupSound`.  `StartupInv` adds that at most one
  processor is between its start and its count, that the counters tell which, and that
  the boot processor has not gone past one that has not been counted.

`SpacesProofs` proves, for every memory map whose descriptors do not overlap, every size
of tables, free list and process table (`MemoryMapAssumption`, `AddressSpaceAssumption`):

- `SpacesCorrect`: `SpacesSpec => []SpacesSeparate`;
- `AccountingCorrect`: `SpacesSpec => []AccountingExact`;
- `KillCorrect`: `SpacesSpec => KillReleases`.

A frame is busy when the bump pointer has passed it and it is not on the free list;
`AllocateGives` and `FreeReleases` say what the allocator does in these terms, including
the choice of a region, the reserve and a full list.  The invariant `SpacesInv` says that
some function gives each frame in use one place: a space (a process slot or the kernel),
a level, and the table and entry that name it; that every present entry of the space's
own half names a frame placed under it (`Tree`); that placed frames are busy; and that
once a process exists the boot mappings do, without which a mapping made later would not
be seen in the kernel half of a process (`SharedIn`, `BootedIn`).  Two owners of a frame
would be two places.  A call of `map_page` that fails leaves tables that are placed and a
frame that is busy and placed nowhere.  For `process_kill`, `Tidy` and `Frees` go up the
levels: what is below two frames of one level is disjoint, so each loop frees busy frames
only, once each.  What a loop has freed after n entries is shown by looking at the least n
for which it would be otherwise.

`HeapProofs` proves `HeapCorrect`: `HeapSpec => []HeapSound` for any heap, header, alignment
and requests (`HeapAssumption`: the arithmetic of the heap itself does not wrap, the
requests' may).  `HeapInv`: the blocks follow each other without a gap (`Tiles`), their
addresses rise, no two neighbours are free (`Apart`), and what callers hold are the blocks
that are not free, one each, large enough (`HeldBlocks`).  The merging pass of `kfree` is a
recursive function; what it has made of the first n blocks is again shown with the least
n for which it would be wrong, which needs only that the naturals are well-founded.

`DiskProofs` proves `CacheCorrect`: `CacheSpec => []CacheSound` for any disk, partition,
requests and size of the cache (`BlockCacheAssumption`; at least three slots, because a
read-ahead on the partition takes three).  Every call is a chain of changes of one slot
each, and `GoodCache` holds after each of them: it says of all slots but one, whose
read-ahead is in progress, that they hold what is on the medium or are excused, for each
device on its own.  `PutKeepsGood` is the step of the chain; the loops over the blocks of
a request are dealt with by the first round after which the cache would be wrong.

It also proves `GptEditsCorrect`: `GptSpec => []GptCrashSafe` and `GptCopiesAgree`:
between edits both copies hold the one expected table, for tables of any size and any
number of edits, crashes and failing calls (`GptAssumption`).  The argument of `GptInv`: at
every moment one copy stands, whole on the medium with nothing on its way to it; the other
may be any mixture, but a mixture whose header fits its entries is the old or the new table.
A checksum is taken to tell different entries apart, as in the model.

`TablesCorrect`: `DiskSpec => []TablesSound` adds the old tables, of any number of entries
with any contents and any records behind them (`MbrAssumption` only gives the fields their
types).  `PrimariesRight` and `ChainRight` say what the two loops of `scan_mbr` keep: what is
found is on the disk, apart, in rising numbers, and is an entry of sector 0 or behind an
extended one (`FoundRight`, `PartRight`).  A chain that loops or leaves the partition needs no
argument of its own: whatever record a turn reads, it adds one right candidate or fails.
That an edit is found is `EditableIsFound`: on a table that `mbr_table_valid` accepts, the
scan has found after n entries as many candidates as there are used ones (`AllFound`), so
the limit of candidates cannot stop it.  `EditLeaves` compares the scans before and after.

`VfsProofs` proves `HandlesCorrect`, `VolumesCorrect` and `RemountCorrect`, for any devices,
slots, handles and generations and any answers of the drivers (`VfsAssumption`), and with
them `StorageCorrect`: `VolumesSpec => []StorageSound`.  `VfsInv` is stated of the record of all
tables that the calls pass along: types, the correspondence of slots and entries
(`Matching`), the reference counts (`Counted`), and the mount points (`Pointed`).  That
`choose_auto_mount_point` finds a name for any number of volumes is a pigeonhole argument
(`OneNameLeft`), and the loop of `vfs_mount_all_volumes` is dealt with by the least device
after which the tables would be wrong.  The virtual disks' half of `StorageSound`, for any
images, paths and devices (`VirtualDiskAssumption`: paths lead to files of the medium),
rests on `VdiskInv`: a slot in use has the device that was registered for its image, and the
size the image has (`SlotsRegistered`, `SizesKept`); a device whose slot has gone to another
one is read-only (`WritersCurrent`), which is why no write goes astray; a file behind two
slots counts as touched (`SharedTouched`); and the cache of a device agrees with its image
(`CachesRight`), the sectors behind a failed write and a touched file excepted.

`DevicesProofs` proves `BehindCorrect`: `DevicesSpec => []StaysBehind` for rings of any size
and any number of calls and waits given up (`NvmeAssumption`, `StorVscAssumption`), and of
the network driver (`NetAssumption`) `AddressCorrect`: `DevicesSpec => []AddressLeased`,
`RequestsCorrect`: `DevicesSpec => []GetsOwnAnswer` and `NetResourcesCorrect`:
`DevicesSpec => []NetResourcesKept`.  `NvmeInv` follows the
distance between the driver's and the controller's places in each ring, with the phase
bit telling the laps apart; `StorInv` counts packets: the rings hold one for every wait
given up and one for the wait in progress.  `LeaseInv` says of every frame in flight that
a server sent it and what it had leased by then.  `RequestInv`: ports are given in order,
so that a connection's number tells its port; every segment, on the wire, in a buffer or
still in `tx_frame`, is of a connection there has been and bears its port; the table has
at most the connection of the call in progress, and the call has one exactly in the steps
that use it (`TableSound`, `CallSound`, `WaitSound`).  That equal ports mean numbers whole
rounds apart is `SamePort`.  `BufferInv`: the two receive queues name no buffer twice
(`BuffersApart`), and with the empty ones lost they account for all; it needs that a frame
being answered is still at the front of its queue and not an empty one.

`RingsProofs` proves `RingsCorrect`: `DevicesSpec => []RingsInStep`, which covers the three
rings that hold data. `RingInv` says that what lies between the two indices of the VMBus
ring is the packets not yet received, one behind the other, each with its header and its
payload, at places counted modulo the size; that a write never reaches the oldest of them is
what `~r_overrun` says.  `UsbInv` says that a transfer ring holds the blocks of the calls so
far (`RingOfTrbs`), the link with the right cycle bit, and that the controller is where the
call in progress has brought it (`ControllerAt`; `BetweenCalls` or `Underway`); `LinkIndex`
has to be at least two (`UsbStorageAssumption`; 255 in the code), since a link with one
block before it would be written over before the controller has passed it.  `KeyInv` says
that what has been read, what is queued and what the handler or the thread has in hand are
together the characters typed, as long as the two have not met (`AsTyped`); and, if they
have, that each is still of a key that was pressed (`OfKeys`), and comes once unless a code
was read twice (`OnlyOnce`), with `WriteSafe` for the slot that is being written.

It also proves `RolesCorrect`: `XhciSpec => []UsbRolesRight`, for any numbers of ports and
slots, any devices on the ports, and any length of the event ring and number of faults and
transfers (`XhciAssumption`).  The search is a walk over roles and steps, and `XhciInv` says
what is known at each: the roles before the one looked for are filled, on slots of their own
(`RolesSoFar`); the role in work has a slot no earlier role has, its slot has the address of
the port from Address Device on, and the device is of the right kind once the descriptor has
been checked (`RoleInWork`); there is either one command at the controller or one answer on
its way, never both, and the answer may be believed (`AnswersOwn`); and what has been read
is the descriptor of this device, although any transfer event ends the wait for it
(`OwnDescriptor`: the buffer is cleared first, and the transfer that fills it cannot still
be under way when the next one is posted).  That the next step is the right one is
`StepsAre`.  The invariant found the limit of the property: a command given up leaves its
answer behind, `AnswersOwn` ends there, and TLC, with more waits given up or more ports than
the run has, shows the roles mixed up (section 5).  `UsbRolesRight` therefore speaks of runs
in which no wait for a command ran out, and `UsbLateAnswer`, a part of `UsbDevicesServe`, of
those with two at most.

`InputRingsLast` is `XhciSpec => []UsbRingsLast`, whatever was lost or given up.  Its
invariant is `EventsSpent`: a step of the search for a keyboard or mouse that comes after n
others comes after n events, since a step that went well took one, and a role whose
interrupt ring has come to index k has at least k + 5 events behind it.

Only model-checked, and why: `LockReleased`, `NobodyStarves` and `StartupAlwaysEnds`, because
the prover does not do liveness under fairness; `NtfsIndex`, which is written with
`RECURSIVE` operators; `UsbDevicesServe`, one part of which holds up to a number of waits
only; `VmbusSound`, whose module has no constants, so that the run visits every state it
has; `AnswersTrue`, which is left for the plan; and the filesystems (`Fat32`, `Ntfs`,
`NtfsRuns`, `Exfat`), whose operations are computed as lists of writes with folds over
sequences: what such a list does to a volume is an induction over data for each of its
shapes.

## 7. Not modelled

See the `not_modelled` components in `PROJECT.json`.  Inside modelled components: the
legacy single-volume paths of `vfs.c` and its boot-fallback mode, handle paths cut at
`VFS_PATH_CAPACITY` (`vfs.c:519`), removal in the block layer, devices
without caching, optical devices, telemetry; page-table flags; a
failure of the undo when the volume table is full (`vfs.c:1143`) is taken not to happen.
In `Gpt`: the checks of header fields that no edit changes, the unique identifiers and
names of partitions, tables made by other systems with entries behind the sixteenth (the
scan refuses a table with more than sixteen, `partition.c:366`, which
`gpt_entries_valid` does not), and the memory the edit allocates.
In `Fat32`: failing reads (`fat32_next_cluster` takes one for the end of the chain), the
encoding of names and the choice of aliases, attributes and times, clusters of several
sectors, sectors with more than 16 entries (the three loops that assume 16 are listed
under the hazards), disks that reorder writes between flushes, and the legacy entry
points.  `search_dir_chain` passes over a deleted entry between a long part and its short
entry where `fat32_find_named_entry` does not; the model uses the latter for both.  What a
caller sees when a file is deleted while it is read is excluded by the mount's lock.

Whole components and why: FAT16 repeats the structure of FAT32 and asks no new question;
ext2, ISO 9660 and UDF change no state; IDE transfers one sector at a time by programmed
input and output (its flush does not wait for the drive, and an error after the data of a
write is not looked at: a model would have to be of the drive's registers); the desktop is
one thread whose state is mostly layout, with window stacking left for the plan; drawing,
the shell, the platform code and the boot loader are output, dispatch, and register
access; the PE loader and the system calls are sequential checks on byte layouts.

In `Mbr`: the registration of what a scan finds, and disks that fail in the scan.  In
`VirtualDisk`: checks of QCOW2 and VHDX headers.  In `Ntfs`: the log file, names of other
name spaces, streams other than the unnamed one, security; in `NtfsIndex` failing steps,
which `Ntfs` has; in `NtfsRuns` compressed and encrypted streams, which the code refuses. In
`Exfat`: listing, times, attributes, hashes of names, structures of several sectors. In
`Ahci`, `Nvme` and `VirtioBlock`: the registers of the setup.  In `Vmbus`: the hypercall
page, GUIDs, the decoding of HID reports.  In `Xhci`: contexts, descriptors but for the kind
of device, speeds; the four commands of `initialize_storage_scsi` and its checks of block
size and signature (1395-1474), for which the step `scsi` with one wait stands.  In
`VirtioNet`: checksums, sequence numbers, window and retransmission (the code has none), the
text of HTTP; the function `virtio_net_tcp_self_test`, which nobody calls.  In `Keyboard`:
the key map.  The mouse.
