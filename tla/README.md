# Verification of the hallucinate kernel

TLA+ models of the kernel under `src/`, checked with TLC on small instances
and, for the scheduler, its mutex, pipes, processes, the transactions of
graphfs, the path to the disk and the validator of program files, proved with
TLAPS for every size. `PROJECT.json` lists components, runs, mutants,
findings, hazards and theorems, and maps every definition to the lines of C
it stands for.

## The system

hallucinate is a small x86_64 kernel for one CPU. Kernel threads are
preempted by the timer. The only kernel lock is a stretch of code with
interrupts off; on top of it there is one kind of sleeping mutex. A user
process has exactly one thread.

| Part | State | Operations | What makes it hard |
|---|---|---|---|
| scheduler (`sched/sched.c`, `sched_core.c`) | ready queue, sleep list, thread states, current thread | create, yield, sleep, block, wake, exit, join, preempt | one link field per thread for all lists; every call may be preempted before and after its interrupts-off section |
| mutex (`sched/mutex.c`) | owner, wait queue | lock, unlock with handoff | the waiter owns the lock before it runs |
| timer (`drivers/pit.c`, `arch/x86_64/irq.c`) | tick count, hook | tick | the tick wakes sleepers and preempts in one interrupt |
| pipes (`fs/pipe.c`, `pipe_core.c`) | ring, reader and writer counts, two wait queues | open, read, write, release | blocking in the middle of a write, one wake per transfer, closing while others wait |
| sockets (`fs/socket.c`) | two rings, four wait queues, two flags | open, read, write, release | the same in both directions at once |
| console (`fs/devfs.c`, `drivers/keyboard.c`, `kbd_map.c`) | input ring, modifiers, one waiting reader | read, keyboard interrupt | a key arrives in pieces; the ring overflows; the wake-up comes from an interrupt |
| processes (`proc/process.c`, `proc_core.c`) | table, address spaces, waiters | fork, execve, exit, wait4 | reparenting, slot and frame reuse, failure half way, CR3 cached as a pointer |
| page tables (`arch/x86_64/paging.c`, `mm/vmm.c`, `proc/uaccess.c`) | tables in frames | create, map, copy, destroy, copy to user | memory runs out between a page and its tables; frames come with old contents |
| program files (`lib/elf64.c`, `proc/elf_load.c`) | headers, segments | validate, load | sums and roundings in machine words |
| arguments (`proc/process.c`) | strings and pointers in one page | copy, lay out | two blocks grow towards each other |
| VFS (`fs/vfs.c`, `vfs_path.c`, `proc/syscall.c`) | descriptions, descriptor tables, open-node counts | open, close, fork, link, unlink, rename, getdents, paths | last reference found with interrupts off, released with them on; calls that fail half way |
| graphfs names (`fs/graphfs_core.c`) | node records, chains of edges | lookup, create, link, unlink, rename | link counts, parents and cycles; removal reorders edges |
| graphfs data | extents, bitmap | read, write, truncate | cutting and joining extents, copies, a full disk |
| graphfs transactions | superblocks, bitmaps, copy-on-write tree | mkfs, mount, commit | a crash or an I/O error at every block write |
| block layer (`block/block.c`) | cache entries | read, write | an entry is changed before the device answers |
| virtio disk (`drivers/virtio_blk.c`, `virtq_core.c`) | descriptors, two rings | request, poll, time out | the device runs beside the driver and may answer late |
| frames (`mm/pmm_core.c`, `pmm.c`) | bitmap, free count, hint | init from the memory map, alloc, alloc_run, free | rounding, skipping, wrapping |
| heap (`mm/heap_core.c`, `kmalloc.c`) | slabs, partial lists, spans | kmalloc, kfree | a slab moves between full, partial and freed |
| system call entry, traps, boot, drivers without protocol | registers and tables | | straight-line code and port I/O |

How they interact: every blocking call ends in `sched_block`, and every wake
in the ready queue. The VFS serialises the file system, and through it the
block layer, behind one mutex. fork and exit move references to files, pipes
and sockets. Heap, page tables and disk buffers take frames from one bitmap.

What has to be right: no thread is lost or queued twice; a waiter is woken
when what it waits for happens; a byte stream arrives as it was sent; memory,
frames and descriptions have one owner each and come back; the names form a
tree; the disk can be mounted after a crash at any moment and holds whole
operations only.

## Modules

| Module | Models | State and actions |
|---|---|---|
| `Scheduler` | scheduler, timer, mutex | the C fields as variables; an action is one interrupts-off section up to the context switch. `call[t]` is the blocking call t is inside. `wake_in` is the wake tick minus the clock, which is all the code compares |
| `FifoLock` | what the mutex promises | first-come first-served mutual exclusion in which everyone who asks gets in |
| `PipeCore` | the ring of `pipe_core.c` | operators on a ring record, shared by pipe and socket |
| `Pipe` | `pipe.c` with the references of `vfs.c` | one pass of the read or write loop per action; a thread on a wait queue is blocked |
| `Socket` | `socket.c` | as `Pipe`, one ring per direction |
| `Console` | `kbd_map.c`, `keyboard.c`, `con_read` of `devfs.c` | keys put bytes on a wire, the interrupt drains what has arrived, readers take one character per interrupts-off section |
| `Process` | `proc_core.c`, `process.c`, the address-space part of `schedule()` | `at[p]` is how far p is in its system call; a step ends where the thread can lose the CPU |
| `Paging` | `paging.c`, user part of `vmm.c`, `image_build`, `uaccess.c` | a tree of tables in frames; exec, fork, exit and stores of two processes while others take frames |
| `AddressSpaces` | what page tables promise | every process has memory of its own |
| `Elf` | `elf64.c`, `elf_load.c` | one action per program header, then the verdict and the pages; words are numbers modulo `Word` |
| `Args` | `argpack_copy`, `stack_build` | the page is built byte by byte and read back as a program would |
| `Namespace` | names of `graphfs_core.c`, `vfs_path.c` | an operation is a function from a graph to a return code and a graph |
| `Vfs` | `vfs.c`, descriptor tables, open, close, pipe and socketpair of `syscall.c` | `todo[p]` lists the steps a call still has to take outside `fs_lock`; other processes run between them |
| `DirScan` | `gfsf_getdents` | one action per call, which may fail half way; entries come and go in between |
| `FileData` | extents, read, write, truncate, offsets | an operation is a function from the committed state to a return code and the next state |
| `ByteArray` | what an open file promises | a sequence of bytes and an offset |
| `GfsTxn` | transactions of `graphfs_core.c` | an operation is a script of block writes; each succeeds, fails, or is cut short by a crash, and the reads before it may fail. Two faults can be switched on: a superblock write that lands but reports an error (`Ambiguous`), and a superblock that a mount cannot read (`Unreadable`) |
| `AtomicStore` | what the transactions promise | create, write and unlink as single steps |
| `Pmm` | `pmm_core.c` and `pmm_init` | operators on a struct pmm record |
| `Heap` | `heap_core.c`, `kmalloc.c`, on `Pmm` | one action per call, all of them run with interrupts off |
| `Virtq` | `virtq_core.c` | operators on a queue record |
| `BlockDev` | `block.c`, `virtio_blk.c`, on `Virtq`, and the device | the driver's polling loop and the device's fetch, transfer and completion interleave |
| `QueueTheorems` | facts about lists and sequences that several proofs use | |
| `SchedulerProofs` | proofs about `Scheduler` and `FifoLock` | |
| `PipeProofs` | proofs about `PipeCore` and `Pipe` | |
| `ProcessSteps`, `ProcessProofs` | proofs about `Process`: the invariant and the steps of fork and wait4; the other steps and the theorems | |
| `GfsProofs` | proofs about `GfsTxn` and `AtomicStore` | |
| `BlockProofs` | proofs about `BlockDev` and `Virtq` | |
| `ElfProofs` | proofs about `Elf` | |
| `MC*` | instances for TLC | constants, symmetry sets, one view, and the runs that put several models side by side |

The layers are composed by what one promises the next: `Scheduler` implements
`FifoLock`, so `Vfs` and `FileData` take a call under `fs_lock` as one step;
`GfsTxn` implements `AtomicStore`, so `Namespace` and `FileData` take an
operation as all or nothing; `Pmm` hands out frames once, so `Paging` takes an
allocation as one step; `Paging` loads what `Elf` accepts. Where two parts
share state they are one model: `BlockDev` uses `Virtq`, `Heap` uses `Pmm`,
`Pipe` and `Socket` use `PipeCore`, `Vfs` and `DirScan` use `Namespace`.

Operators whose names start with `Bug_` are faulty variants of the definition
that follows them. They are never used by a specification. Replacing the
definition by the variant must break the property listed with it in
`PROJECT.json`, which shows that the property can fail.

Abstractions worth knowing: data are model values or pairs (a byte of a pipe
is its writer and its number). A graphfs checksum is the contents it is
computed from, so it matches exactly when the block holds what its parent
says. In `GfsTxn` files and the root directory have one block each; extents
are in `FileData` and chains of edge blocks in `Namespace`. In `Process` a PML4
frame stands for an address space; the tables under it are in `Paging`. Only
4 KiB pages exist in `Paging`. A firmware memory map is a sequence of byte
ranges. The fields of a program file that are compared with one constant are
one flag. A keyboard has a letter, a digit, shift on both sides, ctrl, caps
lock and two keys that send prefixes. In `Socket`, the queues that `socket_release`
wakes are those of the closing end, which has no thread left to wait on them;
they are empty there.

## Runs

Four runs put models side by side that do not share state: a variable
`machine` is chosen in the first state, the model it names moves, and the
others stay where they start. Every behaviour of the combination is therefore
a behaviour of one model, and the state space is the sum of theirs.

| Run | Models | Checks | Shows |
|---|---|---|---|
| `sched` | `Scheduler` | `OnOneList`, `NoLostThread`, `NoDanglingThread`, `RoundRobin`, `ReadyRuns`, `MutexIsFifoLock` | in every interleaving of calls with the tick no thread is lost, asleep past its tick, on two lists, freed in use or overtaken; ready threads run; the mutex implements `FifoLock` |
| `streams` | `Pipe`, `Console` | `StreamIntact`, `NoUseAfterFree`, `NotStranded`, `HangupReleases`, `ReadReturns` | with one reading process the stream is intact, nobody sleeps on what is there, the pipe is freed once, and a closed end releases the other; a console read returns once there is input |
| `pipe_readers` | `Pipe` | `ReaderNotStranded`, violated | with two reading processes one can sleep beside data |
| `socket_hangup` | `Socket` | `PeerSeesHangup`, violated | closing an end leaves blocked threads of the peer blocked |
| `process` | `Process` | `OwnAddressSpace`, `FramesOwned`, `ZombiesReapable`, `NoLostWakeup`, `WaitReturns` | CR3 is never stale, no address space leaks or is freed twice, every process has a parent to reap it, wait4 returns |
| `proc_init_wait` | `Process` | `InitNoLostWakeup`, violated | init can sleep in wait4 with a zombie to collect |
| `graphfs` | `GfsTxn`, `FileData` | `CrashRecoverable`, `CleanAndCurrent`, `IsAtomicStore`, `FileSound`, `CanEmpty`, `IsByteArray` | on a device without the two faults, at every block write the disk mounts, fsck is satisfied and memory agrees with the disk; `GfsTxn` implements `AtomicStore` and `FileData` implements `ByteArray`; a full disk lets files be emptied |
| `gfs_ambiguous` | `GfsTxn` | `CrashRecoverable`, violated | a superblock write that lands but reports an error |
| `descriptors` | `Vfs` on `Namespace`, `DirScan`, `Socket`, `Console` | `OpenNodesLive`, `CountsExact`, `TreeSound`, `DotDotLexical`, `NothingMissed`, `PairSound`, `InputExact`, `ReaderNotMissed` | no open node is freed, all counts are exact when calls fail half way and processes fork and exit, the graph stays a tree and textual `..` is right in it; a directory scan misses no more names than removals and failed calls account for; a socket pair is two streams, and with one reader per end nobody sleeps on what is there; the console delivers what was typed |
| `memory` | `Heap` on `Pmm`, `Paging`, `Elf`, `Args` | `FramesSound`, `SearchesFind`, `AllocationsSound`, `FramesExact`, `IsAddressSpaces`, `LoadedAsWritten`, `ArgsArrive` | no frame or byte has two owners, none leaks, both searches agree with their reference definitions; `Paging` implements `AddressSpaces`; program files are accepted exactly when they are executables, and loaded as written; a program reads the arguments that were passed |
| `block` | `BlockDev` on `Virtq` | `WritesDurable`, `CacheCoherent`, `QueueSound` | a write reported as done is on the disk, a cache hit returns what the disk holds, no descriptor is lost, the driver's assertions hold until lost requests have used up the queue; a request that times out is never answered (`Late = FALSE`) |
| `block_late` | `BlockDev` | `NeverPanics`, violated | a late answer stops the kernel |

### Bounds

- `sched`: main, idle and two workers, one lock, sleeps of up to three ticks.
  The lock can have two waiters and the sleep list three entries, so every
  list operation meets an empty, a one-element and a longer list. The proofs
  cover all larger instances and several locks.
- `streams`: a ring of two bytes; one process reads (`MayRead`) and two write
  (`MayWrite`) up to three bytes each, so the ring wraps, fills and empties,
  writes are cut short, and two writers can wait at once; which processes hold
  which end changes with fork and close. The proofs cover all other sizes for
  `StreamIntact`, `NoUseAfterFree` and `NotStranded`. The console has two readers, a ring with
  room for two characters and two key events. `pipe_readers` lets two of three
  processes read.
- `process`: three table slots for four pids, three PML4 frames. A slot and a
  frame are reused, fork and execve run out of either. `proc_init_wait` has
  four of each: the scenario needs init, a child and two more generations. The
  proofs cover all other sizes.
- `graphfs`: two files in two table blocks, two contents, eight blocks, four
  commits after mkfs. Both files with data take six blocks, so transactions
  run out of space and reuse the blocks of older generations; both
  superblock slots are overwritten twice. The proofs cover all other sizes.
  `FileData` has blocks of two bytes,
  files of three blocks and two extents, disks that are empty, fragmented or
  nearly full, and three commits: enough to write, cut and write again.
- `descriptors`: two processes with two descriptors each, three descriptions,
  the root, the mount point and three more nodes, two edges to a block. `Budget` limits
  those in use plus open descriptions to three, so there are states with three
  nodes and none open, and with two open on one; and the bytes through a
  socket pair to four. Names to move from (`OldPaths`) are a name in the root
  and one below it; the targets include the same directory, one's own subtree
  and a name that is too long. `DirScan` has seven changes to a
  directory of up to four names, with buffers of one and three units. The
  socket pair has three processes, so that a channel can have two writers
  waiting: one process reads each end (`MayRead`), two write to end 0 and one
  to end 1 (`MayWrite`). The console has three key events.
- `memory`: five frames of eight bytes, bitmap bytes of two bits; every map
  with one hole or reserved entry, of a byte or a page, at or beside a page
  boundary; slabs of three and two objects, spans of one and two pages, four
  live allocations. Page tables of three levels with two entries, in 20 frames
  of which others hold up to four, so that every allocation of exec and fork
  can be the one that fails. Words of four bits for `Elf`, with every field at
  zero, one, a page boundary, the end of the image and the largest word.
  Up to three strings of up to three bytes in a page of 32 for `Args`: the
  last shape that fits and the first that does not both occur.
- `block`: three blocks over two cache entries, two values, a queue of eight
  descriptors, which two lost requests use up, and ring indices modulo 16.
  The view drops what no later step reads (frames of empty entries, consumed
  ring slots, the last header). The proofs cover all other sizes.

Deadlock is checked in `sched`, where something can always happen. The other
runs end when the byte, pid, key, commit or descriptor bound is reached, when
all processes have closed their files or exited, or when a program is loaded.

### Fairness

- `Scheduler`: the timer keeps ticking (weak fairness of `timer_irq`), because
  the PIT runs in periodic mode and every interrupts-off section is finite.
  For `MutexIsFifoLock` a thread that holds a mutex and gets the CPU again and
  again releases it in the end (strong fairness). That is true of `fs_lock`,
  which is held around finite file system calls. It is not true of the
  console's `read_lock`, which a reader holds while it waits for a key: behind
  it, readers get in when somebody types.
- `Pipe`: a thread that is inside a call and can run takes its next step.
  `ReadyRuns` is what justifies it. No program has to read, write or close.
- `Console`: the same for readers, and a pending keyboard interrupt is
  delivered. Nobody has to type.
- `Process`: a runnable thread is switched to, and one inside wait4 goes on
  when it is (strong fairness, since it is preempted in between).
- All other models are checked for safety only.

## Proofs

### Scheduler

`SchedulerProofs` proves, from `SchedAssumption` alone (two distinct threads
are the boot and the idle thread, threads and mutexes are disjoint, sleeps
are at least a tick), that every behaviour of `Scheduler` keeps the inductive
invariant `Inv` (`SchedulerInv`), and from it

- `ListsDisjoint`, `NobodyLost`, `NothingDangles`: invariants of the `sched`
  run, for any threads, mutexes and sleeps;
- `TypeCorrect`, `HandoffSound`, `JoinSound`, `IdleOnlyWhenEmpty`: four more
  that have no run of their own, since the proof covers every instance;
- `SleepersOnTime`: the part of `NoLostThread` about sleepers on its own. The
  list is sorted, so a tick that stops at the first thread that is not due
  has woken all that are;
- `RoundRobinScheduling`: the action property `RoundRobin`.

None of the properties is inductive alone. That no thread is on two lists
depends on each list holding only threads of one state; that a handed-over
lock belongs to its waiter depends on which call a blocked thread is inside;
that join frees a zombie depends on who may be joined. `Inv` therefore says
where every thread is, by its state and its call, in one conjunct per list or
field: `QueueInv`, `SleepInv`, `BlockInv`, `RunInv`, `IdleInv`, `DeadInv`,
`MutexInv`, `JoinInv`. There is a lemma per action. They share lemmas about
`schedule()` (`ScheduleDispatches`, `RequeueDispatches`, `ParkDispatches`), and
`QueueTheorems` has what appending, splitting and inserting do to a list
without duplicates.

### Mutex

`SchedulerProofs` also proves `MutexRefinesLock`: seen through the mapping of
`MutexIsFifoLock`, the initial states of `Scheduler` are initial states of
`FifoLock`, and every step is a step of it or leaves it alone. The mapping
puts an owner whose `mutex_lock` has not returned yet at the head of the
queue. `Inv` is needed to know that a thread that returns is that owner.

### Pipes

`PipeProofs` first shows that the ring is a queue of bytes for every capacity:
`RingRead` and `RingWrite` say what the contents are after a transfer, however
it wraps. `Wrap` replaces the remainder by one comparison, which is right
because head plus count stays below twice the capacity.

It then proves, from `PipeAssumption`, that every step keeps `PipeInv`
(`PipeInvariant`). Its conjuncts: an end is counted while it is open or one
thread is releasing it (`Ends`); a call keeps its end open and a write in
progress has bytes left (`Calls`); a queue holds threads inside its call, each
once, and is empty when the other end is gone (`Queues`); writers wait for a
ring with bytes or for a writer that can run, and a single reader waits for
an empty ring (`Flow`). `NoUseAfterFree` alone is not inductive: that nobody is
inside a call on a freed pipe rests on `Calls`. From it follow

- `EndsReleasedOnce`: `NoUseAfterFree`;
- `WritersNotStranded`: writers never wait in vain, with any number of readers;
- `OneReaderNotStranded`: `NotStranded` when one process reads. The
  `pipe_readers` run shows that the assumption cannot be dropped;
- `EndOfStreamIsFinal`: after a read has returned 0 the ring is empty and
  nobody can write.

`StreamsIntact` states `StreamIntact`: the bytes that readers got, followed by
those in the ring, are what the writers sent, each byte once and each
writer's in order. The invariant behind it (`StreamInv`) says so position by
position (`Merged`). A write appends the next bytes of one writer
(`MergedAppend`, with `RingWrite`); a read moves bytes from the ring to the
readers and leaves the sequence as it is (`RingRead`). No induction is needed.

### Processes

`ProcessSteps` and `ProcessProofs` prove, from `ProcAssumption`, that every
step of `Process` keeps `ProcInv` (`ProcInvariant`), for any table, pids and
frames. Its conjuncts: pids are unique, and the parent of a process is older
and alive (`TableInv`, `InitInv`); every slot is free, being made by fork,
alive, a zombie, or being collected, and which of them shows in the place its
parent's system call has reached (`SlotInv`); a thread has its slot and the
child that it works on (`ThreadInv`); a blocked thread is published and has
something to wait for (`WaitInv`); CR3 is what the running thread's address
space holds (`MmuInv`); a frame has one owner (`FrameInv`). The properties
need each other: that CR3 is allocated rests on a running thread having a
slot that no parent is collecting, and that no wakeup is lost on nobody
else reaping or reparenting a waiter's children. From it follow
`OwnAddressSpaceAlways`, `FramesOwnedAlways`, `ZombiesReapableAlways` and
`NoLostWakeupAlways`, the four invariants of the `process` run. The last
leaves out init, of which it is false (`proc_init_wait`).

### Transactions of graphfs

`GfsProofs` proves, from `TxnAssumption` and the assumption that a superblock
write that reports an error has not landed (`Ambiguous = FALSE`) and that a
mount can read both superblocks (`Unreadable = FALSE`), that every
step of `GfsTxn` keeps `TxnInv` (`TxnInvariant`), for any files, contents, table
blocks and disk size. The `gfs_ambiguous` run shows that the first assumption
cannot be dropped; the second cannot either (see Findings). `SlotInv` and `DiskInv` say that the newest superblock leads to a
tree that is on the disk, whose blocks are its bitmap, each held once, and
whose names are the nodes in use. `MemInv` says that memory agrees. `BusyInv`
describes a transaction under way: the tree being built is as sound as the
committed one and shares its bitmap's exactness (`Building`), and which
records are new, and which of them have reached the map, follows from the
steps that are left (`Operation`). `CrashRecoverable` alone is not inductive:
that a block written by a transaction is not part of the live tree rests on
`committed` being exactly the live tree's blocks, and that the new superblock
is sound on everything written before it. From it follow

- `CrashRecoverableAlways` and `CleanAndCurrentAlways`: the invariants of the
  `graphfs` run that are about transactions;
- `TxnRefinesStore`: `IsAtomicStore`. Every step leaves what a mount would find
  as it is, except the superblock write that succeeds, or is followed by a
  crash after it landed; then it changes by the whole operation.

`MemoryOnDiskAlways` assumes neither: whatever the device does, what memory
goes on from is one whole superblock that is on the disk, in the slot that the
next commit does not write. It may then be an older one than a mount would
find.

### The disk

`BlockProofs` proves, from `VirtqAssumption` and `BlockDevAssumption` and for a
device that answers before the deadline or not at all (`Late = FALSE`), that
every step of `BlockDev` keeps `BlockInv` (`BlockInvariant`), for any number of
blocks, cache entries and descriptors and any width of the ring indices. The
`block_late` run shows that the assumption cannot be dropped: a timeout in the
theorems below, as in the `block` run, is a request that is lost. A late
transfer could also change a frame or a block that another request uses by
then, without any error. The conjuncts of `BlockInv`:
the free list and the chains of three that the driver waits for or has given
up hold every descriptor once (`QueueInv`, with the list as a witness); the
request in flight is sent, fetched, done or returned, and each of these shows
in the two rings, the device's index and its work at the same time, while
without a request all of them are at rest (`FlightInv`); the data descriptor
of its chain is the frame of its cache entry, in the right direction
(`BufferInv`); a write's block is in the cache already, a read's is not
(`CallInv`); cached blocks other than the one in transfer are as on the disk
(`CacheInv`). No property is inductive alone: that the cache stays coherent
while the device moves a block needs to know which frame the chain names,
and that needs the descriptors of a chain to belong to nobody else. From it
follow

- `WritesDurableAlways` and `CacheCoherentAlways`;
- `QueueSoundAlways`: `QueueSound` reads the free list off the links
  (`LinkPath`), the outstanding chains off the rings (`OutstandingHeld`), and
  counts descriptors, for which every step is shown to take three, return
  three or leave the number alone (`Balance`, `StaysCounted`).

### Program files

`ElfProofs` proves `ValidatorSound` from `ElfAssumption` (fields are machine
words, the user's part of memory and a page fit in one): an image that is
accepted, or that the loader would trip over, is an executable in numbers that
do not wrap. `ElfInv` says that each header checked so far fits and shares no
page with the others. The `memory` run adds the converse (nothing executable
is refused) and the pages that are built.

### Model-checked only

Liveness and fairness (`ReadyRuns`, `HangupReleases`, `ReadReturns`,
`WaitReturns`, the fair part of `MutexIsFifoLock`), which the prover does not
handle. The recursive searches of `Pmm`, the folds of `Args`, `Namespace` and
`Console`: they would need induction over data. And so far everything about
`Socket`, `Paging`, `Vfs`, `FileData` and `Heap`.

## Findings

Each has a run whose counterexample shows it; `PROJECT.json` quotes the line
of the repository that the code disagrees with.

1. Two readers of a pipe: a read wakes a writer and a write wakes one reader,
   so a second reader can sleep beside data that the first left (`pipe_readers`).
   `socket.c` wakes in the same way (lines 115 and 147), so the same happens to
   two readers of one end; `PairSound` asks for wake-ups only where one process
   reads an end.
2. `socket_release` wakes the wait queues of the closing end; the peer's
   blocked threads are on the other two (`socket_hangup`).
3. A zombie that is reparented to init does not wake it (`proc_init_wait`).
4. A superblock write that lands but reports an error leaves a generation on
   the disk which the next transaction overwrites in part (`gfs_ambiguous`).
5. After a request has timed out, its late completion fails the assertion in
   the next request (`block_late`).

Without a run:

- `thread.h` says that at most one thread is RUNNING, but idle keeps that state
  when it is preempted (`IdleInv` allows it). No code depends on it.
- A mount skips a superblock that it cannot read (`graphfs_core.c:680`) and goes
  on from the other one, whereas `graphfs_core.h:25` says that it takes the
  valid one with the highest generation. When the newer one could not be
  read, the next transaction writes over blocks and the bitmap of that
  generation; a crash before its superblock write then leaves a disk whose
  newest superblock does not mount. With `Unreadable = TRUE` TLC finds this as
  a violation of `CrashRecoverable` in eight steps.
- `gfsf_getdents` moves the offset for every record and returns an error
  without them when a later one cannot be read (`vfs.c:309`, `vfs.c:319`): the
  next call goes on behind names that nobody got. And a removal fills the gap
  with other entries, or, in a directory of several edge blocks, reverses
  the order of the blocks it has passed. `NothingMissed` counts what that can
  cost: a name for each removal behind the offset and for each record of a
  failed call, and nothing else, as long as no removal leaves several blocks;
  one that does can hide any of the names. No document promises more.

## Not modelled

- The system call entry, traps and descriptor tables, PCI, serial, VGA and the
  AI channel: assembly, port I/O and register writes without protocol state.
- Formatting, string and checksum routines: pure functions without a property
  that a model would say better than their tests.
- The boot loader, start-up order, self-tests and user programs: straight-line
  code and clients. The kernel map of `vmm_init` is built once at boot.
- The cursor of an open `/dev` directory, which is changed without a lock. What
  two listings at once should return is written nowhere.
- fstat, fsync and `vfs_read_file`, which change nothing that is modelled; exit
  statuses and process names, which nothing decides on.
- `gfs_node_create`, which no kernel code calls; `user_strncpy`, which makes the
  check of `user_copy_to` for every byte.

A tick is the unit of time, so the fraction of a tick a sleep loses cannot be
seen. Pids do not overflow.
