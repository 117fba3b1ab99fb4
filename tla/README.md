# A verification project for the Unix V6 x86 port

TLA+ models of the kernel under `src/kernel`, checked with TLC on small
instances and proved with TLAPS for every instance (but for liveness and what
section 5 names). Module headers and comments name the code they stand for; `PROJECT.json` maps each
definition to source lines, lists the runs, the mutants that show that each
property can fail, the findings and the hazards of the code.

## 1. The system

The kernel is a single-processor, **non-preemptive** Unix. A process in the
kernel runs until it calls `sleep`, returns to user mode, or starts block I/O
and waits for it in `iowait`; between those points nothing else runs but
interrupt routines (clock, keyboard). `wakeup(chan)` makes every process asleep
on an address runnable; a woken process looks again at what it waited for.
A sleep at a positive priority is given up when a signal comes. This is what a
*step* is in the models: from where a process gets the processor to where it
may next give it up.

Both block drivers (`drivers/block/ramdisk.c`, `ide.c`) finish a request inside
`d_strategy`, so at present no process ever waits in `iowait`. `bio.c`,
`alloc.c` and `pipe.c` are written for drivers that answer later and set locks
for it, so `BufferCache`, `FreeList` and `Pipe` model that more general
scheduling. `bmap`, `itrunc`, `readi` and `writei` take no locks on plain files
and are right only because nothing interrupts them (with a driver that sleeps,
two writers of one hole would both allocate a block); `FileBlocks` runs one call
at a time for that reason, and in `Names` a call gives way only where it would
with these drivers too: in `iget`, on an inode that another call has locked.

System calls enter through an interrupt gate, so that interrupts are **off** in
the kernel; they come in user mode, between the `spl0` of `sleep` and `swtch`,
and while `swtch` idles. `Terminal` follows that.

| Component | State | Operations | Interacts with | What makes it correct |
|---|---|---|---|---|
| Pipes (`pipe.c`) | `i_size1` (tail), `f_offset` (head), `ILOCK/IWANT`, `IREAD/IWRITE`, `i_count` | `readp`, `writep`, `plock`, `syspipe`, close | inodes, file table, `sleep/wakeup` | bytes in order, none lost; no sleeper forgotten; end of file only when drained |
| Core allocator (`malloc.c`) | `coremap`, ordered (size, address) pairs | `malloc`, `mfree` under fork, exec, wait | processes | map ordered and joined, no click used twice or lost |
| Buffer cache (`fs/bio.c`) | buffers, flags, free list, device queue | `getblk`, `bread`, `breada`, `bwrite`, `bdwrite`, `bawrite`, `brelse`, `iowait`, `iodone`, `bflush` | drivers, all of `fs/` | one buffer per block, reads see the latest write, delayed writes survive, sleepers woken |
| Processes and signals (`sched/slp.c`, `sig.c`, parts of `sys.c`) | `proc[]`: `p_stat`, `p_pid`, `p_ppid`, `p_pgrp`, `p_sig`, `p_wchan` | `newproc`, `exit`, `wait`, `waitpid`, `kill`, `psignal`, `pgsignal`, `psig`, `setpgid`, `swtch` | core allocator, terminals | no death slept through, orphans adopted, zombies stay dead |
| Free blocks (`fs/alloc.c`) | `s_free`, `s_nfree`, `s_flock`, `s_fmod`, chained batches on disk | `alloc`, `bfree`, `update` | buffer cache | the list implements a set of blocks; a clean superblock is saved |
| File blocks (`fs/iget.c`, `fs/rdwri.c`) | `i_addr`, `ILARG`, `i_size`, indirect blocks | `bmap`, `readi`, `writei`, `iomove`, `itrunc`, `ftruncate` | free blocks, buffer cache | reads return what was written, each block in one place |
| Inode table (`fs/iget.c`, `ialloc/ifree`) | `inode[]`, `i_count`, `i_nlink`, `ILOCK`, `IWANT`, `s_inode` | `iget`, `iput`, `prele`, `iupdat`, `ialloc`, `ifree`, `maknode`, `wdir` | everything with names or descriptors | one core copy per inode, counts match references, no lock left behind |
| File table (`fs/fio.c`) | `file[]`, `u_ofile`, `f_count` | `falloc`, `closef`, `openi`, `access`, `dup`, `dup2` | inodes, fork, exec, exit | counts match descriptors |
| Directories (`fs/nami.c`, calls of `sys.c`) | directory files, `u_cdir`, `i_nlink` | `namei`, `open`, `creat`, `mknod`, `link`, `unlink`, `rename`, `mkdir`, `rmdir`, `chdir`, `getcwd`, `sync` | inodes, files | a name's inode is allocated, calls do not wait in a circle |
| Console (`drivers/char/console.c`) | input ring, termios, process group | serial and keyboard interrupts, `conread`, `tcflush`, ioctls | `pgsignal`, `poll`, `select` | the ring is a queue; a read returns the edited line |
| Clock, waiting calls (`clock.c`, `sys.c`, `trap.c`) | `time`, `lbolt`, `p_sig`, `p_sigmask` | `clock`, `sleep`, `poll`, `pause`, `sigsuspend`, return to user mode | scheduler, console | no signal slept through |
| Boot, drivers, printing, shared text, user programs | | | | see section 8 |

What is hard here, and hard to test: sleeps in the middle of an operation, with
the state looked at before read again after; wakeups that come too early or on
the wrong address; flags and counts shared by processes that do not know of
each other; slots reused with old contents; a disk, map or table that is full
half-way through an operation; boundaries (direct to indirect blocks, batches
of 50 numbers) that only large inputs reach; error exits that release a lock, a
reference or a link count differently from the way out that is always tested.
The list, each at its line, is `hazards` in `PROJECT.json`.

## 2. Modules

| Module | Models | Uses |
|---|---|---|
| `Pipe` | one pipe after fork, with the parts of `rdwr`, `closef`, `iput`, `prele`, `readi`, `writei` it runs through | |
| `PipeProofs` | theorems about `Pipe` | `Pipe`, TLAPS |
| `CoreSpace` | abstract: disjoint segments of clicks per process and a set of free clicks | |
| `CoreMap` | `malloc`/`mfree` on `coremap` under fork, exec, wait | `CoreSpace` (refinement) |
| `CoreMapProofs` | theorems about `CoreMap` | `CoreMap`, TLAPS |
| `BufferCache` | `bio.c` for one device, with a device that finishes or fails requests in any order | |
| `BufferCacheProofs` | theorems about `BufferCache` | `BufferCache`, TLAPS |
| `Process` | the process table, waits and signals | |
| `ProcessProofs` | theorems about `Process` | `Process`, TLAPS |
| `FreeSpace` | abstract: a set of free blocks | |
| `FreeList` | `alloc`, `bfree`, the superblock part of `update` | `FreeSpace` (refinement) |
| `FreeListProofs` | theorems about `FreeList` | `FreeList`, TLAPS |
| `FileBlocks` | `bmap`, `readi`, `writei`, `itrunc`, `ftruncate` | |
| `FileBlocksProofs` | theorems about `FileBlocks` | `FileBlocks`, TLAPS |
| `Inodes` | the tables below the calls on names, as operators on a record `k`: `iget`, `iput`, `prele`, `iupdat`, `ialloc`, `ifree`, `maknode`, `wdir`, `xalloc` | |
| `Names` | `namei`, the calls on names and descriptors, fork, exec, exit, `getcwd`, `sync` | `Inodes` |
| `NamesProofs` | theorems about `Names` and the operators of `Inodes` | `Names`, TLAPS |
| `CharQueue` | abstract: a bounded queue of characters | |
| `Terminal` | console ring, interrupts, `conread`, calls that wait, clock, signals on the way to user mode | `CharQueue` (refinement) |
| `TerminalProofs` | theorems about `Terminal` | `Terminal`, TLAPS |
| `MC...` | the instances TLC checks | |

How they fit: `FileBlocks` takes the free blocks as a set, which `FreeList`
shows the chained list to be; `FreeList` takes a block read to return what was
last written, which `BufferCache` shows (`ReadsLatest`); `Process` takes the
failure of a fork for lack of core as possible at any time, which `CoreMap`
decides; `Names` leaves out the blocks of files, which `FileBlocks` has, and
pipes, which `Pipe` has. Each module keeps only what its neighbours can see of
the others.

Correspondence with the code:

* **Pipe.** `ilock`, `iwant`, `iread`, `iwrite`, `icount`, `size` are the
  inode's fields, `offset` the read end's `f_offset[1]`, `holders` the processes
  counted by `f_count`. `pc` says where a process is: in user mode, at `loop`,
  asleep in `plock` ("want"), asleep on `ip+2`/`ip+1` ("asleep"), in block I/O
  ("io"). The n-th byte stored carries the stamp n. `ReadEmpty` is the branch
  that finds head = tail (with its resets), ending in `ReadEof`, `ReadEagain` or
  `ReadSleep`; `ReadLock`/`ReadIo` and `WriteLock`/`WriteIo` are the transfer
  before and after block I/O, which may move fewer bytes than asked. `Close` is
  `closef` with its wakeups as the code computes them; `Interrupt` a signal that
  ends a sleep; `AliasedWakeup` a wakeup by the neighbouring inode `ip+1`.
* **CoreMap.** `coremap` is the array, `seg` the image of each process.
  `Malloc` is first fit
  with removal of an emptied entry, `Mfree` the four cases of joining. exec is
  `expand(USIZE)` followed by `expand(new)`; the first drops all but USIZE clicks
  of the image without freeing them, which `leaks` records.
* **BufferCache.** Buffers have the flags B_DONE, B_ERROR, B_BUSY (`Busy`),
  B_WANTED, B_ASYNC, B_DELWRI; blocks carry version numbers. Each way `getblk`
  can go round its loop is an action. `Iodone` may finish any started request,
  well or badly, at any time.
* **Process.** A slot has the fields above; the processor is given to one
  process (`Dispatch`). wait and waitpid are the scan (which may fail to
  store the status), the sleep and the interrupted sleep. p_sig is a single slot, as in the code.
* **FreeList.** `content[b]` is what block b holds read as a batch. `alloc`,
  `bfree` and `update` are split where they may sleep; `s_flock` and `updlock`
  are the code's.
* **FileBlocks.** Data are counted in cells of the size of a block number, so
  that a block holds NINDIR of them either way; the tag stored in a cell tells
  its file, its offset and whether the copy that stored it was counted. One
  action per level of `bmap`, so that the disk may be found full at each of them.
  A bad user address ends a write in one of the two ways of `iomove`:
  `CpassFault`, byte by byte, has counted what it moved; `CopyinFault`, the
  aligned copy, has put the first cells into the buffer and counts nothing. The
  buffer is released without being marked: what was put into it reaches the disk
  with another change of the block (a delayed write pending, or one made before
  the buffer is reused) or is lost with it, and the model decides at once which.
  The histories `written` and `spilled` hold the offsets stored and counted, and
  those last stored without being counted; `ReadBack` says that the data are what
  these two tell. Addresses fall bad between cells, not inside one (`fubyte`
  refuses only addresses below 0x1000 that are outside the image). `bmap` does
  not look at B_ERROR after reading an indirect block; the model takes these reads
  to succeed. The free blocks are a set, so the order in which
  `itrunc` frees does not appear; that it frees no block twice is said by the
  places (`At`) at which a file names its blocks.
* **Names.** `k` holds the inodes in core (`core`, with i_count, the flags, the
  type and i_nlink) and on disk, the entries of directories, `s_inode`, whom a
  process sleeps for (`wait`) and the text table. `call` is the call in progress
  with the inodes it holds: `dp` (namei's), `pd` (`u_pdir`) and `ip` (kept over a
  second namei). `Enter` starts namei, the `Look...` actions are its ways through
  one component, `Iget2` the iget after it, and each call continues with an
  action of its own when namei has returned. A call that meets a locked inode
  goes to `hung` and `Resume`s when it was woken. exit and exec close descriptors
  one at a time (`ExitClose`, `ExecClose`) before they release the current
  directory (`ExitEnd`) or the program (`ExecEnd`). What permission bits decide is
  left open: each call may be denied. `mknod` makes devices only (the superuser may
  pass any type), and `ialloc` skips a listed number that is in use without the
  iget and iput by which the code finds out. Five histories record what the code
  is known to do to its own counts and sleepers, so that the invariants can say
  that it does nothing else: `skew` (a reference kept by a failed `maknode` or
  dropped twice by `sys_mkdir`), `stranded` (the parent that a failed `maknode`
  leaves locked), `forgotten` (processes that sleep on a slot whose `i_flag` was
  stored as a whole, so that IWANT is gone), `jam` (a directory was left locked,
  or a call met a lock of its own) and `short` (inodes whose link count was lost). After mkdir's second release has
  given up a slot that is in use (`Intact` is false) no further call starts:
  what follows would be about another inode under the same slot.
* **Terminal.** `pc` says where a process is: in user mode, polling in
  `conread`, in a call that waits, asleep, on the way out, preempted.
  `serial_intr`, `kbd_intr` and `clock` are enabled only where section 1 says interrupts come.
  `Conread` takes one character per step, from the ring
  or, when that is empty, from the serial port, and edits the line. `Satisfied`
  is the test that poll, select and sleep repeat, with the time limits computed
  from the high word of the time as in the code. `taken` is a history of the
  characters a read took. "high" stands for the bytes of 0x80 or more, which
  `kbd_getc` returns as negative numbers (`Negative`) and `conread` therefore
  passes over; keys never stand for one (`kbd_intr` stores positive characters
  only). What has come to the serial port or stands at the keyboard's is the
  abstract queue's `arriving`, so that `CharQueue` sees each character leave its
  port: it may only go to the end of the queue, to a read that finds the queue
  empty, or be lost because the queue is full. A signal ends a sleep through
  `aretu(u.u_qsav)`, whose frame is in use again by then, so that where it lands
  is undefined; `Look` and `Wake` follow the intention, EINTR, as `Process` and
  `Pipe` do.

## 3. Runs and what they show

| Run | Instance | Distinct states | Shows |
|---|---|---|---|
| `pipe` | 1 reader, 2 writers, 2 bytes of pipe, requests of up to 3 bytes, 4 bytes in all | 97 101 | order, exclusion, no lost wakeup while all ends are open, end of file means drained, waiting for the lock ends |
| `pipe_close` | the same | | **fails**: a reader asleep when the last writer closes sleeps for ever |
| `coremap` | 4 processes, 8 clicks, map of 6 entries | 103 104 | map ordered and joined, segments disjoint, every click free, used once or lost by exec, refinement of `CoreSpace` |
| `bufcache` | 2 processes, 3 buffers, 2 blocks, 1 version | 959 044 | coherence of the cache and sleepers woken |
| `bufcache_live` | 2 processes, 2 buffers, 1 block, 2 versions | 31 594 | a busy buffer becomes free again |
| `process` | 3 slots, 4 process ids, 1 group | 222 472 | no death of a child slept through, orphans are init's, nothing revives a zombie |
| `process_ghost` | the same | | **fails**: wait sleeps for the ghost of a failed fork |
| `freelist` | 2 processes, 4 blocks, batches of 2 | 235 340 | refinement of `FreeSpace`, no block twice, no space only if none is free, waiting for the lock ends, a clean superblock is saved |
| `files` | a file and a directory, 4 blocks, 3 addresses, 3 cells a block, transfers of up to 3 cells | 290 870 | what was last stored is read back, one owner per block, short transfers only where they must be |
| `names` | 2 processes, 5 inodes (3 in core), 2 open files, 2 descriptors each, 4 calls | 292 504 | files and inodes counted exactly, no lock left behind, no call waits before a lock was left behind or met by its own holder, what a directory names is allocated |
| `terminal` | 2 processes, ring of 3 cells, 3 characters or key codes | 2 027 496 | refinement of `CharQueue`, a read returns the edited line, no signal slept through |
| `terminal_keys` | 2 readers, 2 codes | | **fails**: keys pressed while `conread` waits are never taken |

Why the bounds suffice for the cases that matter:

* A pipe of two bytes has empty, partly full and full states, and requests of
  three bytes do not fit; two writers and a reader contend for the lock; four
  bytes fill the pipe, reset it and fill it again.
* Eight clicks with images of one to three allow maps with holes and frees that
  join on the left, the right, both sides and neither.
* Three buffers for two processes let a process hold one and wait for another,
  and let `getblk` find the list empty. With two buffers and `breada` two
  processes can hold one each and wait for the other's for ever; a request must
  outlive `d_strategy` for that, which the shipped drivers do not let happen, and
  the instances exclude it (three buffers for two processes, and no read-ahead
  where progress is checked).
* Three process slots are init, a parent and a child; orphans, zombies, reuse
  of a slot and a full table all occur. Ids are not reused below MaxPid.
* Batches of two with four blocks make `alloc` and `bfree` cross batch
  boundaries and run the list empty.
* NADDR = NINDIR = 3 gives direct, singly indirect (two slots) and doubly
  indirect blocks; the starting offsets (8, 17, 20) make transfers cross each
  boundary, of three cells so that two fall into the second block and a bad
  address can come between them, and four blocks make the disk full at each level. NINDIR must be at
  least NADDR, as in the code (128 and 8), for the conversion to fit.
* In `names`, four calls of two processes over a root, a directory in it and
  one below that are enough for a name to be removed while it is open, a
  directory to be removed while it is current or being walked by `getcwd`, a
  parent to be left locked and another call to run into it, and a file to be
  shared by fork and closed on both sides. Three slots for inodes run out, as do
  two open files, one text and one number in the superblock's list; one free
  inode makes `ialloc` find one and then none. Paths are one or two names,
  absolute, relative and ".".
* A ring of three cells holds two characters, so three inputs fill it, wrap it
  and overflow it; the characters are one of each kind that `conread` treats
  differently. The second process makes the calls that wait. The words of the
  time have one value each (`TimeWord`), so that carrying into the high word,
  which the time limits look at, happens within a run.

Deadlock is checked except in `pipe` (all ends closed, or the byte bound
reached, is the end of a run), `process` (init alone may have nothing to do
once the ids are used up), `names` (the calls are bounded, and an unlink of "."
waits for itself) and `terminal` (input and time are bounded).

## 4. Fairness

Weak fairness on the steps of a process that is in the kernel and not
asleep, and on the completion of a started request. The code justifies it:
`swtch` takes the runnable process of best priority and priorities age with
`p_cpu`, and both drivers end every request, with B_ERROR at worst. Entering a
call, closing a descriptor and sending a signal are up to programs and are
never assumed to happen.

`Terminal` (`LiveSpec`) has strong fairness on the serial and keyboard
interrupts: the interrupt controller keeps a request pending while interrupts
are off and delivers it when they come on, which they may do for a short while
each time. `KeysTaken` fails even so, because in `conread` they never come on.
A clock that ticks, input and the start of a call are not assumed.

## 5. Proofs

The theorems hold for every value of the constants that satisfies the named
assumption of the module (`PipeAssumption`, `CoreAssumption`, ...): any number of
processes, buffers, blocks, slots, clicks or cells, any batch and ring size. The
assumptions say what the code's own constants satisfy: sizes are positive, a
batch has room for two numbers, the "nothing" values are none of the others,
there are finitely many buffers.

| Module | Theorems (the property each states) |
|---|---|
| `PipeProofs` | `PipeTypeCorrect`, `PipeLockExclusion`, `PipeInOrder`, `PipeNoLostWakeup`, `PipeEofMeansDrained` |
| `CoreMapProofs` | `CoreTypeCorrect`, `CoreMapOrdered` (`MapOrdered`), `CoreAccounted` (`Accounted`), `CoreSpaceRefined` (refinement of `CoreSpace`) |
| `ProcessProofs` | `ProcessTypeCorrect`, `DeathsNotMissed` (`DeathNotMissed`), `ParentsAlive` (`OrphansAdopted`), `ZombiesStay` (`ZombieStays`, an action property) |
| `BufferCacheProofs` | `CacheTypeCorrect`, `CacheAvailable` (`AvailIffNotBusy`), `CacheOneBuffer` (`OneBufferPerBlock`), `CacheReadsLatest` (`ReadsLatest`), `CacheNothingLost` (`NothingLost`), `CacheSleepersWoken` (`SleepersWoken`) |
| `FreeListProofs` | `FreeListTypeCorrect`, `BlocksInOnePlace` (`OnePlace`), `CleanSuperblock` (`CleanMeansSaved`), `NospaceIsTrue` (`NospaceMeansNone`, an action property), `FreeListImplements` (refinement of `FreeSpace`) |
| `FileBlocksProofs` | `BlocksOwnedOnce` (`OneOwner`), `WrittenIsRead` (`ReadBack`), `TransfersComplete` (`ShortTransfer`) |
| `NamesProofs` | `NamesInvariant` (the inductive invariant), `NamesTypeOK` (`TypeOK`), `NamesFilesCounted`, `NamesInodesCounted`, `NamesLocksReleased`, `NamesWaitsOnlyJammed` |
| `TerminalProofs` | `TerminalTypeCorrect`, `SignalsNotMissed` (`NoSignalMissed`), `RingIsQueue` (refinement of `CharQueue`) |

Each module has one inductive invariant `IInv` (`Inv` in `NamesProofs`), a lemma per action that the
action keeps it, and the theorems as consequences of `Spec => []IInv`.

**Pipe.** `IInv = TypeOK /\ RefInv /\ LockExclusion /\ StreamInv /\ InOrder /\ WakeInv`:

* `RefInv`: `i_count` is the number of open ends, a process inside the pipe code
  has its end open, and a transfer fits into the pipe. Needed because closing is
  what makes `iput` drop the lock.
* `LockExclusion`: while both ends are open the lock is held exactly while one
  process transfers.
* `StreamInv`: the bytes between head and tail are the next ones due, in order,
  and the process that transfers works on the current head or tail. `InOrder`
  is not inductive without it: it speaks of what was delivered, `StreamInv` of
  what will be.
* `WakeInv`: before the first close, a sleeping reader implies IREAD and an
  empty pipe, a sleeping writer IWRITE and a full one. IREAD and IWRITE are what
  the next transfer looks at before it wakes anyone.

After the first close, exclusion no longer holds (`iput` clears ILOCK without
asking who set it); the theorems say what remains.

**CoreMap.** `IInv = TypeOK /\ GoodMap(coremap) /\ SizesOK /\ Accounted`. What
`malloc` and `mfree` do to the set of free clicks is proved first, for any map of
the right shape (`GoodMap`: ordered with gaps, terminated, unused entries blank):
`malloc` removes a run that was free, `mfree` adds one, in each of its four
cases, and both keep the shape. `Accounted` and the refinement are then
reasoning about sets. `SizesOK` is needed because exec's first `expand` keeps
USIZE clicks of an image that must have had as many.

**Process.** `IInv = TypeOK /\ InitSlot /\ PidsUnique /\ SleepsOnSelf /\ Runs /\
DeathNotMissed /\ OrphansAdopted`. `PidsUnique` is what the code relies on without
saying so: exit and kill stop at the first slot with the id they look for, and
would wake the wrong process if an emptied slot kept an id that is in use.
It rests on ids not being reused below MaxPid. `SleepsOnSelf` makes the wakeup of
exit reach the parent that waits.

**BufferCache.** `IInv` has the types, the available list as a sequence without
repetitions of what is not busy (`ListOK`), flags that fit each other (`BufsOK`),
one owner for each busy buffer: a process or the device (`Owned`), what each
process holds at each point of its call (`ProcsOK`), `OneBufferPerBlock`, valid
buffers hold the latest version (`DataOK`), a version that is not on the disk is
in a buffer that will be written (`Kept`), and `SleepersWoken`. `ReadsLatest`
needs all of them: that B_DONE means valid depends on who may write into the
buffer, that on the owner, and that on the list.

**FreeList.** `IInv = TypeOK /\ Hands /\ Locked /\ Chained /\ OnePlace /\
CleanMeansSaved`. The chain of batches is defined as the least set of blocks
closed under "the first number of a batch names the next", so that a chain of
any length needs no induction: what a step does to it follows from exhibiting a
smaller closed set. `Chained` says that the batches reached are pairwise disjoint
and each without repetitions, also from the batch that a sleeping `alloc` is
about to read; `Hands` and `Locked` say who may have a block outside list and
files, and that only one process moves a batch. The refinement maps the batches
to the set of blocks they name.

**FileBlocks.** `IInv = TypesOK /\ PlacesOK /\ DataOK /\ SizeOK /\ CallTypes /\
BmapOK /\ ShortTransfer`. A file is a tree of places two levels deep, so that no
induction is needed: `PlacesOK` says that the places name each block that is not
free exactly once, `BmapOK` that the block `bmap` works on is the one named at the
place its step belongs to. `TreeGets` and `AllocKeeps` show once, for the four
steps that allocate, that giving a new block to one place changes nothing else;
the conversion to a large file moves the blocks to other places (`ConvertAt`) and
leaves the map from a file's blocks to the disk's as it was (`ConvertLookup`).
A store changes a leaf, and no place is below a leaf (`LeafIsLeaf`). `DataOK` says of
every cell what `written` and `spilled` tell of it; a store of either kind changes
the cells of its own offsets only (`StoreTold`, `SpillTold`, `PutStep`). Everything
rests on offsets being cut into block and cell in one way only (`DivMod`,
`Unique`), on an inode having no more addresses than a block has numbers, and on
transfers staying within what the addresses can reach, which `bmap` does not test.

**Terminal.** `IInv = RingOK /\ RestOK /\ ProcsOK /\ NoSignalMissed`. `ProcsOK`
says that a process in user mode keeps nothing of its last call and that a read
in progress has room for one more character, which is why `conread` never stores
more than was asked for. For the refinement the remainders of the ring's indices
are eliminated once (`UsedIs`, `CellIs`); then storing is an append
(`PutWaits`), reading takes the head (`TakeWaits`), and every other step leaves the
queue alone.

**Names.** `Inv` is `World(k, file, ofile, cdir, call, hung)`, a predicate of the
tables given as arguments, so that it can also be said of the tables half-way
through a handler:

* `Sound`: types and sizes, a slot is vacant exactly when its count is not
  positive, an inode is in one slot, and who sleeps and was not forgotten sleeps
  on a slot with ILOCK and IWANT.
* `FilesOK`: each `f_count` is the number of descriptors, and a file in use has
  an inode.
* `CallOK`, `HungOK`: what a call holds at each place of its way (`Placed`), in
  particular that namei asks for an inode with nothing but what its flag and
  call allow in its hands, and that what it has just fetched is in core.
* `Callers`: only a process that exists calls, once at a time, and one that does
  not exist has no descriptors.
* `Balanced`: each `i_count` is the sum of its holders and `skew`.
* `Locks`, `Jams`: each lock has a holder or is stranded; before the first jam
  nothing is stranded and nobody sleeps.

The counts are not inductive without the places: that a release takes away a
reference that the call had follows from where the call is. The proof first states what each operator of `Inodes`
does to one slot (`Iput` drops a reference or vacates the slot, `Iget` adds one,
the others edit a slot and keep count and lock), sums this up as the change of
`Net(x, s)`, the count without what is fixed or off, and then adds up, for each
handler, the changes of its sequence of calls. `NamesWaitsOnlyJammed` says that
the lock order of `getcwd` (from below) against that of deletion (from above) is
no danger as long as no lock was left behind: one call runs at a time with these
drivers, and each one that ends has unlocked all it had.

Proof attempts also corrected models. The conditions under which `getblk`'s
outcomes were chosen overlapped in `Obtain`. In `Names`, the proof that a sleeper
is woken failed where `iput`, `iget` and `ialloc` store `i_flag` as a whole; TLC
found a behaviour in which it happens (section 6), and `forgotten` now names
those sleepers. exit and
exec closed their descriptors in one step with a fold over them; they are now
steps, as the loops of the code are.

Only model-checked:

* Liveness under fairness (`LockWaitEnds`, `BusyEnds`, `FlockWaitEnds`,
  `KeysTaken`), which TLAPS does not handle.
* `LineEdited`: what editing leaves of any number of characters is an induction
  over the input, out of reach of the installed provers.
* `NamesAllocated`: it needs each link count to be compared with the names in all
  directories, of which the code loses some in the ways `short` lists; the
  inductive invariant for that was not attempted.

## 6. Findings

* `closef` wakes `(caddr_t)ip + 1` and `+ 2`; the pipe code sleeps on `ip + 1`
  and `ip + 2`. A reader asleep on an empty pipe is not woken by the last close
  (`pipe_close`).
* A fork that fails for lack of core leaves `p_pid` and `p_ppid` in the empty
  slot, and wait counts it as a child (`process_ghost`).
* `int 0x80` turns interrupts off and `conread` polls the ring and the serial
  port without turning them on: a key pressed while a process waits for a line
  is never taken (`terminal_keys`).

Seen while modelling; the models do what the code does, and where a property
would be disturbed a history variable names the exception:

* Signals: `pgsignal` signals empty slots with an old `p_pgrp`, and the next
  process in the slot is born with the signal (`sig.c:76`).
* Files: `truncate` and `ftruncate` empty the file whatever size is asked for;
  `writei` does not enlarge directories (`IFDIR` shares a bit with
  `IFBLK | IFCHR`), so that an entry put behind the end is not found again;
  an aligned write that meets a bad address in the middle of a block changes the
  block's buffer without advancing the offset or the size, so that a write which
  reports EFAULT may still have changed the file, also beyond its end, where a
  later write makes it visible.
* Console: a byte of 0x80 or more comes back from `kbd_getc` negative, as if there
  were no input: `conread` drops it without a trace, and `console_has_input`, which
  poll and select use, still counts it.
* Names: `sys_mkdir` writes the name into the third entry of the parent
  and releases the parent twice (`wdir` has already done it); `link` takes a
  link away when it returns EPERM; `rename` of a name to itself loses the file;
  `unlink` of "." waits for itself; a failed `maknode` leaves the parent locked;
  `update` clears IUPD before it calls `iupdat`, which then writes nothing;
  the last `iput` of an inode stores `i_flag = 0`, so that a process which has set
  IWANT and sleeps on it is never woken (a `creat` that finds no inode leaves d/e
  locked, an `unlink` of d/e waits for it with d locked, a `close` of d/e wakes the
  `unlink`, an `open` of d/e sleeps for d before the `unlink` runs and drops the
  last reference to d; by `NamesWaitsOnlyJammed` it takes such an earlier failure,
  or an `unlink` of ".", for a call to sleep at all);
  `exec` never stores `p_textp`, so that text slots and their inodes are not
  given back.
* Time: the calls with a time limit compare the high word of the time.
* Disk: `sumount` does not save the superblock; `rd_mkfs` lists only 50 free
  blocks and gives directories low link counts; an asynchronous write that fails
  loses its data without a report.
* Process ids: `mpid` wraps at 16 bits and is not compared with the ids in use.

## 7. Plan

Done: pipes, core, buffers, processes, free blocks, file blocks; inodes, files
and directories; console, clock and waiting calls. Left, in order:

1. **Proofs**: `NamesAllocated`, with an account of link counts against names.
2. **Mounts**: a second device in `Inodes`, `mount`, `umount` and the crossing
   of mount points in `iget` and `namei`.

## 8. Not modelled

* Boot, descriptor tables, paging, assembly: set-up code; its results are the
  initial states.
* Port I/O of the drivers and screen output: no state the models read. The
  file system that `rd_mkfs` builds is the initial state of `FreeList` and
  `Names`; how it lays the data out in blocks is left out.
* `swap` and `physio`: no shipped device or caller uses them; there is no
  swapping in this port. `xfree`, `xlock`, `xunlock`, `xccdec` and `xswap` act on
  `p_textp`, which nothing sets.
* `kernel/tty.c` and `drivers/char/tty.c` with their character lists: compiled,
  but not reached, as the console has its own entry in the device table.
  `timeout` has no caller, so the callout table stays empty.
* Mounts (planned), permission bits and user ids (each call in `Names` may be
  denied or not), device files, and the many calls that return ENOSYS.
* `brk` and `mmap`, which only set sizes; `seek`; the content of images.
* Priorities: `swtch` may pick any runnable process in `Process` and `Terminal`,
  which includes the one the code picks.
* Printing, the C library and the user programs.
