# Verification of OperatingSystemsNTUA

TLA+ models, TLC configurations and TLAPS proofs for the programs of this
repository: the Lunix:TNG sensor driver (`OSLab/lunix/lunix`), the ext2-lite
file system (`OSLab/Filesystems/Code`), the driver sketches of the exams
(`OSLab/exams`) and the systems-programming projects (`projects`). The driver,
the file system (super block, block and inode allocators, directories, names)
and the two projects whose processes interact (2 and 3) are modelled; the rest
is listed in section 6 with the reason why not.

`PROJECT.json` is the index: components, runs, the source lines every
definition translates (`map`), the mutants that show each property can fail,
the hazards of the code, the findings and the theorems.

## 1. Inventory

### Lunix:TNG

Bytes from a base station arrive on a serial line. The helper `lunix-attach`
puts the Lunix line discipline on the TTY; the discipline passes each buffer to
the protocol parser; the parser extracts readings and stores them in sensors;
threads read the sensors through character devices.

    serial line -> TTY -> lunix_ldisc_receive_buf -> lunix_protocol_received_buf
                -> lunix_sensor_update ~~(spinlock, wait queue)~~> lunix_chrdev_read

| component | state it keeps | operations | what is hard | what makes it correct |
|---|---|---|---|---|
| character device (`lunix-chrdev.c`) | per open file: semaphore, cached text, its time stamp, offset | open, release, read (refresh, sleep, copy), ioctl | threads sharing a file; unlocked freshness test; sleeping inside the critical section's loop; three kinds of error return | one thread at a time in the file state; cached text and time stamp belong together; nobody sleeps through an update; the semaphore always comes back |
| sensors (`lunix-sensors.c`) | per measurement a page with value and time, spinlock, wait queue | init, destroy, update | the wake-up races with the reader going to sleep | see above |
| protocol (`lunix-protocol.c`) | parser state, three counters, escape flag, packet buffer | init, received_buf | buffers cut anywhere; lost bytes; escapes; end of the packet buffer | updates are exactly the readings sent; counters agree; no write outside the buffer |
| line discipline (`lunix-ldisc.c`) | the one association (`lunix_disc_available`) | open, close, receive_buf, init, destroy | several TTYs at once; last close | on one TTY at most; never lost |
| module (`lunix-module.c`) | sensor array, `si_done` | init, cleanup | failure at every step; a TTY that takes the discipline while the module loads | nothing live before it is ready; everything undone |
| `lunix-attach.c` | lock file, line mode and discipline before | lock, open, set, signal handler, close | concurrent helpers; kill at any step; a signal in the handler | lock exclusive; line released |

### ext2-lite

| component | state it keeps | operations | what is hard | what makes it correct |
|---|---|---|---|---|
| block allocator (`balloc.c`) | bitmaps, descriptor counts, free-blocks counter | new_blocks, allocate_in_bg, free_blocks | bit, descriptor and counter change in separate steps while other threads allocate and free | no block in two places; the three records agree; -ENOSPC only when nothing is left to hand out |
| block map and truncation (`inode.c`) | `i_data` of a file | get_blocks, truncate_blocks, free_data | joining runs of blocks | frees exactly the blocks it maps |
| inode allocator (`ialloc.c`) | inode bitmaps, counts of inodes and directories | new_inode, free_inode, find_group | the same races; error paths behind the bit | no inode number twice; counts exact |
| directories (`dir.c`) | chunks of records, size, version | add_link, delete_entry, set_link, find_entry, readdir | splitting, merging and reuse of records between the calls of a listing | pages stay valid; a listing returns each name that stays once; a change of one name leaves the others alone |
| names (`namei.c`) | directory entries, link counts | create, link, mkdir, unlink, rmdir, rename | partial failure between entry and link count; inodes freed while others allocate; a directory emptied by a page that cannot be read | link count = number of links; no entry to a freed inode; no inode lost |
| super block (`super.c`) | what the mount has acquired; the state bits (valid, has errors) in three places: on disk, in the buffer, in memory | module load, fill_super, sync, remount, put_super, statfs, ext2_error | failure at every step of mount; an error reported in the middle of a sync or a remount; power lost at any step; failing writes | everything undone; a disk that says "valid" has all changes on it; an error once recorded reaches the disk; a clean unmount leaves a valid disk |

### Projects 2 and 3

| component | state it keeps | operations | what is hard | what makes it correct |
|---|---|---|---|---|
| gates (`project2/parent.c`, `child.c`) | parent: the pid of the child of each gate; child: its gate, open or closed | fork, exec, install handlers, wait, forward a signal, toggle, end | a signal at any instruction; two of a kind become one; children that stop, die and are replaced | every gate has a living child again; a gate stands as the signals it got say; no child outlives the parent |
| job server (`project3.c`) | parent: select loop, whose turn it is; child: the number it holds; two pipes per child | fork, select, read a line, send a job, drain the answers, kill | bounded pipes in both directions between two processes that both block | parent and child never wait for each other; every answer is the right one, in the order of the jobs; every job is answered |

### The rest

The exam drivers K11 to K24 are sketches of character devices with interrupt
handlers. Project 1 is sequential file I/O; project 4 a TCP client and a server
for one client.
`lunix-lookup.h` is a generated table of 49172 lines (six sevenths of the
repository's C lines), `lunix-chrdev2.c` an unbuilt earlier version of the
driver, `Riddle` a set of one-shot puzzle answers.

## 2. Modules

| module | models | run module |
|---|---|---|
| `SensorFeed` | abstract: what a sensor promises to the open files of its node | - |
| `LunixChrdev` | `lunix-sensors.c` update, `lunix-chrdev.c` | `MCLunixChrdev` |
| `LunixProtocol` | `lunix-protocol.c`, `lunix_ldisc_receive_buf` | `MCLunixProtocol` |
| `LunixModule` | `lunix-module.c`, init and destroy of sensors, discipline, device | itself |
| `LunixAttach` | `lunix-attach.c`, `lunix_ldisc_open`, `lunix_ldisc_close` | `MCLunixAttach` |
| `Ext2Balloc` | `balloc.c`, block map and truncation of `inode.c` | `MCExt2Balloc` |
| `NameMap` | abstract: a directory is a map from names to inodes | - |
| `Ext2Dir` | `dir.c` | `MCExt2Dir` |
| `Ext2Ialloc` | `ialloc.c`, `ext2_evict_inode` | (through `Ext2Namei`) |
| `Ext2Namei` | `namei.c` over `Ext2Ialloc` | `MCExt2Namei` |
| `Ext2Super` | `super.c` | itself |
| `Gates` | `project2/parent.c`, `project2/child.c` | itself |
| `JobServer` | `project3/project3.c` | itself |
| `LunixChrdevProofs`, `LunixProtocolProofs`, `LunixModuleProofs`, `LunixAttachProofs`, `Ext2NameiProofs`, `Ext2SuperProofs`, `GatesProofs`, `JobServerProofs` | theorems about the module each extends | - |

Operators whose name ends in a suffix after `_` and whose comment begins with
"Mutant of" are deliberately wrong variants of the definition that follows;
no specification uses them.

**LunixChrdev.** One sensor, any number of threads and open files. A step is
what a thread does between two points where another thread can see or disturb
it. `UpdateLock`, `UpdateStamp`, `UpdateUnlock`, `WakeUp` are
`lunix_sensor_update`; `Down` to `CopyFault` follow `lunix_chrdev_read` and
`lunix_chrdev_state_update` line by line, with the unlocked `Check` between the
two locked accesses `Grab` and `Regrab`; `SysRead` and `SysReadExit` are the
system call's copy of `f_pos`, which is taken and stored outside of the driver's
lock. A raw value is represented by the length of its text, the bytes of a text
by the number of the update they come from. `wait_event_interruptible` is
modelled as the kernel does it: enqueue, test, sleep, and again.

**LunixProtocol.** The parser byte by byte with real byte values, escapes and
offsets: one step for each turn of the loop and one for each return. The line
delivers frames in buffers cut at any place (`ReceivePart`), across the end of a
frame (`ReceiveAcross`, only with `Merge`), and may lose bytes (`LoseByte`: on
the wire, or because they arrive while the discipline is not set - closing and
setting it again does not reset the parser, `lunix-ldisc.c:34`).

**LunixModule.** Every allocation and registration is a step with a failing
alternative; the labels of the error path and the cleanup function are the
values of `pc`. A sensor's pages are counted; `lost` is the set of pages, each
known by its load, its sensor and its measurement, whose pointer went with the
array. From its registration on a TTY (external) may set the discipline, `tty`; as
long as it has it, `tty_unregister_ldisc` returns -EBUSY, which
`lunix_ldisc_destroy` does not look at (`busy`). The kernel unloads no module that a
TTY has, but nothing keeps a TTY from a module that is still loading, and may fail.

**LunixAttach.** Helpers, lock files and lines. A lock file holds a pid, garbage
(created, not yet written) or does not exist; `linked` says whether the file a
helper writes to is still the one at the path. `TIOCSETD`, the last close of a
TTY, `unlink` and `kill(pid, 0)` are external. Nothing is assumed of the
environment: any number of helpers set up at once, a helper is killed at any step,
and a signal it catches may interrupt the handler of another one, which then
closes the line anew. Three history variables say for each line what the
properties have to know: `loose`, whether the lock was got round (two helpers were
between test and pid at once, or one closed the line again without having the
lock); `harmed`, whether a helper failed or was killed; `found`, what the first
one found. They begin anew with the first helper of a line that has none.

**Ext2Balloc.** Files that allocate and truncate at once; each bit operation, each
descriptor update and each addition to the counter is a step. `U16` is the number of
values of the 16-bit fields, so that wrapping is modelled with small numbers.
`JunkNum` is the set of values the uninitialised `num` of `ext2_allocate_in_bg` may
hold. A file may leave slots of its block map empty, so that the runs truncation
joins have holes between them. The allocator is always asked for one block, as
`ext2_get_blocks` does for a direct block.

**Ext2Dir.** The records of a directory as a function from offsets; the routines
of `dir.c` are operators on it, with the real arithmetic of record lengths,
chunks and pages. `Reached` is the walk by `rec_len`; what a merge leaves in the
middle of a record is dropped (`Walked`), since the code never looks at it again.
The calls that change the directory hold its rwsem and are one step each; a
listing is one step per record, and between two of its calls anything may
happen. `current` is the set of files whose `f_version` equals `i_version`.
`ext2_find_entry` passes an undeclared `n` to `ext2_last_byte` (`dir.c:296`); the
model takes it for the page index `i` of the loop.

**Ext2Ialloc, Ext2Namei.** Processes in system calls. The allocator is as fine as
`Ext2Balloc`: bit, counters and descriptor are steps of their own, and so are
those of `ext2_free_inode`. On top of it, one step for each write of an entry and
each group of link-count updates, with a failing alternative wherever the code
tests for one. A directory is its set of names, which `Ext2Dir` justifies. A page
that cannot be read is skipped by `ext2_empty_dir`, which may then call a directory
empty that is not: `Bury` removes its names with it, and `vanished` counts for each
inode the names it lost that way and its link count still has. The
locks, the checks before a rename, references and open files are the VFS's and
external; a process gets all the locks of a call at once. `Above`, the directories
up to the root that the VFS looks at before a rename, is the least set that holds
the directory and is closed under "..".

**Ext2Super.** The VFS runs one operation at a time on a super block (it holds
`s_umount`): `op` is the operation and `step` the step it comes to next. `Order`
is the order of the steps in the code, `Return` where the functions that several
operations call return to, `Label` where a step that fails jumps to, and
`Released` is what a label frees together with the labels it falls through to.
`ext2_error` runs beside all of them but an unmount in steps of its own, as do writers
(`Touch`), `statfs` and the write-back of a dirty buffer. `Crash` loses what is
not on the disk; `Fsck` repairs an unmounted file system. A write of the super
block may fail, and so may the write-back of the data (`Writeout`), and nothing
happens then, because the code does not look.

**Gates.** Parent and children, one step per system call that others can see.
Signals wait as sets, so that two of a kind are one. A child has the handlers of
the parent between `fork` and `execv`, the default ones until it has installed
its own, and then those, of which `signal_handling` leaves `sa_flags` and `sa_mask`
to chance: `spent` is the set of signals whose handler the kernel may have reset
after one use, and a handler may or may not be interrupted, by its own signal too.
`handle_sigusr1` is two steps, `Test` and `Turn`; `turn` is the stack of its
activations. `Alarm` comes whenever an alarm is set, again and again after
`handle_sigalarm` has set it anew: that handler never returns, and an activation it
interrupts never goes on. The history variable `cut` says of a child that this has
happened, or that two activations have come between each other's test and
assignment. Pids are reused as soon as nobody remembers them.

**JobServer.** The parent's loop with the answers of `select` fixed in `ready`
before it reads anything, one step for each read and write; the children read a
number, add one and write it. A write to a full pipe waits. The number on a line
is its count, so that no two jobs are alike. `pending` is a history variable:
what each child has been sent and not yet been read.

## 3. Runs

Twelve runs; the violation run states what a comment of the code says and shows a
behaviour of the code against it.

| run | question | bounds | states |
|---|---|---|---|
| `ChrdevShared` | `SemaphoreInv`, `SnapshotInv`, `NoLostWakeup`, `MissesOnlySameSecond`, the refinement `ImplementsFeed`, and, with fairness, `SleeperServed`, `SemaphoreFreed` | two threads on one file, two updates, two seconds | 130468 |
| `ProtocolCut` | `UpdatesAreTheReadings` against a reference decoder, `InStep`, `NeverOverflows`, `BufferDone` | six frames (data, health, empty, out of range, both kinds of escape), every cut | 26404 |
| `ProtocolLossy` | `IndexInBounds` | one lost byte anywhere, merged buffers, a packet buffer of 27 bytes, a debug limit of 9 turns | 2310016 |
| `ProtocolMerged` (violation) | `UpdatesAreTheReadings` with merged buffers | two data frames | - |
| `ModuleLoad` | `LiveOnlyWhenReady`, `UndoneButPages` | three sensors of three pages, three loads, one TTY | 3535 |
| `Attach` | `OneTTY`, `LockExclusive`, `AttachedWhilePaused`, `LineReleased` | two helpers on one line, of which one does not find the user uucp, and one on another; two signals each | 771698 |
| `BallocShared` | `NoSharedBlock`, `CountsExact`, `NoBlockLost` | two files of three slots, holes among them; two groups, four free blocks in the first and one in the last; `num` begins as 0 | 1013995 |
| `DirList` | `DirectoryValid`, `ListingExact`, `OnRecord`, the refinement `ImplementsNameMap` | names with records of 20, 40 and 44 bytes, chunks of 64, two chunks to a page, three chunks; one listing with seeks to 0 and into a record | 37103 |
| `Namei` | `LinksExact`, `NoDangling`, `NoLeak`; `NoSharedInode`, `CountsExact` of the allocator | two processes, two names, two groups of two inodes of which two are free; one open file, one inode lost to a bad bitmap, one inode whose names went with a directory | 555387 |
| `Super` | `UnwindExact`, `ValidMeansSynced`, `ErrorRecorded`, `CleanUnmount` | two descriptor blocks; otherwise unbounded: any sequence of loads, mounts, remounts, syncs, errors, failing writes and losses of power | 1618706 |
| `Gates` | `NoOrphans`, `TogglesCounted`, and, with fairness, `GatesManned` | two gates, five pids, two signals from the user, any number of alarms | 158559 |
| `Jobs` | `NoDeadlock`, `AnswersInOrder`, and, with fairness, `JobsAnswered` | two children, pipes of two numbers, six lines typed | 618077 |

The type invariant of a module is proved (section 4) or, where it is not, a
conjunct of one of the invariants checked: `UndoneButPages`, `CountsExact`,
`DirectoryValid`, `LinksExact`, `UnwindExact`, `NoOrphans`.

Why the bounds are enough for the questions asked:

- Two threads on one file are the least with contention for the semaphore, and
  two updates the least with an update between the freshness test and the grab
  *and* another one behind it. Both raw values are in play so that a text may be
  replaced by a longer or shorter one; a count of 6 covers the shorter text (4)
  and cuts the longer (7). The safety properties are proved for every number.
- In `ProtocolCut` the packet buffer (27) is exactly as long as the longest
  frame's packet, so `NeverOverflows` is checked at its edge; the frames hold an
  escaped 0x7D and 0x7E in every multi-byte field's neighbourhood, and cuts fall
  between an escape and its byte too.
- In `ProtocolLossy` the smaller buffer and debug limit make both early returns
  happen; the lost byte can be the payload length.
- Three loads let a failed load be followed by a successful and another failed
  one.
  Once a load has failed under a TTY the kernel is left with a discipline in
  memory it has freed; nothing is modelled after that.
- Two helpers on a line race for the lock, or one finds what the other left, dead or
  gone: a stale lock, a raw line, the lock file of one without the user uucp. Two
  signals are one that closes the line and one inside its handler, before and after
  the lock was given up. Two lines are enough for one discipline that is wanted twice.
  That a pid goes stale between reading and testing it takes a third helper on the
  line; three helpers on one line, with two signals each, passed as well (3467577
  states), and the theorems of section 4 hold for any number.
- In `BallocShared` the first group has four data blocks for up to six slots, so
  that it fills up, races for its last bit and sends files on to the second
  group, where they find nothing. Three slots are the least with a hole between two
  blocks that follow each other on the disk.
- In `DirList` the first chunk takes the name of 20 or that of 40 bytes, two
  chunks take 20 + 44 exactly or 20 + 40 with a rest of 4, and 40 and 44 never
  share one: splits with and without a rest, reuse of a first record, growth
  within a page and into a new page all happen.
- In `Namei` two free inodes let two processes race for the last one, a number be
  reused while its first owner is still counting it, a directory replace another,
  and a directory move into another. With `MaxUnread` of 1 a file, or a directory,
  loses its name with the directory it was in, and its neighbour goes on. Three
  would be needed for a directory to replace one in another directory.
- In `Super` two descriptor blocks are the least for which reading fails with some
  of them in hand; one changed count of free blocks is enough to tell a disk that
  has it from one that has not.
- In `Gates` two signals are a first one in a window and a second one that ends
  or toggles what the first left; five pids are the children of both gates, their
  replacements and one that is being made. Two signals are also two SIGUSR1 of which
  the second interrupts the first.
- In `Jobs` a pipe of two is the smallest for which the theorem of section 4
  holds; six lines are more than the five jobs that would fill both pipes of a
  child and its hands. Two children let answers of one wait while the other is
  served.

`CHECK_DEADLOCK FALSE` is said where the system may come to rest: the line is used
up, all loads are done or one has failed under a TTY, all helpers have ended, all
files are full and the disk too, the parent has exited. `ChrdevShared`, `DirList`,
`Namei` and `Super` check for deadlock; in `Jobs`, where the parent may exit and
nobody has to type, `NoDeadlock` says which waiting is wrong.

Fairness. `LunixChrdev!FairSpec` assumes that a thread inside a system call that
can go on again and again does (strong fairness: the kernel's semaphore hands
over to the first waiter, and its spinlocks are queued), and that an update that
has begun is finished. Nothing is assumed of the arrival of updates, of signals,
of the clock or of calls. `LunixProtocol!FairSpec` assumes that a call of
`lunix_protocol_received_buf` that has begun is run; nothing of the line.
`JobServer!FairSpec` assumes that the parent and each child run when they can (the
kernel's scheduler); nobody has to type. `Gates!FairSpec` assumes that the parent
runs and that each child runs, alarms included; no signal has to be delivered, for
what a handler's `sa_mask` holds back may wait for ever, and the user need not send
any.

Refinements. `ImplementsNameMap` maps the records in use to a map of names: each
step of the directory is one call's change of one or two names, or leaves all of
them alone. `ImplementsFeed` maps the number of stamped updates to `published`
and the update whose text is in a file's cache to `seen`: TLC shows that every
step of the driver is a step of `SensorFeed` or leaves both alone, so that a file
never takes up a half-written measurement nor one older than it had.

## 4. Proofs

Checked by TLAPS, for every value of the constants allowed by the named assumptions
(`ConstantsAssumption`, `ProtocolAssumption`, `ModuleAssumption`,
`AttachAssumption`, `IallocAssumption`, `NameiAssumption`, `SuperAssumption`,
`GatesAssumption`, `JobAssumption`, which TLC evaluates in the runs). Each inductive
invariant below was checked by TLC on the instance of the run before it was proved.

- **LunixChrdevProofs**: `TypeCorrect`, `SemaphoreCorrect`, `SnapshotCorrect`,
  `WakeupCorrect`, `FreshnessCorrect` for any number of threads, files, updates
  and any sharing. The inductive invariant `IInv` adds to the type invariant:
  `SpinInv` (the spinlock is held exactly inside the update, without which
  `Regrab` could meet a half-written measurement), `SemInv` (a first-order form of
  `SemaphoreInv`), `OpenInv` (a file is not released, and so not re-initialised,
  under a thread), `TimeInv` (time stamps only grow from cache to sensor to clock;
  a thread that has decided to refresh still has an older stamp in the cache),
  `StampInv` (each stamp is that of the update beside it) and `NoLostWakeup`
  itself, which needs `TimeInv`: a refresh by another thread may only make the
  sleeper's condition false, never true. `FreshnessCorrect` follows from
  `NoLostWakeup`, `TimeInv` and `StampInv`: a sleeper that nobody is about to wake
  has the newest time stamp, and what it lacks was stamped in that second.
  `FeedCorrect` is the refinement of `SensorFeed`: `StepKinds` divides the steps
  into the four that are seen from outside (the stamp of an update, an open, the
  second grab, the formatting) and those that are `Quiet`, and each of the four maps
  to a step of the feed or to none, given `NewerInv`: what a thread is about to put
  into the cache is newer than what is there.
- **LunixProtocolProofs**: `TypeCorrect` and `BoundsCorrect` for every stream,
  cut, loss and size of the packet buffer, from `TInv` (type invariant and
  `LengthInv`, which keeps the read of the payload length at `pos - 1` inside the
  packet after an overflow has reset `pos`); `InStepCorrect` and
  `NeverOverflowsCorrect` for a buffer of at least 265 bytes (9 + 255 + 1, the
  longest packet there can be; the code has 300), with `InStep` inductive
  relative to `TInv`.
- **LunixModuleProofs**: `ReadyCorrect` and `UndoneCorrect` for any number of
  sensors, measurements and loads, a failure at any step and a TTY that takes and
  leaves the discipline at any time. `IInv` says for each place of
  `lunix_module_init` and `lunix_module_cleanup` what is registered there, and that
  only the undoing of a load can meet a TTY that keeps the discipline, never an
  unload (`Registered`), which sensors are complete (`Filled`), that a load that fails
  leaves at most one sensor above those that get destroyed, and not a whole one
  (`Leftover`), and that what is lost was lost in an earlier load, from one sensor
  (`LostBefore`, `LostFew`).
- **LunixAttachProofs**: `TypeCorrect`, `OneTTYCorrect`, `LockCorrect`,
  `AttachedCorrect`, `ReleasedCorrect` for any number of helpers, lines and nested
  signals, with no assumption on when helpers start, fail or are killed, nor on which
  of them find the user uucp. For `OneTTY` the type invariant is enough. The others
  follow from `LineInv`, which says of each line whose lock was not got round: who has
  the lock is named in the file, who is about to write its pid has the file open that
  is at the path, who enters is the only one to do so and finds nobody at work, and
  who waits has its discipline (`Locked`); whoever found the user uucp has noted its
  lock (`Noted`); and unless a helper failed, what was changed was changed by a helper
  that is still there to change it back to what the first one found (`Kept`). `Held`
  says that no line keeps the discipline that no helper has open. A step of a helper
  leaves the other lines as they are (`OtherLine`); the two races are the only steps
  that make a line `loose`, which is what makes `LockCorrect` a statement about the
  code: the lock excludes but for them.
- **Ext2SuperProofs**: `UnwindCorrect`, `ErrorsCorrect`, `ValidCorrect`,
  `CleanCorrect` for any number of descriptor blocks. `Resources` says for every
  step what is held (`Inventory`, `Leaves`), which operation can be there (`Stage`),
  when `ext2_error` can run (`Reporting`) and when the buffer can be dirty
  (`Waiting`); `UnwindExact` is read off at the labels. On top of it stand three
  invariants, each inductive relative to `Resources`. `ErrorInv`: an error that was
  recorded is also in the buffer and in `s_mount_state`, from which sync, remount
  and unmount write it again. `SyncInv`: the bit in the buffer, too, means that all
  is written; a file system that serves writers is valid neither in the buffer nor
  on the disk; and where the bit is set again (`put_state`, the remount to
  read-only) nothing has been touched since the data were written, because writers
  are out by then, unless the write-back of the data failed. `CleanInv`: as long as
  nothing calls for a check, `s_mount_state` is valid wherever it will be written
  back, and a file system that is mounted read-only is valid on the disk.
- **Ext2NameiProofs**: `TypeCorrect`, `AllocationApart`, `NamesLinked`,
  `LinksCorrect`, `NothingLeaks`, `CountsCorrect`, all five invariants of the run
  `Namei`, for any finite set of processes, any names, groups and inodes, and a
  failure wherever the code tests for one. The first five have to be proved
  together, because an inode is freed when its link count says so, and a link count
  is right only as long as no freed inode is still in somebody's hands. `IInv` has
  three parts. `Shape` says who may touch what: an inode that is being made or taken
  apart belongs to one process (`Single`), nothing leads to it, no file and no other
  call has it (`Privacy`), and its bit, its place in the inode cache and its count
  are what the step of its owner says (`Owned`); an inode that is not hashed is used
  by nobody (`Gone`), and a bit is set for a reserved, a hashed, a leaked or an
  owned inode (`Sets`); each call under way holds the locks of what it relies on and
  finds it as it left it (`MakingInv`, `LinkingInv`, `RemovingInv`, `MoveLocks` to
  `MoveDirs`); every entry leads to a hashed inode, a directory has one entry and it
  is where its ".." leads, but for the step of a rename in between (`Entries`,
  `OneEntry`, `Tree`, `Rooted`). `Counts` says that the link count of an inode
  nobody owns is the number of its links and what calls still owe it: a link that is
  counted and not yet entered, or no longer (`Plus`), a second entry that a rename
  has not counted (`Doubles`), a ".." that is counted and not there (`Dot`). The
  locks see to it that each of the three is owed by one call at most (`OweApart`),
  so that each step changes count, links and debt by the same (`CountsStep`). A
  directory that is removed with names in it takes them along (`NamesBuried`,
  `Buried`): the links it loses are those `vanished` gains, so that the counts stay
  right (`CountsBuried`), and the count of a directory that nobody can name any more
  stands for the directories that were in it. `Kept` says that a count of zero is
  found by the process that deletes the inode. Each of the 27 actions has a lemma
  that it keeps `IInv`; the steps of the allocator that take no inode and give none
  back share one (`QuietKeeps`). `CountsCorrect` rests on a second layer, `CInv`:
  `Balanced` has the counters as functions of the bitmap and of the processes
  between a bit and its counts, which `BalancedCounts` shows to be what
  `CountsExact` says, and `GroupKept` that a process counts an inode in the group it
  took it from. Every action changes the bits of one inode and the step of one
  process, so that all sums change by the share of those two (`DueMoves`), and the
  16-bit counts follow modulo `U16` (`Add16Adds`). The processes are finitely many
  (`IallocAssumption`): the counters are compared with how many of them are at a
  step.
- **GatesProofs**: `OrphansCorrect` and `TogglesCorrect` for any number of gates,
  pids and signals. `IInv` adds to the types what the parent has done where it stands
  (`Phases`, `Fresh`), that it can name every child and that no child is named only
  by the place it is about to overwrite (`Known`), that after its handler nobody
  lives who was not told (`Told`), that a child that is past `signal_handling`
  has its own handlers (`OwnHandlers`), without which a signal could still be
  handled the parent's way, and that among the activations of `handle_sigusr1` of
  a child whose `cut` is not set one at most has tested the gate, and will turn it
  (`Steady`): with any number of activations inside each other, each of them turns
  the gate once (`TogglesCounted` counts them modulo two).
- **JobServerProofs**: `TypeCorrect` and `NoDeadlockCorrect` for any number of
  children and lines and any size of the pipes from two. `NoDeadlock` alone is not
  inductive. `IInv` adds `ForkInv` (children are forked in their order),
  `TurnInv` (a turn that still has a job to read or to send has not begun to
  drain), `PendingInv` (the jobs pending are those on their way) and
  `InFlightBound`: when the parent sends to a child, at most `PipeCap + 2` jobs of
  that child are on their way, because a turn of the loop that sends a job also
  drains one answer of every child that had one when `select` looked; a deadlock
  takes `2 * PipeCap + 1`. For pipes of one number the theorem is false, and TLC
  finds the deadlock; a Linux pipe holds 16384. `AnswersCorrect` follows the jobs
  themselves: `Order` gives each pending job its place, by index, in the pipe back,
  in the child's hands or in the pipe to it, every step of the parent and of a child
  moves one job by one place, and `OrderMeans` shows this to be the concatenation
  of the three that `AnswersInOrder` speaks of.

Only model-checked: the liveness properties and fairness (out of the prover's
reach); `UpdatesAreTheReadings` (its reference decoder is recursive over data);
the properties of `Ext2Dir` and its refinement `ImplementsNameMap` (the walk by
`rec_len` is an induction over the records); those of `Ext2Balloc`, of which
`CountsExact` adds up the blocks of all files and of all runs that are being freed
(a fold over a set, of which nothing can be proved by induction), and `NoSharedBlock` and `NoBlockLost` (see section 7).

## 5. What the models show about the code

Shown by the violation run:

1. `ProtocolMerged`: bytes behind the end byte of a packet in the same buffer are
   dropped, and with them the next packet (`lunix-protocol.c:255`).

In the models, each at the line and, where a property names it as an exception, in
the list below:

2. A load that fails while a TTY has the discipline leaves it registered, and frees
   the sensors it writes to: `lunix_ldisc_destroy` ignores -EBUSY
   (`lunix-ldisc.c:142`; "undo everything we've done", `lunix-module.c:73-76`).
3. A load that runs out of memory loses the pages of the sensor it was at
   (`lunix-module.c:81`).
4. Two helpers that start together both get the lock: `creat` without O_EXCL
   (`lunix-attach.c:124`; "make sure at least there's no active process that owns that
   lock", 89-91).
5. A block number is taken for a bit number, so that every group but the first counts
   as full and -ENOSPC comes with blocks left (`balloc.c:320`; "Finds the first free
   block in bitmap_bh", 301; "No space left on the device", 421).
6. The number of free blocks is cut to 16 bits; at a multiple of 65536 there seem to be
   none (`balloc.c:366`; "check if there are free blocks available in the whole fs",
   364).
7. `num` is read before it has a value; with 1 in it the block before the first free one
   is handed out, without a bit being set (`balloc.c:317`).
8. A directory with a page that cannot be read is removed with the names in it
   (`dir.c:567`; "check that the specified directory is empty", 553).

No property says anything of 5 and 6: what the comments promise about -ENOSPC does not
hold, and a statement weak enough to hold would not notice either.

Properties that say exactly how far the code goes, where it does not go as far as
its comments:

- `MissesOnlySameSecond`. Two updates in one second have the same time stamp
  (`lunix-sensors.c:87`), and the freshness test compares stamps
  (`lunix-chrdev.c:56`): a reader that has the first one sleeps on with the second
  in the sensor. Nothing else is ever missed.
- `LiveOnlyWhenReady`, `UndoneButPages`. The two exceptions are 2 and 3: a discipline that a TTY kept busy while a load was undone, never
  while the module is unloaded; and pages of one sensor per failed load.
- `LockExclusive`, `AttachedWhilePaused`, `LineReleased`. There are two ways round the
  lock. Test and `creat` of the lock file are separate steps, so that another helper
  may come between them; and a second signal inside `sig_catch` closes the line anew
  after the lock was given up, and unlinks the lock file of whoever has it by then.
  Without either two helpers never work on a line. A helper that does not find the
  user uucp leaves its lock file, because `tty_lock` returns before it notes that it
  holds the lock (`lunix-attach.c:143`).
- `NoDangling`, `LinksExact`, `NoLeak` hold with directories removed around names (8): no lookup meets a deleted inode, also of a process that is in a
  directory below; link counts are too high by exactly the names that went
  (`vanished`); and what is lost are the inodes that had those names, and a directory
  as long as there are directories that were in it.
- `NoBlockLost`. A bitmap that cannot be read ends `ext2_free_blocks` after the map of
  the file has been cleared (`balloc.c:259`); the blocks of that run stay marked
  (`given_up`), and no others.
- `ValidMeansSynced`, `ErrorRecorded`. The history variable `excused` names the
  cases where the disk is not told. The super block could not be written, and
  `ext2_sync_super` does not look at the result of `sync_dirty_buffer`
  (`super.c:258`); the data could not be written, and `ext2_remount` and the VFS's
  unmount do not look at that of `sync_filesystem` (`super.c:403`); a remount to
  read-write did not write the super block. The last happens
  for a file system of too high a revision, and when `ext2_error` sets `SB_RDONLY`
  between lines 438 and 264: `ext2_write_super` then does nothing, the VFS makes
  the mount writable all the same, and the disk goes on saying "valid" ("forcing
  read-only mode", `super.c:156`, is not kept). Writers through another mount of
  the same super block can also change it between the clearing of the flag (438)
  and the write (441). The test of `sb_rdonly` in `ext2_error` (line 31) is
  outside of `s_lock`. An error that is met while an unmount writes inodes is not in
  the model: `Umount` waits until `ext2_error` is through.
- `NoOrphans`. A SIGTERM that reaches the parent between `fork` and the store of
  the pid (`parent.c:132`), or before the handlers are installed (118), leaves
  children behind; no other does.
- `TogglesCounted` speaks of a child for as long as it lives: `sa_flags` and
  `sa_mask` are not initialised, so that a handler may serve once only (`spent`) and
  the second SIGUSR1 end the child. A toggle is lost where SIGALRM, whose handler
  never returns, interrupts an activation of `handle_sigusr1`, and two may count as
  one where a second SIGUSR1 comes between test and assignment of the first
  (`child.c:21-34`, `46-60`); `cut` names these two, and no other interleaving loses
  one.
- `JobsAnswered` excludes the end of the input, after which `select` always
  finds the terminal readable and the loop never reads an answer again
  (`project3.c:191`). Lines are finitely many: a stream of lines without a number that
  never ends would skip the answers for ever, too.

Where a passing run restricts the environment, the property does not hold beyond
it (hazards in `PROJECT.json` say so at the line):

- `NoSharedBlock` is checked for a build in which `num` of `ext2_allocate_in_bg`
  begins as 0 (`JunkNum`); with 1 among the values TLC finds 7.
- `ProtocolCut` sends complete data packets: a shorter one with the signature of
  a data packet is read up to offset 23 all the same, into bytes of its
  predecessor.

Seen while modelling, without a property:

- With a shared file, the offset the system call has copied may lie past a text
  that another thread has replaced by a shorter one; the unsigned count then wraps
  and the read fails with -EFAULT (`PastEnd`, `CopyFault`).
- `lunix_chrdev_read` copies from the start of the text whatever the offset: a read
  in pieces gets the first bytes again (`lunix-chrdev.c:302`). The model has the
  offsets and counts, not the bytes.
- Closing the discipline wakes nobody (`lunix-ldisc.c:57` asks whether it should):
  readers then sleep until the line is back or a signal comes, which is why
  `SleeperServed` speaks of sleepers with something to read.
- A synchronous directory (`IS_DIRSYNC`, `dir.c:58`) whose page cannot be written
  makes `ext2_add_link` return an error with the entry in place; `ext2_link` and
  `ext2_add_nondir` then take the link back. `LinksExact` and `NoDangling` are
  shown for directories that are not synchronous.
- Project 2: a child that has not become `./child` yet forwards signals with the
  parent's handlers to the children it knows of; SIGUSR1 or SIGUSR2 before its
  first alarm ends it (by default, or because the `pause` of `main` returns); a
  stopped child told to end stays when the parent is gone.
- Project 3: a line that is neither a number nor "exit" skips the draining of
  that turn; a failing `fork` leaves the children made before it; `digits = 0`
  passes the check and divides by zero; more than 50 children overrun
  `pid_array`; several lines in one read are one job.
- Exam sketches: K23 sleeps with the spinlock held that its interrupt handler
  needs (`driverK23.c:101`), K24 tests for an overrun of its ring and copies
  afterwards (`driverK24.c:90`).

## 6. Not modelled, and why

Components:

- Exam drivers: fragments that do not compile (undeclared names, types that do
  not fit), so there is no program whose steps could be translated.
- Project 4: the client (`tcp_client.c`) pairs requests and answers by `flag`, which a
  second command overwrites before the answer to the first has come. The server beside
  it (`tcp_server.c`) reads no request: when its one client has sent anything it sends
  one fixed text, whatever was asked, and closes its listening socket. How requests and
  answers pair up would depend on the server the client connects to by default
  (`tcp_client.c:14`), which is not in the repository.
- Projects 1 and the examples: sequential I/O, or demonstrations.
- `lunix-lookup.h` and its generator: a table, and floating-point arithmetic.
- `lunix-chrdev2.c`: an earlier version with the bodies still missing.
- Reading and writing an inode (`ext2_iget`, `__ext2_write_inode`) and changing
  attributes in `inode.c`: field-by-field copies under the inode's lock.

Details:

- Which of the three measurements a minor number selects, and minors beyond
  them: one measurement stands for all, they share lock, queue and time.
- Memory exhaustion in `lunix_chrdev_open` (the result of `kzalloc` is used
  unchecked, so there is no error path to model).
- Formatting digit by digit: the length of the text is what the offsets depend on.
- Baud rates and parity flags of `lunix-attach`: the mode of a line is raw or
  not, hung up or not.
- Options that only print; the debug output.
- Indirect blocks: ext2-lite has direct blocks only.
- The file type in directory entries: ext2-lite always writes 0.
- In `Ext2Dir` a call that fails before it has changed the directory is no step.
- In `Ext2Ialloc` the exits for an inode number outside of the limits and for a
  missing descriptor: they need a corrupt disk. The limit of 32000 links is
  checked by the VFS.
- The check of a bitmap fresh from disk (`read_block_bitmap`): it may fail, which
  is an alternative of `SearchGroup` and `ext2_free_blocks`.
- In `Ext2Super` what each test of the geometry looks at (a test that may fail),
  the allocation of inode objects, the printing of options, and an fsck of a file
  system that is mounted read-write.
- In `Gates` a failing `execv` and the argument vector that is not terminated; in
  `JobServer` reads and writes that fail.

## 7. What is left

1. `NoSharedBlock` and `NoBlockLost` of `Ext2Balloc` for a build in which `num` starts as 0, by the
   argument of `Ext2NameiProofs` about bits and owners, without counts of links.
2. That the offset of a file that is not shared stays in its text (`LunixChrdev`).

## 8. Running

    tlc -workers 2 -config ChrdevShared.cfg MCLunixChrdev
    tlapm LunixChrdevProofs.tla

The longest runs, `Namei`, `BallocShared` and `Jobs`, take a few minutes each;
the proofs of `Ext2NameiProofs` about ten minutes, all others a minute or two.
