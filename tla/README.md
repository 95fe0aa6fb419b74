# The Ninth Edition kernel in TLA+

Models, checks and proofs for the kernel in `src/v9/sys` (Research UNIX, Ninth
Edition, Sun-3). The user programs (`cmd`, `libc`, `jerq`, `X11`, ...) are
sequential programs outside the kernel and are not modelled; `*.old` directories
are superseded sources. Paths below are relative to `src/v9/sys`.

Run a check inside this directory: `tlc -config BufferCache_safety.cfg MCBufferCache`;
check the proofs: `tlapm BufferCache_proofs.tla`, and likewise the other modules of section 14.

## 1. The kernel's parts

How it runs: one CPU. A process inside the kernel is never preempted; it gives
the CPU up only by sleeping (`sleep`, `tsleep`, a page fault in `iomove`).
Interrupts run between any two instructions unless `spl6()` holds them off. So
the races are of two kinds: *process against process*, at the places where the
code sleeps and then goes on with what it read before, and *process against
interrupt*, at the places where the priority drops. Both kinds of place are
easy to miss in the source and nearly impossible to hit in a test.

| Part | State | Operations | Interacts with | What is hard | What makes it correct |
|---|---|---|---|---|---|
| Block buffer cache, `dev/bio.c` | buffer headers (device, block, flag word), free lists LOCKED, LRU, AGE, EMPTY, `bfreelist[0].b_flags` | getblk, geteblk, bread, breada, bwrite, bdwrite, bawrite, brelse, iowait, iodone, bflush, binval | file system (calls), disk (strategy, interrupt `iodone`), sleep and wakeup | process/process and process/interrupt races, failing transfers, buffers running out | one buffer per block, each buffer in one place, no lost wakeup, no lost write |
| File system calls on the cache, `sys/fs.c` fsread, fswrite | one block at a time | read, write (part, whole, cleared directory entry) | cache, user memory (faults) | a copy that fails halfway | a synchronous write is on the disk before the caller goes on |
| update and closef, `sys/alloc.c`, `sys/fio.c` | - | bflush of everything; bflush and binval of a device | cache | skips busy buffers, waits for nothing | the disk catches up |
| Mounting, `sys/fs.c` fson, fsoff, fsfupdat | mount table with a pointer to the super block's buffer | mount, umount, update of super blocks | cache, inode table | a pointer kept over sleeps; failure paths; order of flush and inode write | the pointer stays good; no panic; nothing is left behind |
| Stream queues, `dev/stream.c` | queue of blocks, QFULL, QWANTW, QENAB, run list | getq, putq, putbq, flushq, qenable, queuerun | stream head, line disciplines, software interrupt | flow control between sleeping writers and service procedures | no writer is forgotten, order of blocks |
| Stream head and pipes, `sys/streamio.c`, `sys/pipe.c` | `stdata`: flag (RSLEEP, WSLEEP, HUNGUP, WNBLK), count | stread, stwrite, stioctl, strput, stwsrv, stenter, stexit, stclose, sndfile, urcvfile | queues, processes, signals | `iomove` sleeps with a block in hand; hangup during a call | bytes once and in order, records kept, hangup reaches everyone, count exact |
| Stream ioctl protocol, `sys/streamio.c` 555-829 | IOCWAIT, `iocblk` | ioctl message, acknowledgment, timeout | modules downstream | a late answer after a timeout | an answer belongs to its question |
| Sleep, wakeup, signals, clock, `sys/slp.c`, `sys/sig.c`, `sys/clock.c` | `slpque`, p_stat, p_wchan, p_sig, p_cursig, p_tsleep, p_clktim | sleep, tsleep, wakeup, setrun, psignal, issig, psig, stop, ssig, alarm, softclock; wait and exit, which sleep and signal | everything | timeout, wakeup, stop, continue and kill in any order, also before the process woken has run | no lost wakeup, SIGKILL is sure, a stop does not kill, no panic |
| Inode table, `sys/iget.c` | in-core inodes, ILOCK, IWANT, i_count, free list | iget, iput, plock, prele | file system, mount | iget sleeps and starts over | one inode per file, counts exact |
| Allocation, `sys/alloc.c` | super block's free lists, s_flock, s_ilock | alloc, free, ialloc, ifree | cache, inode table | a lock given up in the middle | nothing allocated twice, no number that is in use |
| Text table, `sys/text.c` | text slots with XLOCK, XWANT, counts; ITEXT of inodes | xalloc, xfree, xlock, xwait, xccdec, xrele, xumount, vmxdup | exec, fork, exit, open, umount, swapper, page daemon | everybody sleeps for a slot that may be another's when he wakes | counts exact, one text per file, no busy text open for writing |
| Resource maps and swap space, `sys/rmap.c`, `sys/vmdrum.c`, `dev/sw.c` | sorted segments; the disk maps of processes and texts | rmalloc, rmfree; swpexpand, vsexpand, vsxalloc, vsxfree, vrelvm, swfree | process and text management | full map, stripes, an allocation of many pieces that fails midway | every block is free, lost or held once |
| Disk queue, `dev/dsort.c`, `sundev/sd.c`, `sundev/sc.c` | requests of a disk, disks of a controller | disksort, strategy, start, done | cache | a sort key changed under the queue; a disk not requeued | nobody waits while the controller idles |
| Processes, paging, drivers, networks, ms/netb | see PROJECT.json | | | | not in the plan, or late in it |

PROJECT.json lists every component with its status, and under `hazards` every
place of the above where the code is exposed, with its line and the property
that watches it.

## 2. Plan

In order, the most important behaviour first; what is on disk is marked *done*.

1. `BlockStore`, `BufferCache`, `MCBufferCache` - *done*; every invariant of the cache and the
   refinement `CacheIsBlockStore` *proved*: `BufferCache_proofs`, `BufferCache_refines`.
2. `Mount` (composes `BufferCache` with the mount table) - *done*. To prove:
   `SuperStaysPut`, from an extension of the cache's invariant.
3. `StreamQueue`, `StreamPipe`, `BytePipe`, `MCStreamPipe` - *done*; every invariant of the pipe *proved*:
   `StreamPipe_proofs`. The fold of `PipeIsFifo` and the liveness properties stay with TLC.
4. `Sleep` (section 6) and `StreamIoctl` (section 7) - *done*; all their invariants *proved*:
   `Sleep_proofs`, `StreamIoctl_proofs`.
5. `InodeTable` (section 8), with ialloc and ifree over iget and iput - *done*; `OneInode`,
   `CountAccounts` and `WaitersWillWake` *proved*: `InodeTable_proofs`. To prove: `NewIsNobodys`.
6. `ResourceMap`, `SwapSpace` and `DiskQueue` (sections 9 and 10) - *done*; `DiskQueue`'s invariants
   *proved*: `DiskQueue_proofs`.
7. `TextTable` (section 11) - *done*; `TextAccounts` and `BusyTextNotWritten` *proved*: `TextTable_proofs`.
8. Left to model, in this order: alloc and free of blocks (s_flock is held over bread, as
   s_ilock is not), the lock order of `sys/ms.c`, the block pools of allocb, TCP's connection states.

No module declares RECURSIVE operators: sizes are folds or cardinalities, loops are folds or recursive functions.
`MCKernel` puts the modules that do not interact into one run (section 12).

## 3. The buffer cache

### `BufferCache.tla` and the code

* `b_blk`, `b_flags`, `av`, `data` are the headers and the memory; `av` says which free
  list the header is on. `flwanted` is B_WANTED of `bfreelist[0]`. `active` and `ahead`
  are what the driver has been given; `disk` is what is on the medium.
* `pc`, `call`, `stage`, `bp`, `kept`, `uerror`, `wchan` are a process's place and locals
  (`kept` is breada's `bp` while it looks for the second buffer). `cur` is the
  process that has the CPU in the kernel: others wait until it sleeps or returns.
* `GetblkHit`, `GetblkBusy`, `GetblkClaim`, `GetblkSleep`, `GetblkVictim`, `VictimTail`,
  `GetblkAssign` are getblk; the split between `GetblkHit` and `GetblkClaim` is the spl0
  window of `dev/bio.c:341-345`. `geteblk` is `GetblkAssign` without a block.
* `BreadCached` ... `IowaitDone` are bread and breada; `FsreadDone` and the `Fswrite...`
  actions are the ways fsread and fswrite end (bdwrite, bwrite, bawrite, failed copy).
* `BflushOne`, `BflushDone` are bflush and binval, which run at spl6 (no interrupt).
* `Iodone` is the disk interrupt, with or without an error.
* `Strategy` gives a buffer to the driver. `Firsts` says which of the requests for the same block it
  finds there (`Queued`) stay ahead of it: all of them if the disk is alone on its controller (`Lone`), as
  `DiskQueue` shows (section 10); otherwise any that disksort's two lists may leave ahead, and more, since
  requests for other blocks and how busy the disks are is left open.

Abstracted: which buffer of a free list is the oldest (any may be), hash chains,
contents (one value per block), order of transfers of different blocks, accounting.
The inode writes of `update` appear as partial writes of other calls. Tapes,
`b_resid`, swap and `physio` are left out.

`BlockStore.tla` is the promise: a block is a word with at most one holder, and only
the holder changes it. `CacheIsBlockStore` is the refinement: what a block contains is
the memory of its valid buffer, else the last write the driver has, else the disk.

### Runs

| Run | Question | Bounds |
|---|---|---|
| `cache_safety` | No interleaving of two callers and the interrupt, with failing transfers and copies, leaks or duplicates a buffer, loses a wakeup, completes a transfer twice, or calls a synchronous write done too early | 2 processes, 2 buffers, 2 blocks, 2 values |
| `cache_store` | Without failing transfers, on a disk alone on its controller (`Lone = {d1}`), the cache implements `BlockStore`, and the disk catches up with the cache once the writers stop. A failed write does lose data (brelse dissociates the buffer), by design of the code, so errors are off | two writers with 2 calls each, update daemon without bound, 2 buffers, 2 blocks, 2 values |
| `cache_live` | Every call returns | 2 processes, 3 buffers, 2 calls each |
| `cache_race` (violated) | getblk returns the buffer of the block it was asked for | 2 processes, 3 buffers, failing reads |

With a second disk on the controller (`Lone = {}`) the calls of `cache_store` leave a clean buffer that the disk does not
agree with (`CleanIsOnDisk`, `BufferCache_overtaken.cfg`, section 13).

Two processes are what any race here needs (a sleeper and one that changes the
buffer under it, with the interrupt as a third actor; the update daemon is one more); two buffers for two blocks and a
read-ahead make every getblk wait, evict and find a delayed write. `cache_live` has
one buffer more than processes, because with as many buffers as processes breada
(holding one buffer, asking for another) really can hang them: that hazard is listed.
`CHECK_DEADLOCK FALSE` where the system may stop: two breadas holding both buffers,
and processes whose calls are counted out.

### Fairness

`SF Proceed(p)`: the scheduler returns to a process that is runnable again and
again; strong, because being able to step also needs the CPU that others take in
between. `SF Interrupt(b)`: the disk finishes every transfer and a held-off
interrupt stays pending. `WF` of starting calls only for the update daemon, which is a
loop in user mode. No other process is obliged to make calls.

## 4. Mounting

`Mount.tla` extends the cache. `m_bufp[d]` is the buffer pointer of the mount table
entry, `stillopen` fsoff's count of openers, taken before it sleeps. The calls mount,
super (fsfupdat) and umount use getblk, bread, bwrite and brelse of the cache and add the
steps between. `Others` says which calls the locks of the mount table and the root inode
keep apart. Entries are one per device; names and in-core inodes are left out.

Part "mount" of `kernel_parts`, with failing transfers: the pointer stays good
and the panics in fsfupdat and fsoff cannot happen (`SuperStaysPut`, with `NoMountPanic` as a part), no error
path leaks or duplicates a buffer (`InOnePlace`). Two buffers suffice: one is kept by the
mount, so that everything else competes for the other. `mount_umount` is a violation below.

## 5. Pipes

`StreamQueue.tla` is `dev/stream.c` on one queue, as operators: `Getq`, `Putq`, `Putbq`,
`Flushq` return the queue, and `GetqEnables`, `FlushqEnables` say whether the writer's
service procedure is enabled. Blocks are data, delimiters and passed files; their weight is
`bsize` of their class. `Count`, which the code keeps in `q->count` block by block, is computed from
the numbers of delimiters and of other blocks, so that it can be reasoned about without induction.

`StreamPipe.tla` is the two stream heads of a pipe and the processes. `queue[e]` is the read
queue of end e and the target of the other end's writes; `sflag`, `count` are its `stdata`;
`linked` goes FALSE when an end is closed and the other is sealed with the black hole;
`enabled` is queuerun's list. `hand[p]` is the block that a reader took before `iomove`.
`Stenter`, `Stexit`, `Strput`, `Stclose`, `Stwsrv` are the functions of these names; the
actions `Read...` and `Write...` are the branches of the loops of stread and stwrite;
`Flush`, `Wnblk`, `SendFile`, `ReceiveFile`, `IoctlError` are stioctl; `Signal` is tsleep's
TS_SIG. The software interrupt runs before the next step of any process (`Running`).
`sent`, `starts`, `seen` are history for the properties.

`BytePipe.tla` is the promise: bytes wait in order; a read fetches from the front and puts
back what it does not want; flush and close discard what waits.

| Run | Question | Bounds |
|---|---|---|
| `pipe_records` | With blocking and nonblocking writes, passed files and reads of 1 and 4 bytes: a read never crosses a record boundary, the queue stays near its limit, no sleeper is forgotten | 6 bytes, blocks of 2, limits 4 and 2 |
| `pipe_live` | With flushes, signals, failing copies and closes at any time: bytes in order and once (`PipeIsFifo`), count exact, every write returns while the other end reads or closes, a hangup ends every call | 6 bytes, 3 processes |
| `pipe_passleak` (violated) | stdata.count is the number of processes inside | 2 bytes |

A full queue is two data blocks (512 and 64-byte blocks in the code), the low mark one:
every passage of both marks happens with three blocks. Six bytes are three full blocks or
two records of three bytes, whose second block is half full, so that the next record could
be merged wrongly. `MaxCount` bounds the count that the leaked reads of `pipe_records`
would raise for ever; `MaxBytes` bounds the bytes written. `RecordsKept` is claimed without
flushes (they take delimiters away) and for writes that run to their end; `ReadersWillWake`
and `PipeIsFifo` for one reader at each end. `CHECK_DEADLOCK FALSE`: processes may stop.

Fairness: strong for steps inside a call, as above; weak for the software interrupt; strong
for the calls of the processes in `Eager`. The last is not the kernel's but an assumption of
`WritesReturn` on the users: a blocked write returns *if* those at the other end go on
reading, or close. `HangupHeard` concerns ends that nobody has open, and needs none of it.

Left out: select, line disciplines on a pipe, process group signals, opening by name,
`allocb`'s pools, blocks of 1024 bytes, ioctl messages (section 7).

## 6. Sleep, wakeup and signals

`Sleep.tla`: `proc[p]` is the struct proc as far as `slp.c`, `sig.c` and the clock look at it.
`siga` is the pair of bits in p_siga that psignal tests, `usig` is u_signal, which issig and psig
test: the two are not always the same (psig resets a handler only in u_signal), so both are
kept. `at` is the place in the code. `slpque` is the set of processes with a `wchan`.

* `FallAsleep` is sleep up to swtch, `WakeUp` sleep from swtch on, `Interrupted` the longjmp that
  tsleep turns into TS_SIG, `Returned` the other way out, with `stimo` for TS_TIME.
* `Psignal` has the branches of psignal by the state of the receiver; `Issig`, `Psig`, `Setrun`,
  `Unsleep`, `Exit` are the functions of these names; `TellParent` is what stop and exit do,
  `Orphans` what exit (through spgrp) does to the children.
* Processes make the calls `Await` (sleep for an event, with a timeout or not, interruptible or not),
  `Wait` (wait1, whose scan and sleep are two steps, as it is at spl0 in between), `Drain` (the loop
  of stclose), `Ssig` and `Alarm`. `Signal` comes from a process or the terminal, `Happens` is an event
  with its wakeup.
* softclock is a loop (`clock`: the entries left, `pp`, the p_stat it read, the place). `Softclock` begins it,
  `ClockLook` reads p_stat (`sys/clock.c:328`), `ClockAlarm` runs down p_clktim, `ClockTsleep` runs down p_tsleep at
  spl6. Interrupts - `Happens`, a signal from the terminal - come between any two of these steps, processes
  run when the loop is over. Entries without a clock running are not in the loop.

A step is what runs between two points where the process gives up the CPU; what runs at spl6
is not interrupted. Part "sleep" of `kernel_parts`: p2 awaits an event, sets its alarm clock and
is stopped, continued and killed by others; its parent p1 waits for it, handles SIGCHLD (with a handler that holds the signal, DEFER) or leaves
it at its default, and drains a stream; one channel serves both, so that an event wakes whoever of them sleeps for it. Kill, continue, stop with its default action, child and alarm
signals occur, and a second is long: one suffices for a timeout to race with everything else
(`MaxSecs = 1`). A panic stops the model; p1, which drains, can meet setrun's.

* `NoLostWakeup`: nobody is asleep for what has happened, however stopped, continued or timed out.
* `NoSleepPanic`: the panics of wakeup and psig are not reached, and that of setrun only by a process that makes
  timed sleeps (`TimedSleeper`): softclock may set it running at the end of one although an alarm, or an interrupt between
  `ClockLook` and `ClockTsleep`, has done so. That nobody does that is `SetrunSafe`, violated in `sleep_panic`.
* `KillIsSure`: a SIGKILL stays pending or in p_cursig until the process ends, and wakes whom it
  may. Processes that drain a stream are excluded: stclose ignores tsleep's verdict
  (`streamio.c:183`), and the next issig overwrites p_cursig.
* `StopsDontKill`: stop leaves its signal in p_cursig, where the end of a trap takes a signal to act
  on, yet no process dies of it, unless it makes timed sleeps and the terminal may stop it: between the same two
  steps SIGTSTP stops it and softclock sets it running again. Without this exception it is `StopsOnlyStop`, violated
  with `Sleep_stopped.cfg`. Orphans are excluded because the code fails there: a child stopped
  asleep, continued, sent another stop signal before it has run, whose parent then exits, loses
  the pending signal (`sys4.c:676`), goes straight back to the trap and ends by the old one.
* `WaitHears`: a child that stops between wait1's scan and its sleep wakes nobody; the parent
  hears of it through SIGCHLD. It is claimed only for a parent that handles SIGCHLD and is sent no stop
  signal. One that does not handle SIGCHLD does sleep on. So does one that issig stops on its way into
  the sleep: a SIGCHLD that arrives then only stays pending, and SIGCONT finds p_wchan set and makes it
  a sleeper again (`sys/sig.c:203-206`), without another look at the signals.

`sleep_panic` and `Sleep_stopped.cfg`: p2 makes timed sleeps and has an alarm clock, p1 is its parent. TLC's shortest
trace to the panic has no alarm in it: a wakeup at interrupt level between the two steps suffices.

The constants satisfy `SleepConstants`: no channel is 0, and a process sets signals to actions.

## 7. The ioctl protocol

`StreamIoctl.tla` is stioctl after its test of HUNGUP, with `Strput...` for what comes from below. The
requests carry numbers that the code does not have, to say whose answer is whose. `Answer` and
`AskPatience` are the driver or server below, at any time. All sleep on one channel (`onstq`);
a sleeper may leave by a signal or its timeout even when woken and not yet run.

`AnswerIsOwn`: IOCWAIT is on exactly when one process waits (`OneRequest`), and the answer taken is to
the process's own request or to one that was unanswered when its own was sent: nothing in an answer
tells a late one from a new one, so this is what the code can promise. `NobodyStranded`: whoever
sleeps has something to come. Its third case, `gaveup`, is what the code does not do: the process
that gives up clears IOCWAIT without a wakeup (`streamio.c:794`), and those that wait for their turn
sleep on until the next wakeup of the stream.

An M_IOCACK stands for the M_IOCNAK too: they differ only in the result of the call.

Three requests (`MaxRequests`): one given up, one that takes the late answer, one that finds what
the second left. One M_IOCWAIT (`MaxPatience`) suffices to take a timeout away. Two processes.

## 8. In-core inodes and inode numbers

`InodeTable.tla`: `inode`, `ifreel` are the table, `dinode` the i-list on the disk, `named` the directories'
entries, `s_inode`, `s_ilock` those of the super block. `user[p]` is a process: `pc` its place, `refs` and
`locks` what it holds, `asleep` its channel. `running` is the process that has the CPU: it gives it up
where the code may sleep (`MaySleep`), does sleep (`Sleeps`), or is back in user mode (`InUserMode`). The actions have the names of the
functions: `Iget` with `IgetHit`, `IgetMiss` and `IgetWake`, `Fsget`, `Iput` with `TFree` (fsfree, ifree) and
`TPut` (fsput), `Plock`, `Prele`, `Ialloc`, `Iloop`, `Fill`, `Ialloced`, `Iupdat`, `Update`. The calls are lookup
and use, open and close, unlink, creat, and update.

Part "inode" of `kernel_parts`: four slots, of which two are directories that stay, so that two
files and the inode being created compete for two slots; two numbers in one block of the i-list and a
cache of one free number (`InoCache`), so that ialloc refills again and again. p1 removes from one
directory and creates in the other, p2 creates in the first, looks its file up and runs update: the last reference to a removed
file may be p2's, and its number be freed while p1 allocates one. One failed transfer
of an inode (`ioerror`) is allowed; after it only the calls under way go on. `ReadFails` names the routines whose bread may
fail: fsget, which gives no inode then, and fsiupdat, which returns without a word (`FsiupdatFails`) and leaves the disk as it was, and the inode
changed if it stays in core. fsiupdat may sleep in bread: its callers `TPut`, `Iupdat` and `Updated` begin where bread returns, and
other processes run before. The flags are cleared after bread (`sys/fs.c:782`). The model stops where
`s_inode` is written beyond its end (`spoilt`). `InodeConstants`: the directories are the first slots, calls
are on them, the i-list has a block; processes and directories are finite in number, for i_count counts them.

`OneInode`: a number has one slot, so that all who use a file share its lock. `CountAccounts`:
i_count is the number of references, waiters included. `WaitersWillWake`: no sleeper is forgotten, and
they do not all wait for each other. `NewIsNobodys`: what ialloc hands out has no name and no other
reference - although s_ilock is dropped in the middle - until a transfer fails (section 13).

## 9. Resource maps and swap space

`ResourceMap.tla` has `Rmalloc` and `Rmfree` as operators on the array, with stripes of DMMAX and what a
full map discards (`lost`). `SwapSpace.tla` has `Vsexpand`, `Swpexpand`, `Vsxalloc`, `Vsxfree`, `Vrelvm`, `Swfree`
with their failure paths, and the system calls that use them. Sizes of processes are clicks and of swap
space blocks, as in the code (`ctod`, `dtoc`).

Part "swap" of `kernel_parts`: two processes and a text on 14 blocks (16 in `swap_retract`), two swap devices with
stripes of 8, the last one short, segments of up to 4 chunks that begin with 2 blocks, a map of 3 entries. So every allocation can fail
at its first or at a later piece, the map overflows, segments lie across stripe boundaries, and the second
device comes in late. `SpaceConserved` counts every block; `MapWellFormed` and `SwapBacked` (with its part
`WithinStripe`: no piece lies across two stripes) are what rmalloc, swstrategy and vstodb rely on. `swap_retract` is a violation below.

## 10. Disk queue

`DiskQueue.tla`: `actf[d]` is the queue of a disk, `mcq` the controller's queue of disks, `b_cylin` the key by
which disksort sorts, which is also b_resid and overwritten by sdstart, and `cyl` where a request
really is. `Sdstrategy` is sdstrategy with disksort and scustart, `Scdone` the end of a transfer with the start
of the next. `NoStall`: nobody waits while the controller idles. `TwoLists`: disksort's assumption about
the list, and the tail pointer, survive the overwritten key. `SameCylinderInOrder`, an action property: as long as a queue is
one list (`Ascends`), a new request overtakes none of its cylinder.

The requests are a set that is not empty (`DiskConstants`), or there would be no first one to be
done; cylinders are numbered from 1, so that the key 0 is below all of them.

Part "disk" of `kernel_parts`: two disks, four requests, three cylinders: a queue with one
request before, at and behind the one being transferred, or one in each list.

What `BufferCache` needs of the driver is that two requests for one block are served in the order in which they came; two
are queued at once only if binval invalidates a buffer while its asynchronous write is under way and the block is written
or read again, in a new buffer, before the write is done. disksort puts a request behind those with an equal key in the same
list, but it compares with the head's key, which sdstart overwrites with 0:

* A disk that has its controller to itself starts its head at once, when nothing else waits. All that waits was sorted against the
  key 0, there is one list, and no request is overtaken by one of its cylinder: proved (`AloneKeepsOrder`, section 14), and
  checked with `Disk_alone.cfg`. It is what `Lone` stands for in `BufferCache`.
* With two disks on a controller the head may wait for the other disk's transfer while others are sorted against its real key; once it is
  started, a request that waits in the second list is overtaken by a later one for the same cylinder, which goes into the first
  (`AlwaysInOrder`, violated with `Disk_overtaken.cfg`). `BufferCache_overtaken.cfg` shows what becomes of the cache: the older
  write reaches the disk last, behind a clean buffer.

## 11. Text table

`TextTable.tla`: `xtext` is the table, `xinode` ITEXT, the lock and the writers of a program's file, `xproc` where a
process (or the swapper, `sched`) is in the code, its text, whether it is linked to it (`linked`) and in core (`load`),
and what it sleeps for; `trunning` has the processor. Exec is `Exec`, `Getxfile`, the `Xfree...` actions and the
`Xalloc...` actions with `Xwait` and `Xload`; exit shares the `Xfree...`; fork is `ForkShares`, or `Vmxdup` for a traced
text. `OpenWrite` and `Umount` go through `Xrele`, whose loop is that of xumount too, and `Xuntext`. `SwapoutText`,
`TextSwapped`, `SwapinText`, `SwapinDone` are the parts of swapout and swapin that concern the text, each sleeping before the
next. `Xlock` is the sleep in xlock, wherever it is called. Waiting for the lock of an inode is a guard.

Part "text" of `kernel_parts`: two processes, one of them traced, one program, two slots (so that a traced copy, a
shared text and a full table all occur). No program is read without its inode locked, swap space may run out at every
allocation, memory at every swapping in; one page of a text is on its way out at a time.

`TextAccounts`: x_count is the number of processes that have the text, x_ccount of those in core, and a file has
one shared text. `BusyTextNotWritten`: exec skips its test for writers if the file has ITEXT, open looks only at ITEXT, and
xfree clears ITEXT only if no other slot has the file; together they keep writers away from every text in use. What sleepers may
expect (`TextWaitersWake`) and that xuntext finds a text (`NoTextPanic`) the code does not keep: section 13.
`TextTable_proofs` proves the first two for any processes, programs, calls and size of the table (section 14).

## 12. Composition

`Mount` extends `BufferCache`: mount, umount and the super block's update run against the other
callers of the cache and the disk interrupt. `SwapSpace` extends `ResourceMap`; `StreamPipe` extends
`StreamQueue` and refines `BytePipe`; `BufferCache` refines `BlockStore`; `InodeTable` composes the
table with allocation and update. Inodes, signals, ioctls, swap space, the disk queue and the text table are modelled without what they
share in the code (the processor, sleep and wakeup, and the few places where one calls the other), so `kernel_parts` runs them in one model with a choice at the start: `part`
says whose steps are taken, and the others stay as they are. `KernelTypeOK` states the
types of the part that runs. `CHECK_DEADLOCK FALSE`: processes end, a bound on requests is reached, the disk may be idle.

The runs of a disagreement (`sleep_panic`, `swap_retract`, `inode_lock`) use the same modules with one part.
Some cfg files reproduce further disagreements and are not listed as runs:
`tlc -config Disk_sweep.cfg MCKernel`, and likewise `Disk_overtaken.cfg`, `Sleep_stopped.cfg`, `Inode_last.cfg`, `Inode_numbers.cfg`, `Inode_stale.cfg`,
`Text_waiters.cfg`, `Text_panic.cfg`;
`Mount_fail.cfg` with `MCMount`, `BufferCache_overtaken.cfg` with `MCBufferCache`. `Disk_alone.cfg` with `MCKernel` is not violated: it is the
instance of `AloneKeepsOrder`.

## 13. Disagreements with the comments

1. **getblk** (`cache_race`). getblk compares device and block at spl0 and tests only
   B_BUSY after spl6. A read-ahead of that block that fails in between is released by
   iodone with b_dev = NODEV and B_DONE still set; getblk takes the buffer and returns it, no longer the
   block's, and bread, which looks at B_DONE, returns its stale or meaningless contents without a transfer or an error.
2. **fsoff** (`mount_umount`). It flushes, then `iput` writes the root inode with
   bdwrite, then binval marks that buffer invalid: the write is pending where no getblk
   finds it, and may later overwrite newer contents.
3. **stread** (`pipe_passleak`). It returns without stexit at a passed file: the stream's
   count stays too high, and stclose then refuses to shut the stream down.
4. **softclock** (`sleep_panic`). It reads p_stat below spl6 and raises the priority only before it ends a tsleep by what
   it read. If SIGALRM, sent in between, or any interrupt's wakeup or signal has set the process running, setrun of a running process panics.
5. **swpexpand** (`swap_retract`). When the second segment does not fit it retracts the first to its
   old size in blocks, where vsexpand takes clicks: the segment keeps what it should give back.
   No space is lost (`SpaceConserved`) and none is missing (`SwapBacked`).
6. **fsnami** (`inode_lock`). It unlocks the directory, calls iget, and puts the directory; iput of
   a reference that is not the last unlocks the inode whoever has it locked by now.

Not listed as runs, see section 12:

7. **fson** (`Mount_fail.cfg`). A failing mount clears B_LOCKED after brelse has put the buffer
   on the LOCKED queue; once invalid it is found by no search for a reusable buffer.
8. **disksort** (`Disk_sweep.cfg`). With the key of the request in transfer overwritten by 0, requests
   behind the arm are sorted before those ahead of it: not the one way scan `dev/dsort.c:9-14` describes.
9. **iput** (`Inode_last.cfg`). A process that waits in iget counts as a reference: the last user of
   a removed file leaves it to the waiter, which starts its search over and frees nothing.
10. **ialloc** (`Inode_numbers.cfg`). After its first refill ialloc goes on without s_ilock, and if the
    numbers are gone by then it refills unlocked, while another process refills or ifree gives numbers
    back; whether `s_inode` is full is asked only after a number has been stored: it is written beyond its end.
11. **fsget** (`Inode_stale.cfg`). An inode that cannot be read is put while i_nlink is that of the last
    file in the slot; if that file had been removed, iput frees the file that could not be read.
12. **xfree** (`Text_waiters.cfg`). The last user sleeps with the text locked (for pages on their way out, or in iput) and clears
    XLOCK without a wakeup: an exec, which has the inode locked, or an umount that fell asleep in xlock meanwhile sleeps on.
13. **xuntext** (`Text_panic.cfg`). After its sleep in xlock it takes a slot given up meanwhile, whose count is 0 and
    whose x_iptr is NULL, for an unused text, and frees its swap space again, at address 0.
14. **softclock and stop** (`Sleep_stopped.cfg`). If a SIGTSTP from the terminal stops the process between softclock's look at p_stat and
    its setrun, softclock sets it running although nobody has continued it, with p_cursig still SIGTSTP: the end of the trap hands that
    to psig, which ends a process by "the signals which by default stop a process" (`sys/sig.c:132-135`).
15. **binval** (`BufferCache_overtaken.cfg`). It leaves writes in the driver's queue, and the driver may do a later write of the block first
    (section 10): the old data ends on the disk behind a clean buffer, and no flush repairs it. "Until that happy day, this suffices
    for correctness" (`dev/bio.c:776-779`) holds only where the driver keeps the order.

## 14. Proofs

Each theorem holds for every value of the constants that satisfies the named assumptions of the
modules, which TLC evaluates in the runs. Every invariant below was checked by TLC on the run's instance
before it was proved. What a module's invariant adds to the property that the runs check is what
the property needs to be inductive.

**The buffer cache** (sections 3, 13): any processes, buffers, devices, blocks, calls and failures, from
`NoneAssumption` and `CallsAssumption` (None is nothing else; calls are well formed and breada's two blocks differ).

* `BufferCache_proofs`, `Invariant`: `IInv == TypeOK /\ PcInv /\ PlaceInv /\ UseInv`.
  `InOnePlace` does not say that a busy buffer without B_ASYNC has an owner, nor that an
  asynchronous one is with the driver. `PlaceInv` ties the flag word to the place (BUSY iff on no
  free list; BUSY and not ASYNC iff owned; ASYNC implies active; active implies BUSY and not
  DONE), `PcInv` ties `bp` and `kept` to the place in the code, `UseInv` says that breada's two
  buffers differ and that a buffer being used or released is not with the driver. Every step does
  to one buffer one of a few things - take it, release it, start it, hand it over, leave it - and
  the lemmas `Taken`, `Released`, `Started`, `HandedOver`, `Stayed`, `Held` say what each does to
  `PlaceInv`. `TypeInvariant`, `BufferInOnePlace`, `NoDuplicateIodone` follow. `OneBuffer` is
  inductive given the types: only `GetblkAssign` gives a buffer a block, in a step that has found
  no valid buffer of the block.
* `SleepersWake`: `WakeInv` says where a sleeper is in the code, and that a buffer
  slept for in iowait is its own. `SyncWritesDurable` needs three layers: `PendingInv` (a buffer awaited or
  kept has its transfer before it or behind it), `ValidInv == CallInv /\ FoundInv /\ DelayedInv` (the
  buffer in hand is still that of the block asked for, unless an error or binval took it away; a
  delayed write is complete and valid), and `DurableInv` (all other writes of the block are ahead of this one in
  the driver's queue, `OthersFirst`): two buffers of one block can be written at the same time
  only if one of them is invalid. Its hypothesis `ClosesInOrder` - block devices are closed only when their disk is alone on its
  controller - is needed, for where disksort may reorder them an older write, invalidated by a close, may follow the synchronous one
  (section 10); `ClosedInv` says that elsewhere no buffer of a block becomes invalid, and `StrategyQueues` that the driver's
  queue is then in order everywhere.
* `BufferCache_refines`, `CacheImplementsStore`: the cache implements `BlockStore`. The content of a
  block is what its delayed write holds or else what the last write in the driver's queue holds or else
  what is on the disk (`Contains`); `StoreInv` adds that clean buffers agree with it (`CleanInv`) and that the driver's queue
  is in order (`OrderInv`). Each step assigns, delays, reads, writes or only moves a buffer, and gains,
  keeps or loses its holder (`GainHolder`, `LoseHolder`, `QuietHolder`). The hypothesis `NoFailures`
  (`Errors = {}`, no faults) is needed: a failed transfer loses what was written, and fswrite leaves a buffer changed by half a
  copy and not marked for writing; and so is `ClosesInOrder`, as above. Both hold in the run that checks `CacheIsBlockStore`.

**Stream ioctls** (section 7), `StreamIoctl_proofs`: any processes, requests and bounds. `AnswerToOwnRequest` and
`NobodyIsStranded` from `IInv == IoctlTypeOK /\ OneRequest /\ OnlyAccepted /\ TakenAccepted /\ AnswerComes /\ SleepInv`. Nothing in an
answer says whose it is, so the proof follows request numbers: what is below the stream head, or has come in and
not been taken, is the waiting process's request or was unanswered when that was sent (`OnlyAccepted`); and the
request of who waits is below until some final answer lies in iocblk (`AnswerComes`), which is what wakes him.

**Disk queue** (section 10), `DiskQueue_proofs`: any disks, requests and cylinders, from `DiskConstants`. `NothingStalls` and
`QueuesAreTwoLists` from `QueueInv`, their conjunction with the types and with `OneQueue` (a request is in one queue). The core is
`DisksortInversions`: whatever the keys are, as long as they fall at most once along the queue, disksort's two
loops find a place where they still do. The driver overwrites keys with 0, but only at the head of a
queue, where a smaller key makes no new inversion (`ZeroAtHead`). `OneListKeepsOrder` needs that what waits behind the
head has the key it was given (`KeysInv`). `AloneKeepsOrder`, for one disk, needs `AloneInv`: whenever something
is queued its head is in transfer and has the key 0, so that a queue is one list, and a new request goes behind those not above it.

**Sleep and signals** (section 6), `Sleep_proofs`: any processes, families, channels, settings, signals and timeouts, from
`SleepConstants`. `SleepInv == EntriesInv /\ EventInv /\ HearInv`, kept together with `ClockInv`. `EntryInv(p, r)` says of one entry, by itself, what it may be at each place of the code:
who is on the sleep queue and where a process may stop (`QueueOK`); p_siga agrees with u_signal as far as psignal
relies on it (`ActionsOK`); p_cursig is a signal psig has an action for (`CursigOK`); a stop signal left in p_cursig
will be replaced before psig sees it (`StopPasses`), for an `Heir`: one whose parent lives and who is not `Raced`, stopped by the terminal in a timed sleep; a process that has ended ignores everything (`Gone`); SIGKILL keeps its process
running until it is taken (`KillRuns`). The argument: each step is one entry's own change and what psignal,
setrun or wakeup do to others; the operators are shown once to keep `EntryInv` of whatever entry they are
applied to (`PsignalEntry`, `IssigSound`, `PsigEntry`, ...), and steps are put together from them. `HearInv` is the other half of `WaitHears`:
between the scan and the sleep SIGCHLD is pending, and takes the sleep away. `ClockInv` follows
softclock's loop: from `ClockLook` on, the entry it is at is in the state that was read or in one that an interrupt makes of that (`Bumped`), so
that only a timed sleeper can be set running twice.

`NoPanics`, `WakeupsAreKept`, `StopsNeverKill`, `WaitersHear` and `KillsAreSure` have no hypotheses beyond `SleepConstants`. What they exclude is in
the properties, and is what the code does (section 6): timed sleepers from setrun's panic and, if the terminal may stop them, from
`StopsDontKill`; orphans, and parents that do not handle SIGCHLD; closes that drain a stream from `KillIsSure`.

**Pipes** (section 5), `StreamPipe_proofs`: any processes and calls on the two ends, any water marks, block sizes and
weights, from `QueueAssumption` and `PipeAssumption` (finitely many processes, two ends, `None` is nothing else). The first part
is about the operators of `StreamQueue`: what a block adds to the weight of a queue and takes from it (`CountAppend`,
`CountRest`, ...), and that getq, putq, putbq and flushq keep `QueueOK`: QFULL is set exactly at the limit, and QWANTW is off
when the queue is down to the low mark. `PipeInv == TypesInv /\ OpenInv /\ CountInv /\ LinkInv /\ SleepInv` then holds without any
hypothesis on the calls. Each further property has the hypotheses it needs, which restrict the calls that processes make
and nothing else, and its own invariant:

* `NoWriterLost`, unless files are passed *and* the stream is flushed (`NoFlush \/ NoPassing`): `LostNone` says that a full queue
  has QWANTW, and that a sleeping writer has QWANTW or its end is on queuerun's list. flushq clears QWANTW after it has
  put passed files back, which may fill the queue: with both, the property is false (the hazard at `dev/stream.c:227`).
* `NoReaderLost`, for one reader at an end (`OneReader`): while it sleeps the queue is empty (`ReaderInv`). putbq wakes nobody, so two
  readers may leave one asleep before a block.
* `CountRight`, when no files are passed (`NoPassing`): every path through the stream head leaves as often as it enters (`CountExact`). The path
  that does not is stread's M_PASS branch (`pipe_passleak`, section 13), so this says that it is the only one.
* `TypeCorrect`, for one writer at an end (`OneWriter`; two would number the bytes alike): `ByteInv` bounds what is in
  queues and hands by what has been sent, and that by what was asked for.
* `BoundHolds`, for one writer and one reader: `BoundInv` bounds the weight of a queue together with the block its reader has in hand
  (`Load`), at each place of the writer: putq and putbq test nothing, so only the writer's place says how much it may still put.
* `RecordsApart`, for one writer and one reader, no flushes and writes that run to their end (`WritesEnd`: copying succeeds, no signal):
  `RecordInv` puts the bytes read so far, the block in hand and the queue in one line (`Line`), in which what no delimiter separates
  belongs to one write, and what trails behind the last delimiter belongs to the write that is going on. A record cut short
  by a signal or a failing copy has no delimiter, and a flush takes delimiters away: there records do run together.

**Inodes** (section 8), `InodeTable_proofs`: any processes, calls, directories, i-list, size of the table and of the cache of
free numbers, with and without failing transfers, from `InodeConstants`. `TabInv == TypesInv /\ PlaceInv /\ TableInv /\ CountAccounts /\ RefInv /\ PutInv`.
`PlaceOK` says which references a process has at each place of the code, and where iput returns to; that is what makes
`CountAccounts` inductive. iput frees the slot in a later step than it looked at i_count: `PutInv` says that till then the
inode is locked and has no other reference, and that is kept because a reference is only taken to an inode that is
not locked. `RefInv` is the exception that TLC had found: update comes by a free slot, whose i_count a process still asleep in iget
holds up, locks it and puts it, all without giving up the processor (`Passing`; `FreeIsWaitedFor`). The argument: a step changes one
slot and the references of one process (`MayDo`); `CountKept`, `TableKept`, `RefKept`, `PutKept` show once that such a step keeps the
invariant, and one lemma for each action (`IgetDoes`, `IputDoes`, ...) that this is what the action does. `InodeTypes` adds
that i_count is never negative.

`NobodyForgotten` (`WaitersWillWake`, if there is a process at all) needs two invariants more. `HolderInv`: what is locked has a process that has
it in its `locks`, and s_ilock one that is inside ialloc. `WakeInv`: whoever is asleep, the lock and the want bit, or s_ilock, are set
(`Minds`); and `WakePlace`: one who sleeps in plock has locked nothing, one who sleeps in iget waits for a file, never a directory.
From the last and `PlaceOK` follows that they do not all sleep, whatever the calls are (`SomebodyAwake`): who sleeps holds locks of
directories only, so who holds the file, or s_ilock, that one waits for in iget or ialloc is awake, and who holds the
directory that one waits for in plock is awake or waits for a file or s_ilock. That an unlocking finds everybody (`WakesAt`) needs that
free slots are never locked (`FreeUnlocked`, from `Passing`).

**Text table** (section 11), `TextTable_proofs`: any processes, programs, system calls, traced processes and size of the table, from
`TextConstants` (finitely many processes; `Nothing` is nothing else). `TextInv == TextTypes /\ SchedOK /\ RunnersOK /\ SlotsOK /\
OneShared /\ FilesOK`. For every process `Uses` is the slot that counts it in x_count, `InCore` the one that counts it in x_ccount,
`Locks` the one whose XLOCK is its own: while it sleeps in xfree or xccdec, or the swapper sleeps for it, these are not what p_textp
says. `SlotOK` puts a slot together from them: the counts are the numbers of `Users` and `Residents`; the lock, where it is somebody's, is
one process's; and a slot that has a file but no users is being given up by its locker, which is what keeps xalloc from attaching to it
and a second xfree from freeing it. XLOCK may also be nobody's (a slot left locked when there was no swap space, `Reserved`), so the
invariant goes from the locker to the flag and not back. `FilesOK` is the argument for `BusyTextNotWritten`: a used text's file has ITEXT, what has ITEXT has no
writers, and from the test in getxfile to the end of exec, when ITEXT may still be off, the inode's lock keeps the writers away
(`InExec`). The argument: a step changes the record of one process, two in fork, and one slot; `Recount` and `SlotElsewhere`
say once what that does to the sets, `ItsSlot`, `SlotsElsewhere` and `SwapSlot` what is left to show of the slot, and one lemma for
each action (`XfreeLastKeeps`, ...) shows it.

What stays with TLC, and why:

* liveness under fairness, ENABLED, and induction over data, none of which the prover has;
* `SwapSpace` and `ResourceMap` (`MapWellFormed`, `SpaceConserved`, `SwapBacked`): rmalloc's and rmfree's loops and
  the count of units are folds over the map, and what a fold gives for every map takes induction;
* of the pipes, `PipeIsFifo` (the bytes of a queue are a fold over its blocks), `WritesReturn` and `HangupHeard` (liveness);
* of `InodeTable`, `NewIsNobodys`: it depends on what each number's inode went through since it was freed, and on that no
  name is created twice;
* `Mount`: not proved (section 2).

## 15. Not modelled

Listed with the reason in PROJECT.json: machine-dependent code and drivers (registers and
controllers define their behaviour, not the C code), paging (tied to page tables), process
management and system call dispatch (little concurrency of their own beyond wait, exit and fork,
which appear in sections 6, 9 and 11), network protocols (large; later), line disciplines (character
processing), and the user programs, which are most of the repository: sequential programs,
vendored and third-party code with nothing of the kernel's concurrency in them.

Within the components that are modelled: directory contents beyond which names exist, links and
`..`, mount points inside iget; blocks of files (alloc, free); prxdup, which writes a text
through /proc; priorities, tracing, process groups and vfork; allocb's pools; bad blocks and commands other than transfers; a
crash of the whole system (what is on the disk at any moment is part of the cache's state, and
`SyncWriteDurable` speaks of it). PROJECT.json has the list for each component.
