----------------------------- MODULE BufferCache -----------------------------
(***************************************************************************)
(* The block buffer cache of the kernel: dev/bio.c (getblk, bread, breada, *)
(* bwrite, bdwrite, bawrite, brelse, geteblk, iowait, iodone, bflush,      *)
(* binval), the calls that fsread and fswrite (sys/fs.c), update           *)
(* (sys/alloc.c) and closef (sys/fio.c) make of it, and the disk behind    *)
(* the strategy routine.                                                   *)
(*                                                                         *)
(* Scheduling is the kernel's: one CPU, and a process in the kernel gives  *)
(* it up only where it sleeps (cur is that process).  The disk interrupt   *)
(* runs between any two steps, except inside bflush, which runs at spl6.   *)
(* A step is a stretch of code that the interrupt cannot split with any    *)
(* effect: the points where getblk drops to spl0 between looking at a      *)
(* buffer and taking it, and bwrite between starting a transfer and        *)
(* touching the flags again, are steps of their own.                       *)
(*                                                                         *)
(* Abstracted: the order inside a free list (any buffer of the list that   *)
(* getblk would take from may be the oldest), the hash chains, the order   *)
(* of transfers of different blocks, accounting, and the contents of a     *)
(* block, which are one value.                                             *)
(***************************************************************************)
EXTENDS Naturals, FiniteSets

CONSTANTS Procs,      \* processes
          Bufs,       \* the buffer headers, buf[nbuf]
          Devs,       \* block devices
          Blknos,     \* block numbers of a device
          Values,     \* what a block may contain
          None,       \* NODEV, no buffer, no process, not sleeping
          bfreelist,  \* the channel on which getblk awaits any free buffer
          CallsOf,    \* CallsOf[p] is the set of calls process p may make
          MaxCalls,   \* how many calls a process makes at most, when Bounded
          Bounded,    \* the set of processes whose calls are counted
          Errors,     \* the transfers that may fail, a subset of {"read", "write"}
          Faults,     \* whether the copy from user space may fail (EFAULT)
          Lone       \* the devices whose disk has its controller to itself

Blocks == Devs \X Blknos
NODEV == None
DevOf(k) == k[1]

Kinds == {"read", "reada", "hole",     \* fsread: bread, breada, geteblk
          "full", "part", "dir",       \* fswrite: bawrite, bdwrite, bwrite
          "sync", "close",             \* update; closef of a block device
         "mount", "super", "umount"}  \* fson, fsfupdat, fsoff: module Mount

Call == [kind : Kinds, blk : Blocks, ra : Blocks \cup {NODEV}]

ASSUME NoneAssumption ==
  /\ None \notin Procs \cup Bufs \cup Blocks \cup {bfreelist} \cup Call
  /\ bfreelist \notin Bufs

ASSUME CallsAssumption ==
  /\ CallsOf \in [Procs -> SUBSET Call]
  /\ \A p \in Procs : \A c \in CallsOf[p] : c.ra # c.blk
  /\ MaxCalls \in Nat
  /\ Bounded \subseteq Procs
  /\ Errors \subseteq {"read", "write"}
  /\ Faults \in BOOLEAN
  /\ Lone \subseteq Devs

Flags == {"READ", "DONE", "ERROR", "BUSY", "WANTED", "AGE", "ASYNC",
          "DELWRI", "INVAL", "LOCKED"}

VARIABLES
  b_blk,      \* b_blk[b] is the pair b_dev, b_blkno of the header, or NODEV
  b_flags,    \* b_flags[b]
  av,         \* the free list b is on: "LOCKED", "LRU", "AGE", or "none"
  data,       \* the memory of the buffer, b_un.b_addr
  flwanted,   \* bfreelist[0].b_flags & B_WANTED
  active,     \* the buffers the driver has been given and has not finished
  ahead,      \* ahead[b]: requests for the same block that the driver does first
  disk,       \* the contents of the disk
  pc,         \* where process p is
  call,       \* the call it is executing, or None
  stage,      \* which getblk of the call: "bread", or breada's "main" or "ra"
  bp,         \* the buffer it is working on (b_flags tells whether it owns it)
  kept,       \* breada's bp while it looks for the read-ahead buffer
  uerror,     \* whether u.u_error is set
  wchan,      \* what it sleeps on: a buffer, bfreelist, or None
  cur,        \* the process that has the CPU inside the kernel, or None
  left        \* how many calls it may still make

bufVars  == <<b_blk, b_flags, av, data, flwanted>>
diskVars == <<active, ahead, disk>>
procVars == <<pc, call, stage, bp, kept, uerror, wchan, cur, left>>
vars     == <<bufVars, diskVars, procVars>>

PCs == {"user",             \* in user mode
        "getblk",           \* at the label loop of getblk or geteblk
        "claim",            \* found bp in the hash chain, before spl6
        "victim",           \* getblk has handed a delayed write to the driver
        "got",              \* getblk returns bp
        "iowait",           \* bread waits for bp
        "iomove",           \* the caller has bp and is copying to or from it
        "wwait",            \* bwrite waits for bp
        "wrote",            \* bwrite's iowait is over
        "bawrote",          \* bwrite of an asynchronous write, after the
        "bawrote_delayed",  \*   strategy call; second: bp had B_DELWRI
        "bflush"}           \* at the label loop of bflush

OwningPCs == {"got", "iowait", "iomove", "wwait", "wrote"}

(***************************************************************************)
(* Auxiliary operators                                                     *)
(***************************************************************************)
Running(p) == wchan[p] = None /\ cur \in {p, None}

Goto(p, l) == pc' = [pc EXCEPT ![p] = l]

(* The buffers process p may touch because getblk gave them to it.         *)
Owns(p) == (IF pc[p] \in OwningPCs THEN {bp[p]} ELSE {})
             \cup (IF kept[p] # None THEN {kept[p]} ELSE {})

(* Processes asleep on a channel of chans become runnable.                 *)
Wakeup(chans) ==
  wchan' = [p \in Procs |-> IF wchan[p] \in chans THEN None ELSE wchan[p]]

(* The block getblk is looking for; geteblk wants none in particular.      *)
Want(p) == IF call[p].kind = "hole" THEN NODEV
           ELSE IF stage[p] = "ra" THEN call[p].ra ELSE call[p].blk

Match(b, k) == k # NODEV /\ b_blk[b] = k /\ "INVAL" \notin b_flags[b]

(* Mutant: incore sees only blocks whose transfer is over.                 *)
IncoreDone(k) == \E b \in Bufs : Match(b, k) /\ "DONE" \in b_flags[b]

Incore(k) == \E b \in Bufs : Match(b, k)

(* The caller has called getblk or geteblk itself, not bread.              *)
GetblkOnly(p) == \/ call[p].kind \in {"hole", "full", "super"}
                 \/ call[p].kind = "umount" /\ stage[p] = "main"

(* The caller copies to or from user space, which may fault and sleep.     *)
CopiesUser(p) == call[p].kind \notin {"mount", "super", "umount"}

(* p is in breada, before the bread at its end.                            *)
InBreada(p) == call[p].kind = "reada" /\ stage[p] # "bread"

(* The test of breada before it goes for the read-ahead block.             *)
WantsAhead(c) == c.ra # NODEV /\ ~Incore(c.ra)

(***************************************************************************)
(* brelse, the strategy routine, bwrite                                    *)
(***************************************************************************)
(* Mutants of brelse: B_ASYNC outlives the transfer; a locked buffer loses *)
(* its block on an error like any other; B_LOCKED does not choose a list;  *)
(* there is a list of empty buffers; a wakeup is missing.                  *)
BrelseFlagsAsync(fl) == fl \ {"WANTED", "BUSY", "AGE"}

BrelseFlagsNoRetry(fl) == fl \ {"WANTED", "BUSY", "ASYNC", "AGE"}

BrelseListEmpty(fl) == IF {"ERROR", "INVAL"} \cap fl # {} THEN "EMPTY" ELSE "LRU"

(* brelse of b, whose flags are fl at the call.                            *)
BrelseFlags(fl) ==
  (IF {"ERROR", "LOCKED"} \subseteq fl THEN fl \ {"ERROR"} ELSE fl)
    \ {"WANTED", "BUSY", "ASYNC", "AGE"}

BrelseList(fl) ==
  IF {"ERROR", "INVAL"} \cap BrelseFlags(fl) # {} THEN "AGE"
  ELSE IF "LOCKED" \in fl THEN "LOCKED"
  ELSE IF "AGE" \in fl THEN "AGE" ELSE "LRU"

BrelseWakesList(b, fl) == IF flwanted THEN {bfreelist} ELSE {}

BrelseWakesBuffer(b, fl) == IF "WANTED" \in fl THEN {b} ELSE {}

BrelseWakes(b, fl) == (IF "WANTED" \in fl THEN {b} ELSE {})
                        \cup (IF flwanted THEN {bfreelist} ELSE {})

Brelse(b, fl) ==
  /\ b_flags' = [b_flags EXCEPT ![b] = BrelseFlags(fl)]
  /\ b_blk' = IF "ERROR" \in BrelseFlags(fl) THEN [b_blk EXCEPT ![b] = NODEV]
              ELSE b_blk
  /\ av' = [av EXCEPT ![b] = BrelseList(fl)]
  /\ Wakeup(BrelseWakes(b, fl))
  /\ flwanted' = FALSE

(* Where disksort puts the request of b among those for its block.  A disk *)
(* alone on its controller keeps them in the order in which they came      *)
(* (AlwaysInOrder of DiskQueue); with a second disk the first              *)
(* request may get the key 0 (sd.c) while it waits, and one that comes     *)
(* after that overtakes those in the second list: the requests that stay   *)
(* ahead of b are then any of them, with what is ahead of these.           *)
Queued(b) == {c \in active : b_blk[c] = b_blk[b]}

Firsts(b) ==
  IF b_blk[b] \in Lone \X Blknos THEN {Queued(b)}
  ELSE {s \in SUBSET Queued(b) : \A c \in s : ahead[c] \subseteq s}

(* The driver's strategy routine.  It finds the disk by b_dev: a buffer    *)
(* without a device is never handed to it.                                 *)
Strategy(b, fl) ==
  /\ b_blk[b] \in Blocks
  /\ b_flags' = [b_flags EXCEPT ![b] = fl]
  /\ active' = active \cup {b}
  /\ \E first \in Firsts(b) :
       ahead' = [c \in Bufs |-> IF c = b THEN first
                                ELSE IF c \in Queued(b) \ first THEN ahead[c] \cup {b}
                                ELSE ahead[c]]
  /\ UNCHANGED disk

(* Mutant: bwrite forgets B_DONE.                                          *)
BwriteFlagsDone(fl) == fl \ {"READ", "ERROR", "DELWRI", "AGE"}

(* What bwrite clears before it calls the strategy routine.                *)
BwriteFlags(fl) == fl \ {"READ", "DONE", "ERROR", "DELWRI", "AGE"}

(***************************************************************************)
(* getblk and geteblk                                                      *)
(***************************************************************************)
(* At spl0 the hash chain yields a buffer that holds the block.            *)
GetblkHit(p) ==
  /\ pc[p] = "getblk" /\ Running(p)
  /\ \E b \in Bufs : Match(b, Want(p)) /\ bp' = [bp EXCEPT ![p] = b]
  /\ Goto(p, "claim")
  /\ cur' = p
  /\ UNCHANGED <<bufVars, diskVars, call, stage, kept, uerror, wchan, left>>

(* At spl6 the buffer is busy: ask for a wakeup, sleep, start again.       *)
GetblkBusy(p) ==
  /\ pc[p] = "claim" /\ Running(p)
  /\ "BUSY" \in b_flags[bp[p]]
  /\ b_flags' = [b_flags EXCEPT ![bp[p]] = @ \cup {"WANTED"}]
  /\ wchan' = [wchan EXCEPT ![p] = bp[p]]
  /\ bp' = [bp EXCEPT ![p] = None]
  /\ Goto(p, "getblk")
  /\ cur' = None
  /\ UNCHANGED <<b_blk, av, data, flwanted, diskVars, call, stage, kept, uerror, left>>

(* It is not: take it off its free list, whatever it holds by now.         *)
GetblkClaim(p) ==
  /\ pc[p] = "claim" /\ Running(p)
  /\ "BUSY" \notin b_flags[bp[p]]
  /\ b_flags' = [b_flags EXCEPT ![bp[p]] = @ \cup {"BUSY"}]
  /\ av' = [av EXCEPT ![bp[p]] = "none"]
  /\ Goto(p, "got")
  /\ cur' = p
  /\ UNCHANGED <<b_blk, data, flwanted, diskVars, call, stage, bp, kept, uerror,
                 wchan, left>>

(* Where the search for a buffer to reuse looks: AGE first, then LRU.      *)
Reusable == IF \E b \in Bufs : av[b] = "AGE" THEN {b \in Bufs : av[b] = "AGE"}
            ELSE {b \in Bufs : av[b] = "LRU"}

(* No free buffer at all.                                                  *)
GetblkSleep(p) ==
  /\ pc[p] = "getblk" /\ Running(p)
  /\ ~Incore(Want(p))
  /\ Reusable = {}
  /\ flwanted' = TRUE
  /\ wchan' = [wchan EXCEPT ![p] = bfreelist]
  /\ cur' = None
  /\ UNCHANGED <<b_blk, b_flags, av, data, diskVars, pc, call, stage, bp, kept,
                 uerror, left>>

(* The buffer to reuse is a delayed write: start the write and look again. *)
GetblkVictim(p) ==
  /\ pc[p] = "getblk" /\ Running(p)
  /\ ~Incore(Want(p))
  /\ \E b \in Reusable :
       /\ "DELWRI" \in b_flags[b]
       /\ av' = [av EXCEPT ![b] = "none"]
       /\ Strategy(b, BwriteFlags(b_flags[b]) \cup {"BUSY", "ASYNC"})
       /\ bp' = [bp EXCEPT ![p] = b]
  /\ Goto(p, "victim")
  /\ cur' = p
  /\ UNCHANGED <<b_blk, data, flwanted, call, stage, kept, uerror, wchan, left>>

(* bwrite sets B_AGE after the strategy call, when the transfer may be     *)
(* over and the buffer free again.                                         *)
VictimTail(p) ==
  /\ pc[p] = "victim" /\ Running(p)
  /\ b_flags' = [b_flags EXCEPT ![bp[p]] = @ \cup {"AGE"}]
  /\ bp' = [bp EXCEPT ![p] = None]
  /\ Goto(p, "getblk")
  /\ cur' = p
  /\ UNCHANGED <<b_blk, av, data, flwanted, diskVars, call, stage, kept, uerror,
                 wchan, left>>

(* The buffer to reuse is clean: it becomes the buffer of the block.       *)
GetblkAssign(p) ==
  /\ pc[p] = "getblk" /\ Running(p)
  /\ ~Incore(Want(p))
  /\ \E b \in Reusable :
       /\ "DELWRI" \notin b_flags[b]
       /\ av' = [av EXCEPT ![b] = "none"]
       /\ b_flags' = [b_flags EXCEPT ![b] =
                        IF Want(p) = NODEV THEN {"BUSY", "INVAL"} ELSE {"BUSY"}]
       /\ b_blk' = [b_blk EXCEPT ![b] = Want(p)]
       /\ bp' = [bp EXCEPT ![p] = b]
  /\ Goto(p, "got")
  /\ cur' = p
  /\ UNCHANGED <<data, flwanted, diskVars, call, stage, kept, uerror, wchan, left>>

(***************************************************************************)
(* bread, breada and iowait                                                *)
(***************************************************************************)
(* bread finds the block in the buffer, or the caller called getblk.       *)
BreadCached(p) ==
  /\ pc[p] = "got" /\ ~InBreada(p) /\ Running(p)
  /\ "DONE" \in b_flags[bp[p]] \/ GetblkOnly(p)
  /\ Goto(p, "iomove")
  /\ cur' = IF CopiesUser(p) THEN None ELSE p
  /\ UNCHANGED <<bufVars, diskVars, call, stage, bp, kept, uerror, wchan, left>>

BreadStart(p) ==
  /\ pc[p] = "got" /\ ~InBreada(p) /\ Running(p)
  /\ "DONE" \notin b_flags[bp[p]] /\ ~GetblkOnly(p)
  /\ Strategy(bp[p], b_flags[bp[p]] \cup {"READ"})
  /\ Goto(p, "iowait")
  /\ cur' = p
  /\ UNCHANGED <<b_blk, av, data, flwanted, call, stage, bp, kept, uerror, wchan, left>>

(* breada has the block asked for: start reading it if need be, then look  *)
(* for the read-ahead block.                                               *)
BreadaMain(p) ==
  /\ pc[p] = "got" /\ InBreada(p) /\ stage[p] = "main" /\ Running(p)
  /\ IF "DONE" \in b_flags[bp[p]] THEN UNCHANGED <<b_flags, diskVars>>
     ELSE Strategy(bp[p], b_flags[bp[p]] \cup {"READ"})
  /\ IF WantsAhead(call[p])
     THEN /\ kept' = [kept EXCEPT ![p] = bp[p]]
          /\ bp' = [bp EXCEPT ![p] = None]
          /\ stage' = [stage EXCEPT ![p] = "ra"]
          /\ Goto(p, "getblk")
     ELSE Goto(p, "iowait") /\ UNCHANGED <<kept, bp, stage>>
  /\ cur' = p
  /\ UNCHANGED <<b_blk, av, data, flwanted, call, uerror, wchan, left>>

(* breada has dealt with the read-ahead buffer: wait for the block asked   *)
(* for, or bread it if it was in the cache at first.                       *)
BreadaFinish(p) ==
  /\ IF kept[p] # None
     THEN /\ bp' = [bp EXCEPT ![p] = kept[p]]
          /\ Goto(p, "iowait")
          /\ UNCHANGED stage
     ELSE /\ bp' = [bp EXCEPT ![p] = None]
          /\ Goto(p, "getblk")
          /\ stage' = [stage EXCEPT ![p] = "bread"]
  /\ kept' = [kept EXCEPT ![p] = None]
  /\ cur' = p
  /\ UNCHANGED <<call, uerror, left>>

BreadaCached(p) ==
  /\ pc[p] = "got" /\ InBreada(p) /\ stage[p] = "ra" /\ Running(p)
  /\ "DONE" \in b_flags[bp[p]]
  /\ Brelse(bp[p], b_flags[bp[p]])
  /\ BreadaFinish(p)
  /\ UNCHANGED <<data, diskVars>>

BreadaAhead(p) ==
  /\ pc[p] = "got" /\ InBreada(p) /\ stage[p] = "ra" /\ Running(p)
  /\ "DONE" \notin b_flags[bp[p]]
  /\ Strategy(bp[p], b_flags[bp[p]] \cup {"READ", "ASYNC"})
  /\ BreadaFinish(p)
  /\ UNCHANGED <<b_blk, av, data, flwanted, wchan>>

IowaitSleep(p) ==
  /\ pc[p] \in {"iowait", "wwait"} /\ Running(p)
  /\ "DONE" \notin b_flags[bp[p]]
  /\ wchan' = [wchan EXCEPT ![p] = bp[p]]
  /\ cur' = None
  /\ UNCHANGED <<bufVars, diskVars, pc, call, stage, bp, kept, uerror, left>>

(* iowait ends with geterror; bread returns to the copy, bwrite goes on.   *)
IowaitDone(p) ==
  /\ pc[p] \in {"iowait", "wwait"} /\ Running(p)
  /\ "DONE" \in b_flags[bp[p]]
  /\ uerror' = [uerror EXCEPT ![p] = @ \/ "ERROR" \in b_flags[bp[p]]]
  /\ Goto(p, IF pc[p] = "iowait" THEN "iomove" ELSE "wrote")
  /\ cur' = IF pc[p] = "iowait" /\ CopiesUser(p) THEN None ELSE p
  /\ UNCHANGED <<bufVars, diskVars, call, stage, bp, kept, wchan, left>>

(***************************************************************************)
(* The system calls                                                        *)
(***************************************************************************)
(* closef reaches bflush only when no other process has the device open.   *)
LastClose(p, d) ==
  \A q \in Procs \ {p} : call[q] # None =>
    call[q].kind = "sync" \/ DevOf(call[q].blk) # d

(* Where a call starts: breada may find the block in the cache already.    *)
FirstStage(c) ==
  IF c.kind = "umount" THEN "main"
  ELSE IF c.kind # "reada" THEN "bread"
  ELSE IF ~Incore(c.blk) THEN "main"
  ELSE IF WantsAhead(c) THEN "ra" ELSE "bread"

Enter(p, c) ==
  /\ pc[p] = "user" /\ cur = None
  /\ p \in Bounded => left[p] > 0
  /\ call' = [call EXCEPT ![p] = c]
  /\ stage' = [stage EXCEPT ![p] = FirstStage(c)]
  /\ Goto(p, IF c.kind \in {"sync", "close", "umount"} THEN "bflush" ELSE "getblk")
  /\ left' = IF p \in Bounded THEN [left EXCEPT ![p] = @ - 1] ELSE left
  /\ cur' = p
  /\ UNCHANGED <<bufVars, diskVars, bp, kept, uerror, wchan>>

Start(p, c) ==
  /\ c.kind \notin {"mount", "super", "umount"}
  /\ c.kind = "close" => LastClose(p, DevOf(c.blk))
  /\ Enter(p, c)

Return(p) ==
  /\ Goto(p, "user")
  /\ call' = [call EXCEPT ![p] = None]
  /\ stage' = [stage EXCEPT ![p] = "bread"]
  /\ bp' = [bp EXCEPT ![p] = None]
  /\ uerror' = [uerror EXCEPT ![p] = FALSE]
  /\ cur' = None
  /\ UNCHANGED <<kept, left>>

(* fsread has copied the data out; it marks a block read to its end B_AGE. *)
FsreadDone(p) ==
  /\ pc[p] = "iomove" /\ Running(p)
  /\ call[p].kind \in {"read", "reada", "hole"}
  /\ \E old \in {{}, {"AGE"}} : Brelse(bp[p], b_flags[bp[p]] \cup old)
  /\ Return(p)
  /\ UNCHANGED <<data, diskVars>>

(* fswrite copies into the buffer even after a failed read, or the copy    *)
(* itself fails partway: u.u_error is set and the buffer is only released. *)
FswriteError(p) ==
  /\ pc[p] = "iomove" /\ Running(p)
  /\ call[p].kind \in {"full", "part", "dir"}
  /\ uerror[p] \/ Faults
  /\ \E v \in Values : data' = [data EXCEPT ![bp[p]] = v]
  /\ Brelse(bp[p], b_flags[bp[p]])
  /\ Return(p)
  /\ UNCHANGED diskVars

(* A partial block: bdwrite.                                               *)
FswritePart(p) ==
  /\ pc[p] = "iomove" /\ Running(p)
  /\ call[p].kind = "part" /\ ~uerror[p]
  /\ \E v \in Values : data' = [data EXCEPT ![bp[p]] = v]
  /\ Brelse(bp[p], b_flags[bp[p]] \cup {"DELWRI", "DONE"})
  /\ Return(p)
  /\ UNCHANGED diskVars

(* A cleared directory entry: bwrite, which waits for the disk.            *)
FswriteDir(p) ==
  /\ pc[p] = "iomove" /\ Running(p)
  /\ call[p].kind = "dir" /\ ~uerror[p]
  /\ \E v \in Values : data' = [data EXCEPT ![bp[p]] = v]
  /\ Strategy(bp[p], BwriteFlags(b_flags[bp[p]]))
  /\ Goto(p, "wwait")
  /\ cur' = p
  /\ UNCHANGED <<b_blk, av, flwanted, call, stage, bp, kept, uerror, wchan, left>>

BwriteDone(p) ==
  /\ pc[p] = "wrote" /\ Running(p)
  /\ Brelse(bp[p], b_flags[bp[p]])
  /\ Return(p)
  /\ UNCHANGED <<data, diskVars>>

(* A block written to its end: bawrite, which does not wait.  The B_AGE    *)
(* that fswrite sets first is among the flags bwrite clears.               *)
FswriteFull(p) ==
  /\ pc[p] = "iomove" /\ Running(p)
  /\ call[p].kind = "full" /\ ~uerror[p]
  /\ \E v \in Values : data' = [data EXCEPT ![bp[p]] = v]
  /\ Strategy(bp[p], BwriteFlags(b_flags[bp[p]]) \cup {"ASYNC"})
  /\ Goto(p, IF "DELWRI" \in b_flags[bp[p]] THEN "bawrote_delayed" ELSE "bawrote")
  /\ cur' = p
  /\ UNCHANGED <<b_blk, av, flwanted, call, stage, bp, kept, uerror, wchan, left>>

(* The end of bwrite for an asynchronous write: B_AGE if the block was a   *)
(* delayed write, geterror if not; the buffer may be free by now.          *)
BawriteTail(p) ==
  /\ pc[p] \in {"bawrote", "bawrote_delayed"} /\ Running(p)
  /\ b_flags' = IF pc[p] = "bawrote_delayed"
                THEN [b_flags EXCEPT ![bp[p]] = @ \cup {"AGE"}] ELSE b_flags
  /\ Return(p)
  /\ UNCHANGED <<b_blk, av, data, flwanted, diskVars, wchan>>

(* Mutant: bflush stops one free list short.                               *)
FlushableAge(c) ==
  {b \in Bufs : /\ av[b] = "AGE" /\ "DELWRI" \in b_flags[b]
                /\ c.kind # "close" \/ (b_blk[b] # NODEV /\ DevOf(b_blk[b]) = DevOf(c.blk))}

(* bflush, at spl6: one more delayed write that is on a free list.         *)
Flushable(c) ==
  {b \in Bufs : /\ av[b] # "none" /\ "DELWRI" \in b_flags[b]
                /\ c.kind # "close" \/ (b_blk[b] # NODEV /\ DevOf(b_blk[b]) = DevOf(c.blk))}

BflushOne(p) ==
  /\ pc[p] = "bflush" /\ Running(p)
  /\ \E b \in Flushable(call[p]) :
       /\ av' = [av EXCEPT ![b] = "none"]
       /\ Strategy(b, BwriteFlags(b_flags[b]) \cup {"BUSY", "ASYNC", "AGE"})
  /\ UNCHANGED <<b_blk, data, flwanted, procVars>>

(* bflush is over; closef goes on to binval.                               *)
BflushDone(p) ==
  /\ pc[p] = "bflush" /\ Running(p) /\ call[p].kind # "umount"
  /\ Flushable(call[p]) = {}
  /\ b_flags' = [b \in Bufs |->
       IF call[p].kind = "close" /\ b_blk[b] # NODEV /\ DevOf(b_blk[b]) = DevOf(call[p].blk)
       THEN b_flags[b] \cup {"INVAL"} ELSE b_flags[b]]
  /\ Return(p)
  /\ UNCHANGED <<b_blk, av, data, flwanted, diskVars, wchan>>

(***************************************************************************)
(* The disk interrupt                                                      *)
(***************************************************************************)
Iodone(b, err) ==
  /\ \A p \in Procs : ~(pc[p] = "bflush" /\ cur = p)
  /\ b \in active /\ ahead[b] = {}
  /\ err => (IF "READ" \in b_flags[b] THEN "read" ELSE "write") \in Errors
  /\ IF "READ" \in b_flags[b]
     THEN /\ IF err THEN \E v \in Values : data' = [data EXCEPT ![b] = v]
             ELSE data' = [data EXCEPT ![b] = disk[b_blk[b]]]
          /\ UNCHANGED disk
     ELSE /\ disk' = IF err THEN disk ELSE [disk EXCEPT ![b_blk[b]] = data[b]]
          /\ UNCHANGED data
  /\ active' = active \ {b}
  /\ ahead' = [c \in Bufs |-> ahead[c] \ {b}]
  /\ LET fl == b_flags[b] \cup {"DONE"} \cup (IF err THEN {"ERROR"} ELSE {})
     IN IF "ASYNC" \in fl THEN Brelse(b, fl)
        ELSE /\ b_flags' = [b_flags EXCEPT ![b] = fl \ {"WANTED"}]
             /\ Wakeup({b})
             /\ UNCHANGED <<b_blk, av, flwanted>>
  /\ UNCHANGED <<pc, call, stage, bp, kept, uerror, cur, left>>

(***************************************************************************)
(* The specification                                                       *)
(***************************************************************************)
Init ==
  /\ b_blk = [b \in Bufs |-> NODEV]
  /\ b_flags = [b \in Bufs |-> {"INVAL"}]
  /\ av = [b \in Bufs |-> "AGE"]
  /\ data \in [Bufs -> Values]
  /\ flwanted = FALSE
  /\ active = {}
  /\ ahead = [b \in Bufs |-> {}]
  /\ disk \in [Blocks -> Values]
  /\ pc = [p \in Procs |-> "user"]
  /\ call = [p \in Procs |-> None]
  /\ stage = [p \in Procs |-> "bread"]
  /\ bp = [p \in Procs |-> None]
  /\ kept = [p \in Procs |-> None]
  /\ uerror = [p \in Procs |-> FALSE]
  /\ wchan = [p \in Procs |-> None]
  /\ cur = None
  /\ left = [p \in Procs |-> MaxCalls]

Getblk(p) ==
  \/ GetblkHit(p) \/ GetblkBusy(p) \/ GetblkClaim(p) \/ GetblkSleep(p)
  \/ GetblkVictim(p) \/ VictimTail(p) \/ GetblkAssign(p)

Bread(p) ==
  \/ BreadCached(p) \/ BreadStart(p) \/ BreadaMain(p) \/ BreadaCached(p)
  \/ BreadaAhead(p) \/ IowaitSleep(p) \/ IowaitDone(p)

Caller(p) ==
  \/ FsreadDone(p) \/ FswriteError(p) \/ FswritePart(p) \/ FswriteDir(p)
  \/ BwriteDone(p) \/ FswriteFull(p) \/ BawriteTail(p)
  \/ BflushOne(p) \/ BflushDone(p)

(* A step of a process that is inside a call.                              *)
Proceed(p) == Getblk(p) \/ Bread(p) \/ Caller(p)

Interrupt(b) == \E err \in BOOLEAN : Iodone(b, err)

Next ==
  \/ \E p \in Procs : Proceed(p) \/ \E c \in CallsOf[p] : Start(p, c)
  \/ \E b \in Bufs : Interrupt(b)

Spec == Init /\ [][Next]_vars

(***************************************************************************)
(* Safety                                                                  *)
(***************************************************************************)
TypeOK ==
  /\ b_blk \in [Bufs -> Blocks \cup {NODEV}]
  /\ b_flags \in [Bufs -> SUBSET Flags]
  /\ av \in [Bufs -> {"LOCKED", "LRU", "AGE", "none"}]
  /\ data \in [Bufs -> Values]
  /\ flwanted \in BOOLEAN
  /\ active \subseteq Bufs
  /\ ahead \in [Bufs -> SUBSET Bufs]
  /\ disk \in [Blocks -> Values]
  /\ pc \in [Procs -> PCs]
  /\ call \in [Procs -> Call \cup {None}]
  /\ stage \in [Procs -> {"bread", "main", "ra"}]
  /\ bp \in [Procs -> Bufs \cup {None}]
  /\ kept \in [Procs -> Bufs \cup {None}]
  /\ uerror \in [Procs -> BOOLEAN]
  /\ wchan \in [Procs -> Bufs \cup {bfreelist, None}]
  /\ cur \in Procs \cup {None}
  /\ left \in [Procs -> Nat]

Free(b) == av[b] # "none"
InFlight(b) == b \in active /\ "ASYNC" \in b_flags[b]
Owned(b) == \E p \in Procs : b \in Owns(p)

(* Every buffer is in exactly one place: on a free list, checked out to    *)
(* one process by getblk, or in an asynchronous transfer that nobody waits *)
(* for and that iodone will release.  A buffer in two places would be      *)
(* handed to two processes or released twice (which corrupts the av_forw   *)
(* list); one in no place is lost to the cache for ever.                   *)
InOnePlace ==
  /\ \A b \in Bufs :
       \/ Free(b) /\ ~InFlight(b) /\ ~Owned(b)
       \/ ~Free(b) /\ InFlight(b) /\ ~Owned(b)
       \/ ~Free(b) /\ ~InFlight(b) /\ Owned(b)
  /\ \A p, q \in Procs : p # q => Owns(p) \cap Owns(q) = {}
  /\ \A p \in Procs : pc[p] \in OwningPCs => bp[p] # kept[p]

(* Two valid buffers never stand for the same block, whatever the processes*)
(* did while getblk slept: two copies of a block would lose writes.        *)
OneBufferPerBlock ==
  \A b, c \in Bufs :
    b # c /\ b_blk[b] = b_blk[c] /\ b_blk[b] # NODEV =>
      "INVAL" \in b_flags[b] \cup b_flags[c]

(* No lost wakeup.  A process asleep in getblk sleeps on a buffer that is  *)
(* busy and marked B_WANTED (so brelse will wake it), or on bfreelist when *)
(* there is no free buffer and the list is marked; one asleep in iowait    *)
(* sleeps on a transfer that the driver still has.                         *)
SleepersWillWake ==
  \A p \in Procs :
    /\ wchan[p] = bfreelist => flwanted /\ Reusable = {}
    /\ wchan[p] \in Bufs =>
         IF pc[p] = "getblk" THEN {"BUSY", "WANTED"} \subseteq b_flags[wchan[p]]
         ELSE wchan[p] \in active /\ "DONE" \notin b_flags[wchan[p]]

(* iodone's panic("dup iodone") is unreachable: a buffer the driver has is *)
(* never marked B_DONE behind its back, though bwrite and brelse touch its *)
(* flags while the transfer may be under way or over.                      *)
NoDupIodone == \A b \in active : "DONE" \notin b_flags[b]

(* When bwrite's wait for a synchronous write is over, the disk has what   *)
(* the process wrote or the process has u.u_error: the promise on which    *)
(* the crash ordering of fswrite and iupdat rests.                         *)
SyncWriteDurable ==
  \A p \in Procs :
    pc[p] = "wrote" => uerror[p] \/ disk[b_blk[bp[p]]] = data[bp[p]]

(* What bio.c says of getblk: "If the appropriate block is already         *)
(* associated, return it; otherwise search for the oldest non-busy buffer  *)
(* and reassign it": the buffer it returns is the buffer of the block.     *)
GetblkReturnsItsBlock ==
  \A p \in Procs : pc[p] = "got" => b_blk[bp[p]] = Want(p)

(* bio.c says of binval, which marks the buffers of a device invalid while *)
(* writes of them may be queued: "this suffices for correctness".  So a    *)
(* free, valid and clean buffer without a write of its block to come       *)
(* should have what the disk has; nothing will write it again.             *)
CleanIsOnDisk ==
  \A b \in Bufs :
    /\ Free(b) /\ b_blk[b] \in Blocks
    /\ "DONE" \in b_flags[b] /\ b_flags[b] \cap {"INVAL", "DELWRI", "ERROR"} = {}
    /\ \A c \in active : b_blk[c] = b_blk[b] => "READ" \in b_flags[c]
    => disk[b_blk[b]] = data[b]

(***************************************************************************)
(* Refinement: the cache with its disk is a store of blocks                *)
(***************************************************************************)
(* A valid buffer whose memory, not the disk, is what its block contains.  *)
Authoritative(b) ==
  /\ "INVAL" \notin b_flags[b]
  /\ \/ {"DONE", "DELWRI"} \cap b_flags[b] # {}
     \/ b \in active /\ "READ" \notin b_flags[b]

(* Writes of block k that the driver has yet to do, and the last of them.  *)
Writes(k) == {b \in active : b_blk[b] = k /\ "READ" \notin b_flags[b]}
LastWrite(k) == CHOOSE b \in Writes(k) : \A c \in Writes(k) : b \notin ahead[c]

Store == [k \in Blocks |->
  IF \E b \in Bufs : b_blk[b] = k /\ Authoritative(b)
  THEN data[CHOOSE b \in Bufs : b_blk[b] = k /\ Authoritative(b)]
  ELSE IF Writes(k) # {} THEN data[LastWrite(k)] ELSE disk[k]]

Holder == [k \in Blocks |->
  IF \E p \in Procs : \E b \in Owns(p) : Match(b, k)
  THEN CHOOSE p \in Procs : \E b \in Owns(p) : Match(b, k) ELSE None]

BS == INSTANCE BlockStore WITH Nobody <- None, store <- Store, holder <- Holder

(* The cache implements the block store: a block has one holder at a time, *)
(* only its holder changes what it contains, and reads, evictions, delayed *)
(* and asynchronous writes, flushes and invalidations of any process lose  *)
(* or resurrect nothing.                                                   *)
CacheIsBlockStore == BS!Spec

(***************************************************************************)
(* Liveness                                                                *)
(***************************************************************************)
(* The disk finishes every transfer, and an interrupt that bflush holds    *)
(* off stays pending: strong fairness.  The scheduler runs a process that is *)
(* runnable again and again, whatever the others do meanwhile: strong      *)
(* fairness, since a step needs the CPU, which the others also take.       *)
(* Nothing obliges a process to make a call, except the update daemon,     *)
(* whose calls are not counted.                                            *)
Fairness ==
  /\ \A p \in Procs : SF_vars(Proceed(p))
  /\ \A p \in Procs \ Bounded : WF_vars(\E c \in CallsOf[p] : Start(p, c))
  /\ \A b \in Bufs : SF_vars(Interrupt(b))

FairSpec == Spec /\ Fairness

(* Every call returns: no sleeper is left behind and, as long as there are *)
(* more buffers than processes, breada's habit of asking for a second      *)
(* buffer while it keeps the first cannot hang them all.                   *)
CallsReturn == \A p \in Procs : pc[p] # "user" ~> pc[p] = "user"

(* Once the callers stop writing, the update daemon brings the disk up to  *)
(* date, although bflush skips the buffers that are busy as it passes.     *)
(* Like CacheIsBlockStore this needs a driver that keeps writes of a block *)
(* in order, or no closes: see CleanIsOnDisk.                              *)
DiskCatchesUp == <>[](disk = Store)
=============================================================================
