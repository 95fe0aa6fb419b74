------------------------------ MODULE TextTable ------------------------------
(***************************************************************************)
(* The shared text segments of sys/text.c, as exec, fork, exit, opening    *)
(* for writing, umount, the swapper and the page daemon use them.          *)
(*                                                                         *)
(* A process in the kernel gives up the processor only where it may sleep: *)
(* trunning is the one that has it.  Someone woken runs again at some time *)
(* later, after whatever others do first: it may be swapped out by then.   *)
(***************************************************************************)
EXTENDS Integers, Sequences, SequencesExt, FiniteSets

CONSTANTS
  Runners,     \* the processes that run programs
  FirstRunner, \* the one there is at first
  sched,       \* process 0, which swaps the others
  Programs,    \* the files they execute, all of one device
  ntext,       \* the size of the text table
  Traced,      \* the processes that are traced: PTRACED(p)
  Tasks,       \* Tasks[p]: the system calls p makes
  Nothing        \* no process, program or slot

ASSUME TextConstants ==
  /\ FirstRunner \in Runners /\ sched \notin Runners /\ ntext \in Nat \ {0} /\ Traced \subseteq Runners
  /\ IsFiniteSet(Runners) /\ Nothing \notin Int \cup Programs \cup Runners \cup {sched}

VARIABLES
  xtext,       \* the text table
  xinode,      \* ITEXT, the lock and the writers of a program's inode
  xproc,       \* where a process is, its text, and whether it is in core
  trunning,    \* who has the processor
  tpanic       \* the kernel has panicked

textVars == <<xtext, xinode, xproc, trunning, tpanic>>

TextSlots == 1 .. ntext
PoipChan(x) == ntext + x             \* the address of x_poip

FreeText == [iptr |-> Nothing, count |-> 0, ccount |-> 0, lock |-> FALSE, want |-> FALSE,
             trc |-> FALSE, poip |-> 0]
NoRunner == [pc |-> "none", file |-> Nothing, slot |-> Nothing, textp |-> Nothing, linked |-> FALSE,
             load |-> TRUE, other |-> Nothing, then |-> "user", asleep |-> Nothing]

-----------------------------------------------------------------------------
(* p is at a label and has, or gets, the processor.                        *)
Runs(p, at) ==
  /\ trunning \in {p, Nothing} /\ ~tpanic
  /\ xproc[p].pc = at /\ xproc[p].asleep = Nothing /\ xproc[p].load

(* It goes on with the record r: at once, or after it may have slept.      *)
InUser(r) == r.pc \in {"user", "none", "idle"}
Settled(r) == IF InUser(r) THEN [r EXCEPT !.file = Nothing, !.slot = Nothing, !.other = Nothing, !.then = "user"] ELSE r
GoesOn(procs, p, r) ==
  xproc' = [procs EXCEPT ![p] = Settled(r)] /\ trunning' = IF InUser(r) THEN Nothing ELSE p
MayWait(procs, p, r) == xproc' = [procs EXCEPT ![p] = Settled(r)] /\ trunning' = Nothing

Awake(chan) == [p \in DOMAIN xproc |-> IF xproc[p].asleep = chan THEN [xproc[p] EXCEPT !.asleep = Nothing] ELSE xproc[p]]

(* xunlock: the processes as it leaves them, and the slot.                 *)
AfterUnlock(x) == IF xtext[x].want THEN Awake(x) ELSE xproc
Unlocked(t) == [t EXCEPT !.lock = FALSE, !.want = FALSE]

(* What p wants to lock where it is: the while loop of xlock.              *)
Wants(p) ==
  CASE xproc[p].pc = "xfree" -> xproc[p].textp
    [] xproc[p].pc \in {"xwait", "xuntext"} -> xproc[p].slot
    [] xproc[p].pc \in {"swapout", "swapin"} -> xproc[xproc[p].other].textp
    [] OTHER -> Nothing

LockedTexts == {x \in TextSlots : xtext[x].lock}

Xlock(p) ==
  LET x == Wants(p)
  IN /\ Runs(p, xproc[p].pc) /\ x \in LockedTexts
     /\ xtext' = [xtext EXCEPT ![x].want = TRUE]
     /\ MayWait(xproc, p, [xproc[p] EXCEPT !.asleep = x])
     /\ UNCHANGED <<xinode, tpanic>>

MayLock(p) == Wants(p) \notin LockedTexts

-----------------------------------------------------------------------------
(* exec: the file's inode is locked from namei to the end.  An executable  *)
(* that is open for writing is refused, unless it is a text already.       *)
Exec(p) ==
  /\ Runs(p, "user") /\ "exec" \in Tasks[p]
  /\ \E f \in Programs :
       /\ xinode[f].ilock = Nothing
       /\ xinode' = [xinode EXCEPT ![f].ilock = p]
       /\ MayWait(xproc, p, [xproc[p] EXCEPT !.pc = "getxfile", !.file = f])
  /\ UNCHANGED <<xtext, tpanic>>

Getxfile(p) ==
  LET f == xproc[p].file
  IN /\ Runs(p, "getxfile")
     /\ IF ~xinode[f].itext /\ xinode[f].writers # {}
        THEN /\ xinode' = [xinode EXCEPT ![f].ilock = Nothing]
             /\ GoesOn(xproc, p, [xproc[p] EXCEPT !.pc = "user"])
        ELSE /\ GoesOn(xproc, p, [xproc[p] EXCEPT !.pc = "xfree", !.then = "xalloc"])
             /\ UNCHANGED xinode
     /\ UNCHANGED <<xtext, tpanic>>

ExitRunner(p) ==
  /\ Runs(p, "user") /\ "exit" \in Tasks[p]
  /\ GoesOn(xproc, p, [xproc[p] EXCEPT !.pc = "xfree", !.then = "exit"])
  /\ UNCHANGED <<xtext, xinode, tpanic>>

(* closef locks the inode; at the end exit closes the files.               *)
MayClose(p, f) == p \in xinode[f].writers /\ xinode[f].ilock = Nothing

ExitDone(p) ==
  /\ Runs(p, "exit")
  /\ \A f \in Programs : p \in xinode[f].writers => MayClose(p, f)
  /\ xinode' = [f \in Programs |-> [xinode[f] EXCEPT !.writers = @ \ {p}]]
  /\ MayWait(xproc, p, NoRunner)
  /\ UNCHANGED <<xtext, tpanic>>

(* xfree gives the process's text up; then exit, or exec after it has read *)
(* the data segment, goes on.                                              *)
Rid(r) == [r EXCEPT !.pc = r.then, !.textp = Nothing, !.linked = FALSE]

XfreeNone(p) ==
  /\ Runs(p, "xfree") /\ xproc[p].textp = Nothing
  /\ MayWait(xproc, p, Rid(xproc[p]))
  /\ UNCHANGED <<xtext, xinode, tpanic>>

(* ITEXT is cleared unless there is another text of the file.              *)
StillTextNot(x) == FALSE                                  \* mutant: does not look
StillText(x) == \E y \in TextSlots \ {x} : xtext[y].iptr = xtext[x].iptr

XfreeLast(p) ==
  LET x == xproc[p].textp
  IN /\ Runs(p, "xfree") /\ x # Nothing /\ MayLock(p) /\ xtext[x].count = 1
     /\ xtext' = [xtext EXCEPT ![x].lock = TRUE, ![x].count = 0]
     /\ xinode' = [xinode EXCEPT ![xtext[x].iptr].itext = @ /\ StillText(x)]
     /\ MayWait(xproc, p, [xproc[p] EXCEPT !.pc = "xlast", !.linked = FALSE])
     /\ UNCHANGED tpanic

(* Pages on their way out are waited for; the lock is not given up with    *)
(* xunlock, so that nobody is woken.                                       *)
XfreeWait(p) ==
  LET x == xproc[p].textp
  IN /\ Runs(p, "xlast") /\ xtext[x].poip > 0
     /\ MayWait(xproc, p, [xproc[p] EXCEPT !.asleep = PoipChan(x)])
     /\ UNCHANGED <<xtext, xinode, tpanic>>

XfreeDone(p) ==
  LET x == xproc[p].textp
  IN /\ Runs(p, "xlast") /\ xtext[x].poip = 0
     /\ xtext' = [xtext EXCEPT ![x].lock = FALSE, ![x].iptr = Nothing]
     /\ MayWait(xproc, p, Rid(xproc[p]))
     /\ UNCHANGED <<xinode, tpanic>>

(* xccdec: the last one in core swaps the text out, locked meanwhile.      *)
Decremented(t) ==
  IF t.ccount = 1 THEN [t EXCEPT !.ccount = 0, !.lock = TRUE] ELSE Unlocked([t EXCEPT !.ccount = @ - 1])

XfreeShared(p) ==
  LET x == xproc[p].textp
  IN /\ Runs(p, "xfree") /\ x # Nothing /\ MayLock(p) /\ xtext[x].count > 1
     /\ xtext' = [xtext EXCEPT ![x] = [Decremented(xtext[x]) EXCEPT !.count = xtext[x].count - 1]]
     /\ IF xtext[x].ccount = 1 THEN MayWait(xproc, p, [xproc[p] EXCEPT !.pc = "xccdec"])
        ELSE MayWait(AfterUnlock(x), p, Rid(xproc[p]))
     /\ UNCHANGED <<xinode, tpanic>>

Xccdec(p) ==
  LET x == xproc[p].textp
  IN /\ Runs(p, "xccdec")
     /\ xtext' = [xtext EXCEPT ![x] = Unlocked(@)]
     /\ MayWait(AfterUnlock(x), p, Rid(xproc[p]))
     /\ UNCHANGED <<xinode, tpanic>>

-----------------------------------------------------------------------------
(* xalloc: the text of the file that somebody uses, the first free slot.   *)
Leading(S) == CHOOSE x \in S : \A y \in S : x <= y
TextsOf(p) ==
  IF p \in Traced THEN {}
  ELSE {x \in TextSlots : xtext[x].iptr = xproc[p].file /\ ~xtext[x].trc /\ xtext[x].count # 0}
FreeSlots == {x \in TextSlots : xtext[x].iptr = Nothing}

(* The end of exec; of a process that has been killed as well.             *)
Started(r) == [r EXCEPT !.pc = "user"]
Killed(r) == [r EXCEPT !.pc = "xfree", !.then = "exit"]
IputProgram(p) == xinode' = [xinode EXCEPT ![xproc[p].file].ilock = Nothing]

XallocWait(p) ==
  /\ Runs(p, "xalloc") /\ TextsOf(p) # {} /\ xtext[Leading(TextsOf(p))].lock
  /\ GoesOn(xproc, p, [xproc[p] EXCEPT !.pc = "xwait", !.slot = Leading(TextsOf(p))])
  /\ UNCHANGED <<xtext, xinode, tpanic>>

Joined(t) == [t EXCEPT !.count = @ + 1, !.ccount = @ + 1]
XallocAttach(p) ==
  LET x == Leading(TextsOf(p))
  IN /\ Runs(p, "xalloc") /\ TextsOf(p) # {} /\ ~xtext[x].lock
     /\ xtext' = [xtext EXCEPT ![x] = Unlocked(Joined(@))]
     /\ IputProgram(p)
     /\ GoesOn(AfterUnlock(x), p, Started([xproc[p] EXCEPT !.textp = x, !.linked = TRUE]))
     /\ UNCHANGED tpanic

(* xwait is xlock and xunlock, and the search begins again.                *)
WaitedNoAgain(p, x) == [xproc[p] EXCEPT !.pc = "xload", !.textp = x, !.linked = TRUE]   \* mutant
Waited(p, x) == [xproc[p] EXCEPT !.pc = "xalloc", !.slot = Nothing]

Xwait(p) ==
  LET x == xproc[p].slot
  IN /\ Runs(p, "xwait") /\ MayLock(p)
     /\ xtext' = [xtext EXCEPT ![x] = Unlocked(@)]
     /\ GoesOn(AfterUnlock(x), p, Waited(p, x))
     /\ UNCHANGED <<xinode, tpanic>>

NewText(f, trc) == [FreeText EXCEPT !.iptr = f, !.count = 1, !.ccount = 1, !.lock = TRUE, !.trc = trc]

XallocNew(p) ==
  LET x == Leading(FreeSlots)
      f == xproc[p].file
  IN /\ Runs(p, "xalloc") /\ TextsOf(p) = {} /\ FreeSlots # {}
     /\ xtext' = [xtext EXCEPT ![x] = NewText(f, p \in Traced)]
     /\ xinode' = [xinode EXCEPT ![f].itext = TRUE]
     /\ MayWait(xproc, p, [xproc[p] EXCEPT !.pc = "xload", !.textp = x, !.linked = TRUE])
     /\ UNCHANGED tpanic

(* The table is full, or vsxalloc finds no swap space: then the slot stays *)
(* free, but locked.  The process is killed.                               *)
Reserved(tab, x, trc) == [tab EXCEPT ![x].lock = TRUE, ![x].want = FALSE, ![x].trc = trc]

XallocFails(p) ==
  /\ Runs(p, "xalloc") /\ TextsOf(p) = {}
  /\ xtext' = IF FreeSlots = {} THEN xtext ELSE Reserved(xtext, Leading(FreeSlots), p \in Traced)
  /\ IputProgram(p)
  /\ MayWait(xproc, p, Killed(xproc[p]))
  /\ UNCHANGED tpanic

Xload(p) ==
  LET x == xproc[p].textp
  IN /\ Runs(p, "xload")
     /\ xtext' = [xtext EXCEPT ![x] = Unlocked(@)]
     /\ IputProgram(p)
     /\ GoesOn(AfterUnlock(x), p, Started(xproc[p]))
     /\ UNCHANGED tpanic

-----------------------------------------------------------------------------
(* fork: the child shares the text, or gets a copy of one that is traced,  *)
(* if there are a slot and swap space for it.                              *)
Child(x) == [NoRunner EXCEPT !.pc = "user", !.textp = x, !.linked = x # Nothing]
Inherits(p, q) ==
  xinode' = [f \in Programs |-> [xinode[f] EXCEPT !.writers = IF p \in @ THEN @ \cup {q} ELSE @]]
CanFork(p, q) == Runs(p, "user") /\ "fork" \in Tasks[p] /\ q # sched /\ xproc[q].pc = "none"
Copies(p) == xproc[p].textp # Nothing /\ xtext[xproc[p].textp].trc /\ FreeSlots # {}
Shared(tab, x) == IF x = Nothing THEN tab ELSE [tab EXCEPT ![x].count = @ + 1, ![x].ccount = @ + 1]

ForkShares(p, q) ==
  LET x == xproc[p].textp
  IN /\ CanFork(p, q)
     /\ xtext' = IF Copies(p) THEN Reserved(Shared(xtext, x), Leading(FreeSlots), TRUE) ELSE Shared(xtext, x)
     /\ MayWait([xproc EXCEPT ![q] = Child(x)], p, xproc[p])
     /\ Inherits(p, q) /\ UNCHANGED tpanic

Vmxdup(p, q) ==
  LET y == Leading(FreeSlots)
  IN /\ CanFork(p, q) /\ Copies(p)
     /\ xtext' = [xtext EXCEPT ![y] = NewText(xtext[xproc[p].textp].iptr, TRUE)]
     /\ MayWait([xproc EXCEPT ![q] = [Child(y) EXCEPT !.pc = "born"]], p,
                [xproc[p] EXCEPT !.pc = "vmdup", !.other = q])
     /\ Inherits(p, q) /\ UNCHANGED tpanic

VmxdupDone(p) ==
  LET q == xproc[p].other
      y == xproc[q].textp
  IN /\ Runs(p, "vmdup")
     /\ xtext' = [xtext EXCEPT ![y] = Unlocked(@)]
     /\ MayWait([AfterUnlock(y) EXCEPT ![q].pc = "user"], p, [xproc[p] EXCEPT !.pc = "user"])
     /\ UNCHANGED <<xinode, tpanic>>

-----------------------------------------------------------------------------
(* Opening for writing: with the inode locked, access tries to get rid of  *)
(* texts nobody uses.  umount does so for all files, without their locks.  *)
OpenWrite(p) ==
  /\ Runs(p, "user") /\ "open" \in Tasks[p]
  /\ \E f \in Programs :
       /\ xinode[f].ilock = Nothing
       /\ xinode' = [xinode EXCEPT ![f].ilock = p]
       /\ MayWait(xproc, p, [xproc[p] EXCEPT !.pc = IF xinode[f].itext THEN "xrele" ELSE "access",
                                             !.file = f, !.slot = 0, !.then = "access"])
  /\ UNCHANGED <<xtext, tpanic>>

Umount(p) ==
  /\ Runs(p, "user") /\ "umount" \in Tasks[p]
  /\ GoesOn(xproc, p, [xproc[p] EXCEPT !.pc = "xrele", !.slot = 0])
  /\ UNCHANGED <<xtext, xinode, tpanic>>

Behind(p) ==
  {x \in TextSlots : x > xproc[p].slot
                     /\ xtext[x].iptr \in IF xproc[p].file = Nothing THEN Programs ELSE {xproc[p].file}}

Xrele(p) ==
  LET r == xproc[p]
  IN /\ Runs(p, "xrele")
     /\ GoesOn(xproc, p, IF Behind(p) = {} THEN [r EXCEPT !.pc = r.then]
                         ELSE [r EXCEPT !.pc = "xuntext", !.slot = Leading(Behind(p))])
     /\ UNCHANGED <<xtext, xinode, tpanic>>

(* xuntext: the slot may have been given up, and has no inode, since xrele *)
(* looked at it.                                                           *)
Xuntext(p) ==
  LET x == xproc[p].slot
      f == xtext[x].iptr
      r == [xproc[p] EXCEPT !.pc = "xrele"]
  IN /\ Runs(p, "xuntext") /\ MayLock(p)
     /\ IF xtext[x].count # 0
        THEN /\ xtext' = [xtext EXCEPT ![x] = Unlocked(@)]
             /\ GoesOn(AfterUnlock(x), p, r)
             /\ UNCHANGED <<xinode, tpanic>>
        ELSE /\ xtext' = [xtext EXCEPT ![x].iptr = Nothing]
             /\ tpanic' = (f = Nothing)
             /\ xinode' = IF f = Nothing THEN xinode ELSE [xinode EXCEPT ![f].itext = FALSE]
             /\ MayWait(xproc, p, r)

Access(p) ==
  LET f == xproc[p].file
  IN /\ Runs(p, "access")
     /\ xinode' = [xinode EXCEPT ![f].ilock = Nothing,
                                 ![f].writers = IF xinode[f].itext THEN @ ELSE @ \cup {p}]
     /\ GoesOn(xproc, p, [xproc[p] EXCEPT !.pc = "user"])
     /\ UNCHANGED <<xtext, tpanic>>

CloseWrite(p) ==
  /\ Runs(p, "user")
  /\ \E f \in Programs : MayClose(p, f) /\ xinode' = [xinode EXCEPT ![f].writers = @ \ {p}]
  /\ UNCHANGED <<xtext, xproc, trunning, tpanic>>

-----------------------------------------------------------------------------
(* The swapper takes a process whose text is not locked, and sleeps before *)
(* it gives the text up for it.                                            *)
Swappable(q) ==
  LET r == xproc[q]
  IN /\ r.load /\ r.then # "exit" /\ r.pc \notin {"none", "born", "vmdup", "xload"}
     /\ r.textp \notin LockedTexts

SwapOut(q) ==
  /\ Runs(sched, "idle") /\ q # sched /\ Swappable(q)
  /\ MayWait([xproc EXCEPT ![q].load = FALSE], sched, [xproc[sched] EXCEPT !.pc = "swapout", !.other = q])
  /\ UNCHANGED <<xtext, xinode, tpanic>>

SwapoutText(s) ==
  LET q == xproc[s].other
      x == xproc[q].textp
      done == [xproc[s] EXCEPT !.pc = "idle"]
  IN /\ Runs(s, "swapout") /\ MayLock(s)
     /\ xtext' = IF x = Nothing THEN xtext ELSE [xtext EXCEPT ![x] = Decremented(@)]
     /\ CASE x = Nothing          -> MayWait(xproc, s, done)
          [] x # Nothing /\ xtext[x].ccount = 1 -> MayWait(xproc, s, [xproc[s] EXCEPT !.pc = "swapped"])
          [] OTHER                -> MayWait([AfterUnlock(x) EXCEPT ![q].linked = FALSE], s, done)
     /\ UNCHANGED <<xinode, tpanic>>

TextSwapped(s) ==
  LET q == xproc[s].other
      x == xproc[q].textp
  IN /\ Runs(s, "swapped")
     /\ xtext' = [xtext EXCEPT ![x] = Unlocked(@)]
     /\ MayWait([AfterUnlock(x) EXCEPT ![q].linked = FALSE], s, [xproc[s] EXCEPT !.pc = "idle"])
     /\ UNCHANGED <<xinode, tpanic>>

SwapIn(q) ==
  LET x == xproc[q].textp
  IN /\ Runs(sched, "idle") /\ ~xproc[q].load /\ xproc[q].asleep = Nothing /\ (x # Nothing => xtext[x].poip = 0)
     /\ GoesOn(xproc, sched, [xproc[sched] EXCEPT !.pc = "swapin", !.other = q])
     /\ UNCHANGED <<xtext, xinode, tpanic>>

SwapinText(s) ==
  LET x == xproc[xproc[s].other].textp
  IN /\ Runs(s, "swapin") /\ MayLock(s)
     /\ xtext' = IF x = Nothing THEN xtext ELSE [xtext EXCEPT ![x].lock = TRUE]
     /\ MayWait(xproc, s, [xproc[s] EXCEPT !.pc = "swapio"])
     /\ UNCHANGED <<xinode, tpanic>>

(* With the process in core, or without enough memory for it.              *)
SwapinDone(s) ==
  LET q == xproc[s].other
      x == xproc[q].textp
      procs == IF x = Nothing THEN xproc ELSE AfterUnlock(x)
  IN /\ Runs(s, "swapio")
     /\ \E mem \in BOOLEAN :
          /\ xtext' = IF x = Nothing THEN xtext
                      ELSE [xtext EXCEPT ![x] = Unlocked([xtext[x] EXCEPT !.ccount = IF mem THEN @ + 1 ELSE @])]
          /\ MayWait(IF mem THEN [procs EXCEPT ![q].load = TRUE, ![q].linked = x # Nothing] ELSE procs,
                     s, [xproc[s] EXCEPT !.pc = "idle"])
     /\ UNCHANGED <<xinode, tpanic>>

(* The page daemon pushes a page of a text, and cleans up.                 *)
Pageout(x) ==
  /\ trunning = Nothing /\ ~tpanic
  /\ xtext[x].ccount > 0 /\ xtext[x].count > 0 /\ xtext[x].poip = 0
  /\ xtext' = [xtext EXCEPT ![x].poip = 1]
  /\ UNCHANGED <<xinode, xproc, trunning, tpanic>>

Cleanup(x) ==
  /\ trunning = Nothing /\ ~tpanic /\ xtext[x].poip > 0
  /\ xtext' = [xtext EXCEPT ![x].poip = 0]
  /\ xproc' = Awake(PoipChan(x))
  /\ UNCHANGED <<xinode, trunning, tpanic>>

-----------------------------------------------------------------------------
TextInit ==
  /\ xtext = [x \in TextSlots |-> FreeText]
  /\ xinode = [f \in Programs |-> [itext |-> FALSE, ilock |-> Nothing, writers |-> {}]]
  /\ xproc = [[p \in Runners \cup {sched} |-> NoRunner]
                EXCEPT ![FirstRunner].pc = "user", ![sched].pc = "idle"]
  /\ trunning = Nothing /\ tpanic = FALSE

RunnerStep(p) ==
  \/ Xlock(p)
  \/ Exec(p) \/ Getxfile(p) \/ ExitRunner(p) \/ ExitDone(p)
  \/ XfreeNone(p) \/ XfreeLast(p) \/ XfreeWait(p) \/ XfreeDone(p) \/ XfreeShared(p) \/ Xccdec(p)
  \/ XallocWait(p) \/ XallocAttach(p) \/ Xwait(p)
  \/ XallocNew(p) \/ XallocFails(p) \/ Xload(p)
  \/ \E q \in Runners : ForkShares(p, q) \/ Vmxdup(p, q)
  \/ VmxdupDone(p)
  \/ OpenWrite(p) \/ Umount(p) \/ Xrele(p) \/ Xuntext(p) \/ Access(p) \/ CloseWrite(p)

SchedStep ==
  \/ Xlock(sched)
  \/ \E q \in Runners : SwapOut(q) \/ SwapIn(q)
  \/ SwapoutText(sched) \/ TextSwapped(sched) \/ SwapinText(sched) \/ SwapinDone(sched)

TextNext ==
  \/ \E p \in Runners : RunnerStep(p)
  \/ SchedStep
  \/ \E x \in TextSlots : Pageout(x) \/ Cleanup(x)

TextSpec == TextInit /\ [][TextNext]_textVars

-----------------------------------------------------------------------------
(* Types.                                                                  *)
TextTypeOK ==
  /\ xtext \in [TextSlots -> [iptr : Programs \cup {Nothing}, count : 0 .. 127, ccount : 0 .. 127,
                              lock : BOOLEAN, want : BOOLEAN, trc : BOOLEAN, poip : 0 .. 1]]
  /\ \A f \in Programs : /\ xinode[f].itext \in BOOLEAN /\ xinode[f].ilock \in Runners \cup {Nothing}
                         /\ xinode[f].writers \subseteq Runners
  /\ trunning \in Runners \cup {sched, Nothing} /\ tpanic \in BOOLEAN
  /\ \A p \in Runners \cup {sched} :
       /\ xproc[p].textp \in TextSlots \cup {Nothing}
       /\ xproc[p].asleep \in 1 .. 2 * ntext \cup {Nothing}

Attached(x) == {p \in Runners : xproc[p].textp = x /\ xproc[p].pc \notin {"xlast", "xccdec"}}
Linked(x) ==
  {p \in Runners : /\ xproc[p].textp = x /\ xproc[p].linked /\ xproc[p].pc # "xccdec"
                   /\ ~(xproc[sched].pc = "swapped" /\ xproc[sched].other = p)}

(* x_count is the number of processes that have the text, x_ccount that of *)
(* those in core; a text in use has a file; and a file has one shared      *)
(* text, however attaching, giving up and swapping interleave.             *)
TextAccounts ==
  /\ \A x \in TextSlots :
       /\ xtext[x].count = Cardinality(Attached(x))
       /\ xtext[x].count > 0 => /\ xtext[x].iptr # Nothing
                                /\ xtext[x].ccount = Cardinality(Linked(x))
  /\ \A x, y \in TextSlots :
       (/\ xtext[x].iptr = xtext[y].iptr /\ xtext[x].count > 0 /\ xtext[y].count > 0
        /\ ~xtext[x].trc /\ ~xtext[y].trc) => x = y

(* A file that is being executed is not open for writing, although the     *)
(* test in exec skips files with ITEXT and the test in open all others.    *)
BusyTextNotWritten ==
  \A x \in TextSlots : xtext[x].count > 0 => xinode[xtext[x].iptr].writers = {}

(* text.c: xwait waits "for xp to be unlocked if it is currently locked".  *)
(* Who sleeps for a text will be woken: it is locked, and known to be      *)
(* wanted.                                                                 *)
TextWaitersWake ==
  \A p \in Runners \cup {sched} :
    xproc[p].asleep \in TextSlots => xtext[xproc[p].asleep].lock /\ xtext[xproc[p].asleep].want

(* text.c, xuntext: "remove text image from the text table."  There is one *)
(* to remove: otherwise rmfree panics at its address, zero.                *)
NoTextPanic == ~tpanic
=============================================================================
