----------------------------- MODULE InodeTable -----------------------------
(***************************************************************************)
(* The in-core inodes of sys/iget.c and the inode numbers of sys/alloc.c,  *)
(* as the system calls on a few directories that stay in core use them     *)
(* (sys/fs.c, sys/nami.c): look a file up and use it, open and close it,   *)
(* remove it, create one, and the update daemon.                           *)
(*                                                                         *)
(* The kernel gives up the processor only where it sleeps: running is the  *)
(* process that has it, and nobody else takes a step meanwhile.  A label   *)
(* stands for a place in the code, so that a call takes several steps.     *)
(***************************************************************************)
EXTENDS Integers, Sequences, SequencesExt, FiniteSets

CONSTANTS
  Users,       \* the processes
  ninode,      \* the size of the inode table
  Dirs,        \* the directories: the first slots, to which there is always a reference
  Ilist,       \* the inode numbers of files, in the blocks of the i-list
  Born,        \* Born[d]: the files that have a name in directory d at the start
  InoCache,    \* NICINOD: how many free numbers the super block holds
  Goals,       \* Goals[p]: the system calls p makes, with the directory (that update ignores)
  ReadFails,   \* the routines for which reading the block of an inode may fail
  Nil

Table == 1 .. ninode
Inos == UNION {ToSet(Ilist[b]) : b \in DOMAIN Ilist}
FileCalls == {"look", "unlink", "creat", "sync"}

ASSUME InodeConstants ==
  /\ IsFiniteSet(Users) /\ Nil \notin Int \cup Users
  /\ ninode \in Nat \ {0} /\ InoCache \in Nat \ {0}
  /\ Ilist \in Seq(Seq(Nat \ {0})) /\ Ilist # <<>>
  /\ IsFiniteSet(Dirs) /\ Dirs \subseteq Table /\ Dirs = 1 .. Cardinality(Dirs)
  /\ Born \in [Dirs -> SUBSET Inos] /\ Goals \in [Users -> SUBSET (FileCalls \X Dirs)]

VARIABLES
  inode,       \* the in-core inodes
  ifreel,      \* the list of free slots
  dinode,      \* dinode[n]: mode and links of inode n on the disk
  named,       \* named[d]: the numbers directory d has an entry for
  s_inode,     \* the free numbers held in the super block
  s_ilock,     \* its lock
  spoilt,      \* s_inode was written beyond its end, over the locks
  ioerror,     \* the transfer of an inode has failed
  running,     \* who has the processor
  user         \* user[p]: where p is, what it works on, its references and locks

inodeVars == <<inode, ifreel, dinode, named, s_inode, s_ilock, spoilt, ioerror, running, user>>
numbers == <<s_inode, s_ilock, spoilt>>
ialVars == <<numbers, ioerror>>

IlockChan == 0                       \* the address of s_ilock, which is no slot's
IfindUnlocked(n) == {s \in Table : inode[s].ino = n /\ ~inode[s].lock}     \* mutant: skips locked ones
Ifind(n) == {s \in Table : inode[s].ino = n}
Unused == [mode |-> 0, nlink |-> 0]

-----------------------------------------------------------------------------
(* p is at a label and may take a step; it goes on there with the record   *)
(* r and keeps the processor; it loses it in user mode, where nothing of   *)
(* the call is left, and where the code may sleep: whoever is next, p      *)
(* itself perhaps.                                                         *)
Fresh == [pc |-> "idle", goal |-> Nil, dir |-> Nil, ino |-> 0, slot |-> Nil, file |-> Nil, ret |-> "idle",
          then |-> "idle", refs |-> {}, locks |-> {}, asleep |-> Nil, scan |-> 0, first |-> FALSE]

InUserMode(r) == r.pc \in {"idle", "open"}
Back(r) == IF r.pc = "idle" THEN Fresh ELSE r
KeepsCpu(p, r) == running' = IF InUserMode(r) THEN Nil ELSE p

At(p, at) == running \in {p, Nil} /\ user[p].asleep = Nil /\ user[p].pc = at /\ ~spoilt
Goes(p, r) == user' = [user EXCEPT ![p] = Back(r)] /\ KeepsCpu(p, r)
MaySleep(p, r) == user' = [user EXCEPT ![p] = r] /\ running' = Nil

(* sleep((caddr_t)chan, PINOD) and wakeup((caddr_t)chan).                  *)
Sleeps(p, chan, r) == user' = [user EXCEPT ![p] = [r EXCEPT !.asleep = chan]] /\ running' = Nil
WakeAll(chan) == [q \in Users |-> IF user[q].asleep = chan THEN [user[q] EXCEPT !.asleep = Nil] ELSE user[q]]

(* The arguments of the next iput and where it returns to.                 *)
Iputs(r, s, then) == [r EXCEPT !.pc = "iput", !.slot = s, !.then = then]

Locked(i) == [i EXCEPT !.lock = TRUE]
WantedNot(i) == i                    \* mutant: IWANT is not set
Wanted(i) == [i EXCEPT !.want = TRUE]
Counted(i, d) == [i EXCEPT !.count = @ + d]
Holding(r, s) == [r EXCEPT !.locks = @ \cup {s}]
Referring(r, s) == [r EXCEPT !.refs = @ \cup {s}]
Left(r, s) == [r EXCEPT !.locks = @ \ {s}, !.refs = @ \ {s}]

(* prele(ip), after which the inode is left as i and p goes on with r.     *)
Prele(p, s, i, r) ==
  /\ inode' = [inode EXCEPT ![s] = [i EXCEPT !.lock = FALSE, !.want = FALSE]]
  /\ user' = [(IF inode[s].want THEN WakeAll(s) ELSE user) EXCEPT ![p] = Back(r)]
  /\ KeepsCpu(p, r)

-----------------------------------------------------------------------------
(* The caller puts its directory and goes on, or has its error, at then.   *)
Leaves(r, then) == Iputs(r, r.dir, then)

(* A system call: namei locks the directory; close locks the file; update  *)
(* returns at once if it is running already (updlock).                     *)
Updating == \E q \in Users : user[q].goal = "sync"

Syscall(p) ==
  /\ At(p, "idle")
  /\ ~ioerror                        \* a bound: after a failed transfer only the calls under way go on
  /\ \E g \in Goals[p] :
       LET r == [Fresh EXCEPT !.goal = g[1], !.dir = g[2]]
       IN \/ g[1] = "sync" /\ ~Updating /\ Goes(p, [r EXCEPT !.pc = "update", !.scan = 1])
          \/ g[1] # "sync" /\ Goes(p, [r EXCEPT !.pc = "plock", !.slot = g[2]])
  /\ UNCHANGED <<inode, ifreel, dinode, named, ialVars>>

Close(p) ==
  /\ At(p, "open")
  /\ Goes(p, [user[p] EXCEPT !.pc = "plock"])
  /\ UNCHANGED <<inode, ifreel, dinode, named, ialVars>>

(* plock(ip), after which namei takes its reference and reads the          *)
(* directory, and closef puts the inode.                                   *)
Plock(p) ==
  LET s == user[p].slot
      r == Holding(user[p], s)
  IN /\ At(p, "plock")
     /\ \/ inode[s].lock /\ inode' = [inode EXCEPT ![s] = Wanted(@)] /\ Sleeps(p, s, user[p])
        \/ /\ ~inode[s].lock /\ s \in Dirs
           /\ inode' = [inode EXCEPT ![s] = Counted(Locked(@), 1)]
           /\ MaySleep(p, [Referring(r, s) EXCEPT !.pc = "dsearch"])
        \/ /\ ~inode[s].lock /\ s \notin Dirs
           /\ inode' = [inode EXCEPT ![s] = Locked(@)]
           /\ Goes(p, Iputs(r, s, "idle"))
     /\ UNCHANGED <<ifreel, dinode, named, ialVars>>

(* What dsearch finds.  A lookup unlocks the directory before iget and     *)
(* keeps its reference; removing and creating keep the lock.               *)
Dsearch(p) ==
  LET d == user[p].dir
      goal == user[p].goal
  IN /\ At(p, "dsearch")
     /\ \/ goal = "look" /\ \E n \in named[d] : Prele(p, d, inode[d],
              [user[p] EXCEPT !.pc = "iget", !.ino = n, !.ret = "looked", !.locks = @ \ {d}])
        \/ /\ goal = "unlink" /\ UNCHANGED inode
           /\ \E n \in named[d] : Goes(p, [user[p] EXCEPT !.pc = "iget", !.ino = n, !.ret = "dormfile"])
        \/ goal = "creat" /\ Goes(p, [user[p] EXCEPT !.pc = "ialloc"]) /\ UNCHANGED inode
        \/ goal # "creat" /\ named[d] = {} /\ Goes(p, Leaves(user[p], "idle")) /\ UNCHANGED inode
     /\ UNCHANGED <<ifreel, dinode, named, ialVars>>

-----------------------------------------------------------------------------
(* iget(fip, dev, ino): a locked inode is waited for with a reference of   *)
(* the waiter's own, and then the search starts over.                      *)
IgetHit(p, s) ==
  \/ /\ inode[s].lock
     /\ inode' = [inode EXCEPT ![s] = Counted(Wanted(@), 1)]
     /\ Sleeps(p, s, [user[p] EXCEPT !.pc = "igetwake", !.slot = s])
  \/ /\ ~inode[s].lock
     /\ inode' = [inode EXCEPT ![s] = Counted(Locked(@), 1)]
     /\ Goes(p, [Holding(Referring(user[p], s), s) EXCEPT !.pc = user[p].ret, !.slot = s])

WaitedKept(i) == i                   \* mutant: the reference of the waiter stays
WaitedFor(i) == Counted(i, -1)
IgetWake(p) ==
  /\ At(p, "igetwake")
  /\ inode' = [inode EXCEPT ![user[p].slot] = WaitedFor(@)]
  /\ Goes(p, [user[p] EXCEPT !.pc = "iget"])
  /\ UNCHANGED <<ifreel, dinode, named, ialVars>>

(* A free slot gets its number before the inode is read; mode and links    *)
(* stay those of the last inode in it until then.                          *)
IgetMiss(p) ==
  LET s == Head(ifreel)
      i == [inode[s] EXCEPT !.ino = user[p].ino, !.lock = TRUE, !.want = FALSE, !.dirty = FALSE]
  IN /\ ifreel # <<>>
     /\ ifreel' = Tail(ifreel)
     /\ inode' = [inode EXCEPT ![s] = Counted(i, 1)]
     /\ MaySleep(p, [Holding(Referring(user[p], s), s) EXCEPT !.pc = "fsget", !.slot = s])

Tablefull(p) == ifreel = <<>> /\ Goes(p, [user[p] EXCEPT !.pc = user[p].ret, !.slot = Nil])

Iget(p) ==
  /\ At(p, "iget")
  /\ \/ \E s \in Ifind(user[p].ino) : IgetHit(p, s) /\ UNCHANGED ifreel
     \/ Ifind(user[p].ino) = {} /\ IgetMiss(p)
     \/ Ifind(user[p].ino) = {} /\ Tablefull(p) /\ UNCHANGED <<inode, ifreel>>
  /\ UNCHANGED <<dinode, named, ialVars>>

(* fsget once the inode has been read from the disk: on an error it puts   *)
(* the inode, and the caller gets none.                                    *)
Fsget(p) ==
  LET s == user[p].slot
      d == dinode[inode[s].ino]
  IN /\ At(p, "fsget")
     /\ \/ /\ inode' = [inode EXCEPT ![s].mode = d.mode, ![s].nlink = d.nlink]
           /\ Goes(p, [user[p] EXCEPT !.pc = user[p].ret])
           /\ UNCHANGED ioerror
        \/ /\ "fsget" \in ReadFails /\ ioerror' = TRUE
           /\ Goes(p, Iputs(user[p], s, "noinode")) /\ UNCHANGED inode
     /\ UNCHANGED <<ifreel, dinode, named, numbers>>

Noinode(p) ==
  /\ At(p, "noinode")
  /\ Goes(p, [user[p] EXCEPT !.pc = user[p].ret, !.slot = Nil])
  /\ UNCHANGED <<inode, ifreel, dinode, named, ialVars>>

-----------------------------------------------------------------------------
(* iput(ip).  The last reference locks the inode, frees the file if it has *)
(* no link, writes the inode if it has changed and frees the slot; any     *)
(* other is given up, and the lock with it, whoever holds that.            *)
Iput(p) ==
  LET s == user[p].slot
      last == inode[s].count = 1
      at == IF inode[s].nlink <= 0 THEN "t_free" ELSE "t_put"
      r == [Holding(user[p], s) EXCEPT !.pc = at]
  IN /\ At(p, "iput")
     /\ \/ /\ last /\ inode' = [inode EXCEPT ![s] = Locked(@)]
           /\ IF at = "t_free" \/ inode[s].dirty THEN MaySleep(p, r) ELSE Goes(p, r)
        \/ ~last /\ Prele(p, s, Counted(inode[s], -1), [Left(user[p], s) EXCEPT !.pc = user[p].then])
     /\ UNCHANGED <<ifreel, dinode, named, ialVars>>

(* fsfree after it has truncated the file: ifree gives the number back,    *)
(* unless s_inode is full or just being filled.                            *)
TFree(p) ==
  LET s == user[p].slot
  IN /\ At(p, "t_free")
     /\ inode' = [inode EXCEPT ![s].mode = 0, ![s].dirty = TRUE]
     /\ s_inode' = IF s_ilock \/ Len(s_inode) >= InoCache THEN s_inode ELSE Append(s_inode, inode[s].ino)
     /\ MaySleep(p, [user[p] EXCEPT !.pc = "t_put"])
     /\ UNCHANGED <<ifreel, dinode, named, s_ilock, spoilt, ioerror>>

OnDisk(i) == [mode |-> i.mode, nlink |-> i.nlink]
Written(i) == IF i.dirty THEN [dinode EXCEPT ![i.ino] = OnDisk(i)] ELSE dinode

(* fsiupdat, once bread has returned the block of the inode i: it writes   *)
(* the inode, or it returns, as for a failed transfer, and nothing hears.  *)
Fsiupdat(i) == dinode' = Written(i) /\ UNCHANGED ioerror
FsiupdatFails(i) == i.dirty /\ "fsiupdat" \in ReadFails /\ ioerror' = TRUE /\ UNCHANGED dinode

(* fsput, from there on, and the rest of iput, which clears the flags.     *)
TPut(p) ==
  LET s == user[p].slot
      i == inode[s]
  IN /\ At(p, "t_put")
     /\ Fsiupdat(i) \/ FsiupdatFails(i)
     /\ ifreel' = <<s>> \o ifreel
     /\ Prele(p, s, Counted([i EXCEPT !.ino = Nil, !.dirty = FALSE], -1),
              [Left(user[p], s) EXCEPT !.pc = user[p].then])
     /\ UNCHANGED <<named, numbers>>

-----------------------------------------------------------------------------
(* fsnami puts the directory, which it no longer has locked; its caller    *)
(* uses the file and puts it, or unlocks it and keeps the reference.       *)
Looked(p) ==
  /\ At(p, "looked")
  /\ Goes(p, [Leaves(user[p], IF user[p].slot = Nil THEN "idle" ELSE "use") EXCEPT !.file = user[p].slot])
  /\ UNCHANGED <<inode, ifreel, dinode, named, ialVars>>

Use(p) ==
  LET s == user[p].file
  IN /\ At(p, "use")
     /\ \/ UNCHANGED inode /\ MaySleep(p, Iputs(user[p], s, "idle"))
        \/ Prele(p, s, inode[s], [user[p] EXCEPT !.pc = "open", !.slot = s, !.locks = @ \ {s}])
     /\ UNCHANGED <<ifreel, dinode, named, ialVars>>

(* dormfile: the entry is cleared, then the link count; nami puts the      *)
(* directory.                                                              *)
Dormfile(p) ==
  /\ At(p, "dormfile")
  /\ IF user[p].slot = Nil THEN Goes(p, Leaves(user[p], "idle"))
     ELSE MaySleep(p, [user[p] EXCEPT !.pc = "removed"])
  /\ UNCHANGED <<inode, ifreel, dinode, named, ialVars>>

Removed(p) ==
  LET s == user[p].slot
  IN /\ At(p, "removed")
     /\ named' = [named EXCEPT ![user[p].dir] = @ \ {user[p].ino}]
     /\ inode' = [inode EXCEPT ![s].nlink = @ - 1, ![s].dirty = TRUE]
     /\ Goes(p, Iputs(user[p], s, "leave"))
     /\ UNCHANGED <<ifreel, dinode, ialVars>>

Leave(p) ==
  /\ At(p, "leave")
  /\ Goes(p, Leaves(user[p], "idle"))
  /\ UNCHANGED <<inode, ifreel, dinode, named, ialVars>>

-----------------------------------------------------------------------------
(* ialloc: the lock of the free numbers, the last of them, and iget.       *)
Ialloc(p) ==
  /\ At(p, "ialloc")
  /\ IF s_ilock THEN Sleeps(p, IlockChan, user[p]) /\ UNCHANGED s_ilock
     ELSE s_ilock' = TRUE /\ Goes(p, [user[p] EXCEPT !.pc = "iloop"])
  /\ UNCHANGED <<inode, ifreel, dinode, named, s_inode, spoilt, ioerror>>

(* With no number left it searches the disk: from the block where the last *)
(* search ended and then from the top, or only from the top.               *)
Iloop(p) ==
  /\ At(p, "iloop")
  /\ \/ /\ s_inode # <<>>
        /\ s_inode' = Front(s_inode)
        /\ Goes(p, [user[p] EXCEPT !.pc = "iget", !.ino = Last(s_inode), !.ret = "ialloced"])
     \/ /\ s_inode = <<>> /\ UNCHANGED s_inode
        /\ \/ \E b \in DOMAIN Ilist : MaySleep(p, [user[p] EXCEPT !.pc = "fill", !.scan = b, !.first = TRUE])
           \/ MaySleep(p, [user[p] EXCEPT !.pc = "fill", !.scan = 1, !.first = FALSE])
  /\ UNCHANGED <<inode, ifreel, dinode, named, s_ilock, spoilt, ioerror>>

(* s_ilock is dropped; a new inode is written next, and its block read.    *)
Iunlock(p, r) ==
  /\ s_ilock' = FALSE
  /\ user' = [WakeAll(IlockChan) EXCEPT ![p] = r]
  /\ running' = IF r.pc = "iupdat" THEN Nil ELSE p

IsAny(i) == TRUE                     \* mutant: the check of i_mode dropped
IsFree(i) == i.mode = 0

(* What iget returned: the caller's new inode, or one that is in use after *)
(* all, which is put back.  domkfile sets mode and links.                  *)
Ialloced(p) ==
  LET s == user[p].slot
  IN /\ At(p, "ialloced")
     /\ \/ s = Nil /\ Iunlock(p, Leaves(user[p], "idle")) /\ UNCHANGED inode
        \/ /\ s # Nil /\ IsFree(inode[s])
           /\ inode' = [inode EXCEPT ![s].mode = 1, ![s].nlink = 1, ![s].dirty = TRUE]
           /\ Iunlock(p, [user[p] EXCEPT !.pc = "iupdat", !.file = s])
        \/ /\ s # Nil /\ ~IsFree(inode[s])
           /\ Goes(p, Iputs(user[p], s, "iloop"))
           /\ UNCHANGED <<inode, s_ilock>>
     /\ UNCHANGED <<ifreel, dinode, named, s_inode, spoilt, ioerror>>

(* One block of the search: an inode is free if the disk says so and it is *)
(* not in core; whether s_inode is full is asked after each that is taken. *)
(* At the end s_ilock is dropped, and only then are the numbers used.      *)
FreeIn(block) ==
  LET free == {i \in DOMAIN block : dinode[block[i]].mode = 0 /\ Ifind(block[i]) = {}}
      nth(k) == CHOOSE i \in free : Cardinality({j \in free : j <= i}) = k
  IN [k \in 1 .. Cardinality(free) |-> block[nth(k)]]
Taken(cache, found) ==
  cache \o SubSeq(found, 1, Min({Len(found), Max({1, InoCache - Len(cache)})}))

Fill(p) ==
  LET r == user[p]
      cache == Taken(s_inode, FreeIn(Ilist[r.scan]))
      full == Len(cache) >= InoCache
      end == r.scan = Len(Ilist)
  IN /\ At(p, "fill")
     /\ s_inode' = IF Len(cache) > InoCache THEN s_inode ELSE cache
     /\ spoilt' = (Len(cache) > InoCache)
     /\ \/ ~full /\ ~end /\ MaySleep(p, [r EXCEPT !.scan = @ + 1]) /\ UNCHANGED s_ilock
        \/ ~full /\ end /\ r.first /\ MaySleep(p, [r EXCEPT !.scan = 1, !.first = FALSE]) /\ UNCHANGED s_ilock
        \/ /\ full \/ (end /\ ~r.first)
           /\ Iunlock(p, IF cache = <<>> THEN Leaves([r EXCEPT !.scan = 0], "idle")
                         ELSE [r EXCEPT !.pc = "iloop", !.scan = 0])
     /\ UNCHANGED <<inode, ifreel, dinode, named, ioerror>>

(* domkfile: the inode is on the disk before the directory names it, if    *)
(* its block could be read; it is entered in any case.                     *)
Iupdat(p) ==
  LET s == user[p].file
  IN /\ At(p, "iupdat")
     /\ \/ Fsiupdat(inode[s]) /\ inode' = [inode EXCEPT ![s].dirty = FALSE]
        \/ FsiupdatFails(inode[s]) /\ UNCHANGED inode
     /\ MaySleep(p, [user[p] EXCEPT !.pc = "enter"])
     /\ UNCHANGED <<ifreel, named, numbers>>

EnterName(p) ==
  /\ At(p, "enter")
  /\ named' = [named EXCEPT ![user[p].dir] = @ \cup {user[p].ino}]
  /\ Goes(p, Leaves(user[p], "use"))
  /\ UNCHANGED <<inode, ifreel, dinode, ialVars>>

-----------------------------------------------------------------------------
(* update: every inode that is in use and not locked is written if it has  *)
(* changed, and put.                                                       *)
Update(p) ==
  LET rest == {s \in Table : s >= user[p].scan /\ ~inode[s].lock /\ inode[s].count # 0}
      s == Min(rest)
      r == Holding(Referring([user[p] EXCEPT !.pc = "updated", !.slot = s, !.scan = s + 1], s), s)
  IN /\ At(p, "update")
     /\ \/ /\ rest # {} /\ inode' = [inode EXCEPT ![s] = Counted(Locked(@), 1)]
           /\ IF inode[s].dirty THEN MaySleep(p, r) ELSE Goes(p, r)
        \/ rest = {} /\ Goes(p, Fresh) /\ UNCHANGED inode
     /\ UNCHANGED <<ifreel, dinode, named, ialVars>>

Updated(p) ==
  LET s == user[p].slot
  IN /\ At(p, "updated")
     /\ \/ Fsiupdat(inode[s]) /\ inode' = [inode EXCEPT ![s].dirty = FALSE]
        \/ FsiupdatFails(inode[s]) /\ UNCHANGED inode
     /\ Goes(p, Iputs(user[p], s, "update"))
     /\ UNCHANGED <<ifreel, named, numbers>>

-----------------------------------------------------------------------------
InodeInit ==
  /\ inode = [s \in Table |-> [ino |-> IF s \in Dirs THEN -s ELSE Nil, lock |-> FALSE, want |-> FALSE,
                               count |-> IF s \in Dirs THEN 1 ELSE 0, dirty |-> FALSE,
                               mode |-> 1, nlink |-> 1]]
  /\ ifreel = [i \in 1 .. ninode - Cardinality(Dirs) |-> Cardinality(Dirs) + i]
  /\ named = Born
  /\ dinode = [n \in Inos \cup {-d : d \in Dirs} |->
               IF n > 0 /\ \A d \in Dirs : n \notin named[d] THEN Unused ELSE [mode |-> 1, nlink |-> 1]]
  /\ s_inode = <<>> /\ s_ilock = FALSE /\ spoilt = FALSE /\ ioerror = FALSE
  /\ running = Nil
  /\ user = [p \in Users |-> Fresh]

InodeStep(p) ==
  \/ Syscall(p) \/ Close(p) \/ Plock(p) \/ Dsearch(p) \/ Iget(p) \/ IgetWake(p) \/ Fsget(p) \/ Noinode(p)
  \/ Iput(p) \/ TFree(p) \/ TPut(p) \/ Looked(p) \/ Use(p) \/ Dormfile(p) \/ Removed(p) \/ Leave(p)
  \/ Ialloc(p) \/ Iloop(p) \/ Ialloced(p) \/ Fill(p) \/ Iupdat(p) \/ EnterName(p)
  \/ Update(p) \/ Updated(p)

InodeNext == \E p \in Users : InodeStep(p)

InodeSpec == InodeInit /\ [][InodeNext]_inodeVars

-----------------------------------------------------------------------------
InodeTypeOK ==
  /\ inode \in [Table -> [ino : Inos \cup {-d : d \in Dirs} \cup {Nil}, lock : BOOLEAN, want : BOOLEAN,
                         count : Nat, dirty : BOOLEAN, mode : {0, 1}, nlink : Int]]
  /\ ifreel \in Seq(Table) /\ s_inode \in Seq(Inos) /\ s_ilock \in BOOLEAN /\ spoilt \in BOOLEAN
  /\ \A n \in DOMAIN dinode : dinode[n].mode \in {0, 1} /\ dinode[n].nlink \in Int
  /\ named \in [Dirs -> SUBSET Inos] /\ running \in Users \cup {Nil}
  /\ \A p \in Users : /\ user[p].refs \subseteq Table /\ user[p].locks \subseteq user[p].refs
                     /\ user[p].asleep \in Table \cup {IlockChan, Nil}

(* The table: a slot is free or stands for one number, no number has two   *)
(* slots, so that everybody who has a file has the same inode and lock;    *)
(* and nobody's file is in a free slot.  (update may pass over a free slot *)
(* that a waiter has yet to leave: it is neither written nor put twice.)   *)
OneInode ==
  /\ \A s \in Table : inode[s].ino = Nil <=> \E i \in DOMAIN ifreel : ifreel[i] = s
  /\ \A s, t \in Table : inode[s].ino = inode[t].ino /\ inode[s].ino # Nil => s = t
  /\ \A i, j \in DOMAIN ifreel : ifreel[i] = ifreel[j] => i = j
  /\ \A p \in Users : \A s \in user[p].refs :
       inode[s].ino # Nil \/ (user[p].goal = "sync" /\ running = p /\ ~inode[s].dirty)

(* i_count is the number of references, those of waiters in iget included: *)
(* iput never meets i_count 0, its panic, and never takes a reference that *)
(* is somebody else's for the last.                                        *)
CountAccounts ==
  \A s \in Table :
    inode[s].count = Cardinality({p \in Users : s \in user[p].refs})
                     + Cardinality({p \in Users : user[p].pc = "igetwake" /\ user[p].slot = s})
                     + (IF s \in Dirs THEN 1 ELSE 0)

(* Nobody sleeps on an inode unless its lock will be released with a       *)
(* wakeup, nor on s_ilock unless it is set; and the processes do not all   *)
(* wait for each other.                                                    *)
WaitersWillWake ==
  /\ \E p \in Users : user[p].asleep = Nil
  /\ \A p \in Users :
    /\ user[p].asleep \in Table => inode[user[p].asleep].lock /\ inode[user[p].asleep].want
    /\ user[p].asleep = IlockChan => s_ilock

(* A new file gets an inode of its own: no name leads to it and nobody     *)
(* else has a reference to it before it is entered, as long as no transfer *)
(* of an inode has failed (fsget puts an inode whose i_nlink is still that *)
(* of the last file in the slot, which may free a file that has a name).   *)
NewIsNobodys ==
  ~ioerror => \A p \in Users :
    user[p].pc \in {"iupdat", "enter"} =>
      /\ \A d \in Dirs : user[p].ino \notin named[d]
      /\ \A q \in Users \ {p} : user[p].file \notin user[q].refs

(* pipe.c: "Lock an inode.  If its already locked, set the WANT bit and    *)
(* sleep": a process that has locked an inode has it until it unlocks it.  *)
LockIsKept ==
  \A p \in Users : \A s \in user[p].locks :
    inode[s].lock /\ \A q \in Users \ {p} : s \notin user[q].locks

(* iget.c: "On the last reference, write the inode out and if necessary,   *)
(* truncate and deallocate the file": an inode in core has a reference.    *)
LastReferenceFrees == (\A p \in Users : user[p].pc = "idle") =>
  \A s \in Table : inode[s].ino # Nil => inode[s].count > 0

FilesKept == \A d \in Dirs : \A n \in named[d] : dinode[n].mode # 0
CacheFits == ~spoilt
=============================================================================
