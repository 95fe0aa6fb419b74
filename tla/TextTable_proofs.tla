--------------------------- MODULE TextTable_proofs ---------------------------
(***************************************************************************)
(* Theorems about the text table, for any processes, programs, system      *)
(* calls, traced processes and size of the table.                          *)
(*                                                                         *)
(* x_count counts the processes that use a text (Uses), x_ccount those of  *)
(* them in core (InCore), and the lock of a text is one process's          *)
(* (Locks).  A step changes these of one process, or of two, and one slot  *)
(* of the table; the lemmas on slots say once what that does to the        *)
(* counts.                                                                 *)
(***************************************************************************)
EXTENDS TextTable, FiniteSetTheorems, WellFoundedInduction, TLAPS

RunnersAndSched == Runners \cup {sched}

(***************************************************************************)
(* The inductive invariant                                                 *)
(***************************************************************************)
RunnerLabels == {"none", "born", "user", "getxfile", "xfree", "xlast", "xccdec", "xalloc", "xwait", "xload",
                 "vmdup", "xrele", "xuntext", "access", "exit"}
SchedLabels == {"idle", "swapout", "swapped", "swapin", "swapio"}

TextRecords ==
  [iptr : Programs \cup {Nothing}, count : Int, ccount : Int, lock : BOOLEAN, want : BOOLEAN, trc : BOOLEAN,
   poip : Int]
RunnerRecords ==
  [pc : RunnerLabels \cup SchedLabels, file : Programs \cup {Nothing}, slot : TextSlots \cup {0, Nothing},
   textp : TextSlots \cup {Nothing}, linked : BOOLEAN, load : BOOLEAN, other : Runners \cup {Nothing},
   then : RunnerLabels, asleep : Int \cup {Nothing}]
ProgramRecords == [itext : BOOLEAN, ilock : Runners \cup {Nothing}, writers : SUBSET Runners]

TextTypes ==
  /\ xtext \in [TextSlots -> TextRecords] /\ xinode \in [Programs -> ProgramRecords]
  /\ xproc \in [RunnersAndSched -> RunnerRecords]
  /\ trunning \in RunnersAndSched \cup {Nothing} /\ tpanic \in BOOLEAN

(* The process whose place is an exec, from the test of the file on; or    *)
(* an open for writing: it has the inode locked.                           *)
Freeing == {"xfree", "xlast", "xccdec"}
Allocating == {"xalloc", "xwait", "xload"}
InExec(r) == r.pc \in Allocating \/ (r.pc \in Freeing /\ r.then = "xalloc")
InOpen(r) == r.pc = "access" \/ (r.pc \in {"xrele", "xuntext"} /\ r.then = "access")
HasFile(r) == InExec(r) \/ InOpen(r) \/ r.pc = "getxfile"

(* What a process's record may be, by itself.                              *)
RunnerOK(r) ==
  /\ r.pc \in RunnerLabels
  /\ r.pc \in {"user", "none", "born"} => /\ r.then = "user" /\ r.file = Nothing
                                        /\ r.slot = Nothing /\ r.other = Nothing
  /\ r.pc \in Freeing => r.then \in {"xalloc", "exit"}
  /\ r.pc \in {"xrele", "xuntext"} => r.then \in {"access", "user"}
  /\ r.pc \in Allocating => r.then = "xalloc"
  /\ r.pc = "exit" => r.then = "exit"
  /\ r.pc \in {"none", "exit", "xalloc", "xwait"} => r.textp = Nothing
  /\ r.pc \in {"xlast", "xccdec", "xload", "born", "vmdup"} => r.textp # Nothing
  /\ r.pc \in {"none", "born", "vmdup", "xlast", "xccdec", "xload"} => r.load
  /\ HasFile(r) => r.file \in Programs
  /\ r.pc \in {"xwait", "xuntext"} => r.slot \in TextSlots
  /\ r.linked => r.textp # Nothing /\ r.pc # "xlast"
  /\ r.load /\ r.textp # Nothing /\ r.pc # "xlast" => r.linked

(* What the swapper does with a process, which is not in core meanwhile.   *)
Swapping(q) == xproc[sched].pc \in SchedLabels \ {"idle"} /\ xproc[sched].other = q
SchedOK ==
  LET r == xproc[sched]
  IN /\ r.pc \in SchedLabels /\ r.textp = Nothing /\ ~r.linked /\ r.load
     /\ r.pc # "idle" => /\ r.other \in Runners /\ ~xproc[r.other].load
                         /\ r.pc = "swapout" /\ xproc[r.other].textp # Nothing => xproc[r.other].linked
                         /\ r.pc = "swapped" => xproc[r.other].linked
                         /\ r.pc \in {"swapin", "swapio"} => ~xproc[r.other].linked

RunnersOK ==
  \A p \in Runners :
    /\ RunnerOK(xproc[p])
    /\ xproc[p].pc = "vmdup" => xproc[p].other \in Runners /\ xproc[xproc[p].other].pc = "born"
    /\ ~xproc[p].load /\ xproc[p].linked => Swapping(p) /\ xproc[sched].pc \in {"swapout", "swapped"}

(* The slot p is counted in, in x_count and in x_ccount; the one it has    *)
(* locked.                                                                 *)
Uses(p) == IF xproc[p].pc \in {"xlast", "xccdec"} THEN Nothing ELSE xproc[p].textp
InCore(p) ==
  IF ~xproc[p].linked \/ xproc[p].pc = "xccdec" \/ (xproc[sched].pc = "swapped" /\ xproc[sched].other = p)
  THEN Nothing ELSE xproc[p].textp
Locks(p) ==
  CASE xproc[p].pc \in {"xlast", "xccdec", "xload"} -> xproc[p].textp
    [] xproc[p].pc \in {"vmdup", "swapped", "swapio"} -> xproc[xproc[p].other].textp
    [] OTHER -> Nothing

Users(x) == {p \in Runners : Uses(p) = x}
Residents(x) == {p \in Runners : InCore(p) = x}
Lockers(x) == {p \in RunnersAndSched : Locks(p) = x}
Ending(p) == xproc[p].pc = "xlast"

(* A text is in use, being given up by one process, or the slot is free.   *)
SlotCount(t, users, residents) ==
  /\ t.count = Cardinality(users)
  /\ t.count > 0 => t.iptr # Nothing /\ t.ccount = Cardinality(residents)
SlotLock(t, lockers) ==
  \A p \in lockers : /\ t.lock /\ t.iptr # Nothing /\ lockers = {p}
                     /\ (t.count = 0) <=> Ending(p)
SlotOK(x) ==
  /\ SlotCount(xtext[x], Users(x), Residents(x)) /\ SlotLock(xtext[x], Lockers(x))
  /\ xtext[x].iptr # Nothing /\ xtext[x].count = 0 => Lockers(x) # {}

OneShared ==
  \A x, y \in TextSlots :
    (/\ xtext[x].iptr = xtext[y].iptr /\ xtext[x].count > 0 /\ xtext[y].count > 0
     /\ ~xtext[x].trc /\ ~xtext[y].trc) => x = y

(* A file that has ITEXT, or is about to be a text, has no writers.        *)
FilesOK ==
  /\ \A x \in TextSlots : xtext[x].count > 0 => xinode[xtext[x].iptr].itext
  /\ \A f \in Programs : xinode[f].itext => xinode[f].writers = {}
  /\ \A p \in Runners : HasFile(xproc[p]) => xinode[xproc[p].file].ilock = p
  /\ \A p \in Runners : InExec(xproc[p]) => xinode[xproc[p].file].writers = {}

SlotsOK == \A x \in TextSlots : SlotOK(x)
TextInv == TextTypes /\ SchedOK /\ RunnersOK /\ SlotsOK /\ OneShared /\ FilesOK

-----------------------------------------------------------------------------
(***************************************************************************)
(* Processes: a step moves one process, and may wake others.               *)
(***************************************************************************)
Alike(r, s) ==
  /\ s.pc = r.pc /\ s.file = r.file /\ s.textp = r.textp /\ s.linked = r.linked
  /\ s.load = r.load /\ s.other = r.other /\ s.then = r.then /\ s.slot = r.slot
OthersAlike(p) == \A q \in RunnersAndSched \ {p} : Alike(xproc[q], xproc'[q])

LEMMA Constants ==
  /\ Nothing \notin TextSlots /\ Nothing # 0 /\ Nothing \notin Runners /\ Nothing \notin Programs
  /\ Nothing # sched /\ sched \notin Runners /\ 0 \notin TextSlots /\ TextSlots \subseteq Int
  /\ FirstRunner \in Runners /\ IsFiniteSet(Runners)
BY TextConstants DEF TextSlots

(* What a record is with another label or another file.                    *)
LEMMA SettledIs ==
  ASSUME NEW r \in RunnerRecords
  PROVE  /\ Settled(r) \in RunnerRecords
         /\ Settled(r).pc = r.pc /\ Settled(r).textp = r.textp /\ Settled(r).linked = r.linked
         /\ Settled(r).load = r.load
         /\ ~InUser(r) => Settled(r) = r
         /\ InUser(r) => /\ Settled(r).file = Nothing /\ Settled(r).then = "user"
                         /\ Settled(r).slot = Nothing /\ Settled(r).other = Nothing
<1>1. "user" \in RunnerLabels
  BY DEF RunnerLabels
<1> QED BY <1>1 DEF Settled, RunnerRecords

LEMMA AwakeAlike ==
  ASSUME TextTypes, NEW chan
  PROVE  /\ Awake(chan) \in [RunnersAndSched -> RunnerRecords]
         /\ \A q \in RunnersAndSched : Alike(xproc[q], Awake(chan)[q])
<1>1. DOMAIN xproc = RunnersAndSched /\ \A q \in RunnersAndSched : xproc[q] \in RunnerRecords
  BY DEF TextTypes
<1>2. ASSUME NEW q \in RunnersAndSched
      PROVE  Awake(chan)[q] \in RunnerRecords /\ Alike(xproc[q], Awake(chan)[q])
  <2>1. Awake(chan)[q] = IF xproc[q].asleep = chan THEN [xproc[q] EXCEPT !.asleep = Nothing] ELSE xproc[q]
    BY <1>1 DEF Awake
  <2>2. xproc[q] \in RunnerRecords
    BY <1>1
  <2> QED BY <2>1, <2>2 DEF RunnerRecords, Alike
<1>3. Awake(chan) = [q \in RunnersAndSched |-> Awake(chan)[q]]
  BY <1>1 DEF Awake
<1> QED BY <1>2, <1>3

LEMMA UnlockAlike ==
  ASSUME TextTypes, NEW x
  PROVE  /\ AfterUnlock(x) \in [RunnersAndSched -> RunnerRecords]
         /\ \A q \in RunnersAndSched : Alike(xproc[q], AfterUnlock(x)[q])
<1>1. \A q \in RunnersAndSched : Alike(xproc[q], xproc[q])
  BY DEF Alike
<1> QED BY <1>1, AwakeAlike DEF AfterUnlock, TextTypes

(* The process that a step moves goes on as r, at once or later.           *)
LEMMA Moved ==
  ASSUME TextTypes, NEW p \in RunnersAndSched, NEW procs \in [RunnersAndSched -> RunnerRecords],
         \A q \in RunnersAndSched : Alike(xproc[q], procs[q]),
         NEW r \in RunnerRecords, GoesOn(procs, p, r) \/ MayWait(procs, p, r)
  PROVE  /\ xproc' \in [RunnersAndSched -> RunnerRecords] /\ xproc'[p] = Settled(r)
         /\ trunning' \in RunnersAndSched \cup {Nothing} /\ OthersAlike(p)
<1>1. xproc' = [procs EXCEPT ![p] = Settled(r)] /\ trunning' \in {p, Nothing}
  BY DEF GoesOn, MayWait
<1>2. Settled(r) \in RunnerRecords
  BY SettledIs
<1> QED BY <1>1, <1>2 DEF OthersAlike

LEMMA MovedSelf ==
  ASSUME TextTypes, NEW p \in RunnersAndSched, NEW r \in RunnerRecords, GoesOn(xproc, p, r) \/ MayWait(xproc, p, r)
  PROVE  /\ xproc' \in [RunnersAndSched -> RunnerRecords] /\ xproc'[p] = Settled(r)
         /\ trunning' \in RunnersAndSched \cup {Nothing} /\ OthersAlike(p)
<1>1. xproc \in [RunnersAndSched -> RunnerRecords] /\ \A q \in RunnersAndSched : Alike(xproc[q], xproc[q])
  BY DEF TextTypes, Alike
<1> QED BY <1>1, Moved

LEMMA MovedUnlocking ==
  ASSUME TextTypes, NEW p \in RunnersAndSched, NEW r \in RunnerRecords, NEW x,
         GoesOn(AfterUnlock(x), p, r) \/ MayWait(AfterUnlock(x), p, r)
  PROVE  /\ xproc' \in [RunnersAndSched -> RunnerRecords] /\ xproc'[p] = Settled(r)
         /\ trunning' \in RunnersAndSched \cup {Nothing} /\ OthersAlike(p)
BY UnlockAlike, Moved

(* The others are where they were, and have what they had.                 *)
OthersKeep(p) ==
  /\ \A q \in Runners \ {p} : Uses(q)' = Uses(q) /\ InCore(q)' = InCore(q)
  /\ \A q \in RunnersAndSched \ {p} : Locks(q)' = Locks(q) /\ Ending(q)' = Ending(q)

LEMMA OthersKept ==
  ASSUME SchedOK, RunnersOK, NEW p \in Runners, OthersAlike(p),
         xproc[p].load, xproc[p].pc # "born"
  PROVE  OthersKeep(p)
<1>1. sched \in RunnersAndSched \ {p} /\ Runners \subseteq RunnersAndSched
  BY Constants DEF RunnersAndSched
<1>2. Alike(xproc[sched], xproc'[sched])
  BY <1>1 DEF OthersAlike
<1>3. xproc[sched].pc # "idle" => xproc[sched].other \in Runners \ {p}
  BY DEF SchedOK
<1>4. ASSUME NEW q \in Runners \ {p}
      PROVE  Uses(q)' = Uses(q) /\ InCore(q)' = InCore(q)
  <2>1. Alike(xproc[q], xproc'[q])
    BY <1>1 DEF OthersAlike
  <2> QED BY <2>1, <1>2 DEF Alike, Uses, InCore
<1>5. ASSUME NEW q \in RunnersAndSched \ {p}
      PROVE  Locks(q)' = Locks(q) /\ Ending(q)' = Ending(q)
  <2>1. Alike(xproc[q], xproc'[q])
    BY DEF OthersAlike
  <2>2. CASE xproc[q].pc \in {"vmdup", "swapped", "swapio"}
    <3>1. xproc[q].other \in Runners \ {p}
      <4>1. CASE q = sched
        BY <4>1, <2>2, <1>3
      <4>2. CASE q # sched
        <5>1. q \in Runners /\ RunnerOK(xproc[q])
          BY <4>2 DEF RunnersAndSched, RunnersOK
        <5>2. xproc[q].pc = "vmdup"
          BY <5>1, <2>2 DEF RunnerOK, RunnerLabels
        <5> QED BY <5>1, <5>2 DEF RunnersOK
      <4> QED BY <4>1, <4>2
    <3>2. Alike(xproc[xproc[q].other], xproc'[xproc[q].other])
      BY <3>1, <1>1 DEF OthersAlike
    <3> QED BY <2>1, <2>2, <3>2 DEF Alike, Locks, Ending
  <2>3. CASE xproc[q].pc \notin {"vmdup", "swapped", "swapio"}
    BY <2>1, <2>3 DEF Alike, Locks, Ending
  <2> QED BY <2>2, <2>3
<1> QED BY <1>4, <1>5 DEF OthersKeep

LEMMA RunnerOKAlike ==
  ASSUME NEW r, NEW s, Alike(r, s), RunnerOK(r)
  PROVE  RunnerOK(s)
BY DEF Alike, RunnerOK, HasFile, InExec, InOpen

(* A runner that moves stays in core, and what it must be it is.           *)
LEMMA PlacesKept ==
  ASSUME SchedOK, RunnersOK, NEW p \in Runners, OthersAlike(p), xproc[p].load, xproc[p].pc # "born",
         RunnerOK(xproc'[p]), xproc'[p].load,
         xproc'[p].pc = "vmdup" => xproc[p].pc = "vmdup" /\ xproc'[p].other = xproc[p].other
  PROVE  SchedOK' /\ RunnersOK'
<1>1. sched \in RunnersAndSched \ {p} /\ Runners \subseteq RunnersAndSched
  BY Constants DEF RunnersAndSched
<1>2. Alike(xproc[sched], xproc'[sched])
  BY <1>1 DEF OthersAlike
<1>3. SchedOK'
  <2>1. CASE xproc[sched].pc = "idle"
    BY <2>1, <1>2 DEF SchedOK, Alike
  <2>2. CASE xproc[sched].pc # "idle"
    <3>1. xproc[sched].other \in Runners \ {p}
      BY <2>2 DEF SchedOK
    <3>2. Alike(xproc[xproc[sched].other], xproc'[xproc[sched].other])
      BY <3>1, <1>1 DEF OthersAlike
    <3> QED BY <3>2, <3>1, <1>2 DEF SchedOK, Alike
  <2> QED BY <2>1, <2>2
<1>4. ASSUME NEW q \in Runners
      PROVE  /\ RunnerOK(xproc'[q])
             /\ xproc'[q].pc = "vmdup" => xproc'[q].other \in Runners /\ xproc'[xproc'[q].other].pc = "born"
             /\ ~xproc'[q].load /\ xproc'[q].linked => Swapping(q)' /\ xproc'[sched].pc \in {"swapout", "swapped"}
  <2>1. CASE q = p
    <3>1. xproc'[p].pc = "vmdup" => xproc[p].other \in Runners \ {p} /\ xproc[xproc[p].other].pc = "born"
      BY DEF RunnersOK
    <3>2. xproc'[p].pc = "vmdup" => xproc'[xproc[p].other].pc = "born"
      BY <3>1, <1>1 DEF OthersAlike, Alike
    <3> QED BY <2>1, <3>1, <3>2
  <2>2. CASE q # p
    <3>1. Alike(xproc[q], xproc'[q]) /\ RunnerOK(xproc[q])
      BY <2>2, <1>1 DEF OthersAlike, RunnersOK
    <3>2. xproc[q].pc = "vmdup" => xproc[q].other \in Runners \ {p} /\ xproc[xproc[q].other].pc = "born"
      BY DEF RunnersOK
    <3>3. xproc[q].pc = "vmdup" => xproc'[xproc[q].other].pc = "born"
      BY <3>2, <1>1 DEF OthersAlike, Alike
    <3>4. ~xproc[q].load /\ xproc[q].linked => Swapping(q) /\ xproc[sched].pc \in {"swapout", "swapped"}
      BY DEF RunnersOK
    <3> QED BY <3>1, <3>2, <3>3, <3>4, <1>2, RunnerOKAlike DEF Alike, Swapping
  <2> QED BY <2>1, <2>2
<1> QED BY <1>3, <1>4 DEF RunnersOK

-----------------------------------------------------------------------------
(***************************************************************************)
(* Slots: what a step does to the counts of a text and to its lock.        *)
(***************************************************************************)
One(b) == IF b THEN 1 ELSE 0

LEMMA CardWith ==
  ASSUME NEW S, IsFiniteSet(S), NEW p
  PROVE  /\ IsFiniteSet(S \cup {p}) /\ Cardinality(S \cup {p}) = Cardinality(S) + One(p \notin S)
         /\ IsFiniteSet(S \ {p}) /\ Cardinality(S \ {p}) = Cardinality(S) - One(p \in S)
         /\ Cardinality(S) \in Nat
<1>1. Cardinality(S) \in Nat
  BY FS_CardinalityType
<1>2. CASE p \in S
  <2>1. S \cup {p} = S
    BY <1>2
  <2> QED BY <1>1, <1>2, <2>1, FS_RemoveElement DEF One
<1>3. CASE p \notin S
  <2>1. S \ {p} = S
    BY <1>3
  <2> QED BY <1>1, <1>3, <2>1, FS_AddElement DEF One
<1> QED BY <1>2, <1>3

(* A set that gains or loses nobody but p.                                 *)
LEMMA CardMoves ==
  ASSUME NEW S, IsFiniteSet(S), NEW T, NEW p, \A q : q # p => (q \in T <=> q \in S)
  PROVE  Cardinality(T) = Cardinality(S) + One(p \in T) - One(p \in S) /\ Cardinality(S) \in Nat
                          /\ Cardinality(T) \in Nat
<1>1. CASE p \in T
  <2>1. T = S \cup {p}
    BY <1>1
  <2>2. /\ Cardinality(S \cup {p}) = Cardinality(S) + One(p \notin S) /\ Cardinality(S) \in Nat
    BY CardWith
  <2> QED BY <1>1, <2>1, <2>2 DEF One
<1>2. CASE p \notin T
  <2>1. T = S \ {p}
    BY <1>2
  <2>2. /\ Cardinality(S \ {p}) = Cardinality(S) - One(p \in S) /\ Cardinality(S) \in Nat
        /\ Cardinality(S \ {p}) \in Nat
    BY CardWith, FS_CardinalityType
  <2> QED BY <1>2, <2>1, <2>2 DEF One
<1> QED BY <1>1, <1>2

LEMMA FiniteUsers ==
  ASSUME NEW x
  PROVE  IsFiniteSet(Users(x)) /\ IsFiniteSet(Residents(x))
BY Constants, FS_Subset DEF Users, Residents

LEMMA Recount ==
  ASSUME NEW p \in Runners, NEW x, OthersKeep(p)
  PROVE  /\ Cardinality(Users(x)') = Cardinality(Users(x)) + One(Uses(p)' = x) - One(Uses(p) = x)
         /\ Cardinality(Residents(x)') = Cardinality(Residents(x)) + One(InCore(p)' = x) - One(InCore(p) = x)
         /\ Cardinality(Users(x)) \in Nat /\ Cardinality(Residents(x)) \in Nat
         /\ Cardinality(Users(x)') \in Nat /\ Cardinality(Residents(x)') \in Nat
         /\ \A q \in RunnersAndSched \ {p} : q \in Lockers(x)' <=> q \in Lockers(x)
         /\ p \in Lockers(x) <=> Locks(p) = x
         /\ p \in Lockers(x)' <=> Locks(p)' = x
         /\ Lockers(x) \subseteq RunnersAndSched /\ Lockers(x)' \subseteq RunnersAndSched
<1>1. \A q : q # p => (q \in Users(x)' <=> q \in Users(x)) /\ (q \in Residents(x)' <=> q \in Residents(x))
  BY DEF OthersKeep, Users, Residents
<1>2. /\ p \in Users(x) <=> Uses(p) = x
      /\ p \in Users(x)' <=> Uses(p)' = x
      /\ p \in Residents(x) <=> InCore(p) = x
      /\ p \in Residents(x)' <=> InCore(p)' = x
  BY DEF Users, Residents
<1>3. IsFiniteSet(Users(x)) /\ IsFiniteSet(Residents(x))
  BY FiniteUsers
<1>4. /\ Cardinality(Users(x)') = Cardinality(Users(x)) + One(p \in Users(x)') - One(p \in Users(x))
      /\ Cardinality(Users(x)) \in Nat /\ Cardinality(Users(x)') \in Nat
  BY <1>1, <1>3, CardMoves
<1>5. /\ Cardinality(Residents(x)') = Cardinality(Residents(x)) + One(p \in Residents(x)') - One(p \in Residents(x))
      /\ Cardinality(Residents(x)) \in Nat /\ Cardinality(Residents(x)') \in Nat
  BY <1>1, <1>3, CardMoves
<1>6. p \in RunnersAndSched
  BY DEF RunnersAndSched
<1> QED BY <1>2, <1>4, <1>5, <1>6 DEF OthersKeep, Lockers, One

(* The text of a slot is as it was: used by as many, and locked if it was  *)
(* somebody's.                                                             *)
KeepsText(x) ==
  /\ xtext'[x].iptr = xtext[x].iptr /\ xtext'[x].count = xtext[x].count /\ xtext'[x].ccount = xtext[x].ccount
  /\ xtext[x].count > 0 => xtext'[x].trc = xtext[x].trc
  /\ xtext'[x].lock = xtext[x].lock \/ Lockers(x) = {}

LEMMA SlotElsewhere ==
  ASSUME NEW p \in Runners, NEW x \in TextSlots, OthersKeep(p), SlotOK(x), KeepsText(x),
         Uses(p)' = x <=> Uses(p) = x, InCore(p)' = x <=> InCore(p) = x, Locks(p)' = x <=> Locks(p) = x,
         Locks(p) = x => Ending(p)' = Ending(p)
  PROVE  SlotOK(x)'
<1>1. /\ Cardinality(Users(x)') = Cardinality(Users(x))
      /\ Cardinality(Residents(x)') = Cardinality(Residents(x))
  BY Recount DEF One
<1>2. Lockers(x)' = Lockers(x) /\ \A q \in Lockers(x) : Ending(q)' = Ending(q)
  BY Recount DEF OthersKeep, Lockers
<1>3. SlotCount(xtext[x], Users(x), Residents(x))'
  BY <1>1 DEF SlotOK, SlotCount, KeepsText
<1>4. SlotLock(xtext[x], Lockers(x))'
  BY <1>2 DEF SlotOK, SlotLock, KeepsText
<1> QED BY <1>2, <1>3, <1>4 DEF SlotOK, KeepsText

(* A step that changes no text, and nothing of what its process has.       *)
HasTheSame(p) ==
  /\ Uses(p)' = Uses(p) /\ InCore(p)' = InCore(p) /\ Locks(p)' = Locks(p)
  /\ Ending(p)' = Ending(p)

LEMMA SharedKept ==
  ASSUME OneShared,
         \A x \in TextSlots : /\ xtext'[x].count > 0 => /\ xtext[x].count > 0 /\ xtext'[x].iptr = xtext[x].iptr
                                                        /\ xtext'[x].trc = xtext[x].trc
  PROVE  OneShared'
BY DEF OneShared

LEMMA QuietTexts ==
  ASSUME SlotsOK, OneShared, NEW p \in Runners, OthersKeep(p), HasTheSame(p), \A x \in TextSlots : KeepsText(x)
  PROVE  SlotsOK' /\ OneShared'
<1>1. ASSUME NEW x \in TextSlots PROVE SlotOK(x)'
  BY SlotElsewhere DEF SlotsOK, HasTheSame
<1>2. OneShared'
  BY SharedKept DEF KeepsText
<1> QED BY <1>1, <1>2 DEF SlotsOK

(* A step that does change texts does it to one slot.                      *)
LEMMA OneSlot ==
  ASSUME SlotsOK, NEW p \in Runners, OthersKeep(p), NEW x \in TextSlots,
         \A y \in TextSlots \ {x} : KeepsText(y),
         {Uses(p), InCore(p), Locks(p), Uses(p)', InCore(p)', Locks(p)'} \subseteq {x, Nothing}, SlotOK(x)'
  PROVE  SlotsOK'
<1>1. ASSUME NEW y \in TextSlots \ {x} PROVE SlotOK(y)'
  <2>1. y \notin {x, Nothing} /\ SlotOK(y) /\ KeepsText(y)
    BY Constants DEF SlotsOK
  <2> QED BY <2>1, SlotElsewhere
<1> QED BY <1>1 DEF SlotsOK

(* The first of some slots; a slot that is free is nobody's.               *)
LEMMA FirstSlot ==
  ASSUME NEW S \in SUBSET TextSlots, S # {}
  PROVE  Leading(S) \in S /\ Leading(S) \in TextSlots
<1> DEFINE R == {ss \in Nat \X Nat : ss[1] < ss[2]}
<1>1. IsWellFoundedOn(R, Nat)
  BY NatLessThanWellFounded DEF OpToRel
<1>2. S \in SUBSET Nat
  BY TextConstants DEF TextSlots
<1>3. PICK x \in S : \A y \in S : <<y, x>> \notin R
  <2> HIDE DEF R
  <2> QED BY <1>1, <1>2, WFMin
<1>4. ASSUME NEW y \in S PROVE x <= y
  <2> SUFFICES ASSUME y < x PROVE FALSE
    BY <1>2
  <2>1. <<y, x>> \in R
    BY <1>2
  <2> QED BY <1>3, <2>1
<1> QED BY <1>4 DEF Leading

LEMMA FreeSlot ==
  ASSUME TextInv, NEW x \in TextSlots, xtext[x].iptr = Nothing
  PROVE  xtext[x].count = 0 /\ Lockers(x) = {} /\ Cardinality(Users(x)) = 0 /\ Cardinality(Residents(x)) \in Nat
<1>1. SlotOK(x)
  BY DEF TextInv, SlotsOK
<1>2. Cardinality(Users(x)) \in Nat /\ Cardinality(Residents(x)) \in Nat
  BY FiniteUsers, FS_CardinalityType
<1> QED BY <1>1, <1>2 DEF SlotOK, SlotCount, SlotLock

(* Nobody has a slot that is not locked, and then it has users or no file. *)
LEMMA UnlockedSlot ==
  ASSUME TextInv, NEW x \in TextSlots, ~xtext[x].lock
  PROVE  Lockers(x) = {} /\ (xtext[x].count = 0 => xtext[x].iptr = Nothing)
<1>1. SlotOK(x)
  BY DEF TextInv, SlotsOK
<1> QED BY <1>1 DEF SlotOK, SlotLock

-----------------------------------------------------------------------------
(***************************************************************************)
(* Files: ITEXT, and the lock of an inode.                                 *)
(***************************************************************************)
(* The process that moves keeps the inode it has locked, or gives it up.   *)
LEMMA FilesKept ==
  ASSUME FilesOK, NEW p \in Runners, OthersAlike(p),
         \A x \in TextSlots : xtext'[x].count > 0 => xtext[x].count > 0 /\ xtext'[x].iptr = xtext[x].iptr,
         xinode' = xinode,
         HasFile(xproc'[p]) => HasFile(xproc[p]) /\ xproc'[p].file = xproc[p].file,
         InExec(xproc'[p]) => InExec(xproc[p]) \/ xinode[xproc[p].file].writers = {}
  PROVE  FilesOK'
<1>1. \A q \in Runners \ {p} : Alike(xproc[q], xproc'[q])
  BY DEF OthersAlike, RunnersAndSched
<1>2. \A q \in Runners \ {p} : /\ HasFile(xproc'[q]) => HasFile(xproc[q]) /\ xproc'[q].file = xproc[q].file
                               /\ InExec(xproc'[q]) => InExec(xproc[q])
  BY <1>1 DEF Alike, HasFile, InExec, InOpen
<1>3. \A q \in Runners : HasFile(xproc'[q]) => xinode'[xproc'[q].file].ilock = q
  BY <1>2 DEF FilesOK
<1>4. \A q \in Runners : InExec(xproc'[q]) => xinode'[xproc'[q].file].writers = {}
  <2>1. InExec(xproc'[p]) => HasFile(xproc'[p])
    BY DEF HasFile
  <2> QED BY <1>2, <2>1 DEF FilesOK, HasFile
<1> QED BY <1>3, <1>4 DEF FilesOK

(* A step that locks or unlocks inodes, or makes writers of processes, is  *)
(* one by the process that has the inode locked, or takes it unlocked.     *)
LEMMA FilesChanged ==
  ASSUME FilesOK, NEW p \in Runners, OthersAlike(p), TextTypes,
         \A f \in Programs : /\ xinode[f].ilock \notin {p, Nothing} => xinode'[f].ilock = xinode[f].ilock
                             /\ xinode[f].ilock # p /\ xinode[f].writers = {} => xinode'[f].writers = {}
                             /\ xinode'[f].itext => xinode'[f].writers = {},
         \A x \in TextSlots : xtext'[x].count > 0 => xinode'[xtext'[x].iptr].itext,
         \A q \in Runners : HasFile(xproc[q]) => xproc[q].file \in Programs,
         HasFile(xproc'[p]) => xinode'[xproc'[p].file].ilock = p,
         InExec(xproc'[p]) => xinode'[xproc'[p].file].writers = {}
  PROVE  FilesOK'
<1>1. \A q \in Runners \ {p} : Alike(xproc[q], xproc'[q])
  BY DEF OthersAlike, RunnersAndSched
<1>2. \A q \in Runners \ {p} : /\ HasFile(xproc'[q]) => HasFile(xproc[q]) /\ xproc'[q].file = xproc[q].file
                               /\ InExec(xproc'[q]) => InExec(xproc[q]) /\ HasFile(xproc[q])
                                                       /\ xproc'[q].file = xproc[q].file
  BY <1>1 DEF Alike, HasFile, InExec, InOpen
<1>3. ASSUME NEW q \in Runners \ {p}, HasFile(xproc[q])
      PROVE  xproc[q].file \in Programs /\ xinode[xproc[q].file].ilock = q /\ q \notin {p, Nothing}
  BY <1>3, Constants DEF FilesOK
<1>4. \A q \in Runners : HasFile(xproc'[q]) => xinode'[xproc'[q].file].ilock = q
  BY <1>2, <1>3
<1>5. \A q \in Runners : InExec(xproc'[q]) => xinode'[xproc'[q].file].writers = {}
  <2>1. \A q \in Runners : InExec(xproc[q]) => xinode[xproc[q].file].writers = {}
    BY DEF FilesOK
  <2> QED BY <1>2, <1>3, <2>1
<1> QED BY <1>4, <1>5 DEF FilesOK

-----------------------------------------------------------------------------
(***************************************************************************)
(* Steps that change no text.                                              *)
(***************************************************************************)
Lockings == {"xlast", "xccdec", "xload", "vmdup", "swapped", "swapio"}

LEMMA RunnerFacts ==
  ASSUME TextInv, NEW p \in Runners
  PROVE  /\ p \in RunnersAndSched /\ xproc[p] \in RunnerRecords /\ RunnerOK(xproc[p])
         /\ xproc[p].textp \in TextSlots \cup {Nothing}
         /\ xproc[p].load => ~(xproc[sched].pc = "swapped" /\ xproc[sched].other = p)
         /\ xproc[p].load => ~Swapping(p)
<1>1. p \in RunnersAndSched
  BY DEF RunnersAndSched
<1>2. xproc[p] \in RunnerRecords
  BY <1>1 DEF TextInv, TextTypes
<1> QED BY <1>1, <1>2 DEF TextInv, RunnersOK, SchedOK, RunnerRecords, Swapping

LEMMA PlainMove ==
  ASSUME TextInv, NEW p \in Runners, OthersAlike(p), xproc[p].load, xproc[p].pc \notin Lockings,
         xproc'[p].pc \notin Lockings, xproc'[p].textp = xproc[p].textp, xproc'[p].linked = xproc[p].linked
  PROVE  HasTheSame(p)
<1>1. Alike(xproc[sched], xproc'[sched])
  BY Constants DEF OthersAlike, RunnersAndSched
<1>2. ~(xproc[sched].pc = "swapped" /\ xproc[sched].other = p)
  BY RunnerFacts
<1>3. ~(xproc'[sched].pc = "swapped" /\ xproc'[sched].other = p)
  BY <1>1, <1>2 DEF Alike
<1>4. Uses(p)' = Uses(p) /\ Locks(p)' = Locks(p) /\ Ending(p)' = Ending(p)
  BY DEF Uses, Locks, Ending, Lockings
<1>5. InCore(p)' = InCore(p)
  BY <1>2, <1>3 DEF InCore, Lockings
<1> QED BY <1>4, <1>5 DEF HasTheSame

LEMMA AlikeMove ==
  ASSUME TextInv, NEW p \in Runners, OthersAlike(p), xproc[p].load, Alike(xproc[p], xproc'[p])
  PROVE  HasTheSame(p)
<1>1. \A q \in RunnersAndSched : Alike(xproc[q], xproc'[q])
  BY DEF OthersAlike
<1>2. Alike(xproc[sched], xproc'[sched])
  BY <1>1 DEF RunnersAndSched
<1>3. xproc[p].pc = "vmdup" => xproc[p].other \in RunnersAndSched
  BY DEF TextInv, RunnersOK, RunnersAndSched
<1>4. xproc[p].pc \notin {"swapped", "swapio"}
  BY RunnerFacts DEF RunnerOK, RunnerLabels
<1>5. Uses(p)' = Uses(p) /\ InCore(p)' = InCore(p) /\ Ending(p)' = Ending(p)
  BY <1>2 DEF Alike, Uses, InCore, Ending
<1>6. Locks(p)' = Locks(p)
  <2>1. CASE xproc[p].pc = "vmdup"
    <3>1. Alike(xproc[xproc[p].other], xproc'[xproc[p].other])
      BY <1>1, <1>3, <2>1
    <3> QED BY <2>1, <3>1 DEF Alike, Locks
  <2>2. CASE xproc[p].pc # "vmdup"
    BY <2>2, <1>4 DEF Alike, Locks
  <2> QED BY <2>1, <2>2
<1> QED BY <1>5, <1>6 DEF HasTheSame

LEMMA QuietStep ==
  ASSUME TextInv, NEW p \in Runners, OthersAlike(p), xproc[p].load, xproc[p].pc # "born",
         xproc' \in [RunnersAndSched -> RunnerRecords], trunning' \in RunnersAndSched \cup {Nothing},
         tpanic' \in BOOLEAN, xtext' \in [TextSlots -> TextRecords], xinode' \in [Programs -> ProgramRecords],
         xproc'[p].load, RunnerOK(xproc'[p]), HasTheSame(p),
         xproc'[p].pc = "vmdup" => xproc[p].pc = "vmdup" /\ xproc'[p].other = xproc[p].other,
         \A x \in TextSlots : KeepsText(x), FilesOK'
  PROVE  TextInv'
<1>1. SchedOK /\ RunnersOK /\ SlotsOK /\ OneShared
  BY DEF TextInv
<1>2. SchedOK' /\ RunnersOK'
  BY <1>1, PlacesKept
<1>3. OthersKeep(p)
  BY <1>1, OthersKept
<1>4. SlotsOK' /\ OneShared'
  BY <1>1, <1>3, QuietTexts
<1>5. TextTypes'
  BY DEF TextTypes
<1> QED BY <1>2, <1>4, <1>5 DEF TextInv

(* Of most of them the texts are as they were.                             *)
LEMMA SameTexts ==
  ASSUME TextInv, UNCHANGED xtext
  PROVE  /\ xtext' \in [TextSlots -> TextRecords] /\ \A x \in TextSlots : KeepsText(x)
         /\ \A x \in TextSlots : xtext'[x].count > 0 => xtext[x].count > 0 /\ xtext'[x].iptr = xtext[x].iptr
BY DEF KeepsText, TextInv, TextTypes

(* Going on in a place where no text is locked, with what it has, and no   *)
(* inode but that it has locked.                                           *)
LEMMA GoesPlainly ==
  ASSUME TextInv, NEW p \in Runners, NEW r \in RunnerRecords,
         xproc' \in [RunnersAndSched -> RunnerRecords], trunning' \in RunnersAndSched \cup {Nothing},
         OthersAlike(p), xproc'[p] = Settled(r), UNCHANGED xinode, tpanic' \in BOOLEAN,
         xtext' \in [TextSlots -> TextRecords], \A x \in TextSlots : KeepsText(x),
         xproc[p].load, xproc[p].pc \notin Lockings \cup {"born"}, r.pc \notin Lockings,
         r.textp = xproc[p].textp, r.linked = xproc[p].linked, r.load, RunnerOK(Settled(r)),
         HasFile(Settled(r)) => HasFile(xproc[p]) /\ r.file = xproc[p].file,
         InExec(Settled(r)) => InExec(xproc[p]) \/ xinode[xproc[p].file].writers = {}
  PROVE  TextInv'
<1>1. /\ Settled(r).pc = r.pc /\ Settled(r).textp = r.textp /\ Settled(r).linked = r.linked
      /\ Settled(r).load = r.load /\ (~InUser(r) => Settled(r) = r)
  BY SettledIs
<1>2. HasTheSame(p)
  BY <1>1, PlainMove
<1>3. HasFile(Settled(r)) => ~InUser(r)
  BY <1>1 DEF HasFile, InExec, InOpen, InUser, Allocating, Freeing
<1>4. HasFile(xproc'[p]) => HasFile(xproc[p]) /\ xproc'[p].file = xproc[p].file
  BY <1>1, <1>3
<1>5. FilesOK'
  <2>1. FilesOK /\ UNCHANGED xinode
    BY DEF TextInv
  <2>2. \A x \in TextSlots : xtext'[x].count > 0 => xtext[x].count > 0 /\ xtext'[x].iptr = xtext[x].iptr
    BY DEF KeepsText
  <2> QED BY <2>1, <2>2, <1>4, FilesKept
<1>6. xinode' \in [Programs -> ProgramRecords]
  BY DEF TextInv, TextTypes
<1>7. xproc'[p].load /\ RunnerOK(xproc'[p]) /\ xproc'[p].pc # "vmdup" /\ xproc[p].pc # "born"
  BY <1>1 DEF Lockings
<1> QED BY <1>2, <1>5, <1>6, <1>7, QuietStep

LEMMA SettledOK ==
  ASSUME NEW r \in RunnerRecords
  PROVE  /\ ~InUser(r) /\ RunnerOK(r) => RunnerOK(Settled(r))
         /\ r.pc = "user" /\ (r.linked => r.textp # Nothing) /\ (r.load /\ r.textp # Nothing => r.linked)
            => RunnerOK(Settled(r))
<1>1. ~InUser(r) /\ RunnerOK(r) => RunnerOK(Settled(r))
  BY SettledIs
<1>2. ASSUME r.pc = "user", r.linked => r.textp # Nothing, r.load /\ r.textp # Nothing => r.linked
      PROVE  RunnerOK(Settled(r))
  <2>1. /\ Settled(r).pc = "user" /\ Settled(r).textp = r.textp /\ Settled(r).linked = r.linked
        /\ Settled(r).load = r.load /\ Settled(r).file = Nothing /\ Settled(r).then = "user"
        /\ Settled(r).slot = Nothing /\ Settled(r).other = Nothing
    BY <1>2, SettledIs DEF InUser
  <2> QED BY <1>2, <2>1 DEF RunnerOK, RunnerLabels, HasFile, InExec, InOpen, Freeing, Allocating
<1> QED BY <1>1, <1>2

LEMMA XlockKeeps ==
  ASSUME TextInv, NEW p \in Runners, Xlock(p)
  PROVE  TextInv'
<1> DEFINE x == Wants(p)
           r == [xproc[p] EXCEPT !.asleep = x]
<1>1. /\ xproc[p].load /\ x \in LockedTexts /\ xtext' = [xtext EXCEPT ![x].want = TRUE]
      /\ MayWait(xproc, p, r) /\ UNCHANGED <<xinode, tpanic>>
  BY DEF Xlock, Runs
<1>2. xproc[p] \in RunnerRecords /\ RunnerOK(xproc[p]) /\ p \in RunnersAndSched
  BY RunnerFacts
<1>3. x \in TextSlots /\ x \in Int
  BY <1>1, Constants DEF LockedTexts
<1>4. xproc[p].pc \in {"xfree", "xwait", "xuntext"}
  <2>1. xproc[p].pc \in {"xfree", "xwait", "xuntext", "swapout", "swapin"}
    BY <1>3, Constants DEF Wants
  <2> QED BY <2>1, <1>2 DEF RunnerOK, RunnerLabels
<1>5. r \in RunnerRecords /\ Alike(xproc[p], r) /\ ~InUser(r)
  BY <1>2, <1>3, <1>4 DEF RunnerRecords, Alike, InUser
<1> HIDE DEF r, x
<1>6. /\ xproc' \in [RunnersAndSched -> RunnerRecords] /\ xproc'[p] = r
      /\ trunning' \in RunnersAndSched \cup {Nothing} /\ OthersAlike(p)
  BY <1>1, <1>2, <1>5, MovedSelf, SettledIs DEF TextInv
<1>7. xtext' \in [TextSlots -> TextRecords] /\ \A y \in TextSlots : KeepsText(y)
  BY <1>1, <1>3 DEF TextInv, TextTypes, TextRecords, KeepsText
<1>8. HasTheSame(p)
  BY <1>1, <1>5, <1>6, AlikeMove
<1>9. FilesOK'
  <2>1. FilesOK /\ UNCHANGED xinode
    BY <1>1 DEF TextInv
  <2>2. \A y \in TextSlots : xtext'[y].count > 0 => xtext[y].count > 0 /\ xtext'[y].iptr = xtext[y].iptr
    BY <1>7 DEF KeepsText
  <2>3. /\ HasFile(xproc'[p]) => HasFile(xproc[p]) /\ xproc'[p].file = xproc[p].file
        /\ InExec(xproc'[p]) => InExec(xproc[p])
    BY <1>5, <1>6 DEF Alike, HasFile, InExec, InOpen
  <2> QED BY <2>1, <2>2, <2>3, <1>6, FilesKept
<1>10. RunnerOK(xproc'[p]) /\ xproc'[p].load /\ xproc'[p].pc # "vmdup" /\ xproc[p].pc # "born"
  BY <1>1, <1>2, <1>4, <1>5, <1>6, RunnerOKAlike DEF Alike
<1>11. tpanic' \in BOOLEAN /\ xinode' \in [Programs -> ProgramRecords]
  BY <1>1 DEF TextInv, TextTypes
<1> QED BY <1>1, <1>6, <1>7, <1>8, <1>9, <1>10, <1>11, QuietStep

LEMMA XfreeWaitKeeps ==
  ASSUME TextInv, NEW p \in Runners, XfreeWait(p)
  PROVE  TextInv'
<1> DEFINE r == [xproc[p] EXCEPT !.asleep = PoipChan(xproc[p].textp)]
<1>1. /\ xproc[p].load /\ xproc[p].pc = "xlast" /\ MayWait(xproc, p, r) /\ UNCHANGED <<xtext, xinode, tpanic>>
  BY DEF XfreeWait, Runs
<1>2. xproc[p] \in RunnerRecords /\ RunnerOK(xproc[p]) /\ p \in RunnersAndSched
  BY RunnerFacts
<1>3. PoipChan(xproc[p].textp) \in Int
  <2>1. xproc[p].textp \in TextSlots
    BY <1>1, <1>2 DEF RunnerOK, RunnerRecords
  <2> QED BY <2>1, TextConstants DEF PoipChan, TextSlots
<1>4. r \in RunnerRecords /\ Alike(xproc[p], r) /\ ~InUser(r)
  BY <1>1, <1>2, <1>3 DEF RunnerRecords, Alike, InUser
<1> HIDE DEF r
<1>5. /\ xproc' \in [RunnersAndSched -> RunnerRecords] /\ xproc'[p] = r
      /\ trunning' \in RunnersAndSched \cup {Nothing} /\ OthersAlike(p)
  BY <1>1, <1>2, <1>4, MovedSelf, SettledIs DEF TextInv
<1>6. /\ xtext' \in [TextSlots -> TextRecords] /\ \A x \in TextSlots : KeepsText(x)
      /\ \A x \in TextSlots : xtext'[x].count > 0 => xtext[x].count > 0 /\ xtext'[x].iptr = xtext[x].iptr
  BY <1>1, SameTexts
<1>7. HasTheSame(p)
  BY <1>1, <1>4, <1>5, AlikeMove
<1>8. FilesOK'
  <2>1. FilesOK /\ UNCHANGED xinode
    BY <1>1 DEF TextInv
  <2>2. /\ HasFile(xproc'[p]) => HasFile(xproc[p]) /\ xproc'[p].file = xproc[p].file
        /\ InExec(xproc'[p]) => InExec(xproc[p])
    BY <1>4, <1>5 DEF Alike, HasFile, InExec, InOpen
  <2> QED BY <2>1, <2>2, <1>5, <1>6, FilesKept
<1>9. RunnerOK(xproc'[p]) /\ xproc'[p].load /\ xproc'[p].pc # "vmdup" /\ xproc[p].pc # "born"
  BY <1>1, <1>2, <1>4, <1>5, RunnerOKAlike DEF Alike
<1>10. tpanic' \in BOOLEAN /\ xinode' \in [Programs -> ProgramRecords]
  BY <1>1 DEF TextInv, TextTypes
<1> QED BY <1>1, <1>5, <1>6, <1>7, <1>8, <1>9, <1>10, QuietStep

(* A step that touches no text and no inode, from one place to another.    *)
LEMMA WalksOn ==
  ASSUME TextInv, NEW p \in Runners, NEW r \in RunnerRecords, xproc[p].load,
         GoesOn(xproc, p, r) \/ MayWait(xproc, p, r), UNCHANGED <<xtext, xinode, tpanic>>,
         xproc[p].pc \notin Lockings \cup {"born"}, r.pc \notin Lockings,
         r.textp = xproc[p].textp, r.linked = xproc[p].linked, r.load, RunnerOK(Settled(r)),
         HasFile(Settled(r)) => HasFile(xproc[p]) /\ r.file = xproc[p].file,
         InExec(Settled(r)) => InExec(xproc[p]) \/ xinode[xproc[p].file].writers = {}
  PROVE  TextInv'
<1>1. p \in RunnersAndSched /\ TextTypes
  BY RunnerFacts DEF TextInv
<1>2. /\ xproc' \in [RunnersAndSched -> RunnerRecords] /\ xproc'[p] = Settled(r)
      /\ trunning' \in RunnersAndSched \cup {Nothing} /\ OthersAlike(p)
  BY <1>1, MovedSelf
<1>3. xtext' \in [TextSlots -> TextRecords] /\ \A x \in TextSlots : KeepsText(x)
  BY SameTexts
<1>4. tpanic' \in BOOLEAN
  BY DEF TextInv, TextTypes
<1> QED BY <1>2, <1>3, <1>4, GoesPlainly

LEMMA ExitRunnerKeeps ==
  ASSUME TextInv, NEW p \in Runners, ExitRunner(p)
  PROVE  TextInv'
<1> DEFINE r == [xproc[p] EXCEPT !.pc = "xfree", !.then = "exit"]
<1>1. xproc[p].load /\ xproc[p].pc = "user" /\ GoesOn(xproc, p, r) /\ UNCHANGED <<xtext, xinode, tpanic>>
  BY DEF ExitRunner, Runs
<1>2. xproc[p] \in RunnerRecords /\ RunnerOK(xproc[p])
  BY RunnerFacts
<1>3. /\ r \in RunnerRecords /\ r.pc = "xfree" /\ r.then = "exit" /\ r.textp = xproc[p].textp
      /\ r.linked = xproc[p].linked /\ r.load = xproc[p].load
  BY <1>2 DEF RunnerRecords, RunnerLabels
<1> HIDE DEF r
<1>4. RunnerOK(r) /\ ~InUser(r) /\ ~HasFile(r) /\ ~InExec(r)
  BY <1>1, <1>2, <1>3 DEF RunnerOK, HasFile, InExec, InOpen, Freeing, Allocating, InUser, RunnerLabels
<1>5. Settled(r) = r /\ RunnerOK(Settled(r))
  BY <1>3, <1>4, SettledIs, SettledOK
<1>6. xproc[p].pc \notin Lockings \cup {"born"} /\ r.pc \notin Lockings
  BY <1>1, <1>3 DEF Lockings
<1> QED BY <1>1, <1>3, <1>4, <1>5, <1>6, WalksOn

LEMMA XfreeNoneKeeps ==
  ASSUME TextInv, NEW p \in Runners, XfreeNone(p)
  PROVE  TextInv'
<1> DEFINE r == Rid(xproc[p])
<1>1. /\ xproc[p].load /\ xproc[p].pc = "xfree" /\ xproc[p].textp = Nothing /\ MayWait(xproc, p, r)
      /\ UNCHANGED <<xtext, xinode, tpanic>>
  BY DEF XfreeNone, Runs
<1>2. xproc[p] \in RunnerRecords /\ RunnerOK(xproc[p])
  BY RunnerFacts
<1>3. xproc[p].then \in {"xalloc", "exit"} /\ xproc[p].linked = FALSE
  BY <1>1, <1>2 DEF RunnerOK, Freeing, RunnerRecords
<1>4. /\ r \in RunnerRecords /\ r.pc = xproc[p].then /\ r.then = xproc[p].then /\ r.textp = xproc[p].textp
      /\ r.linked = xproc[p].linked /\ r.load = xproc[p].load /\ r.file = xproc[p].file
  BY <1>1, <1>2, <1>3 DEF Rid, RunnerRecords
<1> HIDE DEF r
<1>5. RunnerOK(r) /\ ~InUser(r) /\ (HasFile(r) => HasFile(xproc[p])) /\ (InExec(r) => InExec(xproc[p]))
  BY <1>1, <1>2, <1>3, <1>4 DEF RunnerOK, HasFile, InExec, InOpen, Freeing, Allocating, InUser, RunnerLabels
<1>6. Settled(r) = r /\ RunnerOK(Settled(r))
  BY <1>4, <1>5, SettledIs, SettledOK
<1>7. xproc[p].pc \notin Lockings \cup {"born"} /\ r.pc \notin Lockings
  BY <1>1, <1>3, <1>4 DEF Lockings
<1> QED BY <1>1, <1>4, <1>5, <1>6, <1>7, WalksOn

LEMMA UmountKeeps ==
  ASSUME TextInv, NEW p \in Runners, Umount(p)
  PROVE  TextInv'
<1> DEFINE r == [xproc[p] EXCEPT !.pc = "xrele", !.slot = 0]
<1>1. xproc[p].load /\ xproc[p].pc = "user" /\ GoesOn(xproc, p, r) /\ UNCHANGED <<xtext, xinode, tpanic>>
  BY DEF Umount, Runs
<1>2. xproc[p] \in RunnerRecords /\ RunnerOK(xproc[p])
  BY RunnerFacts
<1>3. /\ r \in RunnerRecords /\ r.pc = "xrele" /\ r.then = xproc[p].then /\ r.textp = xproc[p].textp
      /\ r.linked = xproc[p].linked /\ r.load = xproc[p].load
  BY <1>2 DEF RunnerRecords, RunnerLabels
<1> HIDE DEF r
<1>4. RunnerOK(r) /\ ~InUser(r) /\ ~HasFile(r) /\ ~InExec(r)
  BY <1>1, <1>2, <1>3 DEF RunnerOK, HasFile, InExec, InOpen, Freeing, Allocating, InUser, RunnerLabels
<1>5. Settled(r) = r /\ RunnerOK(Settled(r))
  BY <1>3, <1>4, SettledIs, SettledOK
<1>6. xproc[p].pc \notin Lockings \cup {"born"} /\ r.pc \notin Lockings
  BY <1>1, <1>3 DEF Lockings
<1> QED BY <1>1, <1>3, <1>4, <1>5, <1>6, WalksOn

LEMMA XreleKeeps ==
  ASSUME TextInv, NEW p \in Runners, Xrele(p)
  PROVE  TextInv'
<1>1. xproc[p].load /\ xproc[p].pc = "xrele" /\ UNCHANGED <<xtext, xinode, tpanic>>
  BY DEF Xrele, Runs
<1>2. xproc[p] \in RunnerRecords /\ RunnerOK(xproc[p]) /\ xproc[p].then \in {"access", "user"}
  BY <1>1, RunnerFacts DEF RunnerOK
<1>3. xproc[p].pc \notin Lockings \cup {"born"}
  BY <1>1 DEF Lockings
<1>4. CASE Behind(p) = {}
  <2> DEFINE r == [xproc[p] EXCEPT !.pc = xproc[p].then]
  <2>1. GoesOn(xproc, p, r)
    BY <1>4 DEF Xrele
  <2>2. /\ r \in RunnerRecords /\ r.pc = xproc[p].then /\ r.then = xproc[p].then /\ r.textp = xproc[p].textp
        /\ r.linked = xproc[p].linked /\ r.load = xproc[p].load /\ r.file = xproc[p].file
    BY <1>2 DEF RunnerRecords, RunnerLabels
  <2> HIDE DEF r
  <2>3. CASE r.pc = "user"
    <3>1. RunnerOK(Settled(r))
      BY <1>1, <1>2, <2>2, <2>3, SettledOK DEF RunnerOK
    <3>2. Settled(r).pc = "user"
      BY <2>2, <2>3, SettledIs
    <3>3. ~HasFile(Settled(r)) /\ ~InExec(Settled(r)) /\ r.pc \notin Lockings
      BY <3>2, <2>3 DEF HasFile, InExec, InOpen, Freeing, Allocating, Lockings
    <3> QED BY <1>1, <1>3, <2>1, <2>2, <3>1, <3>3, WalksOn
  <2>4. CASE r.pc = "access"
    <3>1. RunnerOK(r) /\ ~InUser(r) /\ HasFile(xproc[p]) /\ ~InExec(r) /\ r.pc \notin Lockings
      BY <1>1, <1>2, <2>2, <2>4 DEF RunnerOK, HasFile, InExec, InOpen, Freeing, Allocating, InUser,
         RunnerLabels, Lockings
    <3>2. Settled(r) = r /\ RunnerOK(Settled(r))
      BY <2>2, <3>1, SettledIs, SettledOK
    <3> QED BY <1>1, <1>3, <2>1, <2>2, <3>1, <3>2, WalksOn
  <2> QED BY <1>2, <2>2, <2>3, <2>4
<1>5. CASE Behind(p) # {}
  <2> DEFINE r == [xproc[p] EXCEPT !.pc = "xuntext", !.slot = Leading(Behind(p))]
  <2>1. GoesOn(xproc, p, r)
    BY <1>5 DEF Xrele
  <2>2. Leading(Behind(p)) \in TextSlots
    BY <1>5, FirstSlot DEF Behind
  <2>3. /\ r \in RunnerRecords /\ r.pc = "xuntext" /\ r.then = xproc[p].then /\ r.textp = xproc[p].textp
        /\ r.linked = xproc[p].linked /\ r.load = xproc[p].load /\ r.file = xproc[p].file /\ r.slot \in TextSlots
    BY <1>2, <2>2 DEF RunnerRecords, RunnerLabels
  <2> HIDE DEF r
  <2>4. RunnerOK(r) /\ ~InUser(r) /\ (HasFile(r) => HasFile(xproc[p])) /\ ~InExec(r) /\ r.pc \notin Lockings
    BY <1>1, <1>2, <2>3 DEF RunnerOK, HasFile, InExec, InOpen, Freeing, Allocating, InUser, RunnerLabels, Lockings
  <2>5. Settled(r) = r /\ RunnerOK(Settled(r))
    BY <2>3, <2>4, SettledIs, SettledOK
  <2> QED BY <1>1, <1>3, <2>1, <2>3, <2>4, <2>5, WalksOn
<1> QED BY <1>4, <1>5

LEMMA XallocWaitKeeps ==
  ASSUME TextInv, NEW p \in Runners, XallocWait(p)
  PROVE  TextInv'
<1> DEFINE x == Leading(TextsOf(p))
           r == [xproc[p] EXCEPT !.pc = "xwait", !.slot = x]
<1>1. /\ xproc[p].load /\ xproc[p].pc = "xalloc" /\ GoesOn(xproc, p, r) /\ UNCHANGED <<xtext, xinode, tpanic>>
      /\ TextsOf(p) # {}
  BY DEF XallocWait, Runs
<1>2. xproc[p] \in RunnerRecords /\ RunnerOK(xproc[p])
  BY RunnerFacts
<1>3. x \in TextSlots
  BY <1>1, FirstSlot DEF TextsOf
<1>4. /\ r \in RunnerRecords /\ r.pc = "xwait" /\ r.then = xproc[p].then /\ r.textp = xproc[p].textp
      /\ r.linked = xproc[p].linked /\ r.load = xproc[p].load /\ r.file = xproc[p].file /\ r.slot \in TextSlots
  BY <1>2, <1>3 DEF RunnerRecords, RunnerLabels
<1> HIDE DEF r, x
<1>5. /\ RunnerOK(r) /\ ~InUser(r) /\ HasFile(xproc[p]) /\ InExec(xproc[p])
      /\ xproc[p].pc \notin Lockings \cup {"born"} /\ r.pc \notin Lockings
  BY <1>1, <1>2, <1>4 DEF RunnerOK, HasFile, InExec, InOpen, Freeing, Allocating, InUser, RunnerLabels, Lockings
<1>6. Settled(r) = r /\ RunnerOK(Settled(r))
  BY <1>4, <1>5, SettledIs, SettledOK
<1> QED BY <1>1, <1>4, <1>5, <1>6, WalksOn

(* Locking and unlocking a text that nobody has locked.                    *)
LEMMA XwaitKeeps ==
  ASSUME TextInv, NEW p \in Runners, Xwait(p)
  PROVE  TextInv'
<1> DEFINE x == xproc[p].slot
           r == Waited(p, x)
<1>1. /\ xproc[p].load /\ xproc[p].pc = "xwait" /\ GoesOn(AfterUnlock(x), p, r) /\ UNCHANGED <<xinode, tpanic>>
      /\ xtext' = [xtext EXCEPT ![x] = Unlocked(@)] /\ x \notin LockedTexts
  BY DEF Xwait, Runs, MayLock, Wants
<1>2. xproc[p] \in RunnerRecords /\ RunnerOK(xproc[p]) /\ p \in RunnersAndSched /\ TextTypes
  BY RunnerFacts DEF TextInv
<1>3. x \in TextSlots /\ ~xtext[x].lock
  BY <1>1, <1>2 DEF RunnerOK, LockedTexts
<1>4. /\ r \in RunnerRecords /\ r.pc = "xalloc" /\ r.then = xproc[p].then /\ r.textp = xproc[p].textp
      /\ r.linked = xproc[p].linked /\ r.load = xproc[p].load /\ r.file = xproc[p].file
  BY <1>2 DEF RunnerRecords, RunnerLabels, Waited
<1> HIDE DEF r, x
<1>5. /\ RunnerOK(r) /\ ~InUser(r) /\ HasFile(xproc[p]) /\ InExec(xproc[p])
      /\ xproc[p].pc \notin Lockings \cup {"born"} /\ r.pc \notin Lockings
  BY <1>1, <1>2, <1>4 DEF RunnerOK, HasFile, InExec, InOpen, Freeing, Allocating, InUser, RunnerLabels, Lockings
<1>6. Settled(r) = r /\ RunnerOK(Settled(r))
  BY <1>4, <1>5, SettledIs, SettledOK
<1>7. /\ xproc' \in [RunnersAndSched -> RunnerRecords] /\ xproc'[p] = Settled(r)
      /\ trunning' \in RunnersAndSched \cup {Nothing} /\ OthersAlike(p)
  BY <1>1, <1>2, <1>4, MovedUnlocking
<1>8. xtext' \in [TextSlots -> TextRecords] /\ \A y \in TextSlots : KeepsText(y)
  BY <1>1, <1>2, <1>3, ZenonT(60) DEF TextTypes, TextRecords, KeepsText, Unlocked
<1>9. tpanic' \in BOOLEAN
  BY <1>1, <1>2 DEF TextTypes
<1> QED BY <1>1, <1>4, <1>5, <1>6, <1>7, <1>8, <1>9, GoesPlainly

(* What xuntext finds without users has been given up, and has no inode.   *)
LEMMA XuntextKeeps ==
  ASSUME TextInv, NEW p \in Runners, Xuntext(p)
  PROVE  TextInv'
<1> DEFINE x == xproc[p].slot
           r == [xproc[p] EXCEPT !.pc = "xrele"]
<1>1. xproc[p].load /\ xproc[p].pc = "xuntext" /\ x \notin LockedTexts
  BY DEF Xuntext, Runs, MayLock, Wants
<1>2. xproc[p] \in RunnerRecords /\ RunnerOK(xproc[p]) /\ p \in RunnersAndSched /\ TextTypes
  BY RunnerFacts DEF TextInv
<1>3. x \in TextSlots /\ ~xtext[x].lock
  BY <1>1, <1>2 DEF RunnerOK, LockedTexts
<1>4. /\ r \in RunnerRecords /\ r.pc = "xrele" /\ r.then = xproc[p].then /\ r.textp = xproc[p].textp
      /\ r.linked = xproc[p].linked /\ r.load = xproc[p].load /\ r.file = xproc[p].file
  BY <1>2 DEF RunnerRecords, RunnerLabels
<1>5. /\ \/ GoesOn(AfterUnlock(x), p, r) /\ xtext' = [xtext EXCEPT ![x] = Unlocked(@)] /\ UNCHANGED tpanic
         \/ MayWait(xproc, p, r) /\ xtext' = [xtext EXCEPT ![x].iptr = Nothing] /\ tpanic' = TRUE
            /\ xtext[x].iptr = Nothing
      /\ UNCHANGED xinode
  <2>1. CASE xtext[x].count # 0
    BY <2>1 DEF Xuntext
  <2>2. CASE xtext[x].count = 0
    <3>1. xtext[x].iptr = Nothing
      BY <1>3, <2>2, UnlockedSlot
    <3> QED BY <2>2, <3>1 DEF Xuntext
  <2> QED BY <2>1, <2>2
<1> HIDE DEF r, x
<1>6. /\ RunnerOK(r) /\ ~InUser(r) /\ (HasFile(r) => HasFile(xproc[p])) /\ ~InExec(r)
      /\ xproc[p].pc \notin Lockings \cup {"born"} /\ r.pc \notin Lockings
  BY <1>1, <1>2, <1>4 DEF RunnerOK, HasFile, InExec, InOpen, Freeing, Allocating, InUser, RunnerLabels, Lockings
<1>7. Settled(r) = r /\ RunnerOK(Settled(r))
  BY <1>4, <1>6, SettledIs, SettledOK
<1>8. /\ xproc' \in [RunnersAndSched -> RunnerRecords] /\ xproc'[p] = Settled(r)
      /\ trunning' \in RunnersAndSched \cup {Nothing} /\ OthersAlike(p)
  BY <1>2, <1>4, <1>5, MovedUnlocking, MovedSelf
<1>9. xtext' \in [TextSlots -> TextRecords] /\ \A y \in TextSlots : KeepsText(y)
  <2>1. xtext \in [TextSlots -> TextRecords]
    BY <1>2 DEF TextTypes
  <2>2. CASE xtext' = [xtext EXCEPT ![x] = Unlocked(@)]
    BY <1>3, <2>1, <2>2, ZenonT(60) DEF TextRecords, KeepsText, Unlocked
  <2>3. CASE xtext' = [xtext EXCEPT ![x].iptr = Nothing] /\ xtext[x].iptr = Nothing
    BY <1>3, <2>1, <2>3 DEF TextRecords, KeepsText
  <2> QED BY <1>5, <2>2, <2>3
<1>10. tpanic' \in BOOLEAN
  BY <1>2, <1>5 DEF TextTypes
<1> QED BY <1>1, <1>4, <1>5, <1>6, <1>7, <1>8, <1>9, <1>10, GoesPlainly

-----------------------------------------------------------------------------
(***************************************************************************)
(* Steps that lock or unlock an inode, and change no text.                 *)
(***************************************************************************)
LEMMA GoesWithFile ==
  ASSUME TextInv, NEW p \in Runners, NEW r \in RunnerRecords,
         xproc' \in [RunnersAndSched -> RunnerRecords], trunning' \in RunnersAndSched \cup {Nothing},
         OthersAlike(p), xproc'[p] = Settled(r), tpanic' \in BOOLEAN,
         xinode' \in [Programs -> ProgramRecords],
         \A f \in Programs : /\ xinode'[f].itext = xinode[f].itext
                             /\ xinode[f].ilock \notin {p, Nothing} => xinode'[f].ilock = xinode[f].ilock
                             /\ xinode[f].ilock # p /\ xinode[f].writers = {} => xinode'[f].writers = {}
                             /\ xinode[f].itext => xinode'[f].writers = {},
         xtext' \in [TextSlots -> TextRecords], \A x \in TextSlots : KeepsText(x),
         xproc[p].load, xproc[p].pc \notin Lockings \cup {"born"}, r.pc \notin Lockings,
         r.textp = xproc[p].textp, r.linked = xproc[p].linked, r.load, RunnerOK(Settled(r)),
         HasFile(Settled(r)) => xinode'[r.file].ilock = p,
         InExec(Settled(r)) => xinode'[r.file].writers = {}
  PROVE  TextInv'
<1>1. /\ Settled(r).pc = r.pc /\ Settled(r).textp = r.textp /\ Settled(r).linked = r.linked
      /\ Settled(r).load = r.load /\ (~InUser(r) => Settled(r) = r)
  BY SettledIs
<1>2. HasTheSame(p)
  BY <1>1, PlainMove
<1>3. /\ HasFile(Settled(r)) => Settled(r) = r
      /\ InExec(Settled(r)) => Settled(r) = r
  BY <1>1 DEF HasFile, InExec, InOpen, InUser, Allocating, Freeing
<1>4. FilesOK'
  <2>1. FilesOK /\ TextTypes
    BY DEF TextInv
  <2>2. \A x \in TextSlots : xtext'[x].count > 0 => xtext[x].count > 0 /\ xtext'[x].iptr = xtext[x].iptr
    BY DEF KeepsText
  <2>3. \A x \in TextSlots : xtext[x].count > 0 => xtext[x].iptr \in Programs
    <3> TAKE x \in TextSlots
    <3>1. SlotOK(x) /\ xtext[x] \in TextRecords
      BY DEF TextInv, SlotsOK, TextTypes
    <3> QED BY <3>1 DEF SlotOK, SlotCount, TextRecords
  <2>4. \A x \in TextSlots : xtext'[x].count > 0 => xinode'[xtext'[x].iptr].itext
    BY <2>1, <2>2, <2>3 DEF FilesOK
  <2>5. \A q \in Runners : HasFile(xproc[q]) => xproc[q].file \in Programs
    BY RunnerFacts DEF RunnerOK
  <2>6. \A f \in Programs : xinode'[f].itext => xinode'[f].writers = {}
    OBVIOUS
  <2>7. /\ HasFile(xproc'[p]) => xinode'[xproc'[p].file].ilock = p
        /\ InExec(xproc'[p]) => xinode'[xproc'[p].file].writers = {}
    BY <1>3
  <2> QED BY <2>1, <2>4, <2>5, <2>6, <2>7, FilesChanged
<1>5. xproc'[p].load /\ RunnerOK(xproc'[p]) /\ xproc'[p].pc # "vmdup" /\ xproc[p].pc # "born"
  BY <1>1 DEF Lockings
<1> QED BY <1>2, <1>4, <1>5, QuietStep

LEMMA FileFacts ==
  ASSUME TextInv, NEW f \in Programs
  PROVE  /\ xinode[f] \in ProgramRecords /\ (xinode[f].itext => xinode[f].writers = {})
         /\ xinode \in [Programs -> ProgramRecords]
BY DEF TextInv, TextTypes, FilesOK

LEMMA ExecKeeps ==
  ASSUME TextInv, NEW p \in Runners, Exec(p)
  PROVE  TextInv'
<1>1. PICK f \in Programs :
         /\ xinode[f].ilock = Nothing /\ xinode' = [xinode EXCEPT ![f].ilock = p]
         /\ MayWait(xproc, p, [xproc[p] EXCEPT !.pc = "getxfile", !.file = f])
  BY DEF Exec
<1> DEFINE r == [xproc[p] EXCEPT !.pc = "getxfile", !.file = f]
<1>2. xproc[p].load /\ xproc[p].pc = "user" /\ UNCHANGED <<xtext, tpanic>> /\ MayWait(xproc, p, r)
  BY <1>1 DEF Exec, Runs
<1>3. xproc[p] \in RunnerRecords /\ RunnerOK(xproc[p]) /\ p \in RunnersAndSched /\ TextTypes
  BY RunnerFacts DEF TextInv
<1>4. /\ r \in RunnerRecords /\ r.pc = "getxfile" /\ r.then = xproc[p].then /\ r.textp = xproc[p].textp
      /\ r.linked = xproc[p].linked /\ r.load = xproc[p].load /\ r.file = f
  BY <1>3 DEF RunnerRecords, RunnerLabels
<1> HIDE DEF r
<1>5. /\ RunnerOK(r) /\ ~InUser(r) /\ ~InExec(r) /\ xproc[p].pc \notin Lockings \cup {"born"} /\ r.pc \notin Lockings
  BY <1>2, <1>3, <1>4 DEF RunnerOK, HasFile, InExec, InOpen, Freeing, Allocating, InUser, RunnerLabels, Lockings
<1>6. Settled(r) = r /\ RunnerOK(Settled(r))
  BY <1>4, <1>5, SettledIs, SettledOK
<1>7. /\ xproc' \in [RunnersAndSched -> RunnerRecords] /\ xproc'[p] = Settled(r)
      /\ trunning' \in RunnersAndSched \cup {Nothing} /\ OthersAlike(p)
  BY <1>2, <1>3, <1>4, MovedSelf
<1>8. xtext' \in [TextSlots -> TextRecords] /\ (\A y \in TextSlots : KeepsText(y)) /\ tpanic' \in BOOLEAN
  BY <1>2, <1>3, SameTexts DEF TextTypes
<1>9. /\ xinode' \in [Programs -> ProgramRecords] /\ xinode'[f].ilock = p
      /\ \A g \in Programs : /\ xinode'[g].itext = xinode[g].itext /\ xinode'[g].writers = xinode[g].writers
                             /\ g # f => xinode'[g].ilock = xinode[g].ilock
                             /\ xinode[g].itext => xinode[g].writers = {}
  BY <1>1, FileFacts DEF ProgramRecords
<1>10. \A g \in Programs : /\ xinode'[g].itext = xinode[g].itext
                           /\ xinode[g].ilock \notin {p, Nothing} => xinode'[g].ilock = xinode[g].ilock
                           /\ xinode[g].ilock # p /\ xinode[g].writers = {} => xinode'[g].writers = {}
                           /\ xinode[g].itext => xinode'[g].writers = {}
  BY <1>1, <1>9
<1>11. /\ HasFile(Settled(r)) => xinode'[r.file].ilock = p
       /\ InExec(Settled(r)) => xinode'[r.file].writers = {}
       /\ r.load
  BY <1>2, <1>4, <1>5, <1>6, <1>9
<1>12. xinode' \in [Programs -> ProgramRecords] /\ RunnerOK(Settled(r))
  BY <1>6, <1>9
<1> QED BY <1>2, <1>4, <1>5, <1>7, <1>8, <1>10, <1>11, <1>12, GoesWithFile

LEMMA OpenWriteKeeps ==
  ASSUME TextInv, NEW p \in Runners, OpenWrite(p)
  PROVE  TextInv'
<1>1. PICK f \in Programs :
         /\ xinode[f].ilock = Nothing /\ xinode' = [xinode EXCEPT ![f].ilock = p]
         /\ MayWait(xproc, p, [xproc[p] EXCEPT !.pc = IF xinode[f].itext THEN "xrele" ELSE "access",
                                               !.file = f, !.slot = 0, !.then = "access"])
  BY DEF OpenWrite
<1> DEFINE place == IF xinode[f].itext THEN "xrele" ELSE "access"
           r == [xproc[p] EXCEPT !.pc = place, !.file = f, !.slot = 0, !.then = "access"]
<1>2. xproc[p].load /\ xproc[p].pc = "user" /\ UNCHANGED <<xtext, tpanic>> /\ MayWait(xproc, p, r)
  BY <1>1 DEF OpenWrite, Runs
<1>3. xproc[p] \in RunnerRecords /\ RunnerOK(xproc[p]) /\ p \in RunnersAndSched /\ TextTypes
  BY RunnerFacts DEF TextInv
<1>p. place \in {"xrele", "access"}
  OBVIOUS
<1> HIDE DEF place
<1>4. /\ r \in RunnerRecords /\ r.pc \in {"xrele", "access"} /\ r.then = "access" /\ r.textp = xproc[p].textp
      /\ r.linked = xproc[p].linked /\ r.load = xproc[p].load /\ r.file = f
  BY <1>3, <1>p DEF RunnerRecords, RunnerLabels
<1> HIDE DEF r
<1>5. /\ RunnerOK(r) /\ ~InUser(r) /\ ~InExec(r) /\ xproc[p].pc \notin Lockings \cup {"born"} /\ r.pc \notin Lockings
  BY <1>2, <1>3, <1>4 DEF RunnerOK, HasFile, InExec, InOpen, Freeing, Allocating, InUser, RunnerLabels, Lockings
<1>6. Settled(r) = r /\ RunnerOK(Settled(r))
  BY <1>4, <1>5, SettledIs, SettledOK
<1>7. /\ xproc' \in [RunnersAndSched -> RunnerRecords] /\ xproc'[p] = Settled(r)
      /\ trunning' \in RunnersAndSched \cup {Nothing} /\ OthersAlike(p)
  BY <1>2, <1>3, <1>4, MovedSelf
<1>8. xtext' \in [TextSlots -> TextRecords] /\ (\A y \in TextSlots : KeepsText(y)) /\ tpanic' \in BOOLEAN
  BY <1>2, <1>3, SameTexts DEF TextTypes
<1>9. /\ xinode' \in [Programs -> ProgramRecords] /\ xinode'[f].ilock = p
      /\ \A g \in Programs : /\ xinode'[g].itext = xinode[g].itext /\ xinode'[g].writers = xinode[g].writers
                             /\ g # f => xinode'[g].ilock = xinode[g].ilock
                             /\ xinode[g].itext => xinode[g].writers = {}
  BY <1>1, FileFacts DEF ProgramRecords
<1>10. \A g \in Programs : /\ xinode'[g].itext = xinode[g].itext
                           /\ xinode[g].ilock \notin {p, Nothing} => xinode'[g].ilock = xinode[g].ilock
                           /\ xinode[g].ilock # p /\ xinode[g].writers = {} => xinode'[g].writers = {}
                           /\ xinode[g].itext => xinode'[g].writers = {}
  BY <1>1, <1>9
<1>11. /\ HasFile(Settled(r)) => xinode'[r.file].ilock = p
       /\ InExec(Settled(r)) => xinode'[r.file].writers = {}
       /\ r.load
  BY <1>2, <1>4, <1>5, <1>6, <1>9
<1>12. xinode' \in [Programs -> ProgramRecords] /\ RunnerOK(Settled(r))
  BY <1>6, <1>9
<1> QED BY <1>2, <1>4, <1>5, <1>7, <1>8, <1>10, <1>11, <1>12, GoesWithFile

(* A file that is refused is unlocked; that goes on is no one's to write.  *)
LEMMA GetxfileKeeps ==
  ASSUME TextInv, NEW p \in Runners, Getxfile(p)
  PROVE  TextInv'
<1> DEFINE f == xproc[p].file
<1>1. xproc[p].load /\ xproc[p].pc = "getxfile" /\ UNCHANGED <<xtext, tpanic>>
  BY DEF Getxfile, Runs
<1>2. xproc[p] \in RunnerRecords /\ RunnerOK(xproc[p]) /\ p \in RunnersAndSched /\ TextTypes
  BY RunnerFacts DEF TextInv
<1>3. HasFile(xproc[p]) /\ f \in Programs /\ xinode[f].ilock = p /\ xproc[p].pc \notin Lockings \cup {"born"}
  BY <1>1, <1>2 DEF HasFile, RunnerOK, TextInv, FilesOK, Lockings
<1>4. xtext' \in [TextSlots -> TextRecords] /\ (\A y \in TextSlots : KeepsText(y)) /\ tpanic' \in BOOLEAN
  BY <1>1, <1>2, SameTexts DEF TextTypes
<1>5. CASE ~xinode[f].itext /\ xinode[f].writers # {}
  <2> DEFINE r == [xproc[p] EXCEPT !.pc = "user"]
  <2>1. xinode' = [xinode EXCEPT ![f].ilock = Nothing] /\ GoesOn(xproc, p, r)
    BY <1>5 DEF Getxfile
  <2>2. /\ r \in RunnerRecords /\ r.pc = "user" /\ r.textp = xproc[p].textp
        /\ r.linked = xproc[p].linked /\ r.load = xproc[p].load
    BY <1>2 DEF RunnerRecords, RunnerLabels
  <2> HIDE DEF r
  <2>3. RunnerOK(Settled(r)) /\ Settled(r).pc = "user"
    BY <1>1, <1>2, <2>2, SettledOK, SettledIs DEF RunnerOK
  <2>4. ~HasFile(Settled(r)) /\ ~InExec(Settled(r)) /\ r.pc \notin Lockings
    BY <2>2, <2>3 DEF HasFile, InExec, InOpen, Freeing, Allocating, Lockings
  <2>5. /\ xproc' \in [RunnersAndSched -> RunnerRecords] /\ xproc'[p] = Settled(r)
        /\ trunning' \in RunnersAndSched \cup {Nothing} /\ OthersAlike(p)
    BY <1>2, <2>1, <2>2, MovedSelf
  <2>6. /\ xinode' \in [Programs -> ProgramRecords]
        /\ \A g \in Programs : /\ xinode'[g].itext = xinode[g].itext /\ xinode'[g].writers = xinode[g].writers
                               /\ g # f => xinode'[g].ilock = xinode[g].ilock
                               /\ xinode[g].itext => xinode[g].writers = {}
    BY <1>3, <2>1, FileFacts, Constants DEF ProgramRecords
  <2> QED BY <1>1, <1>3, <1>4, <2>2, <2>3, <2>4, <2>5, <2>6, GoesWithFile
<1>6. CASE ~(~xinode[f].itext /\ xinode[f].writers # {})
  <2> DEFINE r == [xproc[p] EXCEPT !.pc = "xfree", !.then = "xalloc"]
  <2>1. GoesOn(xproc, p, r) /\ UNCHANGED xinode
    BY <1>6 DEF Getxfile
  <2>2. /\ r \in RunnerRecords /\ r.pc = "xfree" /\ r.then = "xalloc" /\ r.textp = xproc[p].textp
        /\ r.linked = xproc[p].linked /\ r.load = xproc[p].load /\ r.file = f
    BY <1>2 DEF RunnerRecords, RunnerLabels
  <2> HIDE DEF r
  <2>3. RunnerOK(r) /\ ~InUser(r) /\ r.pc \notin Lockings
    BY <1>1, <1>2, <1>3, <2>2 DEF RunnerOK, HasFile, InExec, InOpen, Freeing, Allocating, InUser, RunnerLabels, Lockings
  <2>4. Settled(r) = r /\ RunnerOK(Settled(r))
    BY <2>2, <2>3, SettledIs, SettledOK
  <2>5. xinode[f].writers = {}
    BY <1>3, <1>6, FileFacts
  <2> QED BY <1>1, <1>3, <2>1, <2>2, <2>3, <2>4, <2>5, WalksOn
<1> QED BY <1>5, <1>6

(* A file with ITEXT gets no writer.                                       *)
LEMMA AccessKeeps ==
  ASSUME TextInv, NEW p \in Runners, Access(p)
  PROVE  TextInv'
<1> DEFINE f == xproc[p].file
           r == [xproc[p] EXCEPT !.pc = "user"]
<1>1. /\ xproc[p].load /\ xproc[p].pc = "access" /\ UNCHANGED <<xtext, tpanic>> /\ GoesOn(xproc, p, r)
      /\ xinode' = [xinode EXCEPT ![f].ilock = Nothing,
                                  ![f].writers = IF xinode[f].itext THEN @ ELSE @ \cup {p}]
  BY DEF Access, Runs
<1>2. xproc[p] \in RunnerRecords /\ RunnerOK(xproc[p]) /\ p \in RunnersAndSched /\ TextTypes
  BY RunnerFacts DEF TextInv
<1>3. HasFile(xproc[p]) /\ f \in Programs /\ xinode[f].ilock = p /\ xproc[p].pc \notin Lockings \cup {"born"}
  BY <1>1, <1>2 DEF HasFile, InOpen, RunnerOK, TextInv, FilesOK, Lockings
<1>4. xtext' \in [TextSlots -> TextRecords] /\ (\A y \in TextSlots : KeepsText(y)) /\ tpanic' \in BOOLEAN
  BY <1>1, <1>2, SameTexts DEF TextTypes
<1>5. /\ r \in RunnerRecords /\ r.pc = "user" /\ r.textp = xproc[p].textp
      /\ r.linked = xproc[p].linked /\ r.load = xproc[p].load
  BY <1>2 DEF RunnerRecords, RunnerLabels
<1> HIDE DEF r
<1>6. RunnerOK(Settled(r)) /\ Settled(r).pc = "user"
  BY <1>1, <1>2, <1>5, SettledOK, SettledIs DEF RunnerOK
<1>7. ~HasFile(Settled(r)) /\ ~InExec(Settled(r)) /\ r.pc \notin Lockings
  BY <1>5, <1>6 DEF HasFile, InExec, InOpen, Freeing, Allocating, Lockings
<1>8. /\ xproc' \in [RunnersAndSched -> RunnerRecords] /\ xproc'[p] = Settled(r)
      /\ trunning' \in RunnersAndSched \cup {Nothing} /\ OthersAlike(p)
  BY <1>1, <1>2, <1>5, MovedSelf
<1>9. /\ xinode' \in [Programs -> ProgramRecords]
      /\ \A g \in Programs : /\ xinode'[g].itext = xinode[g].itext
                             /\ g # f => xinode'[g].ilock = xinode[g].ilock /\ xinode'[g].writers = xinode[g].writers
                             /\ xinode[g].itext => xinode'[g].writers = {}
  <2>1. f \in Programs /\ xinode[f] \in ProgramRecords
    BY <1>3, FileFacts
  <2> DEFINE w == IF xinode[f].itext THEN xinode[f].writers ELSE xinode[f].writers \cup {p}
  <2>2. w \in SUBSET Runners /\ (xinode[f].itext => w = xinode[f].writers)
    BY <2>1 DEF ProgramRecords
  <2>3. xinode' = [xinode EXCEPT ![f] = [xinode[f] EXCEPT !.ilock = Nothing, !.writers = w]]
    BY <1>1, <2>1, FileFacts DEF ProgramRecords
  <2> HIDE DEF w, f
  <2> QED BY <2>1, <2>2, <2>3, FileFacts DEF ProgramRecords
<1> QED BY <1>1, <1>3, <1>4, <1>5, <1>6, <1>7, <1>8, <1>9, GoesWithFile, ZenonT(60)

LEMMA CloseWriteKeeps ==
  ASSUME TextInv, NEW p \in Runners, CloseWrite(p)
  PROVE  TextInv'
<1>1. PICK f \in Programs : xinode[f].ilock = Nothing /\ xinode' = [xinode EXCEPT ![f].writers = @ \ {p}]
  BY DEF CloseWrite, MayClose
<1>2. xproc[p].load /\ xproc[p].pc = "user" /\ UNCHANGED <<xtext, xproc, trunning, tpanic>>
  BY DEF CloseWrite, Runs
<1>3. RunnerOK(xproc[p]) /\ TextTypes
  BY RunnerFacts DEF TextInv
<1>4. OthersAlike(p) /\ Alike(xproc[p], xproc'[p])
  BY <1>2 DEF OthersAlike, Alike
<1>5. HasTheSame(p)
  BY <1>2, <1>4, AlikeMove
<1>6. /\ xinode' \in [Programs -> ProgramRecords]
      /\ \A g \in Programs : /\ xinode'[g].itext = xinode[g].itext /\ xinode'[g].ilock = xinode[g].ilock
                             /\ xinode[g].writers = {} => xinode'[g].writers = {}
                             /\ xinode[g].itext => xinode'[g].writers = {}
  BY <1>1, FileFacts DEF ProgramRecords
<1>7. ~HasFile(xproc'[p]) /\ ~InExec(xproc'[p])
  BY <1>2 DEF HasFile, InExec, InOpen, Freeing, Allocating
<1>8. \A x \in TextSlots : KeepsText(x)
  BY <1>2, SameTexts
<1>9. FilesOK'
  <2>1. \A x \in TextSlots : xtext[x].count > 0 => xtext[x].iptr \in Programs
    <3> TAKE x \in TextSlots
    <3>1. SlotOK(x) /\ xtext[x] \in TextRecords
      BY DEF TextInv, SlotsOK, TextTypes
    <3> QED BY <3>1 DEF SlotOK, SlotCount, TextRecords
  <2>2. FilesOK
    BY DEF TextInv
  <2>3. \A x \in TextSlots : xtext'[x].count > 0 => xinode'[xtext'[x].iptr].itext
    BY <1>2, <1>6, <2>1, <2>2 DEF FilesOK
  <2>4. \A q \in Runners : HasFile(xproc[q]) => xproc[q].file \in Programs
    BY RunnerFacts DEF RunnerOK
  <2> QED BY <1>3, <1>4, <1>6, <1>7, <2>2, <2>3, <2>4, FilesChanged
<1>10. /\ xproc' \in [RunnersAndSched -> RunnerRecords] /\ xtext' \in [TextSlots -> TextRecords]
       /\ trunning' \in RunnersAndSched \cup {Nothing} /\ tpanic' \in BOOLEAN
  BY <1>2, <1>3 DEF TextTypes
<1>11. xproc'[p].load /\ RunnerOK(xproc'[p]) /\ xproc'[p].pc # "vmdup" /\ xproc[p].pc # "born"
  BY <1>2, <1>3
<1> QED BY <1>2, <1>4, <1>5, <1>6, <1>8, <1>9, <1>10, <1>11, QuietStep

(* At the end of exit there is no text any more, and the files are closed. *)
LEMMA ExitDoneKeeps ==
  ASSUME TextInv, NEW p \in Runners, ExitDone(p)
  PROVE  TextInv'
<1> DEFINE r == NoRunner
<1>1. /\ xproc[p].load /\ xproc[p].pc = "exit" /\ UNCHANGED <<xtext, tpanic>> /\ MayWait(xproc, p, r)
      /\ xinode' = [f \in Programs |-> [xinode[f] EXCEPT !.writers = @ \ {p}]]
  BY DEF ExitDone, Runs
<1>2. xproc[p] \in RunnerRecords /\ RunnerOK(xproc[p]) /\ p \in RunnersAndSched /\ TextTypes
  BY RunnerFacts DEF TextInv
<1>3. xproc[p].textp = Nothing /\ xproc[p].linked = FALSE /\ xproc[p].pc \notin Lockings \cup {"born"}
  BY <1>1, <1>2 DEF RunnerOK, RunnerRecords, Lockings
<1>4. /\ r \in RunnerRecords /\ r.pc = "none" /\ r.textp = Nothing /\ r.linked = FALSE /\ r.load = TRUE
      /\ r.then = "user" /\ r.file = Nothing
  BY DEF NoRunner, RunnerRecords, RunnerLabels
<1> HIDE DEF r
<1>5. Settled(r).pc = "none" /\ Settled(r).then = "user" /\ Settled(r).file = Nothing /\ Settled(r).textp = Nothing
      /\ Settled(r).linked = FALSE /\ Settled(r).load = TRUE
      /\ Settled(r).slot = Nothing /\ Settled(r).other = Nothing
  BY <1>4, SettledIs DEF InUser
<1>6. RunnerOK(Settled(r)) /\ ~HasFile(Settled(r)) /\ ~InExec(Settled(r)) /\ r.pc \notin Lockings
  BY <1>4, <1>5 DEF RunnerOK, HasFile, InExec, InOpen, Freeing, Allocating, RunnerLabels, Lockings
<1>7. /\ xproc' \in [RunnersAndSched -> RunnerRecords] /\ xproc'[p] = Settled(r)
      /\ trunning' \in RunnersAndSched \cup {Nothing} /\ OthersAlike(p)
  BY <1>1, <1>2, <1>4, MovedSelf
<1>8. xtext' \in [TextSlots -> TextRecords] /\ (\A y \in TextSlots : KeepsText(y)) /\ tpanic' \in BOOLEAN
  BY <1>1, <1>2, SameTexts DEF TextTypes
<1>9. /\ xinode' \in [Programs -> ProgramRecords]
      /\ \A g \in Programs : /\ xinode'[g].itext = xinode[g].itext /\ xinode'[g].ilock = xinode[g].ilock
                             /\ xinode[g].writers = {} => xinode'[g].writers = {}
                             /\ xinode[g].itext => xinode'[g].writers = {}
  BY <1>1, FileFacts DEF ProgramRecords
<1> QED BY <1>1, <1>3, <1>4, <1>6, <1>7, <1>8, <1>9, GoesWithFile

(* Without a slot, or without swap space: the slot stays free, and locked. *)
LEMMA XallocFailsKeeps ==
  ASSUME TextInv, NEW p \in Runners, XallocFails(p)
  PROVE  TextInv'
<1> DEFINE f == xproc[p].file
           r == Killed(xproc[p])
<1>1. /\ xproc[p].load /\ xproc[p].pc = "xalloc" /\ UNCHANGED tpanic /\ MayWait(xproc, p, r)
      /\ xinode' = [xinode EXCEPT ![f].ilock = Nothing]
      /\ xtext' = IF FreeSlots = {} THEN xtext ELSE Reserved(xtext, Leading(FreeSlots), p \in Traced)
  BY DEF XallocFails, Runs, IputProgram
<1>2. xproc[p] \in RunnerRecords /\ RunnerOK(xproc[p]) /\ p \in RunnersAndSched /\ TextTypes
  BY RunnerFacts DEF TextInv
<1>3. HasFile(xproc[p]) /\ f \in Programs /\ xinode[f].ilock = p /\ xproc[p].pc \notin Lockings \cup {"born"}
  BY <1>1, <1>2 DEF HasFile, InExec, Allocating, RunnerOK, TextInv, FilesOK, Lockings
<1>4. xtext' \in [TextSlots -> TextRecords] /\ \A y \in TextSlots : KeepsText(y)
  <2>1. CASE FreeSlots = {}
    BY <1>1, <2>1, SameTexts
  <2>2. CASE FreeSlots # {}
    <3> DEFINE x == Leading(FreeSlots)
               tr == p \in Traced
    <3>1. x \in TextSlots /\ xtext[x].iptr = Nothing
      BY <2>2, FirstSlot DEF FreeSlots
    <3>2. xtext[x].count = 0 /\ Lockers(x) = {}
      BY <3>1, FreeSlot
    <3>3. xtext' = [xtext EXCEPT ![x].lock = TRUE, ![x].want = FALSE, ![x].trc = tr] /\ tr \in BOOLEAN
      BY <1>1, <2>2 DEF Reserved
    <3>4. xtext \in [TextSlots -> TextRecords]
      BY <1>2 DEF TextTypes
    <3> HIDE DEF x, tr
    <3>5. xtext[x] \in TextRecords
      BY <3>1, <3>4
    <3> DEFINE t == [xtext[x] EXCEPT !.lock = TRUE, !.want = FALSE, !.trc = tr]
    <3>6. /\ t \in TextRecords /\ t.iptr = xtext[x].iptr /\ t.count = xtext[x].count
          /\ t.ccount = xtext[x].ccount
      BY <3>3, <3>5 DEF TextRecords
    <3>7. xtext' = [xtext EXCEPT ![x] = t]
      BY <3>1, <3>3, <3>4, Zenon DEF TextRecords
    <3> HIDE DEF t
    <3> QED BY <3>1, <3>2, <3>4, <3>6, <3>7 DEF KeepsText
  <2> QED BY <2>1, <2>2
<1>5. /\ r \in RunnerRecords /\ r.pc = "xfree" /\ r.then = "exit" /\ r.textp = xproc[p].textp
      /\ r.linked = xproc[p].linked /\ r.load = xproc[p].load
  BY <1>2 DEF RunnerRecords, RunnerLabels, Killed
<1> HIDE DEF r
<1>6. RunnerOK(r) /\ ~InUser(r) /\ ~HasFile(r) /\ ~InExec(r) /\ r.pc \notin Lockings
  BY <1>1, <1>2, <1>5 DEF RunnerOK, HasFile, InExec, InOpen, Freeing, Allocating, InUser, RunnerLabels, Lockings
<1>7. Settled(r) = r /\ RunnerOK(Settled(r)) /\ ~HasFile(Settled(r)) /\ ~InExec(Settled(r))
  BY <1>5, <1>6, SettledIs, SettledOK
<1>8. /\ xproc' \in [RunnersAndSched -> RunnerRecords] /\ xproc'[p] = Settled(r)
      /\ trunning' \in RunnersAndSched \cup {Nothing} /\ OthersAlike(p)
  BY <1>1, <1>2, <1>5, MovedSelf
<1>9. /\ xinode' \in [Programs -> ProgramRecords]
      /\ \A g \in Programs : /\ xinode'[g].itext = xinode[g].itext /\ xinode'[g].writers = xinode[g].writers
                             /\ g # f => xinode'[g].ilock = xinode[g].ilock
                             /\ xinode[g].itext => xinode[g].writers = {}
  BY <1>1, <1>3, FileFacts, Constants DEF ProgramRecords
<1>10. tpanic' \in BOOLEAN
  BY <1>1, <1>2 DEF TextTypes
<1> QED BY <1>1, <1>3, <1>4, <1>5, <1>6, <1>7, <1>8, <1>9, <1>10, GoesWithFile, ZenonT(60)

-----------------------------------------------------------------------------
(***************************************************************************)
(* Steps that take a text, or give it up.                                  *)
(***************************************************************************)
LEMMA HasNow ==
  ASSUME TextInv, NEW p \in Runners, xproc[p].load, xproc[p].pc # "vmdup"
  PROVE  /\ Uses(p) = IF xproc[p].pc \in {"xlast", "xccdec"} THEN Nothing ELSE xproc[p].textp
         /\ InCore(p) = IF xproc[p].pc \in {"xlast", "xccdec"} THEN Nothing ELSE xproc[p].textp
         /\ Locks(p) = IF xproc[p].pc \in {"xlast", "xccdec", "xload"} THEN xproc[p].textp ELSE Nothing
<1>1. RunnerOK(xproc[p]) /\ ~(xproc[sched].pc = "swapped" /\ xproc[sched].other = p)
  BY RunnerFacts
<1> QED BY <1>1 DEF Uses, InCore, Locks, RunnerOK, RunnerLabels

LEMMA HasNext ==
  ASSUME TextInv, NEW p \in Runners, xproc[p].load, OthersAlike(p), RunnerOK(xproc'[p]), xproc'[p].load,
         xproc'[p].pc # "vmdup"
  PROVE  /\ Uses(p)' = IF xproc'[p].pc \in {"xlast", "xccdec"} THEN Nothing ELSE xproc'[p].textp
         /\ InCore(p)' = IF xproc'[p].pc \in {"xlast", "xccdec"} THEN Nothing ELSE xproc'[p].textp
         /\ Locks(p)' = IF xproc'[p].pc \in {"xlast", "xccdec", "xload"} THEN xproc'[p].textp ELSE Nothing
         /\ Ending(p)' <=> xproc'[p].pc = "xlast"
<1>1. ~(xproc[sched].pc = "swapped" /\ xproc[sched].other = p)
  BY RunnerFacts
<1>2. Alike(xproc[sched], xproc'[sched])
  BY Constants DEF OthersAlike, RunnersAndSched
<1>3. ~(xproc'[sched].pc = "swapped" /\ xproc'[sched].other = p)
  BY <1>1, <1>2 DEF Alike
<1> QED BY <1>3 DEF Uses, InCore, Locks, RunnerOK, RunnerLabels, Ending

LEMMA TextStep ==
  ASSUME TextInv, NEW p \in Runners, OthersAlike(p), xproc[p].load, xproc[p].pc \notin {"born", "vmdup"},
         xproc' \in [RunnersAndSched -> RunnerRecords], trunning' \in RunnersAndSched \cup {Nothing},
         tpanic' \in BOOLEAN, xtext' \in [TextSlots -> TextRecords], xinode' \in [Programs -> ProgramRecords],
         xproc'[p].load, RunnerOK(xproc'[p]), xproc'[p].pc # "vmdup",
         NEW x \in TextSlots, \A y \in TextSlots \ {x} : KeepsText(y),
         xproc[p].textp \in {x, Nothing}, xproc'[p].textp \in {x, Nothing},
         SlotOK(x)', OneShared', FilesOK'
  PROVE  TextInv'
<1>1. SchedOK /\ RunnersOK /\ SlotsOK
  BY DEF TextInv
<1>2. SchedOK' /\ RunnersOK'
  BY <1>1, PlacesKept
<1>3. OthersKeep(p)
  BY <1>1, OthersKept
<1>4. {Uses(p), InCore(p), Locks(p), Uses(p)', InCore(p)', Locks(p)'} \subseteq {x, Nothing}
  BY HasNow, HasNext
<1>5. SlotsOK'
  BY <1>1, <1>3, <1>4, OneSlot
<1>6. TextTypes'
  BY DEF TextTypes
<1> QED BY <1>2, <1>5, <1>6 DEF TextInv

(* Of the slot that the step is about: what its counts and its lock are.   *)
LEMMA ItsSlot ==
  ASSUME TextInv, NEW p \in Runners, OthersAlike(p), xproc[p].load, xproc[p].pc \notin {"born", "vmdup"},
         xproc'[p].load, RunnerOK(xproc'[p]), xproc'[p].pc # "vmdup", NEW x \in TextSlots
  PROVE  /\ xtext[x] \in TextRecords
         /\ xtext[x].count = Cardinality(Users(x))
         /\ xtext[x].count > 0 => xtext[x].iptr \in Programs /\ xtext[x].iptr # Nothing
                                  /\ xtext[x].ccount = Cardinality(Residents(x))
         /\ \A q \in Lockers(x) : /\ xtext[x].lock /\ xtext[x].iptr # Nothing /\ Lockers(x) = {q}
                                  /\ (xtext[x].count = 0) <=> Ending(q)
         /\ Cardinality(Users(x)') = Cardinality(Users(x)) + One(Uses(p)' = x) - One(Uses(p) = x)
         /\ Cardinality(Residents(x)') = Cardinality(Residents(x)) + One(InCore(p)' = x) - One(InCore(p) = x)
         /\ Cardinality(Users(x)) \in Nat /\ Cardinality(Residents(x)) \in Nat
         /\ Cardinality(Users(x)') \in Nat /\ Cardinality(Residents(x)') \in Nat
         /\ Lockers(x)' = (Lockers(x) \ {p}) \cup (IF Locks(p)' = x THEN {p} ELSE {})
         /\ p \in Lockers(x) <=> Locks(p) = x
<1>1. OthersKeep(p) /\ SlotOK(x) /\ xtext[x] \in TextRecords
  BY OthersKept DEF TextInv, SlotsOK, TextTypes
<1>2. \A q \in RunnersAndSched \ {p} : q \in Lockers(x)' <=> q \in Lockers(x)
  BY <1>1, Recount
<1>3. /\ p \in Lockers(x) <=> Locks(p) = x
      /\ p \in Lockers(x)' <=> Locks(p)' = x
      /\ Lockers(x) \subseteq RunnersAndSched /\ Lockers(x)' \subseteq RunnersAndSched
  BY <1>1, Recount
<1>4. Lockers(x)' = (Lockers(x) \ {p}) \cup (IF Locks(p)' = x THEN {p} ELSE {})
  BY <1>2, <1>3
<1>5. /\ Cardinality(Users(x)') = Cardinality(Users(x)) + One(Uses(p)' = x) - One(Uses(p) = x)
      /\ Cardinality(Residents(x)') = Cardinality(Residents(x)) + One(InCore(p)' = x) - One(InCore(p) = x)
      /\ Cardinality(Users(x)) \in Nat /\ Cardinality(Residents(x)) \in Nat
      /\ Cardinality(Users(x)') \in Nat /\ Cardinality(Residents(x)') \in Nat
  BY <1>1, Recount
<1>6. xtext[x].count > 0 => xtext[x].iptr \in Programs
  BY <1>1 DEF SlotOK, SlotCount, TextRecords
<1> QED BY <1>1, <1>3, <1>4, <1>5, <1>6 DEF SlotOK, SlotCount, SlotLock

(* A text that is locked, for another count.                               *)
LEMMA LockedFor ==
  ASSUME NEW t \in TextRecords
  PROVE  LET u == [t EXCEPT !.lock = TRUE, !.count = 0]
         IN u \in TextRecords /\ u.lock = TRUE /\ u.count = 0 /\ u.iptr = t.iptr
<1>1. ASSUME NEW n \in Int
      PROVE  LET u == [t EXCEPT !.lock = TRUE, !.count = n]
             IN u \in TextRecords /\ u.lock = TRUE /\ u.count = n /\ u.iptr = t.iptr
  BY DEF TextRecords
<1>2. 0 \in Int
  OBVIOUS
<1> QED BY <1>1, <1>2, Zenon

(* The last user gives the text up: its slot is locked till it is free.    *)
LEMMA XfreeLastKeeps ==
  ASSUME TextInv, NEW p \in Runners, XfreeLast(p)
  PROVE  TextInv'
<1>0. PICK x : x = xproc[p].textp
  OBVIOUS
<1> DEFINE f == xtext[x].iptr
           r == [xproc[p] EXCEPT !.pc = "xlast", !.linked = FALSE]
<1>1. /\ xproc[p].load /\ xproc[p].pc = "xfree" /\ x # Nothing /\ x \notin LockedTexts /\ xtext[x].count = 1
      /\ xtext' = [xtext EXCEPT ![x].lock = TRUE, ![x].count = 0] /\ MayWait(xproc, p, r) /\ UNCHANGED tpanic
      /\ xinode' = [xinode EXCEPT ![f].itext = @ /\ StillText(x)]
  BY <1>0 DEF XfreeLast, Runs, MayLock, Wants
<1>2. xproc[p] \in RunnerRecords /\ RunnerOK(xproc[p]) /\ p \in RunnersAndSched /\ TextTypes
      /\ x \in TextSlots \cup {Nothing}
  BY <1>0, RunnerFacts DEF TextInv
<1>3. x \in TextSlots /\ ~xtext[x].lock /\ xtext[x] \in TextRecords
  BY <1>1, <1>2 DEF LockedTexts, TextTypes
<1>4. /\ r \in RunnerRecords /\ r.pc = "xlast" /\ r.then = xproc[p].then /\ r.textp = x
      /\ r.linked = FALSE /\ r.load = TRUE /\ r.file = xproc[p].file
  BY <1>0, <1>1, <1>2 DEF RunnerRecords, RunnerLabels
<1> HIDE DEF r, f
<1>5. /\ RunnerOK(r) /\ ~InUser(r) /\ (HasFile(r) => HasFile(xproc[p])) /\ (InExec(r) => InExec(xproc[p]))
      /\ (InExec(r) => HasFile(xproc[p]))
  BY <1>1, <1>2, <1>4 DEF RunnerOK, HasFile, InExec, InOpen, Freeing, Allocating, InUser, RunnerLabels
<1>6. /\ xproc' \in [RunnersAndSched -> RunnerRecords] /\ xproc'[p] = r
      /\ trunning' \in RunnersAndSched \cup {Nothing} /\ OthersAlike(p)
  BY <1>1, <1>2, <1>4, <1>5, MovedSelf, SettledIs
<1> DEFINE t == [xtext[x] EXCEPT !.lock = TRUE, !.count = 0]
<1>7. /\ t \in TextRecords /\ t.lock = TRUE /\ t.count = 0 /\ t.iptr = f
  <2>1. xtext[x] \in TextRecords
    BY <1>3
  <2>2. t \in TextRecords /\ t.lock = TRUE /\ t.count = 0 /\ t.iptr = xtext[x].iptr
    BY <2>1, LockedFor, Zenon
  <2> QED BY <2>2 DEF f
<1>8. xtext' = [xtext EXCEPT ![x] = t]
  BY <1>1, <1>3, Zenon
<1> HIDE DEF t
<1>9. /\ xtext' \in [TextSlots -> TextRecords] /\ xtext'[x] = t
      /\ \A y \in TextSlots \ {x} : xtext'[y] = xtext[y]
  BY <1>2, <1>3, <1>7, <1>8 DEF TextTypes
<1>10. SlotOK(x)'
  <2>1. Lockers(x) = {}
    BY <1>3, UnlockedSlot
  <2>2. Uses(p) = x /\ Uses(p)' = Nothing /\ Locks(p)' = x /\ Ending(p)' /\ Nothing # x
    BY <1>0, <1>1, <1>2, <1>3, <1>4, <1>5, <1>6, Constants, HasNow, HasNext
  <2>3. Lockers(x)' = {p} /\ Cardinality(Users(x)') = 0 /\ f # Nothing
    BY <1>1, <1>3, <1>4, <1>5, <1>6, <2>1, <2>2, ItsSlot DEF One, f
  <2> QED BY <1>7, <1>9, <2>2, <2>3 DEF SlotOK, SlotCount, SlotLock
<1>11. OneShared'
  BY <1>7, <1>9, SharedKept DEF TextInv
<1>12. f \in Programs
  BY <1>1, <1>3, <1>4, <1>5, <1>6, ItsSlot DEF f
<1>13. /\ xinode' \in [Programs -> ProgramRecords]
       /\ \A g \in Programs : /\ g # f => xinode'[g].itext = xinode[g].itext
                              /\ xinode'[g].itext => xinode[g].itext
                              /\ xinode'[g].ilock = xinode[g].ilock /\ xinode'[g].writers = xinode[g].writers
       /\ xinode'[f].itext = (xinode[f].itext /\ StillText(x))
  <2> DEFINE it == xinode[f].itext /\ StillText(x)
  <2>1. it \in BOOLEAN /\ xinode' = [xinode EXCEPT ![f].itext = it] /\ (it => xinode[f].itext)
    BY <1>1
  <2>2. it = (xinode[f].itext /\ StillText(x))
    OBVIOUS
  <2> HIDE DEF it
  <2>3. xinode \in [Programs -> ProgramRecords] /\ xinode[f] \in ProgramRecords /\ xinode[f].itext \in BOOLEAN
    BY <1>12, FileFacts DEF ProgramRecords
  <2>4. /\ xinode' \in [Programs -> ProgramRecords] /\ xinode'[f].itext = it
        /\ \A g \in Programs : /\ g # f => xinode'[g].itext = xinode[g].itext
                               /\ xinode'[g].ilock = xinode[g].ilock /\ xinode'[g].writers = xinode[g].writers
    BY <1>12, <2>1, <2>3 DEF ProgramRecords
  <2> QED BY <2>1, <2>2, <2>4
<1>14. FilesOK'
  <2>1. FilesOK
    BY DEF TextInv
  <2>2. ASSUME NEW y \in TextSlots, xtext'[y].count > 0
        PROVE  xinode'[xtext'[y].iptr].itext
    <3>1. y # x /\ xtext'[y] = xtext[y] /\ xtext[y].count > 0
      BY <2>2, <1>7, <1>9
    <3>2. xinode[xtext[y].iptr].itext /\ xtext[y].iptr \in Programs
      BY <1>1, <1>4, <1>5, <1>6, <2>1, <3>1, ItsSlot DEF FilesOK
    <3>3. CASE xtext[y].iptr = f
      <4>1. StillText(x)
        BY <3>1, <3>3 DEF StillText, f
      <4> QED BY <1>13, <3>1, <3>2, <3>3, <4>1
    <3>4. CASE xtext[y].iptr # f
      BY <1>13, <3>1, <3>2, <3>4
    <3> QED BY <3>3, <3>4
  <2>3. \A q \in Runners : HasFile(xproc[q]) => xproc[q].file \in Programs
    BY RunnerFacts DEF RunnerOK
  <2>4. \A g \in Programs : xinode'[g].itext => xinode'[g].writers = {}
    BY <1>13, <2>1 DEF FilesOK
  <2>5. HasFile(xproc'[p]) => xinode'[xproc'[p].file].ilock = p
    BY <1>4, <1>5, <1>6, <1>13, <2>1, <2>3 DEF FilesOK
  <2>6. ASSUME InExec(xproc'[p]) PROVE xinode'[xproc'[p].file].writers = {}
    <3>1. InExec(xproc[p]) /\ xproc'[p].file = xproc[p].file /\ xproc[p].file \in Programs
      BY <1>4, <1>5, <1>6, <2>3, <2>6
    <3>2. xinode[xproc[p].file].writers = {}
      BY <2>1, <3>1 DEF FilesOK
    <3> QED BY <1>13, <3>1, <3>2
  <2> QED BY <1>2, <1>6, <1>13, <2>1, <2>2, <2>3, <2>4, <2>5, <2>6, FilesChanged
<1>15. /\ \A y \in TextSlots \ {x} : KeepsText(y)
       /\ tpanic' \in BOOLEAN /\ xproc[p].pc \notin {"born", "vmdup"} /\ xproc'[p].pc # "vmdup"
       /\ xproc'[p].load /\ xproc'[p].textp \in {x, Nothing}
  BY <1>0, <1>1, <1>2, <1>4, <1>6, <1>9 DEF KeepsText, TextTypes
<1> QED BY <1>0, <1>1, <1>3, <1>5, <1>6, <1>9, <1>10, <1>11, <1>13, <1>14, <1>15, TextStep

(* A text changes, but no file: its users become fewer, or as many.        *)
LEMMA TextChanges ==
  ASSUME TextInv, NEW p \in Runners, OthersAlike(p), xproc[p].load, xproc[p].pc \notin {"born", "vmdup"},
         xproc' \in [RunnersAndSched -> RunnerRecords], trunning' \in RunnersAndSched \cup {Nothing},
         UNCHANGED <<xinode, tpanic>>, xproc'[p].load, RunnerOK(xproc'[p]), xproc'[p].pc # "vmdup",
         NEW x \in TextSlots, NEW t \in TextRecords, xtext' = [xtext EXCEPT ![x] = t],
         xproc[p].textp \in {x, Nothing}, xproc'[p].textp \in {x, Nothing},
         t.count > 0 => xtext[x].count > 0 /\ t.iptr = xtext[x].iptr /\ t.trc = xtext[x].trc,
         HasFile(xproc'[p]) => HasFile(xproc[p]) /\ xproc'[p].file = xproc[p].file,
         InExec(xproc'[p]) => InExec(xproc[p]),
         SlotOK(x)'
  PROVE  TextInv'
<1>1. TextTypes /\ FilesOK /\ OneShared
  BY DEF TextInv
<1>2. /\ xtext' \in [TextSlots -> TextRecords] /\ xtext'[x] = t
      /\ \A y \in TextSlots \ {x} : xtext'[y] = xtext[y]
  BY <1>1 DEF TextTypes
<1>3. \A y \in TextSlots \ {x} : KeepsText(y)
  BY <1>2 DEF KeepsText
<1>4. \A y \in TextSlots : xtext'[y].count > 0 => /\ xtext[y].count > 0 /\ xtext'[y].iptr = xtext[y].iptr
                                                  /\ xtext'[y].trc = xtext[y].trc
  BY <1>2
<1>5. OneShared'
  BY <1>1, <1>4, SharedKept
<1>6. FilesOK'
  BY <1>1, <1>4, FilesKept
<1>7. tpanic' \in BOOLEAN /\ xinode' \in [Programs -> ProgramRecords]
  BY <1>1 DEF TextTypes
<1> QED BY <1>2, <1>3, <1>5, <1>6, <1>7, TextStep

LEMMA Relieved ==
  ASSUME NEW t \in TextRecords
  PROVE  LET u == [t EXCEPT !.lock = FALSE, !.iptr = Nothing]
         IN u \in TextRecords /\ ~u.lock /\ u.count = t.count /\ u.iptr = Nothing
BY DEF TextRecords

LEMMA UnlockedIs ==
  ASSUME NEW t \in TextRecords
  PROVE  /\ Unlocked(t) \in TextRecords /\ ~Unlocked(t).lock /\ Unlocked(t).count = t.count
         /\ Unlocked(t).iptr = t.iptr /\ Unlocked(t).ccount = t.ccount /\ Unlocked(t).trc = t.trc
BY DEF TextRecords, Unlocked

LEMMA XfreeDoneKeeps ==
  ASSUME TextInv, NEW p \in Runners, XfreeDone(p)
  PROVE  TextInv'
<1>0. PICK x : x = xproc[p].textp
  OBVIOUS
<1> DEFINE r == Rid(xproc[p])
           t == [xtext[x] EXCEPT !.lock = FALSE, !.iptr = Nothing]
<1>1. /\ xproc[p].load /\ xproc[p].pc = "xlast" /\ MayWait(xproc, p, r) /\ UNCHANGED <<xinode, tpanic>>
      /\ xtext' = [xtext EXCEPT ![x].lock = FALSE, ![x].iptr = Nothing]
  BY <1>0 DEF XfreeDone, Runs
<1>2. xproc[p] \in RunnerRecords /\ RunnerOK(xproc[p]) /\ p \in RunnersAndSched /\ TextTypes
      /\ x \in TextSlots \cup {Nothing}
  BY <1>0, RunnerFacts DEF TextInv
<1>3. x \in TextSlots /\ xtext[x] \in TextRecords
  BY <1>0, <1>1, <1>2 DEF RunnerOK, TextTypes
<1>4. xproc[p].then \in {"xalloc", "exit"}
  BY <1>1, <1>2 DEF RunnerOK, Freeing
<1>5. /\ r \in RunnerRecords /\ r.pc = xproc[p].then /\ r.then = xproc[p].then /\ r.textp = Nothing
      /\ r.linked = FALSE /\ r.load = xproc[p].load /\ r.file = xproc[p].file
  BY <1>2, <1>4 DEF RunnerRecords, Rid
<1> HIDE DEF r
<1>6. /\ RunnerOK(r) /\ ~InUser(r) /\ (HasFile(r) => HasFile(xproc[p])) /\ (InExec(r) => InExec(xproc[p]))
      /\ r.pc \notin {"xlast", "xccdec", "xload", "vmdup"}
  BY <1>1, <1>2, <1>4, <1>5 DEF RunnerOK, HasFile, InExec, InOpen, Freeing, Allocating, InUser, RunnerLabels
<1>7. /\ xproc' \in [RunnersAndSched -> RunnerRecords] /\ xproc'[p] = r
      /\ trunning' \in RunnersAndSched \cup {Nothing} /\ OthersAlike(p)
  BY <1>1, <1>2, <1>5, <1>6, MovedSelf, SettledIs
<1>a. /\ xproc[p].pc \notin {"born", "vmdup"} /\ xproc'[p].load /\ xproc'[p].pc # "vmdup"
      /\ xproc[p].textp \in {x, Nothing} /\ xproc'[p].textp \in {x, Nothing} /\ RunnerOK(xproc'[p])
  BY <1>0, <1>1, <1>5, <1>6, <1>7
<1>b. /\ HasFile(xproc'[p]) => HasFile(xproc[p]) /\ xproc'[p].file = xproc[p].file
      /\ InExec(xproc'[p]) => InExec(xproc[p])
  BY <1>5, <1>6, <1>7
<1>8. t \in TextRecords /\ ~t.lock /\ t.count = xtext[x].count /\ t.iptr = Nothing
  BY <1>3, Relieved
<1>9. xtext' = [xtext EXCEPT ![x] = t]
  BY <1>1, <1>3, Zenon
<1> HIDE DEF t
<1>10. SlotOK(x)' /\ t.count = 0
  <2>1. Uses(p) = Nothing /\ Locks(p) = x /\ Uses(p)' = Nothing /\ Locks(p)' = Nothing /\ Ending(p) /\ Nothing # x
    BY <1>0, <1>1, <1>3, <1>5, <1>6, <1>7, Constants, HasNow, HasNext DEF Ending
  <2>2. Lockers(x)' = {} /\ xtext[x].count = 0 /\ Cardinality(Users(x)') = 0
    <3>1. /\ p \in Lockers(x) /\ \A q \in Lockers(x) : Lockers(x) = {q} /\ ((xtext[x].count = 0) <=> Ending(q))
          /\ Lockers(x)' = (Lockers(x) \ {p}) \cup (IF Locks(p)' = x THEN {p} ELSE {})
          /\ xtext[x].count = Cardinality(Users(x)) /\ Cardinality(Users(x)) \in Nat
          /\ Cardinality(Users(x)') = Cardinality(Users(x)) + One(Uses(p)' = x) - One(Uses(p) = x)
      <4>1. Locks(p) = x
        BY <2>1
      <4> QED BY <1>1, <1>3, <1>7, <1>a, <4>1, ItsSlot
    <3>2. Lockers(x) = {p} /\ xtext[x].count = 0
      BY <2>1, <3>1
    <3>3. Lockers(x)' = {}
      BY <2>1, <3>1, <3>2
    <3> QED BY <2>1, <3>1, <3>2, <3>3 DEF One
  <2>3. xtext'[x] = t
    BY <1>2, <1>3, <1>9 DEF TextTypes
  <2> QED BY <1>8, <2>2, <2>3 DEF SlotOK, SlotCount, SlotLock
<1>c. t.count > 0 => xtext[x].count > 0 /\ t.iptr = xtext[x].iptr /\ t.trc = xtext[x].trc
  BY <1>10
<1> QED BY <1>1, <1>3, <1>7, <1>8, <1>9, <1>10, <1>a, <1>b, <1>c, TextChanges

(* One of several users gives the text up.                                 *)
LEMMA DecrementedIs ==
  ASSUME NEW t \in TextRecords
  PROVE  /\ Decremented(t) \in TextRecords /\ Decremented(t).ccount = t.ccount - 1
         /\ Decremented(t).count = t.count /\ Decremented(t).iptr = t.iptr /\ Decremented(t).trc = t.trc
         /\ (t.ccount = 1 => Decremented(t).lock) /\ (t.ccount # 1 => ~Decremented(t).lock)
<1>1. PICK m \in Int : m = t.ccount - 1
  BY DEF TextRecords
<1>2. CASE t.ccount = 1
  <2>1. Decremented(t) = [t EXCEPT !.ccount = m, !.lock = TRUE]
    <3>1. m = 0
      BY <1>1, <1>2
    <3> QED BY <1>2, <3>1, Zenon DEF Decremented
  <2> QED BY <1>1, <1>2, <2>1 DEF TextRecords
<1>3. CASE t.ccount # 1
  <2>1. Decremented(t) = [[t EXCEPT !.ccount = m] EXCEPT !.lock = FALSE, !.want = FALSE]
    BY <1>1, <1>3, Zenon DEF Decremented, Unlocked
  <2> QED BY <1>1, <1>3, <2>1 DEF TextRecords
<1> QED BY <1>2, <1>3

LEMMA FewerIs ==
  ASSUME NEW t \in TextRecords, NEW n \in Int
  PROVE  LET u == [Decremented(t) EXCEPT !.count = n]
         IN /\ u \in TextRecords /\ u.count = n /\ u.ccount = t.ccount - 1
            /\ u.iptr = t.iptr /\ u.trc = t.trc /\ (t.ccount = 1 => u.lock) /\ (t.ccount # 1 => ~u.lock)
<1>1. PICK d : d = Decremented(t)
  OBVIOUS
<1>2. /\ d \in TextRecords /\ d.ccount = t.ccount - 1 /\ d.iptr = t.iptr /\ d.trc = t.trc
      /\ (t.ccount = 1 => d.lock) /\ (t.ccount # 1 => ~d.lock)
  BY <1>1, DecrementedIs
<1> DEFINE u == [d EXCEPT !.count = n]
<1>3. /\ u \in TextRecords /\ u.count = n /\ u.ccount = d.ccount /\ u.iptr = d.iptr /\ u.trc = d.trc
      /\ u.lock = d.lock
  BY <1>2 DEF TextRecords
<1> HIDE DEF u
<1>4. [Decremented(t) EXCEPT !.count = n] = u
  BY <1>1 DEF u
<1> QED BY <1>2, <1>3, <1>4

LEMMA XfreeSharedKeeps ==
  ASSUME TextInv, NEW p \in Runners, XfreeShared(p)
  PROVE  TextInv'
<1>0. PICK x : x = xproc[p].textp
  OBVIOUS
<1> DEFINE r == IF xtext[x].ccount = 1 THEN [xproc[p] EXCEPT !.pc = "xccdec"] ELSE Rid(xproc[p])
           t == [Decremented(xtext[x]) EXCEPT !.count = xtext[x].count - 1]
<1>1. /\ xproc[p].load /\ xproc[p].pc = "xfree" /\ x # Nothing /\ x \notin LockedTexts /\ xtext[x].count > 1
      /\ xtext' = [xtext EXCEPT ![x] = t] /\ UNCHANGED <<xinode, tpanic>>
      /\ MayWait(xproc, p, r) \/ MayWait(AfterUnlock(x), p, r)
  BY <1>0 DEF XfreeShared, Runs, MayLock, Wants
<1>2. xproc[p] \in RunnerRecords /\ RunnerOK(xproc[p]) /\ p \in RunnersAndSched /\ TextTypes
      /\ x \in TextSlots \cup {Nothing}
  BY <1>0, RunnerFacts DEF TextInv
<1>3. x \in TextSlots /\ ~xtext[x].lock /\ xtext[x] \in TextRecords
  BY <1>1, <1>2 DEF LockedTexts, TextTypes
<1>4. xproc[p].then \in {"xalloc", "exit"} /\ xproc[p].linked
  BY <1>0, <1>1, <1>2 DEF RunnerOK, Freeing
<1>5. /\ r \in RunnerRecords /\ r.then = xproc[p].then /\ r.load /\ r.file = xproc[p].file
      /\ \/ xtext[x].ccount = 1 /\ r.pc = "xccdec" /\ r.textp = x /\ r.linked
         \/ xtext[x].ccount # 1 /\ r.pc = xproc[p].then /\ r.textp = Nothing /\ ~r.linked
  BY <1>0, <1>1, <1>2, <1>4 DEF RunnerRecords, RunnerLabels, Rid
<1> HIDE DEF r
<1>6. /\ RunnerOK(r) /\ ~InUser(r) /\ (HasFile(r) => HasFile(xproc[p])) /\ (InExec(r) => InExec(xproc[p]))
      /\ r.pc \notin {"xlast", "xload", "vmdup"}
  BY <1>1, <1>2, <1>4, <1>5 DEF RunnerOK, HasFile, InExec, InOpen, Freeing, Allocating, InUser, RunnerLabels
<1>7. /\ xproc' \in [RunnersAndSched -> RunnerRecords] /\ xproc'[p] = r
      /\ trunning' \in RunnersAndSched \cup {Nothing} /\ OthersAlike(p)
  BY <1>1, <1>2, <1>5, <1>6, MovedSelf, MovedUnlocking, SettledIs
<1>8. /\ t \in TextRecords /\ t.count = xtext[x].count - 1 /\ t.ccount = xtext[x].ccount - 1
      /\ t.iptr = xtext[x].iptr /\ t.trc = xtext[x].trc
      /\ (xtext[x].ccount = 1 => t.lock) /\ (xtext[x].ccount # 1 => ~t.lock)
  <2>1. xtext[x].count - 1 \in Int
    BY <1>3 DEF TextRecords
  <2> QED BY <1>3, <2>1, FewerIs
<1> HIDE DEF t
<1>9. SlotOK(x)'
  <2>1. Lockers(x) = {}
    BY <1>3, UnlockedSlot
  <2>2. /\ Uses(p) = x /\ Uses(p)' = Nothing /\ InCore(p) = x /\ InCore(p)' = Nothing /\ Nothing # x
        /\ Locks(p)' = (IF xtext[x].ccount = 1 THEN x ELSE Nothing) /\ ~Ending(p)'
    BY <1>0, <1>1, <1>3, <1>5, <1>6, <1>7, Constants, HasNow, HasNext
  <2>3. /\ xtext[x].count = Cardinality(Users(x)) /\ xtext[x].iptr # Nothing
        /\ xtext[x].ccount = Cardinality(Residents(x))
        /\ Cardinality(Users(x)') = Cardinality(Users(x)) - 1 /\ Cardinality(Users(x)) \in Nat
        /\ Cardinality(Residents(x)') = Cardinality(Residents(x)) - 1 /\ Cardinality(Residents(x)) \in Nat
        /\ Lockers(x)' = (IF xtext[x].ccount = 1 THEN {p} ELSE {})
    BY <1>1, <1>3, <1>5, <1>6, <1>7, <2>1, <2>2, ItsSlot DEF One
  <2>4. xtext'[x] = t
    BY <1>1, <1>2, <1>3 DEF TextTypes
  <2> QED BY <1>1, <1>8, <2>2, <2>3, <2>4 DEF SlotOK, SlotCount, SlotLock
<1>10. t.count > 0 => xtext[x].count > 0 /\ t.iptr = xtext[x].iptr /\ t.trc = xtext[x].trc
  <2>1. xtext[x].count \in Int /\ xtext[x].count > 1
    BY <1>1, <1>3 DEF TextRecords
  <2> QED BY <1>8, <2>1
<1>11. xproc'[p].textp \in {x, Nothing} /\ xproc'[p].file = xproc[p].file
  BY <1>5, <1>7
<1> QED BY <1>0, <1>1, <1>3, <1>5, <1>6, <1>7, <1>8, <1>9, <1>10, <1>11, TextChanges

(* Its text has been swapped out: the other users have it unlocked.        *)
LEMMA XccdecKeeps ==
  ASSUME TextInv, NEW p \in Runners, Xccdec(p)
  PROVE  TextInv'
<1>0. PICK x : x = xproc[p].textp
  OBVIOUS
<1> DEFINE r == Rid(xproc[p])
           t == Unlocked(xtext[x])
<1>1. /\ xproc[p].load /\ xproc[p].pc = "xccdec" /\ MayWait(AfterUnlock(x), p, r) /\ UNCHANGED <<xinode, tpanic>>
      /\ xtext' = [xtext EXCEPT ![x] = t]
  BY <1>0 DEF Xccdec, Runs
<1>2. xproc[p] \in RunnerRecords /\ RunnerOK(xproc[p]) /\ p \in RunnersAndSched /\ TextTypes
      /\ x \in TextSlots \cup {Nothing}
  BY <1>0, RunnerFacts DEF TextInv
<1>3. x \in TextSlots /\ xtext[x] \in TextRecords
  BY <1>0, <1>1, <1>2 DEF RunnerOK, TextTypes
<1>4. xproc[p].then \in {"xalloc", "exit"}
  BY <1>1, <1>2 DEF RunnerOK, Freeing
<1>5. /\ r \in RunnerRecords /\ r.pc = xproc[p].then /\ r.then = xproc[p].then /\ r.textp = Nothing
      /\ r.linked = FALSE /\ r.load = xproc[p].load /\ r.file = xproc[p].file
  BY <1>2, <1>4 DEF RunnerRecords, Rid
<1> HIDE DEF r
<1>6. /\ RunnerOK(r) /\ ~InUser(r) /\ (HasFile(r) => HasFile(xproc[p])) /\ (InExec(r) => InExec(xproc[p]))
      /\ r.pc \notin {"xlast", "xccdec", "xload", "vmdup"}
  BY <1>1, <1>2, <1>4, <1>5 DEF RunnerOK, HasFile, InExec, InOpen, Freeing, Allocating, InUser, RunnerLabels
<1>7. /\ xproc' \in [RunnersAndSched -> RunnerRecords] /\ xproc'[p] = r
      /\ trunning' \in RunnersAndSched \cup {Nothing} /\ OthersAlike(p)
  BY <1>1, <1>2, <1>5, <1>6, MovedUnlocking, SettledIs
<1>8. /\ xproc[p].pc \notin {"born", "vmdup"} /\ xproc'[p].load /\ xproc'[p].pc # "vmdup"
      /\ xproc[p].textp \in {x, Nothing} /\ xproc'[p].textp \in {x, Nothing} /\ RunnerOK(xproc'[p])
  BY <1>0, <1>1, <1>5, <1>6, <1>7
<1>9. /\ HasFile(xproc'[p]) => HasFile(xproc[p]) /\ xproc'[p].file = xproc[p].file
      /\ InExec(xproc'[p]) => InExec(xproc[p])
  BY <1>5, <1>6, <1>7
<1>10. /\ t \in TextRecords /\ ~t.lock /\ t.count = xtext[x].count /\ t.iptr = xtext[x].iptr
       /\ t.ccount = xtext[x].ccount /\ t.trc = xtext[x].trc
  BY <1>3, UnlockedIs
<1> HIDE DEF t
<1>11. SlotOK(x)'
  <2>1. /\ Uses(p) = Nothing /\ Locks(p) = x /\ Uses(p)' = Nothing /\ Locks(p)' = Nothing /\ ~Ending(p)
        /\ InCore(p) = Nothing /\ InCore(p)' = Nothing /\ Nothing # x
    BY <1>0, <1>1, <1>3, <1>5, <1>6, <1>7, Constants, HasNow, HasNext DEF Ending
  <2>2. /\ p \in Lockers(x) /\ \A q \in Lockers(x) : Lockers(x) = {q} /\ ((xtext[x].count = 0) <=> Ending(q))
        /\ Lockers(x)' = (Lockers(x) \ {p}) \cup (IF Locks(p)' = x THEN {p} ELSE {})
        /\ xtext[x].count = Cardinality(Users(x)) /\ Cardinality(Users(x)) \in Nat
        /\ Cardinality(Users(x)') = Cardinality(Users(x)) + One(Uses(p)' = x) - One(Uses(p) = x)
        /\ xtext[x].count > 0 => xtext[x].iptr # Nothing /\ xtext[x].ccount = Cardinality(Residents(x))
        /\ Cardinality(Residents(x)') = Cardinality(Residents(x)) + One(InCore(p)' = x) - One(InCore(p) = x)
        /\ Cardinality(Residents(x)) \in Nat
    <3>1. Locks(p) = x
      BY <2>1
    <3> QED BY <1>1, <1>3, <1>7, <1>8, <3>1, ItsSlot
  <2>3. Lockers(x) = {p} /\ xtext[x].count # 0
    BY <2>1, <2>2
  <2>4. Lockers(x)' = {}
    BY <2>1, <2>2, <2>3
  <2>5. Cardinality(Users(x)') = Cardinality(Users(x)) /\ Cardinality(Residents(x)') = Cardinality(Residents(x))
    BY <2>1, <2>2 DEF One
  <2>6. xtext'[x] = t
    BY <1>1, <1>2, <1>3 DEF TextTypes
  <2> QED BY <1>10, <2>2, <2>3, <2>4, <2>5, <2>6 DEF SlotOK, SlotCount, SlotLock
<1>12. t.count > 0 => xtext[x].count > 0 /\ t.iptr = xtext[x].iptr /\ t.trc = xtext[x].trc
  BY <1>10
<1> QED BY <1>1, <1>3, <1>7, <1>8, <1>9, <1>10, <1>11, <1>12, TextChanges

(* The end of exec: the process has its text, and the file is unlocked.    *)
LEMMA Starting ==
  ASSUME TextInv, NEW p \in Runners, NEW x \in TextSlots, NEW r \in RunnerRecords, r.pc = "user", r.textp = x,
         r.linked, r.load, GoesOn(AfterUnlock(x), p, r)
  PROVE  /\ xproc' \in [RunnersAndSched -> RunnerRecords] /\ trunning' \in RunnersAndSched \cup {Nothing}
         /\ OthersAlike(p) /\ xproc'[p].pc = "user" /\ xproc'[p].textp = x /\ xproc'[p].load
         /\ RunnerOK(xproc'[p]) /\ ~HasFile(xproc'[p]) /\ ~InExec(xproc'[p])
<1>1. p \in RunnersAndSched /\ TextTypes /\ x # Nothing
  BY RunnerFacts, Constants DEF TextInv
<1>2. /\ xproc' \in [RunnersAndSched -> RunnerRecords] /\ xproc'[p] = Settled(r)
      /\ trunning' \in RunnersAndSched \cup {Nothing} /\ OthersAlike(p)
  BY <1>1, MovedUnlocking
<1>3. RunnerOK(Settled(r)) /\ Settled(r).pc = "user" /\ Settled(r).textp = x /\ Settled(r).load
  BY <1>1, SettledIs, SettledOK
<1>4. ~HasFile(Settled(r)) /\ ~InExec(Settled(r))
  BY <1>3 DEF HasFile, InExec, InOpen, Freeing, Allocating
<1> QED BY <1>2, <1>3, <1>4

LEMMA StartsText ==
  ASSUME TextInv, NEW p \in Runners, OthersAlike(p), xproc[p].load, xproc[p].pc \in {"xalloc", "xload"},
         xproc' \in [RunnersAndSched -> RunnerRecords], trunning' \in RunnersAndSched \cup {Nothing},
         IputProgram(p), UNCHANGED tpanic, xproc'[p].load, RunnerOK(xproc'[p]), xproc'[p].pc = "user",
         ~HasFile(xproc'[p]), ~InExec(xproc'[p]),
         NEW x \in TextSlots, NEW t \in TextRecords, xtext' = [xtext EXCEPT ![x] = t],
         xproc[p].textp \in {x, Nothing}, xproc'[p].textp = x,
         t.count > 0 => xtext[x].count > 0 /\ t.iptr = xtext[x].iptr /\ t.trc = xtext[x].trc,
         SlotOK(x)'
  PROVE  TextInv'
<1> DEFINE f == xproc[p].file
<1>1. TextTypes /\ FilesOK /\ OneShared /\ RunnerOK(xproc[p])
  BY RunnerFacts DEF TextInv
<1>2. /\ xtext' \in [TextSlots -> TextRecords] /\ xtext'[x] = t
      /\ \A y \in TextSlots \ {x} : xtext'[y] = xtext[y]
  BY <1>1 DEF TextTypes
<1>3. \A y \in TextSlots \ {x} : KeepsText(y)
  BY <1>2 DEF KeepsText
<1>4. \A y \in TextSlots : xtext'[y].count > 0 => /\ xtext[y].count > 0 /\ xtext'[y].iptr = xtext[y].iptr
                                                  /\ xtext'[y].trc = xtext[y].trc
  BY <1>2
<1>5. OneShared'
  BY <1>1, <1>4, SharedKept
<1>6. HasFile(xproc[p]) /\ f \in Programs /\ xinode[f].ilock = p
  BY <1>1 DEF HasFile, InExec, Allocating, RunnerOK, FilesOK
<1>7. /\ xinode' \in [Programs -> ProgramRecords]
      /\ \A g \in Programs : /\ xinode'[g].itext = xinode[g].itext /\ xinode'[g].writers = xinode[g].writers
                             /\ g # f => xinode'[g].ilock = xinode[g].ilock
                             /\ xinode[g].itext => xinode[g].writers = {}
  BY <1>6, FileFacts, Constants DEF ProgramRecords, IputProgram
<1>8. FilesOK'
  <2>1. \A y \in TextSlots : xtext[y].count > 0 => xtext[y].iptr \in Programs
    <3> TAKE y \in TextSlots
    <3>1. SlotOK(y) /\ xtext[y] \in TextRecords
      BY DEF TextInv, SlotsOK, TextTypes
    <3> QED BY <3>1 DEF SlotOK, SlotCount, TextRecords
  <2>2. \A y \in TextSlots : xtext'[y].count > 0 => xinode'[xtext'[y].iptr].itext
    BY <1>1, <1>4, <1>7, <2>1 DEF FilesOK
  <2>3. \A q \in Runners : HasFile(xproc[q]) => xproc[q].file \in Programs
    BY RunnerFacts DEF RunnerOK
  <2> QED BY <1>1, <1>6, <1>7, <2>2, <2>3, FilesChanged
<1>9. tpanic' \in BOOLEAN
  BY <1>1 DEF TextTypes
<1>10. xproc[p].pc \notin {"born", "vmdup"} /\ xproc'[p].pc # "vmdup" /\ xproc'[p].textp \in {x, Nothing}
  OBVIOUS
<1> QED BY <1>2, <1>3, <1>5, <1>7, <1>8, <1>9, <1>10, TextStep

(* The text has been read in.                                              *)
LEMMA XloadKeeps ==
  ASSUME TextInv, NEW p \in Runners, Xload(p)
  PROVE  TextInv'
<1>0. PICK x : x = xproc[p].textp
  OBVIOUS
<1> DEFINE r == Started(xproc[p])
           t == Unlocked(xtext[x])
<1>1. /\ xproc[p].load /\ xproc[p].pc = "xload" /\ GoesOn(AfterUnlock(x), p, r) /\ UNCHANGED tpanic
      /\ xtext' = [xtext EXCEPT ![x] = t] /\ IputProgram(p)
  BY <1>0 DEF Xload, Runs
<1>2. xproc[p] \in RunnerRecords /\ RunnerOK(xproc[p]) /\ p \in RunnersAndSched /\ TextTypes
      /\ x \in TextSlots \cup {Nothing}
  BY <1>0, RunnerFacts DEF TextInv
<1>3. x \in TextSlots /\ xtext[x] \in TextRecords /\ xproc[p].linked
  BY <1>0, <1>1, <1>2 DEF RunnerOK, TextTypes
<1>4. r \in RunnerRecords /\ r.pc = "user" /\ r.textp = x /\ r.linked /\ r.load
  BY <1>0, <1>1, <1>2, <1>3 DEF RunnerRecords, RunnerLabels, Started
<1> HIDE DEF r
<1>5. /\ xproc' \in [RunnersAndSched -> RunnerRecords] /\ trunning' \in RunnersAndSched \cup {Nothing}
      /\ OthersAlike(p) /\ xproc'[p].pc = "user" /\ xproc'[p].textp = x /\ xproc'[p].load
      /\ RunnerOK(xproc'[p]) /\ ~HasFile(xproc'[p]) /\ ~InExec(xproc'[p])
  BY <1>1, <1>3, <1>4, Starting
<1>6. /\ t \in TextRecords /\ ~t.lock /\ t.count = xtext[x].count /\ t.iptr = xtext[x].iptr
      /\ t.ccount = xtext[x].ccount /\ t.trc = xtext[x].trc
  BY <1>3, UnlockedIs
<1> HIDE DEF t
<1>7. SlotOK(x)'
  <2>1. /\ Uses(p) = x /\ Locks(p) = x /\ Uses(p)' = x /\ Locks(p)' = Nothing /\ ~Ending(p)
        /\ InCore(p) = x /\ InCore(p)' = x /\ Nothing # x
    BY <1>0, <1>1, <1>3, <1>5, Constants, HasNow, HasNext DEF Ending
  <2>2. /\ p \in Lockers(x) /\ \A q \in Lockers(x) : Lockers(x) = {q} /\ ((xtext[x].count = 0) <=> Ending(q))
        /\ Lockers(x)' = (Lockers(x) \ {p}) \cup (IF Locks(p)' = x THEN {p} ELSE {})
        /\ xtext[x].count = Cardinality(Users(x)) /\ Cardinality(Users(x)) \in Nat
        /\ Cardinality(Users(x)') = Cardinality(Users(x)) + One(Uses(p)' = x) - One(Uses(p) = x)
        /\ xtext[x].count > 0 => xtext[x].iptr # Nothing /\ xtext[x].ccount = Cardinality(Residents(x))
        /\ Cardinality(Residents(x)') = Cardinality(Residents(x)) + One(InCore(p)' = x) - One(InCore(p) = x)
        /\ Cardinality(Residents(x)) \in Nat
    <3>1. Locks(p) = x /\ xproc[p].pc \notin {"born", "vmdup"} /\ xproc'[p].pc # "vmdup"
      BY <1>1, <1>5, <2>1
    <3> QED BY <1>1, <1>3, <1>5, <3>1, ItsSlot
  <2>3. Lockers(x) = {p} /\ xtext[x].count # 0
    BY <2>1, <2>2
  <2>4. Lockers(x)' = {}
    BY <2>1, <2>2, <2>3
  <2>5. Cardinality(Users(x)') = Cardinality(Users(x)) /\ Cardinality(Residents(x)') = Cardinality(Residents(x))
    BY <2>1, <2>2 DEF One
  <2>6. xtext'[x] = t
    BY <1>1, <1>2, <1>3 DEF TextTypes
  <2> QED BY <1>6, <2>2, <2>3, <2>4, <2>5, <2>6 DEF SlotOK, SlotCount, SlotLock
<1>8. /\ t.count > 0 => xtext[x].count > 0 /\ t.iptr = xtext[x].iptr /\ t.trc = xtext[x].trc
      /\ xproc[p].pc \in {"xalloc", "xload"} /\ xproc[p].textp \in {x, Nothing}
  BY <1>0, <1>1, <1>6
<1> QED BY <1>1, <1>3, <1>5, <1>6, <1>7, <1>8, StartsText

(* A text that somebody uses gets one user more, in core.                  *)
LEMMA MoreIs ==
  ASSUME NEW t \in TextRecords
  PROVE  LET u == Unlocked(Joined(t))
         IN /\ u \in TextRecords /\ u.count = t.count + 1 /\ u.ccount = t.ccount + 1
            /\ u.iptr = t.iptr /\ u.trc = t.trc /\ ~u.lock
<1>1. PICK n \in Int, m \in Int : n = t.count + 1 /\ m = t.ccount + 1
  BY DEF TextRecords
<1>2. Joined(t) = [t EXCEPT !.count = n, !.ccount = m]
  BY <1>1, Zenon DEF Joined
<1>3. /\ Joined(t) \in TextRecords /\ Joined(t).count = n /\ Joined(t).ccount = m
      /\ Joined(t).iptr = t.iptr /\ Joined(t).trc = t.trc
  BY <1>1, <1>2 DEF TextRecords
<1> QED BY <1>1, <1>3, UnlockedIs

LEMMA XallocAttachKeeps ==
  ASSUME TextInv, NEW p \in Runners, XallocAttach(p)
  PROVE  TextInv'
<1>0. PICK x : x = Leading(TextsOf(p))
  OBVIOUS
<1> DEFINE r == Started([xproc[p] EXCEPT !.textp = x, !.linked = TRUE])
           t == Unlocked(Joined(xtext[x]))
<1>1. /\ xproc[p].load /\ xproc[p].pc = "xalloc" /\ GoesOn(AfterUnlock(x), p, r) /\ UNCHANGED tpanic
      /\ xtext' = [xtext EXCEPT ![x] = t] /\ IputProgram(p) /\ TextsOf(p) # {} /\ ~xtext[x].lock
  BY <1>0 DEF XallocAttach, Runs
<1>2. xproc[p] \in RunnerRecords /\ RunnerOK(xproc[p]) /\ p \in RunnersAndSched /\ TextTypes
  BY RunnerFacts DEF TextInv
<1>3. x \in TextSlots /\ x \in TextsOf(p) /\ xtext[x] \in TextRecords
  <2>1. TextsOf(p) \in SUBSET TextSlots
    BY DEF TextsOf
  <2> QED BY <1>0, <1>1, <1>2, <2>1, FirstSlot DEF TextTypes
<1>4. r \in RunnerRecords /\ r.pc = "user" /\ r.textp = x /\ r.linked /\ r.load
  BY <1>0, <1>1, <1>2, <1>3 DEF RunnerRecords, RunnerLabels, Started
<1> HIDE DEF r
<1>5. /\ xproc' \in [RunnersAndSched -> RunnerRecords] /\ trunning' \in RunnersAndSched \cup {Nothing}
      /\ OthersAlike(p) /\ xproc'[p].pc = "user" /\ xproc'[p].textp = x /\ xproc'[p].load
      /\ RunnerOK(xproc'[p]) /\ ~HasFile(xproc'[p]) /\ ~InExec(xproc'[p])
  BY <1>1, <1>3, <1>4, Starting
<1>6. /\ t \in TextRecords /\ ~t.lock /\ t.count = xtext[x].count + 1 /\ t.iptr = xtext[x].iptr
      /\ t.ccount = xtext[x].ccount + 1 /\ t.trc = xtext[x].trc
  BY <1>3, MoreIs
<1> HIDE DEF t
<1>7. xproc[p].textp = Nothing /\ xtext[x].count # 0
  BY <1>1, <1>2, <1>3 DEF RunnerOK, TextsOf
<1>8. SlotOK(x)' /\ xtext[x].count > 0
  <2>1. /\ Uses(p) = Nothing /\ Locks(p) = Nothing /\ Uses(p)' = x /\ Locks(p)' = Nothing
        /\ InCore(p) = Nothing /\ InCore(p)' = x /\ Nothing # x
    BY <1>1, <1>3, <1>5, <1>7, Constants, HasNow, HasNext
  <2>2. /\ Lockers(x)' = (Lockers(x) \ {p}) \cup (IF Locks(p)' = x THEN {p} ELSE {})
        /\ xtext[x].count = Cardinality(Users(x)) /\ Cardinality(Users(x)) \in Nat
        /\ Cardinality(Users(x)') = Cardinality(Users(x)) + One(Uses(p)' = x) - One(Uses(p) = x)
        /\ xtext[x].count > 0 => xtext[x].iptr # Nothing /\ xtext[x].ccount = Cardinality(Residents(x))
        /\ Cardinality(Residents(x)') = Cardinality(Residents(x)) + One(InCore(p)' = x) - One(InCore(p) = x)
        /\ Cardinality(Residents(x)) \in Nat
    <3>1. xproc[p].pc \notin {"born", "vmdup"} /\ xproc'[p].pc # "vmdup"
      BY <1>1, <1>5
    <3> QED BY <1>1, <1>3, <1>5, <3>1, ItsSlot
  <2>3. Lockers(x) = {}
    BY <1>1, <1>3, UnlockedSlot
  <2>4. Lockers(x)' = {}
    BY <2>1, <2>2, <2>3
  <2>5. /\ Cardinality(Users(x)') = Cardinality(Users(x)) + 1
        /\ Cardinality(Residents(x)') = Cardinality(Residents(x)) + 1
    BY <2>1, <2>2 DEF One
  <2>6. xtext'[x] = t
    BY <1>1, <1>2, <1>3 DEF TextTypes
  <2> QED BY <1>6, <1>7, <2>2, <2>4, <2>5, <2>6 DEF SlotOK, SlotCount, SlotLock
<1>9. /\ t.count > 0 => xtext[x].count > 0 /\ t.iptr = xtext[x].iptr /\ t.trc = xtext[x].trc
      /\ xproc[p].pc \in {"xalloc", "xload"} /\ xproc[p].textp \in {x, Nothing}
  BY <1>1, <1>6, <1>7, <1>8
<1> QED BY <1>1, <1>3, <1>5, <1>6, <1>8, <1>9, StartsText

(* A new text, in a slot that is free: it is locked till it is there.      *)
LEMMA NewTextIs ==
  ASSUME NEW f \in Programs, NEW trc \in BOOLEAN
  PROVE  /\ NewText(f, trc) \in TextRecords /\ NewText(f, trc).iptr = f /\ NewText(f, trc).count = 1
         /\ NewText(f, trc).ccount = 1 /\ NewText(f, trc).lock /\ NewText(f, trc).trc = trc
<1>1. PICK z \in Int, o \in Int : z = 0 /\ o = 1
  OBVIOUS
<1>2. FreeText = [iptr |-> Nothing, count |-> z, ccount |-> z, lock |-> FALSE, want |-> FALSE,
                  trc |-> FALSE, poip |-> z]
  BY <1>1, Zenon DEF FreeText
<1>3. FreeText \in TextRecords
  BY <1>1, <1>2 DEF TextRecords
<1>4. NewText(f, trc) = [FreeText EXCEPT !.iptr = f, !.count = o, !.ccount = o, !.lock = TRUE, !.trc = trc]
  BY <1>1, Zenon DEF NewText
<1>5. /\ NewText(f, trc) \in TextRecords /\ NewText(f, trc).iptr = f /\ NewText(f, trc).count = o
      /\ NewText(f, trc).ccount = o /\ NewText(f, trc).lock /\ NewText(f, trc).trc = trc
  BY <1>1, <1>3, <1>4 DEF TextRecords
<1> QED BY <1>1, <1>5

LEMMA SharedNew ==
  ASSUME OneShared, TextTypes, NEW x \in TextSlots, NEW t \in TextRecords, xtext' = [xtext EXCEPT ![x] = t],
         t.trc \/ \A y \in TextSlots : xtext[y].iptr = t.iptr /\ ~xtext[y].trc => xtext[y].count = 0
  PROVE  OneShared'
<1>1. /\ xtext' \in [TextSlots -> TextRecords] /\ xtext'[x] = t
      /\ \A y \in TextSlots \ {x} : xtext'[y] = xtext[y]
  BY DEF TextTypes
<1>2. ASSUME NEW y \in TextSlots, NEW z \in TextSlots, xtext'[y].iptr = xtext'[z].iptr, xtext'[y].count > 0,
             xtext'[z].count > 0, ~xtext'[y].trc, ~xtext'[z].trc
      PROVE  y = z
  <2>1. CASE y = x /\ z # x
    BY <1>1, <1>2, <2>1
  <2>2. CASE y # x /\ z = x
    BY <1>1, <1>2, <2>2
  <2>3. CASE y # x /\ z # x
    BY <1>1, <1>2, <2>3 DEF OneShared
  <2> QED BY <2>1, <2>2, <2>3
<1> QED BY <1>2 DEF OneShared

LEMMA XallocNewKeeps ==
  ASSUME TextInv, NEW p \in Runners, XallocNew(p)
  PROVE  TextInv'
<1>0. PICK x, f : x = Leading(FreeSlots) /\ f = xproc[p].file
  OBVIOUS
<1> DEFINE r == [xproc[p] EXCEPT !.pc = "xload", !.textp = x, !.linked = TRUE]
           tr == p \in Traced
           t == NewText(f, tr)
<1>1. /\ xproc[p].load /\ xproc[p].pc = "xalloc" /\ MayWait(xproc, p, r) /\ UNCHANGED tpanic
      /\ xtext' = [xtext EXCEPT ![x] = t] /\ TextsOf(p) = {} /\ FreeSlots # {}
      /\ xinode' = [xinode EXCEPT ![f].itext = TRUE]
  BY <1>0 DEF XallocNew, Runs
<1>2. xproc[p] \in RunnerRecords /\ RunnerOK(xproc[p]) /\ p \in RunnersAndSched /\ TextTypes /\ FilesOK /\ OneShared
  BY RunnerFacts DEF TextInv
<1>3. HasFile(xproc[p]) /\ InExec(xproc[p]) /\ f \in Programs /\ xinode[f].ilock = p /\ xinode[f].writers = {}
      /\ xproc[p].textp = Nothing
  BY <1>0, <1>1, <1>2 DEF HasFile, InExec, Allocating, RunnerOK, FilesOK
<1>4. x \in TextSlots /\ xtext[x].iptr = Nothing
  BY <1>0, <1>1, FirstSlot DEF FreeSlots
<1>5. /\ r \in RunnerRecords /\ r.pc = "xload" /\ r.then = xproc[p].then /\ r.textp = x
      /\ r.linked /\ r.load /\ r.file = f
  <2>1. /\ r \in RunnerRecords /\ r.pc = "xload" /\ r.then = xproc[p].then /\ r.textp = x
        /\ r.linked = TRUE /\ r.load = xproc[p].load /\ r.file = xproc[p].file
    BY <1>2, <1>4 DEF RunnerRecords, RunnerLabels
  <2> HIDE DEF r
  <2> QED BY <1>0, <1>1, <2>1
<1> HIDE DEF r
<1>6. RunnerOK(r) /\ ~InUser(r)
  BY <1>1, <1>2, <1>3, <1>4, <1>5, Constants DEF RunnerOK, HasFile, InExec, InOpen, Freeing, Allocating, InUser,
     RunnerLabels
<1>7. /\ xproc' \in [RunnersAndSched -> RunnerRecords] /\ xproc'[p] = r
      /\ trunning' \in RunnersAndSched \cup {Nothing} /\ OthersAlike(p)
  BY <1>1, <1>2, <1>5, <1>6, MovedSelf, SettledIs
<1>8. t \in TextRecords /\ t.iptr = f /\ t.count = 1 /\ t.ccount = 1 /\ t.lock /\ t.trc = tr
  <2>1. tr \in BOOLEAN
    OBVIOUS
  <2> HIDE DEF tr
  <2> QED BY <1>3, <2>1, NewTextIs
<1> HIDE DEF t
<1>9. /\ xtext' \in [TextSlots -> TextRecords] /\ xtext'[x] = t
      /\ \A y \in TextSlots \ {x} : xtext'[y] = xtext[y]
  BY <1>1, <1>2, <1>4, <1>8 DEF TextTypes
<1>10. /\ xproc[p].pc \notin {"born", "vmdup"} /\ xproc'[p].load /\ xproc'[p].pc # "vmdup"
       /\ xproc[p].textp \in {x, Nothing} /\ xproc'[p].textp \in {x, Nothing} /\ RunnerOK(xproc'[p])
  BY <1>1, <1>3, <1>5, <1>6, <1>7
<1>11. SlotOK(x)'
  <2>1. /\ Uses(p) = Nothing /\ Locks(p) = Nothing /\ Uses(p)' = x /\ Locks(p)' = x
        /\ InCore(p) = Nothing /\ InCore(p)' = x /\ Nothing # x /\ ~Ending(p)'
    BY <1>1, <1>3, <1>4, <1>5, <1>6, <1>7, Constants, HasNow, HasNext
  <2>2. xtext[x].count = 0 /\ Lockers(x) = {} /\ Cardinality(Users(x)) = 0 /\ Cardinality(Residents(x)) = 0
    <3>1. Residents(x) \subseteq Users(x)
      <4>1. \A q \in Runners : InCore(q) \in {Nothing, Uses(q)}
        <5> TAKE q \in Runners
        <5>1. RunnerOK(xproc[q])
          BY RunnerFacts
        <5> QED BY <5>1 DEF InCore, Uses, RunnerOK
      <4> QED BY <2>1, <4>1 DEF Residents, Users
    <3>2. xtext[x].count = 0 /\ Lockers(x) = {} /\ Cardinality(Users(x)) = 0
      BY <1>4, FreeSlot
    <3>3. Users(x) = {}
      BY <3>2, FiniteUsers, FS_EmptySet
    <3> QED BY <3>1, <3>2, <3>3
  <2>3. /\ Lockers(x)' = (Lockers(x) \ {p}) \cup (IF Locks(p)' = x THEN {p} ELSE {})
        /\ Cardinality(Users(x)') = Cardinality(Users(x)) + One(Uses(p)' = x) - One(Uses(p) = x)
        /\ Cardinality(Residents(x)') = Cardinality(Residents(x)) + One(InCore(p)' = x) - One(InCore(p) = x)
    BY <1>1, <1>4, <1>7, <1>10, ItsSlot
  <2>4. Lockers(x)' = {p}
    BY <2>1, <2>2, <2>3
  <2>5. Cardinality(Users(x)') = 1 /\ Cardinality(Residents(x)') = 1
    BY <2>1, <2>2, <2>3 DEF One
  <2>6. f # Nothing
    BY <1>3, Constants
  <2> QED BY <1>8, <1>9, <2>1, <2>4, <2>5, <2>6 DEF SlotOK, SlotCount, SlotLock
<1>12. OneShared'
  <2>1. t.trc \/ \A y \in TextSlots : xtext[y].iptr = t.iptr /\ ~xtext[y].trc => xtext[y].count = 0
    BY <1>0, <1>1, <1>8 DEF TextsOf
  <2> QED BY <1>1, <1>2, <1>4, <1>8, <2>1, SharedNew
<1>13. /\ xinode' \in [Programs -> ProgramRecords] /\ xinode'[f].itext
       /\ \A g \in Programs : /\ g # f => xinode'[g].itext = xinode[g].itext
                              /\ xinode'[g].ilock = xinode[g].ilock /\ xinode'[g].writers = xinode[g].writers
                              /\ xinode[g].itext => xinode[g].writers = {}
  BY <1>1, <1>3, FileFacts DEF ProgramRecords
<1>14. FilesOK'
  <2>1. \A y \in TextSlots : xtext[y].count > 0 => xtext[y].iptr \in Programs
    <3> TAKE y \in TextSlots
    <3>1. SlotOK(y) /\ xtext[y] \in TextRecords
      BY DEF TextInv, SlotsOK, TextTypes
    <3> QED BY <3>1 DEF SlotOK, SlotCount, TextRecords
  <2>2. \A y \in TextSlots : xtext'[y].count > 0 => xinode'[xtext'[y].iptr].itext
    BY <1>2, <1>8, <1>9, <1>13, <2>1 DEF FilesOK
  <2>3. \A q \in Runners : HasFile(xproc[q]) => xproc[q].file \in Programs
    BY RunnerFacts DEF RunnerOK
  <2>4. \A g \in Programs : xinode'[g].itext => xinode'[g].writers = {}
    BY <1>3, <1>13
  <2>5. /\ HasFile(xproc'[p]) => xinode'[xproc'[p].file].ilock = p
        /\ InExec(xproc'[p]) => xinode'[xproc'[p].file].writers = {}
    BY <1>3, <1>5, <1>7, <1>13
  <2> QED BY <1>2, <1>7, <1>13, <2>2, <2>3, <2>4, <2>5, FilesChanged
<1>15. /\ \A y \in TextSlots \ {x} : KeepsText(y)
       /\ tpanic' \in BOOLEAN
  BY <1>1, <1>2, <1>9 DEF KeepsText, TextTypes
<1> QED BY <1>1, <1>4, <1>7, <1>9, <1>10, <1>11, <1>12, <1>13, <1>14, <1>15, TextStep

-----------------------------------------------------------------------------
(***************************************************************************)
(* fork: the child q appears, with the text of its parent p or a new one.  *)
(***************************************************************************)
LEMMA ForkFacts ==
  ASSUME TextInv, NEW p \in Runners, NEW q \in Runners, CanFork(p, q)
  PROVE  /\ p # q /\ xproc[p].pc = "user" /\ xproc[p].load /\ xproc[q].pc = "none" /\ xproc[q].load
         /\ xproc[q].textp = Nothing /\ xproc[p].linked = (xproc[p].textp # Nothing)
         /\ Settled(xproc[p]) = xproc[p] /\ RunnerOK(xproc[p])
<1>1. xproc[p].pc = "user" /\ xproc[p].load /\ xproc[q].pc = "none"
  BY DEF CanFork, Runs
<1>2. RunnerOK(xproc[p]) /\ RunnerOK(xproc[q]) /\ xproc[p] \in RunnerRecords
  BY RunnerFacts
<1>3. /\ xproc[p].file = Nothing /\ xproc[p].slot = Nothing /\ xproc[p].other = Nothing /\ xproc[p].then = "user"
      /\ xproc[p].linked \in BOOLEAN
  BY <1>1, <1>2 DEF RunnerOK, RunnerRecords
<1>4. Settled(xproc[p]) = xproc[p]
  BY <1>1, <1>2, <1>3 DEF Settled, InUser, RunnerRecords
<1> QED BY <1>1, <1>2, <1>3, <1>4 DEF RunnerOK

LEMMA ChildIs ==
  ASSUME NEW x \in TextSlots \cup {Nothing}
  PROVE  /\ Child(x) \in RunnerRecords /\ Child(x).pc = "user" /\ Child(x).textp = x
         /\ Child(x).linked = (x # Nothing) /\ Child(x).load /\ Child(x).file = Nothing
         /\ Child(x).then = "user" /\ Child(x).slot = Nothing /\ Child(x).other = Nothing
         /\ RunnerOK(Child(x)) /\ ~HasFile(Child(x)) /\ ~InExec(Child(x))
<1>1. /\ Child(x) \in RunnerRecords /\ Child(x).pc = "user" /\ Child(x).textp = x
      /\ Child(x).linked = (x # Nothing) /\ Child(x).load = TRUE /\ Child(x).file = Nothing
      /\ Child(x).then = "user" /\ Child(x).slot = Nothing /\ Child(x).other = Nothing
  BY DEF Child, NoRunner, RunnerRecords, RunnerLabels
<1> QED BY <1>1 DEF RunnerOK, RunnerLabels, HasFile, InExec, InOpen, Freeing, Allocating

(* The child gets the files of its parent, that are open for writing.      *)
LEMMA InheritsFiles ==
  ASSUME TextInv, NEW p \in Runners, NEW q \in Runners, Inherits(p, q)
  PROVE  /\ xinode' \in [Programs -> ProgramRecords]
         /\ \A f \in Programs : /\ xinode'[f].itext = xinode[f].itext /\ xinode'[f].ilock = xinode[f].ilock
                                /\ xinode[f].writers = {} => xinode'[f].writers = {}
                                /\ xinode[f].itext => xinode'[f].writers = {}
<1>1. ASSUME NEW f \in Programs
      PROVE  /\ xinode'[f] \in ProgramRecords
             /\ xinode'[f].itext = xinode[f].itext /\ xinode'[f].ilock = xinode[f].ilock
             /\ xinode[f].writers = {} => xinode'[f].writers = {}
             /\ xinode[f].itext => xinode'[f].writers = {}
  <2> DEFINE w == IF p \in xinode[f].writers THEN xinode[f].writers \cup {q} ELSE xinode[f].writers
  <2>1. xinode'[f] = [xinode[f] EXCEPT !.writers = w]
    BY DEF Inherits
  <2>2. xinode[f] \in ProgramRecords /\ (xinode[f].itext => xinode[f].writers = {})
    BY FileFacts
  <2>3. w \in SUBSET Runners /\ (xinode[f].writers = {} => w = {})
    BY <2>2 DEF ProgramRecords
  <2> HIDE DEF w
  <2> QED BY <2>1, <2>2, <2>3 DEF ProgramRecords
<1>2. xinode' = [f \in Programs |-> xinode'[f]]
  BY DEF Inherits
<1> QED BY <1>1, <1>2

LEMMA TextFiles ==
  ASSUME TextInv
  PROVE  /\ \A x \in TextSlots : xtext[x].count > 0 => xtext[x].iptr \in Programs /\ xinode[xtext[x].iptr].itext
         /\ \A q \in Runners : HasFile(xproc[q]) => xproc[q].file \in Programs
<1>1. \A x \in TextSlots : xtext[x].count > 0 => xtext[x].iptr \in Programs
  <2> TAKE x \in TextSlots
  <2>1. SlotOK(x) /\ xtext[x] \in TextRecords
    BY DEF TextInv, SlotsOK, TextTypes
  <2> QED BY <2>1 DEF SlotOK, SlotCount, TextRecords
<1>2. \A q \in Runners : HasFile(xproc[q]) => xproc[q].file \in Programs
  BY RunnerFacts DEF RunnerOK
<1> QED BY <1>1, <1>2 DEF TextInv, FilesOK

(* The slot that vsxalloc finds no swap space for stays free, and locked.  *)
LEMMA ReservedSlot ==
  ASSUME TextInv, NEW tab \in [TextSlots -> TextRecords], NEW y \in TextSlots, xtext[y].iptr = Nothing,
         tab[y] = xtext[y], NEW trc \in BOOLEAN
  PROVE  LET new == Reserved(tab, y, trc)
         IN /\ new \in [TextSlots -> TextRecords] /\ \A x \in TextSlots \ {y} : new[x] = tab[x]
            /\ new[y].iptr = Nothing /\ new[y].count = xtext[y].count /\ new[y].ccount = xtext[y].ccount
            /\ xtext[y].count = 0 /\ Lockers(y) = {}
<1>1. xtext[y].count = 0 /\ Lockers(y) = {}
  BY FreeSlot
<1>2. xtext[y] \in TextRecords
  BY DEF TextInv, TextTypes
<1> DEFINE t == [xtext[y] EXCEPT !.lock = TRUE, !.want = FALSE, !.trc = trc]
<1>3. t \in TextRecords /\ t.iptr = Nothing /\ t.count = xtext[y].count /\ t.ccount = xtext[y].ccount
  BY <1>2 DEF TextRecords
<1>4. Reserved(tab, y, trc) = [tab EXCEPT ![y] = t]
  BY Zenon DEF Reserved
<1> HIDE DEF t
<1> QED BY <1>1, <1>3, <1>4

LEMMA ForkSharesKeeps ==
  ASSUME TextInv, NEW p \in Runners, NEW q \in Runners, ForkShares(p, q)
  PROVE  TextInv'
<1>0. PICK x : x = xproc[p].textp
  OBVIOUS
<1>1. /\ CanFork(p, q) /\ MayWait([xproc EXCEPT ![q] = Child(x)], p, xproc[p]) /\ Inherits(p, q) /\ UNCHANGED tpanic
      /\ xtext' = IF Copies(p) THEN Reserved(Shared(xtext, x), Leading(FreeSlots), TRUE) ELSE Shared(xtext, x)
  BY <1>0 DEF ForkShares
<1>2. /\ p # q /\ xproc[p].pc = "user" /\ xproc[p].load /\ xproc[q].pc = "none" /\ xproc[q].load
      /\ xproc[q].textp = Nothing /\ Settled(xproc[p]) = xproc[p]
  BY <1>1, ForkFacts
<1>3. /\ x \in TextSlots \cup {Nothing} /\ p \in RunnersAndSched /\ q \in RunnersAndSched /\ TextTypes
      /\ FilesOK /\ OneShared /\ xproc \in [RunnersAndSched -> RunnerRecords]
  BY <1>0, RunnerFacts DEF TextInv, TextTypes
<1> DEFINE r == Child(x)
<1>4. /\ r \in RunnerRecords /\ r.pc = "user" /\ r.textp = x /\ r.load /\ RunnerOK(r) /\ ~HasFile(r) /\ ~InExec(r)
  BY <1>3, ChildIs
<1> HIDE DEF r
<1>5. /\ xproc' = [xproc EXCEPT ![q] = r] /\ trunning' = Nothing
  <2>1. xproc' = [[xproc EXCEPT ![q] = r] EXCEPT ![p] = xproc[p]] /\ trunning' = Nothing
    BY <1>1, <1>2 DEF MayWait, r
  <2> QED BY <1>2, <1>3, <2>1
<1>6. /\ xproc' \in [RunnersAndSched -> RunnerRecords] /\ xproc'[q] = r
      /\ trunning' \in RunnersAndSched \cup {Nothing} /\ OthersAlike(q)
  BY <1>3, <1>4, <1>5 DEF OthersAlike, Alike
<1>7. /\ xinode' \in [Programs -> ProgramRecords]
      /\ \A f \in Programs : /\ xinode'[f].itext = xinode[f].itext /\ xinode'[f].ilock = xinode[f].ilock
                             /\ xinode[f].writers = {} => xinode'[f].writers = {}
                             /\ xinode[f].itext => xinode'[f].writers = {}
  BY <1>1, InheritsFiles
<1>8. /\ xproc[q].pc \notin {"born", "vmdup"} \cup Lockings /\ xproc'[q].load /\ xproc'[q].pc \notin {"vmdup"} \cup Lockings
      /\ RunnerOK(xproc'[q]) /\ ~HasFile(xproc'[q]) /\ ~InExec(xproc'[q]) /\ tpanic' \in BOOLEAN
  BY <1>1, <1>2, <1>3, <1>4, <1>6 DEF Lockings, TextTypes
<1>9. ASSUME \A y \in TextSlots : xtext'[y].count > 0 => xtext[y].count > 0 /\ xtext'[y].iptr = xtext[y].iptr
      PROVE  FilesOK'
  <2>1. \A y \in TextSlots : xtext'[y].count > 0 => xinode'[xtext'[y].iptr].itext
    BY <1>7, <1>9, TextFiles
  <2> QED BY <1>3, <1>6, <1>7, <1>8, <2>1, TextFiles, FilesChanged
<1>10. CASE x = Nothing
  <2>1. xtext' = xtext
    BY <1>0, <1>1, <1>10 DEF Copies, Shared
  <2>2. /\ xtext' \in [TextSlots -> TextRecords] /\ \A y \in TextSlots : KeepsText(y)
        /\ \A y \in TextSlots : xtext'[y].count > 0 => xtext[y].count > 0 /\ xtext'[y].iptr = xtext[y].iptr
    BY <2>1, SameTexts
  <2>3. xproc'[q].linked = xproc[q].linked /\ xproc'[q].textp = xproc[q].textp
    <3>1. xproc[q].linked = FALSE
      BY <1>2, <1>3, RunnerFacts DEF RunnerOK, RunnerRecords
    <3>2. r.linked = FALSE
      BY <1>3, <1>10, ChildIs DEF r
    <3> QED BY <1>2, <1>4, <1>6, <1>10, <3>1, <3>2
  <2>4. HasTheSame(q)
    BY <1>2, <1>6, <1>8, <2>3, PlainMove
  <2> QED BY <1>2, <1>6, <1>7, <1>8, <1>9, <2>2, <2>4, QuietStep
<1>11. CASE x # Nothing
  <2>1. x \in TextSlots /\ xtext[x] \in TextRecords
    BY <1>3, <1>11 DEF TextTypes
  <2>2. /\ Uses(p) = x /\ Uses(q) = Nothing /\ Uses(q)' = x /\ InCore(q) = Nothing /\ InCore(q)' = x
        /\ Locks(q) = Nothing /\ Locks(q)' = Nothing
    BY <1>0, <1>2, <1>4, <1>6, <1>8, HasNow, HasNext
  <2>3. /\ xtext[x].count = Cardinality(Users(x)) /\ Cardinality(Users(x)) \in Nat
        /\ xtext[x].count > 0 => xtext[x].iptr # Nothing /\ xtext[x].ccount = Cardinality(Residents(x))
        /\ \A s \in Lockers(x) : /\ xtext[x].lock /\ xtext[x].iptr # Nothing /\ Lockers(x) = {s}
                                 /\ (xtext[x].count = 0) <=> Ending(s)
        /\ Cardinality(Users(x)') = Cardinality(Users(x)) + One(Uses(q)' = x) - One(Uses(q) = x)
        /\ Cardinality(Residents(x)') = Cardinality(Residents(x)) + One(InCore(q)' = x) - One(InCore(q) = x)
        /\ Cardinality(Residents(x)) \in Nat
        /\ Lockers(x)' = (Lockers(x) \ {q}) \cup (IF Locks(q)' = x THEN {q} ELSE {})
        /\ q \in Lockers(x) <=> Locks(q) = x
    BY <1>2, <1>6, <1>8, <2>1, ItsSlot
  <2>4. xtext[x].count > 0
    <3>1. p \in Users(x)
      BY <2>2 DEF Users
    <3>2. Cardinality(Users(x)) # 0
      BY <3>1, FiniteUsers, FS_EmptySet
    <3> QED BY <2>3, <3>2
  <2>5. /\ xtext' \in [TextSlots -> TextRecords] /\ xtext'[x].count = xtext[x].count + 1
        /\ xtext'[x].ccount = xtext[x].ccount + 1 /\ xtext'[x].lock = xtext[x].lock
        /\ xtext'[x].iptr = xtext[x].iptr /\ xtext'[x].trc = xtext[x].trc
        /\ \A y \in TextSlots \ {x} : KeepsText(y)
    <3> DEFINE n == xtext[x].count + 1
               m == xtext[x].ccount + 1
               t == [xtext[x] EXCEPT !.count = n, !.ccount = m]
    <3>1. n \in Int /\ m \in Int
      BY <2>1 DEF TextRecords
    <3>2. Shared(xtext, x) = [xtext EXCEPT ![x] = t]
      BY <1>11, Zenon DEF Shared
    <3> HIDE DEF n, m
    <3>3. /\ t \in TextRecords /\ t.count = n /\ t.ccount = m /\ t.lock = xtext[x].lock /\ t.iptr = xtext[x].iptr
          /\ t.trc = xtext[x].trc
      BY <2>1, <3>1 DEF TextRecords
    <3> HIDE DEF t
    <3>4. /\ Shared(xtext, x) \in [TextSlots -> TextRecords] /\ Shared(xtext, x)[x] = t
          /\ \A y \in TextSlots \ {x} : Shared(xtext, x)[y] = xtext[y]
      BY <1>3, <2>1, <3>2, <3>3 DEF TextTypes
    <3>5. CASE Copies(p)
      <4>1. PICK y : y = Leading(FreeSlots)
        OBVIOUS
      <4>2. y \in TextSlots /\ xtext[y].iptr = Nothing
        BY <3>5, <4>1, FirstSlot DEF Copies, FreeSlots
      <4>3. y # x
        BY <2>3, <2>4, <4>2
      <4>4. xtext' = Reserved(Shared(xtext, x), y, TRUE) /\ Shared(xtext, x)[y] = xtext[y]
        BY <1>1, <3>4, <3>5, <4>1, <4>2, <4>3
      <4>5. /\ xtext' \in [TextSlots -> TextRecords] /\ \A z \in TextSlots \ {y} : xtext'[z] = Shared(xtext, x)[z]
            /\ xtext'[y].iptr = Nothing /\ xtext'[y].count = xtext[y].count /\ xtext'[y].ccount = xtext[y].ccount
            /\ xtext[y].count = 0 /\ Lockers(y) = {}
        BY <3>4, <4>2, <4>4, ReservedSlot
      <4>6. KeepsText(y)
        BY <4>2, <4>5 DEF KeepsText
      <4>7. \A z \in TextSlots \ {x, y} : KeepsText(z)
        BY <3>4, <4>5 DEF KeepsText
      <4> QED BY <2>1, <3>3, <3>4, <4>3, <4>5, <4>6, <4>7 DEF n, m
    <3>6. CASE ~Copies(p)
      BY <1>1, <2>1, <3>3, <3>4, <3>6 DEF n, m, KeepsText
    <3> QED BY <3>5, <3>6
  <2>6. SlotOK(x)'
    <3>1. Lockers(x)' = Lockers(x)
      BY <1>11, <2>2, <2>3
    <3>2. /\ Cardinality(Users(x)') = Cardinality(Users(x)) + 1
          /\ Cardinality(Residents(x)') = Cardinality(Residents(x)) + 1
      BY <1>11, <2>2, <2>3 DEF One
    <3>3. \A s \in Lockers(x) : Ending(s)' = Ending(s)
      <4>1. OthersKeep(q)
        BY <1>2, <1>6, OthersKept DEF TextInv
      <4>2. q \notin Lockers(x)
        BY <1>11, <2>2, <2>3
      <4> QED BY <4>1, <4>2 DEF OthersKeep, Lockers
    <3> QED BY <2>3, <2>4, <2>5, <3>1, <3>2, <3>3 DEF SlotOK, SlotCount, SlotLock
  <2>7. \A y \in TextSlots : xtext'[y].count > 0 => /\ xtext[y].count > 0 /\ xtext'[y].iptr = xtext[y].iptr
                                                    /\ xtext'[y].trc = xtext[y].trc
    BY <2>4, <2>5 DEF KeepsText
  <2>8. OneShared' /\ FilesOK'
    BY <1>3, <1>9, <2>7, SharedKept
  <2>9. xproc[q].textp \in {x, Nothing} /\ xproc'[q].textp \in {x, Nothing}
    BY <1>2, <1>4, <1>6
  <2> QED BY <1>2, <1>6, <1>7, <1>8, <2>1, <2>5, <2>6, <2>8, <2>9, TextStep
<1> QED BY <1>10, <1>11

-----------------------------------------------------------------------------
(***************************************************************************)
(* Steps that move two processes: one slot is theirs to change.            *)
(***************************************************************************)
Elsewhere(x) ==
  /\ \A r \in Runners : Uses(r)' = Uses(r) \/ {Uses(r), Uses(r)'} \subseteq {x, Nothing}
  /\ \A r \in Runners : InCore(r)' = InCore(r) \/ {InCore(r), InCore(r)'} \subseteq {x, Nothing}
  /\ \A r \in RunnersAndSched : Locks(r)' = Locks(r) \/ {Locks(r), Locks(r)'} \subseteq {x, Nothing}
  /\ \A r \in RunnersAndSched : Ending(r)' = Ending(r)

LEMMA SlotsElsewhere ==
  ASSUME SlotsOK, NEW x \in TextSlots \cup {Nothing}, Elsewhere(x), \A y \in TextSlots \ {x} : KeepsText(y),
         x \in TextSlots => SlotOK(x)'
  PROVE  SlotsOK'
<1>1. ASSUME NEW y \in TextSlots \ {x} PROVE SlotOK(y)'
  <2>1. y \notin {x, Nothing} /\ SlotOK(y) /\ KeepsText(y)
    BY Constants DEF SlotsOK
  <2>2. Users(y)' = Users(y) /\ Residents(y)' = Residents(y) /\ Lockers(y)' = Lockers(y)
    BY <2>1 DEF Elsewhere, Users, Residents, Lockers
  <2>3. \A r \in Lockers(y) : Ending(r)' = Ending(r)
    BY DEF Elsewhere, Lockers
  <2>4. SlotCount(xtext[y], Users(y), Residents(y))'
    BY <2>1, <2>2 DEF SlotOK, SlotCount, KeepsText
  <2>5. SlotLock(xtext[y], Lockers(y))'
    BY <2>1, <2>2, <2>3 DEF SlotOK, SlotLock, KeepsText
  <2> QED BY <2>1, <2>2, <2>4, <2>5 DEF SlotOK, KeepsText
<1> QED BY <1>1 DEF SlotsOK

(* Files, when processes other than p and q are where they were, and p and *)
(* q have none.                                                            *)
LEMMA FilesOfTwo ==
  ASSUME FilesOK, NEW p \in RunnersAndSched, NEW q \in RunnersAndSched,
         \A r \in RunnersAndSched \ {p, q} : Alike(xproc[r], xproc'[r]),
         \A r \in {p, q} \cap Runners : \/ ~HasFile(xproc'[r]) /\ ~InExec(xproc'[r])
                                        \/ /\ HasFile(xproc'[r]) => HasFile(xproc[r]) /\ xproc'[r].file = xproc[r].file
                                           /\ InExec(xproc'[r]) => InExec(xproc[r]),
         \A f \in Programs : /\ xinode'[f].ilock = xinode[f].ilock
                             /\ xinode[f].writers = {} => xinode'[f].writers = {}
                             /\ xinode'[f].itext => xinode'[f].writers = {},
         \A x \in TextSlots : xtext'[x].count > 0 => xinode'[xtext'[x].iptr].itext,
         \A r \in Runners : HasFile(xproc[r]) => xproc[r].file \in Programs
  PROVE  FilesOK'
<1>1. ASSUME NEW r \in Runners
      PROVE  /\ HasFile(xproc'[r]) => HasFile(xproc[r]) /\ xproc'[r].file = xproc[r].file
             /\ InExec(xproc'[r]) => InExec(xproc[r]) /\ HasFile(xproc'[r])
  <2>1. InExec(xproc'[r]) => HasFile(xproc'[r])
    BY DEF HasFile
  <2>2. CASE r \in {p, q}
    BY <2>1, <2>2
  <2>3. CASE r \notin {p, q}
    <3>1. Alike(xproc[r], xproc'[r])
      BY <2>3 DEF RunnersAndSched
    <3> QED BY <2>1, <3>1 DEF Alike, HasFile, InExec, InOpen
  <2> QED BY <2>2, <2>3
<1>2. \A r \in Runners : HasFile(xproc'[r]) => xinode'[xproc'[r].file].ilock = r
  BY <1>1 DEF FilesOK
<1>3. \A r \in Runners : InExec(xproc'[r]) => xinode'[xproc'[r].file].writers = {}
  BY <1>1 DEF FilesOK
<1> QED BY <1>2, <1>3 DEF FilesOK

LEMMA VmxdupKeeps ==
  ASSUME TextInv, NEW p \in Runners, NEW q \in Runners, Vmxdup(p, q)
  PROVE  TextInv'
<1>0. PICK x, y, f : x = xproc[p].textp /\ y = Leading(FreeSlots) /\ f = xtext[x].iptr
  OBVIOUS
<1> DEFINE r == [xproc[p] EXCEPT !.pc = "vmdup", !.other = q]
           s == [Child(y) EXCEPT !.pc = "born"]
           t == NewText(f, TRUE)
<1>1. /\ CanFork(p, q) /\ Copies(p) /\ MayWait([xproc EXCEPT ![q] = s], p, r) /\ Inherits(p, q) /\ UNCHANGED tpanic
      /\ xtext' = [xtext EXCEPT ![y] = t]
  BY <1>0 DEF Vmxdup
<1>2. /\ p # q /\ xproc[p].pc = "user" /\ xproc[p].load /\ xproc[q].pc = "none" /\ xproc[q].load
      /\ xproc[q].textp = Nothing /\ xproc[p].linked = (xproc[p].textp # Nothing) /\ RunnerOK(xproc[p])
  BY <1>1, ForkFacts
<1>3. /\ x \in TextSlots /\ p \in RunnersAndSched /\ q \in RunnersAndSched /\ TextTypes
      /\ FilesOK /\ OneShared /\ SlotsOK /\ RunnersOK /\ SchedOK
      /\ xproc \in [RunnersAndSched -> RunnerRecords] /\ xtext \in [TextSlots -> TextRecords]
  BY <1>0, <1>1, RunnerFacts DEF TextInv, TextTypes, Copies
<1>4. y \in TextSlots /\ xtext[y].iptr = Nothing
  BY <1>0, <1>1, FirstSlot DEF Copies, FreeSlots
<1>5. xproc[p] \in RunnerRecords
  BY <1>3
<1>6. /\ r \in RunnerRecords /\ r.pc = "vmdup" /\ r.other = q /\ r.textp = x /\ r.linked = xproc[p].linked
      /\ r.load = xproc[p].load /\ r.then = xproc[p].then
  BY <1>0, <1>5 DEF RunnerRecords, RunnerLabels
<1>7. /\ s \in RunnerRecords /\ s.pc = "born" /\ s.textp = y /\ s.linked = TRUE /\ s.load = TRUE /\ s.file = Nothing
      /\ s.then = "user" /\ s.slot = Nothing /\ s.other = Nothing
  <2>1. /\ Child(y) \in RunnerRecords /\ Child(y).textp = y /\ Child(y).linked = TRUE
        /\ Child(y).load = TRUE /\ Child(y).file = Nothing
        /\ Child(y).then = "user" /\ Child(y).slot = Nothing /\ Child(y).other = Nothing
    BY <1>4, Constants DEF Child, NoRunner, RunnerRecords, RunnerLabels
  <2> HIDE DEF Child
  <2> QED BY <2>1 DEF RunnerRecords, RunnerLabels
<1> HIDE DEF r, s
<1>8. ~InUser(r) /\ RunnerOK(r) /\ ~HasFile(r) /\ ~InExec(r) /\ RunnerOK(s) /\ ~HasFile(s) /\ ~InExec(s)
  BY <1>0, <1>2, <1>3, <1>4, <1>6, <1>7, Constants
     DEF RunnerOK, HasFile, InExec, InOpen, Freeing, Allocating, InUser, RunnerLabels
<1>9. /\ xproc' \in [RunnersAndSched -> RunnerRecords] /\ xproc'[p] = r /\ xproc'[q] = s /\ trunning' = Nothing
      /\ \A z \in RunnersAndSched \ {p, q} : xproc'[z] = xproc[z]
  <2>1. xproc' = [[xproc EXCEPT ![q] = s] EXCEPT ![p] = r] /\ trunning' = Nothing
    BY <1>1, <1>6, <1>8, SettledIs DEF MayWait
  <2> QED BY <1>2, <1>3, <1>6, <1>7, <2>1
<1>10. f \in Programs /\ xtext[x].count > 0
  <2>1. Uses(p) = x
    BY <1>0, <1>2 DEF Uses
  <2>2. p \in Users(x)
    BY <2>1 DEF Users
  <2>3. Cardinality(Users(x)) # 0 /\ Cardinality(Users(x)) \in Nat
    BY <2>2, FiniteUsers, FS_EmptySet, FS_CardinalityType
  <2>4. xtext[x].count > 0
    BY <1>3, <2>3 DEF SlotsOK, SlotOK, SlotCount
  <2> QED BY <1>0, <1>3, <2>4, TextFiles
<1>11. t \in TextRecords /\ t.iptr = f /\ t.count = 1 /\ t.ccount = 1 /\ t.lock /\ t.trc
  BY <1>10, NewTextIs
<1> HIDE DEF t
<1>12. /\ xtext' \in [TextSlots -> TextRecords] /\ xtext'[y] = t
       /\ \A z \in TextSlots \ {y} : xtext'[z] = xtext[z]
  BY <1>1, <1>3, <1>4, <1>11
<1>13. sched \in RunnersAndSched \ {p, q} /\ xproc'[sched] = xproc[sched]
  BY <1>9, Constants DEF RunnersAndSched
<1>14. SchedOK'
  <2>1. xproc[sched].pc # "idle" => xproc[sched].other \in Runners \ {p, q}
    BY <1>2, <1>3 DEF SchedOK
  <2>2. xproc[sched].pc # "idle" => xproc'[xproc[sched].other] = xproc[xproc[sched].other]
    BY <1>9, <2>1 DEF RunnersAndSched
  <2> QED BY <1>3, <1>13, <2>1, <2>2 DEF SchedOK
<1>15. RunnersOK'
  <2>1. ASSUME NEW z \in Runners
        PROVE  /\ RunnerOK(xproc'[z])
               /\ xproc'[z].pc = "vmdup" => xproc'[z].other \in Runners /\ xproc'[xproc'[z].other].pc = "born"
               /\ ~xproc'[z].load /\ xproc'[z].linked => Swapping(z)' /\ xproc'[sched].pc \in {"swapout", "swapped"}
    <3>1. CASE z = p
      BY <1>2, <1>6, <1>7, <1>8, <1>9, <3>1
    <3>2. CASE z = q
      BY <1>7, <1>8, <1>9, <3>2
    <3>3. CASE z \notin {p, q}
      <4>1. xproc'[z] = xproc[z]
        BY <1>9, <3>3 DEF RunnersAndSched
      <4>2. xproc[z].pc = "vmdup" => xproc[z].other \in Runners \ {p, q}
        BY <1>2, <1>3 DEF RunnersOK
      <4>3. xproc[z].pc = "vmdup" => xproc'[xproc[z].other] = xproc[xproc[z].other]
        BY <1>9, <4>2 DEF RunnersAndSched
      <4> QED BY <1>3, <1>13, <4>1, <4>2, <4>3 DEF RunnersOK, Swapping
    <3> QED BY <3>1, <3>2, <3>3
  <2> QED BY <2>1 DEF RunnersOK
<1>16. /\ ~(xproc[sched].pc = "swapped" /\ xproc[sched].other \in {p, q})
       /\ ~(xproc'[sched].pc = "swapped" /\ xproc'[sched].other \in {p, q})
  BY <1>2, <1>3, <1>13 DEF SchedOK
<1>17. /\ Uses(p)' = Uses(p) /\ InCore(p)' = InCore(p) /\ Uses(q) = Nothing /\ Uses(q)' = y
       /\ InCore(q) = Nothing /\ InCore(q)' = y /\ Locks(q)' = Locks(q) /\ Locks(p) = Nothing /\ Locks(p)' = y
       /\ Ending(p)' = Ending(p) /\ Ending(q)' = Ending(q) /\ ~Ending(p) /\ Locks(q) = Nothing
  <2>1. Uses(p)' = Uses(p) /\ Uses(q) = Nothing /\ Uses(q)' = y
    BY <1>0, <1>2, <1>6, <1>7, <1>9 DEF Uses
  <2>2. InCore(p)' = InCore(p) /\ InCore(q) = Nothing /\ InCore(q)' = y
    BY <1>0, <1>2, <1>6, <1>7, <1>9, <1>16 DEF InCore
  <2>3. Locks(q)' = Locks(q) /\ Locks(p) = Nothing /\ Locks(p)' = y /\ Locks(q) = Nothing
    BY <1>2, <1>6, <1>7, <1>9 DEF Locks
  <2>4. Ending(p)' = Ending(p) /\ Ending(q)' = Ending(q) /\ ~Ending(p)
    BY <1>2, <1>6, <1>7, <1>9 DEF Ending
  <2> QED BY <2>1, <2>2, <2>3, <2>4
<1>18. /\ \A z \in Runners \ {p, q} : Uses(z)' = Uses(z) /\ InCore(z)' = InCore(z)
       /\ \A z \in RunnersAndSched \ {p, q} : Locks(z)' = Locks(z) /\ Ending(z)' = Ending(z)
  <2>1. ASSUME NEW z \in RunnersAndSched \ {p, q}
        PROVE  Uses(z)' = Uses(z) /\ InCore(z)' = InCore(z) /\ Ending(z)' = Ending(z) /\ Locks(z)' = Locks(z)
    <3>1. xproc'[z] = xproc[z]
      BY <1>9
    <3>2. Uses(z)' = Uses(z) /\ InCore(z)' = InCore(z) /\ Ending(z)' = Ending(z)
      BY <1>13, <3>1 DEF Uses, InCore, Ending
    <3>3. CASE xproc[z].pc \in {"vmdup", "swapped", "swapio"}
      <4>1. xproc[z].other \in Runners \ {p, q}
        <5>1. CASE z = sched
          BY <1>2, <1>3, <3>3, <5>1 DEF SchedOK
        <5>2. CASE z # sched
          <6>1. z \in Runners /\ RunnerOK(xproc[z])
            BY <1>3, <5>2 DEF RunnersAndSched, RunnersOK
          <6>2. xproc[z].pc = "vmdup"
            BY <3>3, <6>1 DEF RunnerOK, RunnerLabels
          <6> QED BY <1>2, <1>3, <6>1, <6>2 DEF RunnersOK
        <5> QED BY <5>1, <5>2
      <4>2. xproc'[xproc[z].other] = xproc[xproc[z].other]
        BY <1>9, <4>1 DEF RunnersAndSched
      <4> QED BY <3>1, <3>2, <3>3, <4>2 DEF Locks
    <3>4. CASE xproc[z].pc \notin {"vmdup", "swapped", "swapio"}
      BY <3>1, <3>2, <3>4 DEF Locks
    <3> QED BY <3>3, <3>4
  <2> QED BY <2>1 DEF RunnersAndSched
<1>19. Elsewhere(y)
  BY <1>17, <1>18 DEF Elsewhere
<1>20. SlotOK(y)'
  <2>1. xtext[y].count = 0 /\ Lockers(y) = {} /\ Users(y) = {} /\ Residents(y) = {} /\ y # Nothing
    <3>1. xtext[y].count = 0 /\ Lockers(y) = {} /\ Cardinality(Users(y)) = 0
      BY <1>4, FreeSlot
    <3>2. Users(y) = {} /\ y # Nothing
      BY <1>4, <3>1, FiniteUsers, FS_EmptySet, Constants
    <3>3. \A z \in Runners : InCore(z) \in {Nothing, Uses(z)}
      <4> TAKE z \in Runners
      <4>1. RunnerOK(xproc[z])
        BY RunnerFacts
      <4> QED BY <4>1 DEF InCore, Uses, RunnerOK
    <3> QED BY <3>1, <3>2, <3>3 DEF Residents, Users
  <2>2. Users(y)' = {q}
    BY <1>2, <1>17, <1>18, <2>1 DEF Users
  <2>3. Residents(y)' = {q}
    BY <1>2, <1>17, <1>18, <2>1 DEF Residents
  <2>4. Lockers(y)' = {p}
    BY <1>2, <1>3, <1>17, <1>18, <2>1 DEF Lockers
  <2>5. Cardinality({q}) = 1
    BY FS_Singleton
  <2>6. SlotCount(xtext[y], Users(y), Residents(y))'
    BY <1>10, <1>11, <1>12, <2>2, <2>3, <2>5, Constants DEF SlotCount
  <2>7. SlotLock(xtext[y], Lockers(y))'
    BY <1>10, <1>11, <1>12, <1>17, <2>4, Constants DEF SlotLock
  <2> QED BY <1>11, <1>12, <2>6, <2>7 DEF SlotOK
<1>21. SlotsOK'
  <2>1. \A z \in TextSlots \ {y} : KeepsText(z)
    BY <1>12 DEF KeepsText
  <2> QED BY <1>3, <1>4, <1>19, <1>20, <2>1, SlotsElsewhere
<1>22. OneShared'
  BY <1>1, <1>3, <1>4, <1>11, SharedNew
<1>23. /\ xinode' \in [Programs -> ProgramRecords]
       /\ \A g \in Programs : /\ xinode'[g].itext = xinode[g].itext /\ xinode'[g].ilock = xinode[g].ilock
                              /\ xinode[g].writers = {} => xinode'[g].writers = {}
                              /\ xinode[g].itext => xinode'[g].writers = {}
  BY <1>1, InheritsFiles
<1>24. FilesOK'
  <2>1. \A z \in TextSlots : xtext'[z].count > 0 => xinode'[xtext'[z].iptr].itext
    BY <1>0, <1>3, <1>10, <1>11, <1>12, <1>23, TextFiles
  <2>2. \A z \in RunnersAndSched \ {p, q} : Alike(xproc[z], xproc'[z])
    BY <1>9 DEF Alike
  <2>3. \A z \in {p, q} \cap Runners : ~HasFile(xproc'[z]) /\ ~InExec(xproc'[z])
    BY <1>8, <1>9
  <2> QED BY <1>3, <1>23, <2>1, <2>2, <2>3, TextFiles, FilesOfTwo
<1>25. TextTypes'
  BY <1>1, <1>3, <1>9, <1>12, <1>23 DEF TextTypes
<1> QED BY <1>14, <1>15, <1>21, <1>22, <1>24, <1>25 DEF TextInv

(* Who has what, of the processes that the step does not move.             *)
LEMMA OthersOfTwo ==
  ASSUME NEW p, NEW q,
         \A z \in RunnersAndSched \ {p, q} :
            /\ Alike(xproc[z], xproc'[z])
            /\ xproc[z].pc \in {"vmdup", "swapped", "swapio"} => xproc'[xproc[z].other].textp = xproc[xproc[z].other].textp
            /\ (xproc[sched].pc = "swapped" /\ xproc[sched].other = z)
               <=> (xproc'[sched].pc = "swapped" /\ xproc'[sched].other = z)
  PROVE  \A z \in RunnersAndSched \ {p, q} :
            Uses(z)' = Uses(z) /\ InCore(z)' = InCore(z) /\ Locks(z)' = Locks(z) /\ Ending(z)' = Ending(z)
<1> TAKE z \in RunnersAndSched \ {p, q}
<1>1. Alike(xproc[z], xproc'[z])
  OBVIOUS
<1>2. Uses(z)' = Uses(z) /\ Ending(z)' = Ending(z)
  BY <1>1 DEF Alike, Uses, Ending
<1>3. InCore(z)' = InCore(z)
  BY <1>1 DEF Alike, InCore
<1>4. Locks(z)' = Locks(z)
  <2>1. CASE xproc[z].pc \in {"vmdup", "swapped", "swapio"}
    <3>1. xproc'[xproc[z].other].textp = xproc[xproc[z].other].textp /\ xproc'[z].other = xproc[z].other
      BY <1>1, <2>1 DEF Alike
    <3> QED BY <1>1, <2>1, <3>1 DEF Alike, Locks
  <2>2. CASE xproc[z].pc \notin {"vmdup", "swapped", "swapio"}
    BY <1>1, <2>2 DEF Alike, Locks
  <2> QED BY <2>1, <2>2
<1> QED BY <1>2, <1>3, <1>4

(* The copy is there: parent and child run, each with its own.             *)
LEMMA VmxdupDoneKeeps ==
  ASSUME TextInv, NEW p \in Runners, VmxdupDone(p)
  PROVE  TextInv'
<1>0. PICK q, y : q = xproc[p].other /\ y = xproc[q].textp
  OBVIOUS
<1> DEFINE r == [xproc[p] EXCEPT !.pc = "user"]
           s == [AfterUnlock(y)[q] EXCEPT !.pc = "user"]
           t == Unlocked(xtext[y])
<1>1. /\ xproc[p].pc = "vmdup" /\ xproc[p].load /\ UNCHANGED <<xinode, tpanic>>
      /\ MayWait([AfterUnlock(y) EXCEPT ![q] = s], p, r) /\ xtext' = [xtext EXCEPT ![y] = t]
  <2>1. MayWait([AfterUnlock(y) EXCEPT ![q].pc = "user"], p, r) /\ xtext' = [xtext EXCEPT ![y] = t]
    BY <1>0 DEF VmxdupDone
  <2>2. [AfterUnlock(y) EXCEPT ![q].pc = "user"] = [AfterUnlock(y) EXCEPT ![q] = s]
    BY Zenon
  <2> HIDE DEF s, r, t
  <2> QED BY <2>1, <2>2 DEF VmxdupDone, Runs
<1>2. /\ p \in RunnersAndSched /\ TextTypes /\ FilesOK /\ OneShared /\ SlotsOK /\ RunnersOK /\ SchedOK
      /\ xproc \in [RunnersAndSched -> RunnerRecords] /\ xtext \in [TextSlots -> TextRecords]
      /\ xproc[p] \in RunnerRecords /\ RunnerOK(xproc[p])
  BY RunnerFacts DEF TextInv, TextTypes
<1>3. q \in Runners /\ xproc[q].pc = "born" /\ p # q
  BY <1>0, <1>1, <1>2 DEF RunnersOK
<1>4. q \in RunnersAndSched /\ xproc[q] \in RunnerRecords /\ RunnerOK(xproc[q])
  BY <1>3, RunnerFacts
<1>5. /\ y \in TextSlots /\ xtext[y] \in TextRecords /\ xproc[q].load /\ xproc[q].linked
      /\ xproc[p].textp # Nothing /\ xproc[p].linked
  BY <1>0, <1>1, <1>2, <1>3, <1>4 DEF RunnerOK, RunnerRecords
<1>6. /\ r \in RunnerRecords /\ r.pc = "user" /\ r.textp = xproc[p].textp /\ r.linked = xproc[p].linked
      /\ r.load = xproc[p].load
  BY <1>2 DEF RunnerRecords, RunnerLabels
<1>7. /\ AfterUnlock(y) \in [RunnersAndSched -> RunnerRecords]
      /\ \A z \in RunnersAndSched : Alike(xproc[z], AfterUnlock(y)[z])
  BY <1>2, UnlockAlike
<1>8. /\ s \in RunnerRecords /\ s.pc = "user" /\ s.textp = y /\ s.linked /\ s.load /\ s.file = Nothing
      /\ s.then = "user" /\ s.slot = Nothing /\ s.other = Nothing
  <2>1. AfterUnlock(y)[q] \in RunnerRecords /\ Alike(xproc[q], AfterUnlock(y)[q])
    BY <1>4, <1>7
  <2>2. xproc[q].file = Nothing /\ xproc[q].then = "user" /\ xproc[q].slot = Nothing /\ xproc[q].other = Nothing
    BY <1>3, <1>4 DEF RunnerOK
  <2> HIDE DEF AfterUnlock
  <2> QED BY <1>0, <1>5, <2>1, <2>2 DEF Alike, RunnerRecords, RunnerLabels
<1> HIDE DEF r, s
<1>9. /\ RunnerOK(Settled(r)) /\ Settled(r).pc = "user" /\ Settled(r) \in RunnerRecords
      /\ Settled(r).textp = xproc[p].textp /\ Settled(r).linked = xproc[p].linked /\ Settled(r).load
  BY <1>1, <1>5, <1>6, SettledIs, SettledOK
<1>10. ~HasFile(Settled(r)) /\ ~InExec(Settled(r)) /\ RunnerOK(s) /\ ~HasFile(s) /\ ~InExec(s)
  BY <1>5, <1>8, <1>9, Constants DEF RunnerOK, HasFile, InExec, InOpen, Freeing, Allocating, RunnerLabels
<1>11. /\ xproc' \in [RunnersAndSched -> RunnerRecords] /\ xproc'[p] = Settled(r) /\ xproc'[q] = s
       /\ trunning' = Nothing
       /\ \A z \in RunnersAndSched \ {p, q} : Alike(xproc[z], xproc'[z])
  <2>1. xproc' = [[AfterUnlock(y) EXCEPT ![q] = s] EXCEPT ![p] = Settled(r)] /\ trunning' = Nothing
    BY <1>1 DEF MayWait
  <2> HIDE DEF AfterUnlock
  <2> QED BY <1>2, <1>3, <1>4, <1>7, <1>8, <1>9, <2>1
<1>12. /\ t \in TextRecords /\ ~t.lock /\ t.count = xtext[y].count /\ t.iptr = xtext[y].iptr
       /\ t.ccount = xtext[y].ccount /\ t.trc = xtext[y].trc
  BY <1>5, UnlockedIs
<1> HIDE DEF t
<1>13. /\ xtext' \in [TextSlots -> TextRecords] /\ xtext'[y] = t
       /\ \A z \in TextSlots \ {y} : xtext'[z] = xtext[z]
  BY <1>1, <1>2, <1>5, <1>12
<1>14. sched \in RunnersAndSched \ {p, q} /\ Alike(xproc[sched], xproc'[sched])
  BY <1>3, <1>11, Constants DEF RunnersAndSched
<1>15. SchedOK'
  <2>1. CASE xproc[sched].pc = "idle"
    BY <2>1, <1>2, <1>14 DEF SchedOK, Alike
  <2>2. CASE xproc[sched].pc # "idle"
    <3>1. xproc[sched].other \in Runners \ {p, q}
      BY <2>2, <1>1, <1>2, <1>5 DEF SchedOK
    <3>2. Alike(xproc[xproc[sched].other], xproc'[xproc[sched].other])
      BY <3>1, <1>11 DEF RunnersAndSched
    <3> QED BY <3>2, <3>1, <1>2, <1>14 DEF SchedOK, Alike
  <2> QED BY <2>1, <2>2
<1>16. Locks(p) = y /\ Locks(q) = Nothing
  BY <1>0, <1>1, <1>3 DEF Locks
<1>17. Lockers(y) = {p} /\ xtext[y].count # 0 /\ p \in Lockers(y)
  <2>1. p \in Lockers(y) /\ ~Ending(p)
    BY <1>1, <1>2, <1>16 DEF Lockers, Ending
  <2> QED BY <1>2, <1>5, <2>1 DEF SlotsOK, SlotOK, SlotLock
<1>18. \A z \in Runners \ {p, q} : xproc[z].pc = "vmdup" => xproc[z].other \in Runners \ {p, q}
  <2> TAKE z \in Runners \ {p, q}
  <2>1. ASSUME xproc[z].pc = "vmdup"
        PROVE  xproc[z].other \in Runners \ {p, q}
    <3>1. xproc[z].other \in Runners /\ xproc[xproc[z].other].pc = "born"
      BY <1>2, <2>1 DEF RunnersOK
    <3>2. z \notin Lockers(y)
      BY <1>17
    <3>3. Locks(z) = xproc[xproc[z].other].textp
      BY <2>1 DEF Locks
    <3>4. xproc[z].other # q
      BY <1>0, <3>2, <3>3 DEF Lockers, RunnersAndSched
    <3> QED BY <1>1, <3>1, <3>4
  <2> QED BY <2>1
<1>19. RunnersOK'
  <2>1. ASSUME NEW z \in Runners
        PROVE  /\ RunnerOK(xproc'[z])
               /\ xproc'[z].pc = "vmdup" => xproc'[z].other \in Runners /\ xproc'[xproc'[z].other].pc = "born"
               /\ ~xproc'[z].load /\ xproc'[z].linked => Swapping(z)' /\ xproc'[sched].pc \in {"swapout", "swapped"}
    <3>1. CASE z = p
      BY <1>9, <1>11, <3>1
    <3>2. CASE z = q
      BY <1>8, <1>10, <1>11, <3>2
    <3>3. CASE z \notin {p, q}
      <4>1. Alike(xproc[z], xproc'[z]) /\ RunnerOK(xproc[z])
        BY <1>2, <1>11, <3>3 DEF RunnersAndSched, RunnersOK
      <4>2. xproc[z].pc = "vmdup" => xproc[z].other \in Runners \ {p, q} /\ xproc[xproc[z].other].pc = "born"
        BY <1>2, <1>18, <3>3 DEF RunnersOK
      <4>3. xproc[z].pc = "vmdup" => xproc'[xproc[z].other].pc = "born"
        BY <1>11, <4>2 DEF RunnersAndSched, Alike
      <4>4. ~xproc[z].load /\ xproc[z].linked => Swapping(z) /\ xproc[sched].pc \in {"swapout", "swapped"}
        BY <1>2 DEF RunnersOK
      <4> QED BY <4>1, <4>2, <4>3, <4>4, <1>14, RunnerOKAlike DEF Alike, Swapping
    <3> QED BY <3>1, <3>2, <3>3
  <2> QED BY <2>1 DEF RunnersOK
<1>20. /\ ~(xproc[sched].pc = "swapped" /\ xproc[sched].other \in {p, q})
       /\ ~(xproc'[sched].pc = "swapped" /\ xproc'[sched].other \in {p, q})
  BY <1>1, <1>2, <1>5, <1>14 DEF SchedOK, Alike
<1>21. /\ Uses(p)' = Uses(p) /\ InCore(p)' = InCore(p) /\ Uses(q)' = Uses(q) /\ InCore(q)' = InCore(q)
       /\ Locks(p)' = Nothing /\ Locks(q)' = Nothing /\ Ending(p)' = Ending(p) /\ Ending(q)' = Ending(q)
  <2>1. Uses(p)' = Uses(p) /\ Uses(q)' = Uses(q)
    BY <1>0, <1>1, <1>3, <1>8, <1>9, <1>11 DEF Uses
  <2>2. InCore(p)' = InCore(p) /\ InCore(q)' = InCore(q)
    BY <1>0, <1>1, <1>3, <1>5, <1>8, <1>9, <1>11, <1>20 DEF InCore
  <2>3. Locks(q)' = Nothing /\ Locks(p)' = Nothing
    BY <1>8, <1>9, <1>11 DEF Locks
  <2>4. Ending(p)' = Ending(p) /\ Ending(q)' = Ending(q)
    BY <1>1, <1>3, <1>8, <1>9, <1>11 DEF Ending
  <2> QED BY <2>1, <2>2, <2>3, <2>4
<1>22. \A z \in RunnersAndSched \ {p, q} :
            Uses(z)' = Uses(z) /\ InCore(z)' = InCore(z) /\ Locks(z)' = Locks(z) /\ Ending(z)' = Ending(z)
  <2>1. ASSUME NEW z \in RunnersAndSched \ {p, q}
        PROVE  /\ Alike(xproc[z], xproc'[z])
               /\ xproc[z].pc \in {"vmdup", "swapped", "swapio"} => xproc'[xproc[z].other].textp = xproc[xproc[z].other].textp
               /\ (xproc[sched].pc = "swapped" /\ xproc[sched].other = z)
                  <=> (xproc'[sched].pc = "swapped" /\ xproc'[sched].other = z)
    <3>1. ASSUME xproc[z].pc \in {"vmdup", "swapped", "swapio"}
          PROVE  xproc[z].other \in Runners \ {p, q}
      <4>1. CASE z = sched
        BY <1>1, <1>2, <1>5, <3>1, <4>1 DEF SchedOK
      <4>2. CASE z # sched
        <5>1. z \in Runners /\ RunnerOK(xproc[z])
          BY <1>2, <4>2 DEF RunnersAndSched, RunnersOK
        <5>2. xproc[z].pc = "vmdup"
          BY <3>1, <5>1 DEF RunnerOK, RunnerLabels
        <5> QED BY <1>18, <5>1, <5>2
      <4> QED BY <4>1, <4>2
    <3>2. ASSUME xproc[z].pc \in {"vmdup", "swapped", "swapio"}
          PROVE  xproc'[xproc[z].other].textp = xproc[xproc[z].other].textp
      <4>1. Alike(xproc[xproc[z].other], xproc'[xproc[z].other])
        BY <1>11, <3>1, <3>2 DEF RunnersAndSched
      <4> QED BY <4>1 DEF Alike
    <3> QED BY <1>11, <1>14, <3>2 DEF Alike
  <2> QED BY <2>1, OthersOfTwo
<1>23. SlotOK(y)'
  <2>1. Users(y)' = Users(y) /\ Residents(y)' = Residents(y)
    BY <1>21, <1>22 DEF Users, Residents, RunnersAndSched
  <2>2. Lockers(y)' = {}
    <3>1. ASSUME NEW z \in RunnersAndSched PROVE Locks(z)' # y
      <4>1. CASE z \in {p, q}
        BY <1>5, <1>21, <4>1, Constants
      <4>2. CASE z \notin {p, q}
        BY <1>17, <1>22, <4>2 DEF Lockers
      <4> QED BY <4>1, <4>2
    <3> QED BY <3>1 DEF Lockers
  <2>3. SlotOK(y)
    BY <1>2, <1>5 DEF SlotsOK
  <2> QED BY <1>12, <1>13, <1>17, <2>1, <2>2, <2>3 DEF SlotOK, SlotCount, SlotLock
<1>24. SlotsOK'
  <2>1. \A z \in TextSlots \ {y} : KeepsText(z)
    BY <1>13 DEF KeepsText
  <2>2. Elsewhere(y)
    BY <1>16, <1>21, <1>22 DEF Elsewhere, RunnersAndSched
  <2> QED BY <1>2, <1>5, <1>23, <2>1, <2>2, SlotsElsewhere
<1>25. \A z \in TextSlots : xtext'[z].count > 0 => /\ xtext[z].count > 0 /\ xtext'[z].iptr = xtext[z].iptr
                                                   /\ xtext'[z].trc = xtext[z].trc
  BY <1>12, <1>13
<1>26. OneShared'
  BY <1>2, <1>25, SharedKept
<1>27. FilesOK'
  <2>1. \A z \in TextSlots : xtext'[z].count > 0 => xinode'[xtext'[z].iptr].itext
    BY <1>1, <1>25, TextFiles
  <2>2. \A z \in {p, q} \cap Runners : ~HasFile(xproc'[z]) /\ ~InExec(xproc'[z])
    BY <1>10, <1>11
  <2>3. \A g \in Programs : /\ xinode'[g].ilock = xinode[g].ilock
                            /\ xinode[g].writers = {} => xinode'[g].writers = {}
                            /\ xinode'[g].itext => xinode'[g].writers = {}
    BY <1>1, FileFacts
  <2> QED BY <1>2, <1>4, <1>11, <2>1, <2>2, <2>3, TextFiles, FilesOfTwo
<1>28. TextTypes'
  BY <1>1, <1>2, <1>11, <1>13 DEF TextTypes
<1> QED BY <1>15, <1>19, <1>24, <1>26, <1>27, <1>28 DEF TextInv

-----------------------------------------------------------------------------
(***************************************************************************)
(* The swapper: it moves a process q into core or out of it, from where it *)
(* is in the program.                                                      *)
(***************************************************************************)
Placed(r, s) ==
  s.pc = r.pc /\ s.file = r.file /\ s.textp = r.textp /\ s.other = r.other /\ s.then = r.then /\ s.slot = r.slot
SchedMoves(q) ==
  /\ xproc' \in [RunnersAndSched -> RunnerRecords] /\ trunning' \in RunnersAndSched \cup {Nothing}
  /\ UNCHANGED <<xinode, tpanic>>
  /\ \A z \in Runners \ {q} : Alike(xproc[z], xproc'[z])
  /\ Placed(xproc[q], xproc'[q])
  /\ xproc[sched].pc # "idle" => xproc[sched].other = q
  /\ xproc'[sched].pc # "idle" => xproc'[sched].other = q

LEMMA SchedFacts ==
  ASSUME TextInv
  PROVE  /\ sched \in RunnersAndSched /\ sched \notin Runners /\ xproc[sched] \in RunnerRecords
         /\ xproc[sched].pc \in SchedLabels /\ xproc[sched].textp = Nothing /\ ~xproc[sched].linked
         /\ xproc[sched].load
         /\ xproc \in [RunnersAndSched -> RunnerRecords] /\ xtext \in [TextSlots -> TextRecords] /\ TextTypes
         /\ Runners \subseteq RunnersAndSched
BY Constants DEF TextInv, TextTypes, SchedOK, RunnersAndSched

LEMMA SchedGoes ==
  ASSUME TextInv, NEW q \in Runners, NEW procs \in [RunnersAndSched -> RunnerRecords],
         \A z \in Runners \ {q} : Alike(xproc[z], procs[z]), Placed(xproc[q], procs[q]),
         NEW r \in RunnerRecords, GoesOn(procs, sched, r) \/ MayWait(procs, sched, r),
         UNCHANGED <<xinode, tpanic>>,
         r.pc \in SchedLabels, r.pc # "idle" => r.other = q, xproc[sched].pc # "idle" => xproc[sched].other = q
  PROVE  /\ SchedMoves(q) /\ xproc'[q] = procs[q] /\ xproc'[sched].pc = r.pc /\ xproc'[sched].textp = r.textp
         /\ xproc'[sched].linked = r.linked /\ xproc'[sched].load = r.load
<1>1. /\ Settled(r) \in RunnerRecords
      /\ Settled(r).pc = r.pc /\ Settled(r).textp = r.textp /\ Settled(r).linked = r.linked
      /\ Settled(r).load = r.load /\ (~InUser(r) => Settled(r) = r)
  BY SettledIs
<1>2. xproc' = [procs EXCEPT ![sched] = Settled(r)] /\ trunning' \in {sched, Nothing}
  BY DEF GoesOn, MayWait
<1>3. /\ xproc' \in [RunnersAndSched -> RunnerRecords] /\ xproc'[sched] = Settled(r)
      /\ \A z \in Runners : xproc'[z] = procs[z]
  BY <1>1, <1>2, SchedFacts
<1>4. xproc'[sched].pc # "idle" => xproc'[sched].other = q
  <2>1. CASE InUser(r)
    BY <1>1, <1>3, <2>1 DEF InUser, SchedLabels
  <2>2. CASE ~InUser(r)
    BY <1>1, <1>3, <2>2
  <2> QED BY <2>1, <2>2
<1>5. SchedMoves(q)
  BY <1>2, <1>3, <1>4, SchedFacts DEF SchedMoves
<1> QED BY <1>1, <1>3, <1>5

LEMMA SchedPlaces ==
  ASSUME TextInv, NEW q \in Runners, SchedMoves(q), xproc'[sched].pc \in SchedLabels
  PROVE  /\ \A z \in Runners : Uses(z)' = Uses(z) /\ Locks(z)' = Locks(z)
         /\ \A z \in Runners \ {q} : InCore(z)' = InCore(z)
         /\ \A z \in RunnersAndSched : Ending(z)' = Ending(z)
         /\ ~Ending(sched)
<1>1. \A z \in Runners : Placed(xproc[z], xproc'[z])
  BY DEF SchedMoves, Alike, Placed
<1>2. ~Ending(sched) /\ ~Ending(sched)'
  BY SchedFacts DEF Ending, SchedLabels
<1>3. ASSUME NEW z \in Runners
      PROVE  Uses(z)' = Uses(z) /\ Ending(z)' = Ending(z) /\ Locks(z)' = Locks(z)
  <2>1. Placed(xproc[z], xproc'[z])
    BY <1>1
  <2>2. Uses(z)' = Uses(z) /\ Ending(z)' = Ending(z)
    BY <2>1 DEF Uses, Ending, Placed
  <2>3. CASE xproc[z].pc = "vmdup"
    <3>1. xproc[z].other \in Runners
      BY <2>3 DEF TextInv, RunnersOK
    <3>2. xproc'[xproc[z].other].textp = xproc[xproc[z].other].textp
      BY <1>1, <3>1 DEF Placed
    <3> QED BY <2>1, <2>2, <2>3, <3>2 DEF Locks, Placed
  <2>4. CASE xproc[z].pc # "vmdup"
    <3>1. xproc[z].pc \notin {"swapped", "swapio"}
      BY RunnerFacts DEF RunnerOK, RunnerLabels
    <3> QED BY <2>1, <2>2, <2>4, <3>1 DEF Locks, Placed
  <2> QED BY <2>3, <2>4
<1>4. ASSUME NEW z \in Runners \ {q}
      PROVE  InCore(z)' = InCore(z)
  <2>1. Alike(xproc[z], xproc'[z])
    BY DEF SchedMoves
  <2>2. /\ ~(xproc[sched].pc = "swapped" /\ xproc[sched].other = z)
        /\ ~(xproc'[sched].pc = "swapped" /\ xproc'[sched].other = z)
    BY DEF SchedMoves
  <2> QED BY <2>1, <2>2 DEF InCore, Alike
<1>5. Ending(sched)' = Ending(sched)
  BY <1>2 DEF Ending
<1> QED BY <1>2, <1>3, <1>4, <1>5 DEF RunnersAndSched

(* The slot of its text.                                                   *)
LEMMA SchedSlot ==
  ASSUME TextInv, NEW q \in Runners, SchedMoves(q), xproc'[sched].pc \in SchedLabels, NEW x \in TextSlots
  PROVE  /\ xtext[x] \in TextRecords
         /\ xtext[x].count = Cardinality(Users(x)) /\ Cardinality(Users(x)) \in Nat
         /\ xtext[x].count > 0 => xtext[x].iptr # Nothing /\ xtext[x].ccount = Cardinality(Residents(x))
         /\ xtext[x].iptr # Nothing /\ xtext[x].count = 0 => Lockers(x) # {}
         /\ Users(x)' = Users(x)
         /\ Cardinality(Residents(x)') = Cardinality(Residents(x)) + One(InCore(q)' = x) - One(InCore(q) = x)
         /\ Cardinality(Residents(x)) \in Nat /\ Cardinality(Residents(x)') \in Nat
         /\ Lockers(x)' = (Lockers(x) \ {sched}) \cup (IF Locks(sched)' = x THEN {sched} ELSE {})
         /\ sched \in Lockers(x) <=> Locks(sched) = x
         /\ \A z \in Lockers(x) : /\ xtext[x].lock /\ xtext[x].iptr # Nothing /\ Lockers(x) = {z}
                                  /\ (xtext[x].count = 0) <=> Ending(z)
         /\ \A z \in RunnersAndSched : Ending(z)' = Ending(z)
         /\ ~Ending(sched)
         /\ Uses(q) = x => xtext[x].count > 0
<1>1. /\ \A z \in Runners : Uses(z)' = Uses(z) /\ Locks(z)' = Locks(z)
      /\ \A z \in Runners \ {q} : InCore(z)' = InCore(z)
      /\ \A z \in RunnersAndSched : Ending(z)' = Ending(z)
      /\ ~Ending(sched)
  BY SchedPlaces
<1>2. SlotOK(x) /\ xtext[x] \in TextRecords
  BY DEF TextInv, SlotsOK, TextTypes
<1>3. Users(x)' = Users(x)
  BY <1>1 DEF Users
<1>4. IsFiniteSet(Users(x)) /\ IsFiniteSet(Residents(x)) /\ Cardinality(Users(x)) \in Nat
  BY FiniteUsers, FS_CardinalityType
<1>5. /\ \A z : z # q => (z \in Residents(x)' <=> z \in Residents(x))
      /\ q \in Residents(x) <=> InCore(q) = x
      /\ q \in Residents(x)' <=> InCore(q)' = x
  BY <1>1 DEF Residents
<1>6. /\ Cardinality(Residents(x)') = Cardinality(Residents(x)) + One(q \in Residents(x)') - One(q \in Residents(x))
      /\ Cardinality(Residents(x)) \in Nat /\ Cardinality(Residents(x)') \in Nat
  BY <1>4, <1>5, CardMoves
<1>7. Cardinality(Residents(x)') = Cardinality(Residents(x)) + One(InCore(q)' = x) - One(InCore(q) = x)
  BY <1>5, <1>6 DEF One
<1>8. /\ Lockers(x)' = (Lockers(x) \ {sched}) \cup (IF Locks(sched)' = x THEN {sched} ELSE {})
      /\ sched \in Lockers(x) <=> Locks(sched) = x
  BY <1>1 DEF Lockers, RunnersAndSched
<1>9. Uses(q) = x => xtext[x].count > 0
  <2>1. Uses(q) = x => q \in Users(x)
    BY DEF Users
  <2>2. q \in Users(x) => Cardinality(Users(x)) # 0
    BY <1>4, FS_EmptySet
  <2> QED BY <1>2, <1>4, <2>1, <2>2 DEF SlotOK, SlotCount
<1> QED BY <1>1, <1>2, <1>3, <1>4, <1>6, <1>7, <1>8, <1>9 DEF SlotOK, SlotCount, SlotLock

LEMMA SchedKeeps ==
  ASSUME TextInv, NEW q \in Runners, SchedMoves(q), RunnerOK(xproc'[q]), SchedOK',
         ~xproc'[q].load /\ xproc'[q].linked => xproc'[sched].pc \in {"swapout", "swapped"},
         NEW x \in TextSlots \cup {Nothing}, x = xproc[q].textp,
         xtext' \in [TextSlots -> TextRecords], \A y \in TextSlots \ {x} : KeepsText(y),
         x \in TextSlots => /\ xtext'[x].count = xtext[x].count /\ xtext'[x].iptr = xtext[x].iptr
                            /\ xtext'[x].trc = xtext[x].trc,
         x \in TextSlots => SlotOK(x)'
  PROVE  TextInv'
<1>1. xproc'[sched].pc \in SchedLabels
  BY DEF SchedOK
<1>2. /\ \A z \in Runners : Uses(z)' = Uses(z) /\ Locks(z)' = Locks(z)
      /\ \A z \in Runners \ {q} : InCore(z)' = InCore(z)
      /\ \A z \in RunnersAndSched : Ending(z)' = Ending(z)
  BY <1>1, SchedPlaces
<1>3. SchedOK /\ RunnersOK /\ SlotsOK /\ OneShared /\ FilesOK /\ TextTypes
  BY DEF TextInv
<1>4. \A z \in Runners : Placed(xproc[z], xproc'[z])
  BY DEF SchedMoves, Alike, Placed
<1>5. xproc[q].textp = x /\ xproc'[q].textp = x
  BY <1>4 DEF Placed
<1>6. Locks(sched) \in {x, Nothing} /\ Locks(sched)' \in {x, Nothing}
  BY <1>1, <1>3, <1>5 DEF Locks, SchedMoves, SchedOK, SchedLabels
<1>7. InCore(q) \in {x, Nothing} /\ InCore(q)' \in {x, Nothing}
  BY <1>5 DEF InCore
<1>8. Elsewhere(x)
  BY <1>2, <1>6, <1>7 DEF Elsewhere, RunnersAndSched
<1>9. SlotsOK'
  BY <1>3, <1>8, SlotsElsewhere
<1>10. RunnersOK'
  <2>1. ASSUME NEW z \in Runners
        PROVE  /\ RunnerOK(xproc'[z])
               /\ xproc'[z].pc = "vmdup" => xproc'[z].other \in Runners /\ xproc'[xproc'[z].other].pc = "born"
               /\ ~xproc'[z].load /\ xproc'[z].linked => Swapping(z)' /\ xproc'[sched].pc \in {"swapout", "swapped"}
    <3>1. xproc'[z].pc = "vmdup" => xproc'[z].other \in Runners /\ xproc'[xproc'[z].other].pc = "born"
      <4>1. xproc[z].pc = "vmdup" => xproc[z].other \in Runners /\ xproc[xproc[z].other].pc = "born"
        BY <1>3 DEF RunnersOK
      <4> QED BY <1>4, <4>1 DEF Placed
    <3>2. CASE z = q
      <4>1. xproc'[sched].pc \in {"swapout", "swapped"} => Swapping(q)'
        BY DEF Swapping, SchedMoves, SchedLabels
      <4> QED BY <3>1, <3>2, <4>1
    <3>3. CASE z # q
      <4>1. Alike(xproc[z], xproc'[z]) /\ RunnerOK(xproc[z])
        BY <1>3, <3>3 DEF SchedMoves, RunnersOK
      <4>2. ~Swapping(z)
        BY <3>3 DEF SchedMoves, Swapping
      <4>3. ~(~xproc[z].load /\ xproc[z].linked)
        BY <1>3, <4>2 DEF RunnersOK
      <4> QED BY <3>1, <4>1, <4>3, RunnerOKAlike DEF Alike
    <3> QED BY <3>2, <3>3
  <2> QED BY <2>1 DEF RunnersOK
<1>11. \A y \in TextSlots : xtext'[y].count > 0 => /\ xtext[y].count > 0 /\ xtext'[y].iptr = xtext[y].iptr
                                                   /\ xtext'[y].trc = xtext[y].trc
  <2> TAKE y \in TextSlots
  <2>1. CASE y = x
    BY <2>1
  <2>2. CASE y # x
    <3>1. KeepsText(y)
      BY <2>2
    <3> QED BY <3>1 DEF KeepsText
  <2> QED BY <2>1, <2>2
<1>12. OneShared'
  BY <1>3, <1>11, SharedKept
<1>13. FilesOK'
  <2>1. \A z \in RunnersAndSched \ {q, sched} : Alike(xproc[z], xproc'[z])
    BY DEF SchedMoves, RunnersAndSched
  <2>2. \A z \in {q, sched} \cap Runners : /\ HasFile(xproc'[z]) => HasFile(xproc[z]) /\ xproc'[z].file = xproc[z].file
                                           /\ InExec(xproc'[z]) => InExec(xproc[z])
    BY <1>4 DEF Placed, HasFile, InExec, InOpen
  <2>3. \A z \in TextSlots : xtext'[z].count > 0 => xinode'[xtext'[z].iptr].itext
    BY <1>11, TextFiles DEF SchedMoves
  <2>4. \A g \in Programs : /\ xinode'[g].ilock = xinode[g].ilock
                            /\ xinode[g].writers = {} => xinode'[g].writers = {}
                            /\ xinode'[g].itext => xinode'[g].writers = {}
    BY FileFacts DEF SchedMoves
  <2>5. q \in RunnersAndSched /\ sched \in RunnersAndSched
    BY DEF RunnersAndSched
  <2> QED BY <1>3, <2>1, <2>2, <2>3, <2>4, <2>5, TextFiles, FilesOfTwo
<1>14. TextTypes'
  BY <1>3 DEF TextTypes, SchedMoves
<1> QED BY <1>9, <1>10, <1>12, <1>13, <1>14 DEF TextInv

(* Everybody stays where he is: somebody falls asleep, or is woken.        *)
LEMMA AllAlike ==
  ASSUME TextInv, \A z \in RunnersAndSched : Alike(xproc[z], xproc'[z]),
         xproc' \in [RunnersAndSched -> RunnerRecords], trunning' \in RunnersAndSched \cup {Nothing},
         UNCHANGED <<xinode, tpanic>>, xtext' \in [TextSlots -> TextRecords], \A y \in TextSlots : KeepsText(y)
  PROVE  TextInv'
<1>1. PICK q : q = FirstRunner /\ q \in Runners
  BY Constants
<1>2. SchedOK /\ RunnersOK /\ SlotsOK /\ OneShared /\ FilesOK /\ TextTypes
  BY DEF TextInv
<1>3. \A z \in RunnersAndSched : z \in Runners \/ z = sched
  BY DEF RunnersAndSched
<1>4. sched \in RunnersAndSched /\ Runners \subseteq RunnersAndSched
  BY DEF RunnersAndSched
<1>5. SchedOK'
  <2>1. Alike(xproc[sched], xproc'[sched])
    BY <1>4
  <2>2. xproc[sched].pc # "idle" => Alike(xproc[xproc[sched].other], xproc'[xproc[sched].other])
    BY <1>2, <1>4 DEF SchedOK
  <2> QED BY <1>2, <2>1, <2>2 DEF SchedOK, Alike
<1>6. RunnersOK'
  <2>1. ASSUME NEW z \in Runners
        PROVE  /\ RunnerOK(xproc'[z])
               /\ xproc'[z].pc = "vmdup" => xproc'[z].other \in Runners /\ xproc'[xproc'[z].other].pc = "born"
               /\ ~xproc'[z].load /\ xproc'[z].linked => Swapping(z)' /\ xproc'[sched].pc \in {"swapout", "swapped"}
    <3>1. Alike(xproc[z], xproc'[z]) /\ RunnerOK(xproc[z]) /\ Alike(xproc[sched], xproc'[sched])
      BY <1>2, <1>4 DEF RunnersOK
    <3>2. xproc[z].pc = "vmdup" => xproc[z].other \in Runners /\ xproc'[xproc[z].other].pc = "born"
      BY <1>2, <1>4 DEF RunnersOK, Alike
    <3>3. ~xproc[z].load /\ xproc[z].linked => Swapping(z) /\ xproc[sched].pc \in {"swapout", "swapped"}
      BY <1>2 DEF RunnersOK
    <3> QED BY <3>1, <3>2, <3>3, RunnerOKAlike DEF Alike, Swapping
  <2> QED BY <2>1 DEF RunnersOK
<1>7. \A z \in RunnersAndSched : Uses(z)' = Uses(z) /\ InCore(z)' = InCore(z) /\ Locks(z)' = Locks(z) /\ Ending(z)' = Ending(z)
  <2>1. PICK nobody : nobody \notin RunnersAndSched
    BY Constants DEF RunnersAndSched
  <2>2. ASSUME NEW z \in RunnersAndSched
        PROVE  /\ Alike(xproc[z], xproc'[z])
               /\ xproc[z].pc \in {"vmdup", "swapped", "swapio"} => xproc'[xproc[z].other].textp = xproc[xproc[z].other].textp
               /\ (xproc[sched].pc = "swapped" /\ xproc[sched].other = z)
                  <=> (xproc'[sched].pc = "swapped" /\ xproc'[sched].other = z)
    <3>1. ASSUME xproc[z].pc \in {"vmdup", "swapped", "swapio"}
          PROVE  xproc[z].other \in Runners
      <4>1. CASE z = sched
        BY <1>2, <3>1, <4>1 DEF SchedOK
      <4>2. CASE z # sched
        <5>1. z \in Runners /\ RunnerOK(xproc[z])
          BY <1>2, <1>3, <4>2 DEF RunnersOK
        <5>2. xproc[z].pc = "vmdup"
          BY <3>1, <5>1 DEF RunnerOK, RunnerLabels
        <5> QED BY <1>2, <5>1, <5>2 DEF RunnersOK
      <4> QED BY <4>1, <4>2
    <3>2. xproc[z].pc \in {"vmdup", "swapped", "swapio"} => Alike(xproc[xproc[z].other], xproc'[xproc[z].other])
      BY <1>4, <3>1
    <3> QED BY <1>4, <3>2 DEF Alike
  <2>3. RunnersAndSched \ {nobody, nobody} = RunnersAndSched
    BY <2>1
  <2> QED BY <2>2, <2>3, OthersOfTwo
<1>8. SlotsOK'
  <2>1. Elsewhere(Nothing)
    BY <1>4, <1>7 DEF Elsewhere
  <2> QED BY <1>2, <2>1, Constants, SlotsElsewhere
<1>9. OneShared'
  BY <1>2, SharedKept DEF KeepsText
<1>10. FilesOK'
  <2>1. \A y \in TextSlots : xtext'[y].count > 0 => xtext[y].count > 0 /\ xtext'[y].iptr = xtext[y].iptr
    BY DEF KeepsText
  <2>2. \A z \in TextSlots : xtext'[z].count > 0 => xinode'[xtext'[z].iptr].itext
    BY <2>1, TextFiles
  <2>3. \A g \in Programs : /\ xinode'[g].ilock = xinode[g].ilock
                            /\ xinode[g].writers = {} => xinode'[g].writers = {}
                            /\ xinode'[g].itext => xinode'[g].writers = {}
    BY FileFacts
  <2>4. \A z \in {sched} \cap Runners : ~HasFile(xproc'[z]) /\ ~InExec(xproc'[z])
    BY Constants
  <2> QED BY <1>2, <1>4, <2>2, <2>3, <2>4, TextFiles, FilesOfTwo
<1>11. TextTypes'
  BY <1>2 DEF TextTypes
<1> QED BY <1>5, <1>6, <1>8, <1>9, <1>10, <1>11 DEF TextInv

LEMMA XlockSchedKeeps ==
  ASSUME TextInv, Xlock(sched)
  PROVE  TextInv'
<1>0. PICK x : x = Wants(sched)
  OBVIOUS
<1> DEFINE r == [xproc[sched] EXCEPT !.asleep = x]
<1>1. /\ x \in LockedTexts /\ xtext' = [xtext EXCEPT ![x].want = TRUE]
      /\ MayWait(xproc, sched, r) /\ UNCHANGED <<xinode, tpanic>>
  BY <1>0 DEF Xlock
<1>2. x \in TextSlots /\ x \in Int
  BY <1>1, Constants DEF LockedTexts
<1>3. xproc[sched].pc \in {"swapout", "swapin"}
  <2>1. xproc[sched].pc \in {"xfree", "xwait", "xuntext", "swapout", "swapin"}
    BY <1>0, <1>2, Constants DEF Wants
  <2> QED BY <2>1, SchedFacts DEF SchedLabels
<1>4. r \in RunnerRecords /\ Alike(xproc[sched], r) /\ ~InUser(r)
  <2>1. xproc[sched] \in RunnerRecords
    BY SchedFacts
  <2> QED BY <1>2, <1>3, <2>1 DEF RunnerRecords, Alike, InUser
<1> HIDE DEF r
<1>5. /\ xproc' \in [RunnersAndSched -> RunnerRecords] /\ xproc'[sched] = r
      /\ trunning' \in RunnersAndSched \cup {Nothing} /\ OthersAlike(sched)
  BY <1>1, <1>4, SchedFacts, MovedSelf, SettledIs
<1>6. \A z \in RunnersAndSched : Alike(xproc[z], xproc'[z])
  BY <1>4, <1>5 DEF OthersAlike
<1>7. xtext' \in [TextSlots -> TextRecords] /\ \A y \in TextSlots : KeepsText(y)
  BY <1>1, <1>2 DEF TextInv, TextTypes, TextRecords, KeepsText
<1> QED BY <1>1, <1>5, <1>6, <1>7, AllAlike

(* The page daemon.                                                        *)
LEMMA PageoutKeeps ==
  ASSUME TextInv, NEW x \in TextSlots, Pageout(x) \/ Cleanup(x)
  PROVE  TextInv'
<1>1. PICK n \in Int : xtext' = [xtext EXCEPT ![x].poip = n]
  BY DEF Pageout, Cleanup
<1>2. xtext' \in [TextSlots -> TextRecords] /\ \A y \in TextSlots : KeepsText(y)
  BY <1>1 DEF TextInv, TextTypes, TextRecords, KeepsText
<1>3. /\ xproc' \in [RunnersAndSched -> RunnerRecords]
      /\ \A z \in RunnersAndSched : Alike(xproc[z], xproc'[z])
  <2>1. CASE Pageout(x)
    <3>1. UNCHANGED xproc
      BY <2>1 DEF Pageout
    <3> QED BY <3>1, SchedFacts DEF Alike
  <2>2. CASE Cleanup(x)
    <3>1. xproc' = Awake(PoipChan(x))
      BY <2>2 DEF Cleanup
    <3> QED BY <3>1, SchedFacts, AwakeAlike
  <2> QED BY <2>1, <2>2
<1>4. UNCHANGED <<xinode, tpanic, trunning>>
  BY DEF Pageout, Cleanup
<1>5. trunning' \in RunnersAndSched \cup {Nothing}
  BY <1>4, SchedFacts DEF TextTypes
<1> QED BY <1>2, <1>3, <1>4, <1>5, AllAlike

(* What it must do to the slot of the text of q.                           *)
LEMMA SwapSlot ==
  ASSUME TextInv, NEW q \in Runners, SchedMoves(q), xproc'[sched].pc \in SchedLabels, NEW x \in TextSlots,
         xtext'[x].count = xtext[x].count, xtext'[x].iptr = xtext[x].iptr,
         xtext[x].count > 0 => xtext'[x].ccount = xtext[x].ccount + One(InCore(q)' = x) - One(InCore(q) = x),
         Locks(sched)' = x => xtext'[x].lock /\ Uses(q) = x /\ Lockers(x) \subseteq {sched},
         xtext'[x].lock \/ Lockers(x) \subseteq {sched}
  PROVE  SlotOK(x)'
<1>1. /\ xtext[x].count = Cardinality(Users(x)) /\ Cardinality(Users(x)) \in Nat
      /\ xtext[x].count > 0 => xtext[x].iptr # Nothing /\ xtext[x].ccount = Cardinality(Residents(x))
      /\ xtext[x].iptr # Nothing /\ xtext[x].count = 0 => Lockers(x) # {}
      /\ Users(x)' = Users(x)
      /\ Cardinality(Residents(x)') = Cardinality(Residents(x)) + One(InCore(q)' = x) - One(InCore(q) = x)
      /\ Cardinality(Residents(x)) \in Nat /\ Cardinality(Residents(x)') \in Nat
      /\ Lockers(x)' = (Lockers(x) \ {sched}) \cup (IF Locks(sched)' = x THEN {sched} ELSE {})
      /\ sched \in Lockers(x) <=> Locks(sched) = x
      /\ \A z \in Lockers(x) : /\ xtext[x].lock /\ xtext[x].iptr # Nothing /\ Lockers(x) = {z}
                               /\ (xtext[x].count = 0) <=> Ending(z)
      /\ \A z \in RunnersAndSched : Ending(z)' = Ending(z)
      /\ ~Ending(sched)
      /\ Uses(q) = x => xtext[x].count > 0
  BY SchedSlot
<1>2. sched \in RunnersAndSched /\ Lockers(x) \subseteq RunnersAndSched
  BY DEF RunnersAndSched, Lockers
<1>3. SlotCount(xtext[x], Users(x), Residents(x))'
  <2>1. xtext'[x].count = Cardinality(Users(x)')
    BY <1>1
  <2>2. ASSUME xtext'[x].count > 0
        PROVE  xtext'[x].iptr # Nothing /\ xtext'[x].ccount = Cardinality(Residents(x)')
    BY <1>1, <2>2
  <2> QED BY <2>1, <2>2 DEF SlotCount
<1>4. CASE Locks(sched)' = x
  <2>1. Lockers(x)' = {sched} /\ xtext'[x].lock /\ xtext'[x].count > 0 /\ xtext'[x].iptr # Nothing
    BY <1>1, <1>4
  <2>2. xtext'[x].count \in Nat /\ ~Ending(sched)'
    BY <1>1, <1>2
  <2>3. SlotLock(xtext[x], Lockers(x))'
    BY <2>1, <2>2 DEF SlotLock
  <2> QED BY <1>3, <2>1, <2>3 DEF SlotOK
<1>5. CASE Locks(sched)' # x
  <2>1. Lockers(x)' = Lockers(x) \ {sched}
    BY <1>1, <1>5
  <2>2. ASSUME NEW z \in Lockers(x)'
        PROVE  /\ xtext'[x].lock /\ xtext'[x].iptr # Nothing /\ Lockers(x)' = {z}
               /\ (xtext'[x].count = 0) <=> Ending(z)'
    <3>1. z \in Lockers(x) /\ z # sched
      BY <2>1, <2>2
    <3>2. xtext[x].iptr # Nothing /\ Lockers(x) = {z} /\ ((xtext[x].count = 0) <=> Ending(z))
      BY <1>1, <3>1
    <3>3. Lockers(x)' = {z} /\ xtext'[x].lock
      BY <2>1, <3>1, <3>2
    <3>4. Ending(z)' = Ending(z)
      BY <1>1, <1>2, <3>1
    <3> QED BY <3>2, <3>3, <3>4
  <2>3. ASSUME xtext'[x].iptr # Nothing, xtext'[x].count = 0
        PROVE  Lockers(x)' # {}
    <3>1. PICK z : z \in Lockers(x)
      BY <1>1, <2>3
    <3>2. Ending(z)
      BY <1>1, <2>3, <3>1
    <3> QED BY <1>1, <2>1, <3>1, <3>2
  <2>4. SlotLock(xtext[x], Lockers(x))'
    BY <2>2 DEF SlotLock
  <2> QED BY <1>3, <2>3, <2>4 DEF SlotOK
<1> QED BY <1>4, <1>5

(* A process that may be swapped out has none of the locks.                *)
LEMMA SwapOutKeeps ==
  ASSUME TextInv, NEW q \in Runners, SwapOut(q)
  PROVE  TextInv'
<1>0. PICK x : x = xproc[q].textp
  OBVIOUS
<1> DEFINE s == [xproc[q] EXCEPT !.load = FALSE]
           r == [xproc[sched] EXCEPT !.pc = "swapout", !.other = q]
<1>1. /\ xproc[sched].pc = "idle" /\ Swappable(q) /\ MayWait([xproc EXCEPT ![q] = s], sched, r)
      /\ UNCHANGED <<xtext, xinode, tpanic>>
  BY DEF SwapOut, Runs
<1>2. /\ q \in RunnersAndSched /\ xproc[q] \in RunnerRecords /\ RunnerOK(xproc[q])
      /\ x \in TextSlots \cup {Nothing}
  BY <1>0, RunnerFacts
<1>3. /\ s \in RunnerRecords /\ Placed(xproc[q], s) /\ s.load = FALSE /\ s.linked = xproc[q].linked
  BY <1>2 DEF RunnerRecords, Placed
<1>4. /\ r \in RunnerRecords /\ r.pc = "swapout" /\ r.other = q /\ r.textp = xproc[sched].textp
      /\ r.linked = xproc[sched].linked /\ r.load = xproc[sched].load
  BY SchedFacts DEF RunnerRecords, SchedLabels
<1> HIDE DEF r, s
<1>5. PICK procs : procs = [xproc EXCEPT ![q] = s]
  OBVIOUS
<1>6. /\ procs \in [RunnersAndSched -> RunnerRecords] /\ procs[q] = s
      /\ \A z \in Runners \ {q} : Alike(xproc[z], procs[z])
  BY <1>2, <1>3, <1>5, SchedFacts DEF Alike
<1>7. /\ SchedMoves(q) /\ xproc'[q] = s /\ xproc'[sched].pc = "swapout" /\ xproc'[sched].textp = xproc[sched].textp
      /\ xproc'[sched].linked = xproc[sched].linked /\ xproc'[sched].load = xproc[sched].load
  <2>1. r.pc \in SchedLabels
    BY <1>4 DEF SchedLabels
  <2>2. MayWait(procs, sched, r) /\ xproc[sched].pc = "idle" /\ UNCHANGED <<xinode, tpanic>>
    BY <1>1, <1>5
  <2>3. Placed(xproc[q], procs[q])
    BY <1>3, <1>6
  <2> QED BY <1>4, <1>6, <2>1, <2>2, <2>3, SchedGoes
<1>8. xproc[q].pc \notin {"none", "born", "vmdup", "xload", "xlast", "xccdec"} /\ xproc[q].load
  <2>1. xproc[q].pc \notin {"none", "born", "vmdup", "xload"} /\ xproc[q].load /\ x \notin LockedTexts
    BY <1>0, <1>1 DEF Swappable
  <2>2. ASSUME xproc[q].pc \in {"xlast", "xccdec"} PROVE FALSE
    <3>1. x \in TextSlots /\ ~xtext[x].lock
      BY <1>0, <1>2, <2>1, <2>2 DEF RunnerOK, LockedTexts
    <3>2. Locks(q) = x
      BY <1>0, <2>2 DEF Locks
    <3>3. q \in Lockers(x)
      BY <1>2, <3>2 DEF Lockers
    <3> QED BY <3>1, <3>3, UnlockedSlot
  <2> QED BY <2>1, <2>2
<1>9. RunnerOK(s)
  BY <1>2, <1>3, <1>8 DEF RunnerOK, Placed, HasFile, InExec, InOpen
<1>10. SchedOK'
  <2>1. xproc'[sched].other = q
    BY <1>7 DEF SchedMoves
  <2>2. xproc[q].textp # Nothing => xproc[q].linked
    BY <1>2, <1>8 DEF RunnerOK
  <2>3. s.textp = xproc[q].textp
    BY <1>3 DEF Placed
  <2> QED BY <1>3, <1>7, <2>1, <2>2, <2>3, SchedFacts DEF SchedOK, SchedLabels
<1>11. /\ xtext' \in [TextSlots -> TextRecords] /\ \A y \in TextSlots : KeepsText(y)
  BY <1>1, SameTexts
<1>12. x \in TextSlots => SlotOK(x)'
  <2> SUFFICES ASSUME x \in TextSlots PROVE SlotOK(x)'
    OBVIOUS
  <2>1. xproc'[sched].pc \in SchedLabels
    BY <1>7 DEF SchedLabels
  <2>2. InCore(q)' = InCore(q) /\ Locks(sched)' = Nothing /\ Locks(sched) = Nothing
    BY <1>1, <1>3, <1>7, <1>8 DEF InCore, Locks, Placed
  <2>3. Nothing # x
    BY Constants
  <2>4. One(InCore(q)' = x) = One(InCore(q) = x)
    BY <2>2
  <2>5. xtext'[x] = xtext[x] /\ xtext[x] \in TextRecords
    BY <1>1, SchedFacts
  <2>6. xtext'[x].ccount = xtext[x].ccount + One(InCore(q)' = x) - One(InCore(q) = x)
    <3>1. xtext[x].ccount \in Int /\ One(InCore(q) = x) \in Int
      BY <2>5 DEF TextRecords, One
    <3> QED BY <2>4, <2>5, <3>1
  <2>7. xtext'[x].lock \/ Lockers(x) \subseteq {sched}
    <3>1. ~xtext[x].lock => Lockers(x) = {}
      BY UnlockedSlot
    <3> QED BY <2>5, <3>1
  <2> QED BY <1>7, <2>1, <2>2, <2>3, <2>5, <2>6, <2>7, SwapSlot
<1> QED BY <1>0, <1>1, <1>2, <1>7, <1>9, <1>10, <1>11, <1>12, SchedKeeps

LEMMA SwapInKeeps ==
  ASSUME TextInv, NEW q \in Runners, SwapIn(q)
  PROVE  TextInv'
<1>0. PICK x : x = xproc[q].textp
  OBVIOUS
<1> DEFINE r == [xproc[sched] EXCEPT !.pc = "swapin", !.other = q]
<1>1. /\ xproc[sched].pc = "idle" /\ ~xproc[q].load /\ GoesOn(xproc, sched, r) /\ UNCHANGED <<xtext, xinode, tpanic>>
  BY DEF SwapIn, Runs
<1>2. /\ q \in RunnersAndSched /\ xproc[q] \in RunnerRecords /\ RunnerOK(xproc[q])
      /\ x \in TextSlots \cup {Nothing}
  BY <1>0, RunnerFacts
<1>3. /\ r \in RunnerRecords /\ r.pc = "swapin" /\ r.other = q /\ r.textp = xproc[sched].textp
      /\ r.linked = xproc[sched].linked /\ r.load = xproc[sched].load
  BY SchedFacts DEF RunnerRecords, SchedLabels
<1> HIDE DEF r
<1>4. /\ SchedMoves(q) /\ xproc'[q] = xproc[q] /\ xproc'[sched].pc = "swapin" /\ xproc'[sched].textp = xproc[sched].textp
      /\ xproc'[sched].linked = xproc[sched].linked /\ xproc'[sched].load = xproc[sched].load
  <2>1. r.pc \in SchedLabels
    BY <1>3 DEF SchedLabels
  <2>2. Placed(xproc[q], xproc[q]) /\ \A z \in Runners \ {q} : Alike(xproc[z], xproc[z])
    BY DEF Placed, Alike
  <2> QED BY <1>1, <1>3, <2>1, <2>2, SchedFacts, SchedGoes
<1>5. ~xproc[q].linked
  BY <1>1 DEF TextInv, RunnersOK
<1>6. SchedOK'
  <2>1. xproc'[sched].other = q
    BY <1>4 DEF SchedMoves
  <2> QED BY <1>1, <1>4, <1>5, <2>1, SchedFacts DEF SchedOK, SchedLabels
<1>7. /\ xtext' \in [TextSlots -> TextRecords] /\ \A y \in TextSlots : KeepsText(y)
  BY <1>1, SameTexts
<1>8. x \in TextSlots => SlotOK(x)'
  <2> SUFFICES ASSUME x \in TextSlots PROVE SlotOK(x)'
    OBVIOUS
  <2>1. xproc'[sched].pc \in SchedLabels
    BY <1>4 DEF SchedLabels
  <2>2. InCore(q)' = InCore(q) /\ Locks(sched)' = Nothing /\ Locks(sched) = Nothing
    BY <1>1, <1>4 DEF InCore, Locks
  <2>3. Nothing # x
    BY Constants
  <2>4. One(InCore(q)' = x) = One(InCore(q) = x)
    BY <2>2
  <2>5. xtext'[x] = xtext[x] /\ xtext[x] \in TextRecords
    BY <1>1, SchedFacts
  <2>6. xtext'[x].ccount = xtext[x].ccount + One(InCore(q)' = x) - One(InCore(q) = x)
    <3>1. xtext[x].ccount \in Int /\ One(InCore(q) = x) \in Int
      BY <2>5 DEF TextRecords, One
    <3> QED BY <2>4, <2>5, <3>1
  <2>7. xtext'[x].lock \/ Lockers(x) \subseteq {sched}
    <3>1. ~xtext[x].lock => Lockers(x) = {}
      BY UnlockedSlot
    <3> QED BY <2>5, <3>1
  <2> QED BY <1>4, <2>1, <2>2, <2>3, <2>5, <2>6, <2>7, SwapSlot
<1> QED BY <1>0, <1>1, <1>2, <1>4, <1>5, <1>6, <1>7, <1>8, SchedKeeps

(* Of the process that is being moved, and its text.                       *)
LEMMA SwapFacts ==
  ASSUME TextInv, xproc[sched].pc # "idle", NEW q, q = xproc[sched].other, NEW x, x = xproc[q].textp
  PROVE  /\ q \in Runners /\ q \in RunnersAndSched /\ xproc[q] \in RunnerRecords /\ RunnerOK(xproc[q])
         /\ x \in TextSlots \cup {Nothing} /\ ~xproc[q].load
         /\ xproc[q].pc \notin {"none", "born", "vmdup", "xlast", "xccdec", "xload"}
         /\ Uses(q) = x
         /\ xproc[sched].pc = "swapout" /\ x # Nothing => InCore(q) = x
         /\ xproc[sched].pc = "swapped" => x # Nothing /\ InCore(q) = Nothing
         /\ xproc[sched].pc \in {"swapin", "swapio"} => ~xproc[q].linked /\ InCore(q) = Nothing
         /\ Locks(sched) = IF xproc[sched].pc \in {"swapped", "swapio"} THEN x ELSE Nothing
<1>1. SchedOK /\ q \in Runners
  BY DEF TextInv, SchedOK
<1>2. /\ q \in RunnersAndSched /\ xproc[q] \in RunnerRecords /\ RunnerOK(xproc[q])
      /\ x \in TextSlots \cup {Nothing}
  BY <1>1, RunnerFacts
<1>3. ~xproc[q].load
  BY <1>1 DEF SchedOK
<1>4. xproc[q].pc \notin {"none", "born", "vmdup", "xlast", "xccdec", "xload"}
  BY <1>2, <1>3 DEF RunnerOK
<1>5. Uses(q) = x
  BY <1>4 DEF Uses
<1>6. xproc[sched].pc = "swapout" /\ x # Nothing => InCore(q) = x
  BY <1>1, <1>4 DEF SchedOK, InCore
<1>7. xproc[sched].pc = "swapped" => x # Nothing /\ InCore(q) = Nothing
  BY <1>1, <1>2 DEF SchedOK, InCore, RunnerOK
<1>8. xproc[sched].pc \in {"swapin", "swapio"} => ~xproc[q].linked /\ InCore(q) = Nothing
  BY <1>1 DEF SchedOK, InCore
<1>9. Locks(sched) = IF xproc[sched].pc \in {"swapped", "swapio"} THEN x ELSE Nothing
  BY SchedFacts DEF Locks, SchedLabels
<1> QED BY <1>1, <1>2, <1>3, <1>4, <1>5, <1>6, <1>7, <1>8, <1>9

LEMMA SwappersText ==
  ASSUME TextInv, xproc[sched].pc # "idle", NEW x \in TextSlots, x = xproc[xproc[sched].other].textp,
         xproc[sched].pc \in {"swapped", "swapio"} \/ x \notin LockedTexts
  PROVE  Lockers(x) \subseteq {sched}
<1>1. CASE xproc[sched].pc \in {"swapped", "swapio"}
  <2>1. Locks(sched) = x
    BY <1>1, SwapFacts
  <2>2. sched \in Lockers(x)
    BY <2>1 DEF Lockers, RunnersAndSched
  <2>3. Lockers(x) = {sched}
    BY <2>2 DEF TextInv, SlotsOK, SlotOK, SlotLock
  <2> QED BY <2>3
<1>2. CASE x \notin LockedTexts
  BY <1>2, UnlockedSlot DEF LockedTexts
<1> QED BY <1>1, <1>2

LEMMA RunnerOKPlaced ==
  ASSUME NEW r, NEW s, RunnerOK(r), Placed(r, s), r.pc \notin {"none", "born", "vmdup", "xlast", "xccdec", "xload"},
         s.linked => s.textp # Nothing, s.load /\ s.textp # Nothing => s.linked
  PROVE  RunnerOK(s)
BY DEF Placed, RunnerOK, HasFile, InExec, InOpen

(* A step of the swapper, which goes to c, with the process as it is in    *)
(* procs, and the text as t.   gain is what it does to the   *)
(* number of processes in core that have the text.                         *)
SwapsTo(q, x, procs, c) ==
  /\ procs \in [RunnersAndSched -> RunnerRecords] /\ \A z \in Runners \ {q} : Alike(xproc[z], procs[z])
  /\ Placed(xproc[q], procs[q])
  /\ c \in SchedLabels \ {"swapout"} /\ MayWait(procs, sched, [xproc[sched] EXCEPT !.pc = c])
  /\ procs[q].linked => x # Nothing
  /\ procs[q].load /\ x # Nothing => procs[q].linked
  /\ c # "idle" => ~procs[q].load
  /\ c = "swapped" => procs[q].linked
  /\ c \in {"swapin", "swapio"} => ~procs[q].linked
  /\ ~procs[q].load /\ procs[q].linked => c = "swapped"
TextBecomes(x, t, gain) ==
  /\ xtext' = IF x = Nothing THEN xtext ELSE [xtext EXCEPT ![x] = t]
  /\ x # Nothing => /\ t \in TextRecords /\ t.count = xtext[x].count /\ t.iptr = xtext[x].iptr
                    /\ t.trc = xtext[x].trc /\ t.ccount = xtext[x].ccount + gain
                    /\ Lockers(x) \subseteq {sched}

SwapMove(q, x, procs, c, t, gain) ==
  /\ xproc[sched].pc # "idle" /\ q = xproc[sched].other /\ x = xproc[q].textp
  /\ SwapsTo(q, x, procs, c) /\ TextBecomes(x, t, gain) /\ UNCHANGED <<xinode, tpanic>>
  /\ gain = One(procs[q].linked /\ c # "swapped") - One(InCore(q) = x)
  /\ c \in {"swapped", "swapio"} /\ x # Nothing => t.lock

LEMMA SwapStep ==
  ASSUME TextInv, NEW q, NEW x, NEW procs, NEW c, NEW t, NEW gain, SwapMove(q, x, procs, c, t, gain)
  PROVE  TextInv'
<1>0. /\ xproc[sched].pc # "idle" /\ q = xproc[sched].other /\ x = xproc[q].textp
      /\ SwapsTo(q, x, procs, c) /\ TextBecomes(x, t, gain) /\ UNCHANGED <<xinode, tpanic>>
      /\ gain = One(procs[q].linked /\ c # "swapped") - One(InCore(q) = x)
      /\ c \in {"swapped", "swapio"} /\ x # Nothing => t.lock
  BY DEF SwapMove
<1>1. /\ q \in Runners /\ q \in RunnersAndSched /\ xproc[q] \in RunnerRecords /\ RunnerOK(xproc[q])
      /\ x \in TextSlots \cup {Nothing} /\ Uses(q) = x
      /\ xproc[q].pc \notin {"none", "born", "vmdup", "xlast", "xccdec", "xload"}
  BY <1>0, SwapFacts
<1>2. PICK r : r = [xproc[sched] EXCEPT !.pc = c]
  OBVIOUS
<1>3. /\ r \in RunnerRecords /\ r.pc = c /\ r.other = q /\ r.textp = Nothing /\ ~r.linked /\ r.load
  BY <1>0, <1>2, SchedFacts, SMTT(60) DEF RunnerRecords, SwapsTo
<1>4. /\ SchedMoves(q) /\ xproc'[q] = procs[q] /\ xproc'[sched].pc = c /\ xproc'[sched].textp = Nothing
      /\ ~xproc'[sched].linked /\ xproc'[sched].load
  <2>1. MayWait(procs, sched, r) /\ r.pc \in SchedLabels /\ procs \in [RunnersAndSched -> RunnerRecords]
    BY <1>0, <1>2, <1>3 DEF SwapsTo
  <2>2. (\A z \in Runners \ {q} : Alike(xproc[z], procs[z])) /\ Placed(xproc[q], procs[q])
    BY <1>0 DEF SwapsTo
  <2> QED BY <1>0, <1>1, <1>3, <2>1, <2>2, SchedGoes
<1>5. xproc'[q].textp = x /\ xproc'[q].pc = xproc[q].pc
  BY <1>0, <1>4 DEF Placed, SwapsTo
<1>6. RunnerOK(xproc'[q])
  <2>1. Placed(xproc[q], procs[q]) /\ (procs[q].linked => x # Nothing)
        /\ (procs[q].load /\ x # Nothing => procs[q].linked)
    BY <1>0 DEF SwapsTo
  <2> QED BY <1>0, <1>1, <1>4, <1>5, <2>1, RunnerOKPlaced
<1>7. SchedOK'
  <2>1. c # "idle" => xproc'[sched].other = q
    BY <1>0, <1>4 DEF SchedMoves
  <2> QED BY <1>0, <1>1, <1>4, <2>1 DEF SchedOK, SwapsTo
<1>8. /\ xtext' \in [TextSlots -> TextRecords] /\ \A y \in TextSlots \ {x} : xtext'[y] = xtext[y]
      /\ x # Nothing => xtext'[x] = t
  BY <1>0, <1>1, SchedFacts, Constants DEF TextBecomes
<1>9. \A y \in TextSlots \ {x} : KeepsText(y)
  BY <1>0, <1>8 DEF KeepsText
<1>10. x \in TextSlots => SlotOK(x)'
  <2> SUFFICES ASSUME x \in TextSlots PROVE SlotOK(x)'
    OBVIOUS
  <2>1. Nothing # x
    BY <1>0, Constants
  <2>2. One(InCore(q)' = x) = One(procs[q].linked /\ c # "swapped")
    <3>1. c = "swapped" => xproc'[sched].other = q
      BY <1>0, <1>4 DEF SchedMoves
    <3> QED BY <1>0, <1>1, <1>4, <1>5, <2>1, <3>1 DEF InCore, One
  <2>3. Locks(sched)' = x => c \in {"swapped", "swapio"}
    BY <1>0, <1>4, <2>1 DEF Locks, SchedLabels, SwapsTo
  <2>4. xtext[x].count > 0 => xtext'[x].ccount = xtext[x].ccount + One(InCore(q)' = x) - One(InCore(q) = x)
    <3>1. xtext[x].ccount \in Int
      BY <1>0, SchedFacts DEF TextRecords
    <3> QED BY <1>0, <1>8, <2>1, <2>2, <3>1, ZenonT(60) DEF One, TextBecomes
  <2>5. /\ xtext'[x].count = xtext[x].count /\ xtext'[x].iptr = xtext[x].iptr
        /\ Locks(sched)' = x => xtext'[x].lock /\ Uses(q) = x /\ Lockers(x) \subseteq {sched}
        /\ xtext'[x].lock \/ Lockers(x) \subseteq {sched}
    BY <1>0, <1>1, <1>8, <2>1, <2>3 DEF TextBecomes
  <2>6. xproc'[sched].pc \in SchedLabels
    BY <1>0, <1>4 DEF SwapsTo
  <2> QED BY <1>0, <1>1, <1>4, <2>4, <2>5, <2>6, SwapSlot
<1>11. ~xproc'[q].load /\ xproc'[q].linked => xproc'[sched].pc \in {"swapout", "swapped"}
  BY <1>0, <1>4 DEF SwapsTo
<1>12. x \in TextSlots => /\ xtext'[x].count = xtext[x].count /\ xtext'[x].iptr = xtext[x].iptr
                          /\ xtext'[x].trc = xtext[x].trc
  BY <1>0, <1>8, Constants DEF TextBecomes
<1> QED BY <1>0, <1>1, <1>4, <1>6, <1>7, <1>8, <1>9, <1>10, <1>11, <1>12, SchedKeeps

(* The table with t in place of the text of q, if it has one.              *)
LEMMA TextReplaced ==
  ASSUME TextInv, NEW x \in TextSlots \cup {Nothing}, NEW t, x # Nothing => t \in TextRecords,
         xtext' = IF x = Nothing THEN xtext ELSE [xtext EXCEPT ![x] = t]
  PROVE  /\ xtext' \in [TextSlots -> TextRecords] /\ \A y \in TextSlots \ {x} : xtext'[y] = xtext[y]
         /\ x # Nothing => xtext'[x] = t
BY SchedFacts, Constants

(* The processes after q has been given its text up, or got it.            *)
OnlyWoken(base) ==
  base \in [RunnersAndSched -> RunnerRecords] /\ \A z \in RunnersAndSched : Alike(xproc[z], base[z])

LEMMA Relinked ==
  ASSUME TextInv, NEW q \in Runners, NEW base, OnlyWoken(base), NEW s, s \in RunnerRecords, Placed(base[q], s)
  PROVE  LET procs == [base EXCEPT ![q] = s]
         IN /\ procs \in [RunnersAndSched -> RunnerRecords] /\ \A z \in Runners \ {q} : Alike(xproc[z], procs[z])
            /\ Placed(xproc[q], procs[q]) /\ procs[q] = s
<1>1. q \in RunnersAndSched /\ Runners \subseteq RunnersAndSched
  BY DEF RunnersAndSched
<1>2. base \in [RunnersAndSched -> RunnerRecords] /\ \A z \in RunnersAndSched : Alike(xproc[z], base[z])
  BY DEF OnlyWoken
<1> DEFINE procs == [base EXCEPT ![q] = s]
<1>3. /\ procs \in [RunnersAndSched -> RunnerRecords] /\ procs[q] = s
      /\ \A z \in Runners \ {q} : procs[z] = base[z]
  BY <1>1, <1>2
<1>4. Placed(xproc[q], s)
  BY <1>1, <1>2 DEF Placed, Alike
<1>5. /\ procs \in [RunnersAndSched -> RunnerRecords] /\ \A z \in Runners \ {q} : Alike(xproc[z], procs[z])
      /\ Placed(xproc[q], procs[q]) /\ procs[q] = s
  BY <1>1, <1>2, <1>3, <1>4
<1> QED BY <1>5

(* The swapper has given the text of q up for it.                          *)
LEMMA Unlinked ==
  ASSUME TextInv, NEW q \in Runners, ~xproc[q].load, NEW x
  PROVE  LET procs == [AfterUnlock(x) EXCEPT ![q].linked = FALSE]
         IN /\ procs \in [RunnersAndSched -> RunnerRecords] /\ \A z \in Runners \ {q} : Alike(xproc[z], procs[z])
            /\ Placed(xproc[q], procs[q]) /\ ~procs[q].load /\ ~procs[q].linked
<1>1. PICK base : base = AfterUnlock(x)
  OBVIOUS
<1>2. OnlyWoken(base)
  BY <1>1, SchedFacts, UnlockAlike DEF OnlyWoken
<1>3. q \in RunnersAndSched /\ base[q] \in RunnerRecords /\ ~base[q].load
  <2>1. q \in RunnersAndSched /\ xproc[q] \in RunnerRecords
    BY RunnerFacts
  <2> QED BY <1>2, <2>1 DEF Alike, OnlyWoken
<1>4. PICK s : s = [base[q] EXCEPT !.linked = FALSE]
  OBVIOUS
<1>5. s \in RunnerRecords /\ Placed(base[q], s) /\ ~s.load /\ ~s.linked
  BY <1>3, <1>4 DEF RunnerRecords, Placed
<1> DEFINE procs == [base EXCEPT ![q] = s]
<1>6. /\ procs \in [RunnersAndSched -> RunnerRecords] /\ \A z \in Runners \ {q} : Alike(xproc[z], procs[z])
      /\ Placed(xproc[q], procs[q]) /\ procs[q] = s
  BY <1>2, <1>5, Relinked
<1>7. [AfterUnlock(x) EXCEPT ![q].linked = FALSE] = procs
  BY <1>1, <1>4, Zenon
<1> QED BY <1>5, <1>6, <1>7

LEMMA SwapoutTextKeeps ==
  ASSUME TextInv, SwapoutText(sched)
  PROVE  TextInv'
<1>0. PICK q, x : q = xproc[sched].other /\ x = xproc[q].textp
  OBVIOUS
<1>1. /\ xproc[sched].pc = "swapout" /\ UNCHANGED <<xinode, tpanic>> /\ x \notin LockedTexts
      /\ xtext' = IF x = Nothing THEN xtext ELSE [xtext EXCEPT ![x] = Decremented(xtext[x])]
      /\ x = Nothing => MayWait(xproc, sched, [xproc[sched] EXCEPT !.pc = "idle"])
      /\ x # Nothing /\ xtext[x].ccount = 1 => MayWait(xproc, sched, [xproc[sched] EXCEPT !.pc = "swapped"])
      /\ x # Nothing /\ xtext[x].ccount # 1 =>
           MayWait([AfterUnlock(x) EXCEPT ![q].linked = FALSE], sched, [xproc[sched] EXCEPT !.pc = "idle"])
  BY <1>0 DEF SwapoutText, Runs, MayLock, Wants
<1>2. /\ q \in Runners /\ xproc[q] \in RunnerRecords /\ RunnerOK(xproc[q]) /\ ~xproc[q].load
      /\ x \in TextSlots \cup {Nothing} /\ (x # Nothing => InCore(q) = x)
  BY <1>0, <1>1, SwapFacts
<1>3. x # Nothing => xproc[q].linked
  BY <1>0, <1>1 DEF TextInv, SchedOK
<1>4. xproc[q].linked => x # Nothing
  BY <1>0, <1>2 DEF RunnerOK
<1>5. PICK t : t = Decremented(xtext[x])
  OBVIOUS
<1>6. ASSUME x # Nothing
      PROVE  /\ t \in TextRecords /\ t.count = xtext[x].count /\ t.iptr = xtext[x].iptr /\ t.trc = xtext[x].trc
             /\ Lockers(x) \subseteq {sched} /\ xtext[x].ccount \in Int /\ t.ccount = xtext[x].ccount - 1
             /\ xtext[x].ccount = 1 => t.lock
  <2>1. x \in TextSlots /\ xtext[x] \in TextRecords
    BY <1>2, <1>6, SchedFacts
  <2>2. Lockers(x) \subseteq {sched}
    BY <1>0, <1>1, <2>1, SwappersText
  <2>3. xtext[x].ccount \in Int
    BY <2>1 DEF TextRecords
  <2> QED BY <1>5, <2>1, <2>2, <2>3, DecrementedIs
<1>7. xtext' = IF x = Nothing THEN xtext ELSE [xtext EXCEPT ![x] = t]
  BY <1>1, <1>5
<1>8. /\ xproc \in [RunnersAndSched -> RunnerRecords] /\ \A z \in Runners \ {q} : Alike(xproc[z], xproc[z])
      /\ Placed(xproc[q], xproc[q])
  BY SchedFacts DEF Alike, Placed
<1>9. "idle" \in SchedLabels /\ "swapped" \in SchedLabels
  BY DEF SchedLabels
<1>10. CASE x = Nothing
  <2>1. SwapsTo(q, x, xproc, "idle")
    BY <1>1, <1>2, <1>4, <1>8, <1>9, <1>10 DEF SwapsTo
  <2>2. PICK gain : gain = One(xproc[q].linked /\ "idle" # "swapped") - One(InCore(q) = x)
    OBVIOUS
  <2>3. TextBecomes(x, t, gain)
    BY <1>7, <1>10 DEF TextBecomes
  <2>4. SwapMove(q, x, xproc, "idle", t, gain)
    BY <1>0, <1>1, <2>1, <2>2, <2>3 DEF SwapMove
  <2> QED BY <2>4, SwapStep
<1>11. CASE x # Nothing /\ xtext[x].ccount = 1
  <2>1. SwapsTo(q, x, xproc, "swapped")
    BY <1>1, <1>2, <1>3, <1>8, <1>9, <1>11 DEF SwapsTo
  <2>2. PICK gain : gain = One(xproc[q].linked /\ "swapped" # "swapped") - One(InCore(q) = x)
    OBVIOUS
  <2>3. TextBecomes(x, t, gain)
    BY <1>2, <1>6, <1>7, <1>11, <2>2 DEF TextBecomes, One
  <2>4. SwapMove(q, x, xproc, "swapped", t, gain)
    BY <1>0, <1>1, <1>6, <1>11, <2>1, <2>2, <2>3 DEF SwapMove
  <2> QED BY <2>4, SwapStep
<1>12. CASE x # Nothing /\ xtext[x].ccount # 1
  <2> DEFINE procs == [AfterUnlock(x) EXCEPT ![q].linked = FALSE]
  <2>1. /\ procs \in [RunnersAndSched -> RunnerRecords] /\ \A z \in Runners \ {q} : Alike(xproc[z], procs[z])
        /\ Placed(xproc[q], procs[q]) /\ ~procs[q].load /\ ~procs[q].linked
    BY <1>2, Unlinked
  <2>2. MayWait(procs, sched, [xproc[sched] EXCEPT !.pc = "idle"])
    BY <1>1, <1>12
  <2> HIDE DEF procs
  <2>3. SwapsTo(q, x, procs, "idle")
    BY <1>9, <1>12, <2>1, <2>2 DEF SwapsTo
  <2>4. PICK gain : gain = One(procs[q].linked /\ "idle" # "swapped") - One(InCore(q) = x)
    OBVIOUS
  <2>5. TextBecomes(x, t, gain)
    BY <1>2, <1>6, <1>7, <1>12, <2>1, <2>4 DEF TextBecomes, One
  <2>6. SwapMove(q, x, procs, "idle", t, gain)
    BY <1>0, <1>1, <2>3, <2>4, <2>5 DEF SwapMove
  <2> QED BY <2>6, SwapStep
<1> QED BY <1>10, <1>11, <1>12

LEMMA TextSwappedKeeps ==
  ASSUME TextInv, TextSwapped(sched)
  PROVE  TextInv'
<1>0. PICK q, x : q = xproc[sched].other /\ x = xproc[q].textp
  OBVIOUS
<1>1. /\ xproc[sched].pc = "swapped" /\ UNCHANGED <<xinode, tpanic>>
      /\ xtext' = [xtext EXCEPT ![x] = Unlocked(xtext[x])]
      /\ MayWait([AfterUnlock(x) EXCEPT ![q].linked = FALSE], sched, [xproc[sched] EXCEPT !.pc = "idle"])
  BY <1>0 DEF TextSwapped, Runs
<1>2. /\ q \in Runners /\ xproc[q] \in RunnerRecords /\ ~xproc[q].load
      /\ x \in TextSlots /\ x # Nothing /\ InCore(q) = Nothing
  BY <1>0, <1>1, SwapFacts
<1>3. PICK t : t = Unlocked(xtext[x])
  OBVIOUS
<1>4. /\ t \in TextRecords /\ t.count = xtext[x].count /\ t.iptr = xtext[x].iptr /\ t.trc = xtext[x].trc
      /\ t.ccount = xtext[x].ccount /\ xtext[x].ccount \in Int
  <2>1. xtext[x] \in TextRecords
    BY <1>2, SchedFacts
  <2>2. xtext[x].ccount \in Int
    BY <2>1 DEF TextRecords
  <2> QED BY <1>3, <2>1, <2>2, UnlockedIs
<1>5. Lockers(x) \subseteq {sched}
  BY <1>0, <1>1, <1>2, SwappersText
<1> DEFINE procs == [AfterUnlock(x) EXCEPT ![q].linked = FALSE]
<1>6. /\ procs \in [RunnersAndSched -> RunnerRecords] /\ \A z \in Runners \ {q} : Alike(xproc[z], procs[z])
      /\ Placed(xproc[q], procs[q]) /\ ~procs[q].load /\ ~procs[q].linked
  BY <1>2, Unlinked
<1>7. MayWait(procs, sched, [xproc[sched] EXCEPT !.pc = "idle"]) /\ "idle" \in SchedLabels
  BY <1>1 DEF SchedLabels
<1> HIDE DEF procs
<1>8. SwapsTo(q, x, procs, "idle")
  BY <1>2, <1>6, <1>7 DEF SwapsTo
<1>9. PICK gain : gain = One(procs[q].linked /\ "idle" # "swapped") - One(InCore(q) = x)
  OBVIOUS
<1>10. TextBecomes(x, t, gain)
  BY <1>1, <1>2, <1>3, <1>4, <1>5, <1>6, <1>9 DEF TextBecomes, One
<1>11. SwapMove(q, x, procs, "idle", t, gain)
  BY <1>0, <1>1, <1>8, <1>9, <1>10 DEF SwapMove
<1> QED BY <1>11, SwapStep

LEMMA SwapinTextKeeps ==
  ASSUME TextInv, SwapinText(sched)
  PROVE  TextInv'
<1>0. PICK q, x : q = xproc[sched].other /\ x = xproc[q].textp
  OBVIOUS
<1>1. /\ xproc[sched].pc = "swapin" /\ UNCHANGED <<xinode, tpanic>> /\ x \notin LockedTexts
      /\ xtext' = IF x = Nothing THEN xtext ELSE [xtext EXCEPT ![x].lock = TRUE]
      /\ MayWait(xproc, sched, [xproc[sched] EXCEPT !.pc = "swapio"])
  BY <1>0 DEF SwapinText, Runs, MayLock, Wants
<1>2. /\ q \in Runners /\ xproc[q] \in RunnerRecords /\ ~xproc[q].load /\ ~xproc[q].linked
      /\ x \in TextSlots \cup {Nothing} /\ InCore(q) = Nothing
  BY <1>0, <1>1, SwapFacts
<1>3. PICK t : t = [xtext[x] EXCEPT !.lock = TRUE]
  OBVIOUS
<1>4. ASSUME x # Nothing
      PROVE  /\ t \in TextRecords /\ t.count = xtext[x].count /\ t.iptr = xtext[x].iptr /\ t.trc = xtext[x].trc
             /\ Lockers(x) \subseteq {sched} /\ t.lock /\ t.ccount = xtext[x].ccount /\ xtext[x].ccount \in Int
  <2>1. x \in TextSlots /\ xtext[x] \in TextRecords
    BY <1>2, <1>4, SchedFacts
  <2>2. Lockers(x) \subseteq {sched}
    BY <1>0, <1>1, <2>1, SwappersText
  <2> QED BY <1>3, <2>1, <2>2 DEF TextRecords
<1>5. /\ xproc \in [RunnersAndSched -> RunnerRecords] /\ \A z \in Runners \ {q} : Alike(xproc[z], xproc[z])
      /\ Placed(xproc[q], xproc[q]) /\ "swapio" \in SchedLabels
  BY SchedFacts DEF Alike, Placed, SchedLabels
<1>6. SwapsTo(q, x, xproc, "swapio")
  BY <1>1, <1>2, <1>5 DEF SwapsTo
<1>7. PICK gain : gain = One(xproc[q].linked /\ "swapio" # "swapped") - One(InCore(q) = x)
  OBVIOUS
<1>8. TextBecomes(x, t, gain)
  BY <1>1, <1>2, <1>3, <1>4, <1>7 DEF TextBecomes, One
<1>9. SwapMove(q, x, xproc, "swapio", t, gain)
  BY <1>0, <1>1, <1>4, <1>6, <1>7, <1>8 DEF SwapMove
<1> QED BY <1>9, SwapStep

LEMMA SwapinDoneKeeps ==
  ASSUME TextInv, SwapinDone(sched)
  PROVE  TextInv'
<1>0. PICK q, x : q = xproc[sched].other /\ x = xproc[q].textp
  OBVIOUS
<1> DEFINE base == IF x = Nothing THEN xproc ELSE AfterUnlock(x)
           changed(mem) == [xtext[x] EXCEPT !.ccount = IF mem THEN @ + 1 ELSE @]
           moved(mem) == IF mem THEN [base EXCEPT ![q].load = TRUE, ![q].linked = x # Nothing] ELSE base
<1>1. PICK mem \in BOOLEAN :
        /\ xproc[sched].pc = "swapio" /\ UNCHANGED <<xinode, tpanic>>
        /\ xtext' = IF x = Nothing THEN xtext ELSE [xtext EXCEPT ![x] = Unlocked(changed(mem))]
        /\ MayWait(moved(mem), sched, [xproc[sched] EXCEPT !.pc = "idle"])
  BY <1>0 DEF SwapinDone, Runs
<1>2. /\ q \in Runners /\ xproc[q] \in RunnerRecords /\ ~xproc[q].load /\ ~xproc[q].linked
      /\ x \in TextSlots \cup {Nothing} /\ InCore(q) = Nothing
  BY <1>0, <1>1, SwapFacts
<1>3. OnlyWoken(base)
  <2>1. \A z \in RunnersAndSched : Alike(xproc[z], xproc[z])
    BY DEF Alike
  <2> QED BY <2>1, SchedFacts, UnlockAlike DEF OnlyWoken
<1>4. PICK t : t = Unlocked(changed(mem))
  OBVIOUS
<1>5. ASSUME x # Nothing
      PROVE  /\ t \in TextRecords /\ t.count = xtext[x].count /\ t.iptr = xtext[x].iptr /\ t.trc = xtext[x].trc
             /\ Lockers(x) \subseteq {sched} /\ xtext[x].ccount \in Int
             /\ t.ccount = IF mem THEN xtext[x].ccount + 1 ELSE xtext[x].ccount
  <2>1. x \in TextSlots /\ xtext[x] \in TextRecords
    BY <1>2, <1>5, SchedFacts
  <2>2. Lockers(x) \subseteq {sched}
    BY <1>0, <1>1, <2>1, SwappersText
  <2>3. PICK n \in Int : n = IF mem THEN xtext[x].ccount + 1 ELSE xtext[x].ccount
    BY <2>1 DEF TextRecords
  <2>4. changed(mem) = [xtext[x] EXCEPT !.ccount = n]
    BY <2>3, Zenon
  <2>5. PICK u : u = [xtext[x] EXCEPT !.ccount = n]
    OBVIOUS
  <2>6. /\ u \in TextRecords /\ u.count = xtext[x].count /\ u.iptr = xtext[x].iptr /\ u.trc = xtext[x].trc
        /\ u.ccount = n /\ xtext[x].ccount \in Int
    BY <2>1, <2>3, <2>5 DEF TextRecords
  <2>7. t = Unlocked(u)
    BY <1>4, <2>4, <2>5, Zenon
  <2> QED BY <2>2, <2>3, <2>6, <2>7, UnlockedIs
<1>6. xtext' = IF x = Nothing THEN xtext ELSE [xtext EXCEPT ![x] = t]
  BY <1>1, <1>4
<1> HIDE DEF base, changed
<1>7. "idle" \in SchedLabels
  BY DEF SchedLabels
<1>8. q \in RunnersAndSched /\ base[q] \in RunnerRecords /\ Alike(xproc[q], base[q])
  BY <1>2, <1>3 DEF OnlyWoken, RunnersAndSched
<1>9. CASE mem
  <2>1. PICK s : s = [base[q] EXCEPT !.load = TRUE, !.linked = x # Nothing]
    OBVIOUS
  <2>2. s \in RunnerRecords /\ Placed(base[q], s) /\ s.load /\ (s.linked <=> x # Nothing)
    BY <1>8, <2>1, ZenonT(60) DEF RunnerRecords, Placed
  <2> DEFINE procs == [base EXCEPT ![q] = s]
  <2>3. /\ procs \in [RunnersAndSched -> RunnerRecords] /\ \A z \in Runners \ {q} : Alike(xproc[z], procs[z])
        /\ Placed(xproc[q], procs[q]) /\ procs[q] = s
    BY <1>2, <1>3, <2>2, Relinked
  <2>4. moved(mem) = procs
    BY <1>3, <1>8, <1>9, <2>1 DEF OnlyWoken
  <2>5. MayWait(procs, sched, [xproc[sched] EXCEPT !.pc = "idle"])
    BY <1>1, <2>4
  <2> HIDE DEF procs
  <2>6. SwapsTo(q, x, procs, "idle")
    BY <1>7, <2>2, <2>3, <2>5 DEF SwapsTo
  <2>7. PICK gain : gain = One(procs[q].linked /\ "idle" # "swapped") - One(InCore(q) = x)
    OBVIOUS
  <2>8. TextBecomes(x, t, gain)
    BY <1>2, <1>5, <1>6, <1>9, <2>2, <2>3, <2>7 DEF TextBecomes, One
  <2>9. SwapMove(q, x, procs, "idle", t, gain)
    BY <1>0, <1>1, <2>6, <2>7, <2>8 DEF SwapMove
  <2> QED BY <2>9, SwapStep
<1>10. CASE ~mem
  <2>1. MayWait(base, sched, [xproc[sched] EXCEPT !.pc = "idle"])
    BY <1>1, <1>10
  <2>2. /\ base \in [RunnersAndSched -> RunnerRecords] /\ \A z \in Runners \ {q} : Alike(xproc[z], base[z])
        /\ Placed(xproc[q], base[q]) /\ ~base[q].load /\ ~base[q].linked
    BY <1>2, <1>3, <1>8 DEF OnlyWoken, Alike, Placed, RunnersAndSched
  <2>3. SwapsTo(q, x, base, "idle")
    BY <1>7, <2>1, <2>2 DEF SwapsTo
  <2>4. PICK gain : gain = One(base[q].linked /\ "idle" # "swapped") - One(InCore(q) = x)
    OBVIOUS
  <2>5. TextBecomes(x, t, gain)
    BY <1>2, <1>5, <1>6, <1>10, <2>2, <2>4 DEF TextBecomes, One
  <2>6. SwapMove(q, x, base, "idle", t, gain)
    BY <1>0, <1>1, <2>3, <2>4, <2>5 DEF SwapMove
  <2> QED BY <2>6, SwapStep
<1> QED BY <1>9, <1>10

-----------------------------------------------------------------------------
(***************************************************************************)
(* The theorems.                                                           *)
(***************************************************************************)
LEMMA InitTextInv ==
  ASSUME TextInit
  PROVE  TextInv
<1>1. /\ FirstRunner \in RunnersAndSched /\ sched \in RunnersAndSched /\ FirstRunner # sched
      /\ Runners \subseteq RunnersAndSched
  BY Constants DEF RunnersAndSched
<1>2. PICK first, last : /\ first = [NoRunner EXCEPT !.pc = "user"] /\ last = [NoRunner EXCEPT !.pc = "idle"]
  OBVIOUS
<1>3. /\ xproc = [p \in RunnersAndSched |-> IF p = sched THEN last ELSE IF p = FirstRunner THEN first ELSE NoRunner]
      /\ xtext = [x \in TextSlots |-> FreeText]
      /\ xinode = [f \in Programs |-> [itext |-> FALSE, ilock |-> Nothing, writers |-> {}]]
      /\ trunning = Nothing /\ tpanic = FALSE
  BY <1>1, <1>2 DEF TextInit, RunnersAndSched
<1>4. NoRunner \in RunnerRecords /\ first \in RunnerRecords /\ last \in RunnerRecords
  BY <1>2 DEF NoRunner, RunnerRecords, RunnerLabels, SchedLabels
<1>5. FreeText \in TextRecords
  BY DEF FreeText, TextRecords
<1>6. TextTypes
  BY <1>3, <1>4, <1>5 DEF TextTypes, ProgramRecords
<1>7. /\ xproc[sched] = last
      /\ \A p \in Runners : xproc[p] = first \/ xproc[p] = NoRunner
  BY <1>1, <1>3, Constants
<1>8. /\ first.pc = "user" /\ last.pc = "idle" /\ NoRunner.pc = "none"
      /\ \A r \in {first, last, NoRunner} : /\ r.file = Nothing /\ r.slot = Nothing /\ r.textp = Nothing /\ ~r.linked
                                            /\ r.load /\ r.other = Nothing /\ r.then = "user"
  BY <1>2 DEF NoRunner
<1>9. SchedOK
  BY <1>7, <1>8 DEF SchedOK, SchedLabels
<1>10. RunnersOK
  <2>1. RunnerOK(first) /\ RunnerOK(NoRunner)
    BY <1>8 DEF RunnerOK, RunnerLabels, HasFile, InExec, InOpen, Freeing, Allocating
  <2> QED BY <1>7, <1>8, <2>1 DEF RunnersOK
<1>11. SlotsOK
  <2> SUFFICES ASSUME NEW x \in TextSlots PROVE SlotOK(x)
    BY DEF SlotsOK
  <2>1. \A p \in RunnersAndSched : xproc[p].textp = Nothing /\ xproc[p].pc \in {"user", "none", "idle"}
    BY <1>3, <1>8
  <2>2. \A p \in RunnersAndSched : Uses(p) = Nothing /\ Locks(p) = Nothing
    BY <2>1 DEF Uses, Locks
  <2>3. Users(x) = {} /\ Lockers(x) = {}
    BY <1>1, <2>2, Constants DEF Users, Lockers
  <2>4. Cardinality(Users(x)) = 0
    BY <2>3, FS_EmptySet
  <2>5. xtext[x].count = 0 /\ xtext[x].iptr = Nothing
    BY <1>3 DEF FreeText
  <2> QED BY <2>3, <2>4, <2>5 DEF SlotOK, SlotCount, SlotLock
<1>12. OneShared
  BY <1>3 DEF OneShared, FreeText
<1>13. FilesOK
  <2>1. \A p \in Runners : ~HasFile(xproc[p]) /\ ~InExec(xproc[p])
    BY <1>7, <1>8 DEF HasFile, InExec, InOpen, Freeing, Allocating
  <2>2. \A x \in TextSlots : xtext[x].count = 0
    BY <1>3 DEF FreeText
  <2>3. \A f \in Programs : xinode[f].itext = FALSE
    BY <1>3
  <2> QED BY <2>1, <2>2, <2>3 DEF FilesOK
<1> QED BY <1>6, <1>9, <1>10, <1>11, <1>12, <1>13 DEF TextInv

LEMMA RunnerStepKeeps ==
  ASSUME TextInv, NEW p \in Runners, RunnerStep(p)
  PROVE  TextInv'
<1>1. CASE Xlock(p) \/ Exec(p) \/ Getxfile(p) \/ ExitRunner(p) \/ ExitDone(p)
  BY <1>1, XlockKeeps, ExecKeeps, GetxfileKeeps, ExitRunnerKeeps, ExitDoneKeeps
<1>2. CASE XfreeNone(p) \/ XfreeLast(p) \/ XfreeWait(p) \/ XfreeDone(p) \/ XfreeShared(p) \/ Xccdec(p)
  BY <1>2, XfreeNoneKeeps, XfreeLastKeeps, XfreeWaitKeeps, XfreeDoneKeeps, XfreeSharedKeeps, XccdecKeeps
<1>3. CASE XallocWait(p) \/ XallocAttach(p) \/ Xwait(p) \/ XallocNew(p) \/ XallocFails(p) \/ Xload(p)
  BY <1>3, XallocWaitKeeps, XallocAttachKeeps, XwaitKeeps, XallocNewKeeps, XallocFailsKeeps, XloadKeeps
<1>4. CASE \E q \in Runners : ForkShares(p, q) \/ Vmxdup(p, q)
  BY <1>4, ForkSharesKeeps, VmxdupKeeps
<1>5. CASE \/ VmxdupDone(p) \/ OpenWrite(p) \/ Umount(p) \/ Xrele(p) \/ Xuntext(p) \/ Access(p) \/ CloseWrite(p)
  BY <1>5, VmxdupDoneKeeps, OpenWriteKeeps, UmountKeeps, XreleKeeps, XuntextKeeps, AccessKeeps, CloseWriteKeeps
<1> QED BY <1>1, <1>2, <1>3, <1>4, <1>5 DEF RunnerStep

LEMMA SchedStepKeeps ==
  ASSUME TextInv, SchedStep
  PROVE  TextInv'
BY XlockSchedKeeps, SwapOutKeeps, SwapInKeeps, SwapoutTextKeeps, TextSwappedKeeps, SwapinTextKeeps,
   SwapinDoneKeeps DEF SchedStep

LEMMA NextTextInv ==
  ASSUME TextInv, [TextNext]_textVars
  PROVE  TextInv'
<1>1. CASE \E p \in Runners : RunnerStep(p)
  BY <1>1, RunnerStepKeeps
<1>2. CASE SchedStep
  BY <1>2, SchedStepKeeps
<1>3. CASE \E x \in TextSlots : Pageout(x) \/ Cleanup(x)
  BY <1>3, PageoutKeeps
<1>4. CASE UNCHANGED textVars
  <2>1. UNCHANGED <<xtext, xinode, xproc, trunning, tpanic>>
    BY <1>4 DEF textVars
  <2>2. \A z \in RunnersAndSched : Alike(xproc[z], xproc'[z])
    BY <2>1 DEF Alike
  <2>3. xtext' \in [TextSlots -> TextRecords] /\ \A y \in TextSlots : KeepsText(y)
    BY <2>1, SameTexts
  <2>4. xproc' \in [RunnersAndSched -> RunnerRecords] /\ trunning' \in RunnersAndSched \cup {Nothing}
    BY <2>1, SchedFacts DEF TextTypes
  <2> QED BY <2>1, <2>2, <2>3, <2>4, AllAlike
<1> QED BY <1>1, <1>2, <1>3, <1>4 DEF TextNext

(* The invariant: the counts of every slot are those of the processes that *)
(* use it and of those in core, its lock is one process's, a file has one  *)
(* shared text, and a file with ITEXT or in an exec has no writers.        *)
THEOREM TextInvariant == TextSpec => []TextInv
BY InitTextInv, NextTextInv, PTL DEF TextSpec

(* x_count is the number of processes that have the text, x_ccount that of *)
(* those in core, and a file has one shared text: whatever exec, exit,     *)
(* fork, the opens and umount, the swapper and the page daemon do meanwhile*)
(* (xalloc, xfree, xccdec, swapin and swapout in sys/text.c).              *)
THEOREM CountsAreRight == TextSpec => []TextAccounts
<1>1. ASSUME TextInv
      PROVE  TextAccounts
  <2>1. SlotsOK /\ OneShared
    BY <1>1 DEF TextInv
  <2>2. ASSUME NEW x \in TextSlots
        PROVE  /\ xtext[x].count = Cardinality(Attached(x))
               /\ xtext[x].count > 0 => xtext[x].iptr # Nothing /\ xtext[x].ccount = Cardinality(Linked(x))
    <3>1. x # Nothing
      BY Constants
    <3>2. Attached(x) = Users(x)
      BY <3>1 DEF Attached, Users, Uses
    <3>3. Linked(x) = Residents(x)
      BY <3>1 DEF Linked, Residents, InCore
    <3> QED BY <2>1, <3>2, <3>3 DEF SlotsOK, SlotOK, SlotCount
  <2> QED BY <2>1, <2>2 DEF TextAccounts, OneShared
<1> QED BY <1>1, TextInvariant, PTL

(* A program that is being executed is not open for writing (getxfile of   *)
(* sys/sys1.c and access of sys/fio.c, which look at ITEXT and at the      *)
(* writers while others attach to the text, give it up and remove it).     *)
THEOREM NoWritersOfTexts == TextSpec => []BusyTextNotWritten
<1>1. ASSUME TextInv
      PROVE  BusyTextNotWritten
  BY <1>1, TextFiles, FileFacts DEF BusyTextNotWritten
<1> QED BY <1>1, TextInvariant, PTL
===============================================================================
