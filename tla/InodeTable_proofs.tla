-------------------------- MODULE InodeTable_proofs --------------------------
(***************************************************************************)
(* Theorems about the inode table, for any processes, directories, i-list, *)
(* size of the table and of the cache of free numbers, whether transfers   *)
(* fail or not.  PlaceOK says which references a process has at each place *)
(* of the code; a step changes the references of one process and one slot  *)
(* (MayDo), and what the others know of their slots stays true because a   *)
(* slot that is being put is locked and has no other reference.            *)
(***************************************************************************)
EXTENDS InodeTable, FiniteSetTheorems, SequenceTheorems, WellFoundedInduction, TLAPS

(***************************************************************************)
(* The inductive invariant                                                 *)
(***************************************************************************)
Files == Table \ Dirs
DirNumbers == {-d : d \in Dirs}
Puts == {"iput", "t_free", "t_put"}
Results == {"looked", "dormfile", "ialloced"}
Thens == {"idle", "use", "leave", "iloop", "noinode", "update"}
Labels == {"idle", "open", "plock", "dsearch", "iget", "igetwake", "fsget", "noinode", "leave", "ialloc",
           "iloop", "fill", "removed", "use", "iupdat", "enter", "update", "updated"} \cup Puts \cup Results

InodeRecords ==
  [ino : Inos \cup DirNumbers \cup {Nil}, lock : BOOLEAN, want : BOOLEAN, count : Int, dirty : BOOLEAN,
   mode : {0, 1}, nlink : Int]
DiskRecords == [mode : {0, 1}, nlink : Int]
UserRecords ==
  [pc : Labels, goal : FileCalls \cup {Nil}, dir : Dirs \cup {Nil}, ino : Inos \cup {0},
   slot : Table \cup {Nil}, file : Table \cup {Nil}, ret : Labels, then : Labels, refs : SUBSET Table,
   locks : SUBSET Table, asleep : Table \cup {IlockChan, Nil}, scan : Int, first : BOOLEAN]

NumbersType ==
  /\ s_inode \in Seq(Inos) /\ s_ilock \in BOOLEAN /\ spoilt \in BOOLEAN
  /\ dinode \in [Inos \cup DirNumbers -> DiskRecords] /\ named \in [Dirs -> SUBSET Inos]
  /\ running \in Users \cup {Nil}
TypesInv ==
  /\ inode \in [Table -> InodeRecords] /\ ifreel \in Seq(Table)
  /\ user \in [Users -> UserRecords] /\ NumbersType

(* The references that are left when the inode at hand has been put.       *)
RefsAfter(r) ==
  IF r.then \in {"leave", "iloop", "noinode"} THEN {r.dir} ELSE IF r.then = "use" THEN {r.file} ELSE {}

(* The references of a process, by its place in the code.                  *)
RefsOK(r) ==
  /\ r.pc \in {"idle", "update"} => r.refs = {}
  /\ r.pc = "open" => r.slot \in Files /\ r.refs = {r.slot}
  /\ r.pc = "plock" => r.slot \in Files \cup {r.dir} /\ r.slot \in Table /\ r.refs = {r.slot} \ Dirs
  /\ r.pc \in {"dsearch", "iget", "igetwake", "noinode", "leave", "ialloc", "iloop", "fill"} =>
       r.refs = {r.dir}
  /\ r.pc = "igetwake" => r.slot \in Table
  /\ r.pc \in {"fsget", "removed"} => r.slot \in Files /\ r.refs = {r.dir, r.slot}
  /\ r.pc \in Results => \/ r.slot = Nil /\ r.refs = {r.dir}
                         \/ r.slot \in Files /\ r.refs = {r.dir, r.slot}
  /\ r.pc = "use" => r.file \in Files /\ r.refs = {r.file}
  /\ r.pc \in {"iupdat", "enter"} => r.file \in Files /\ r.refs = {r.dir, r.file}
  /\ r.pc = "updated" => r.slot \in Table /\ r.refs = {r.slot}
  /\ r.pc \in Puts => /\ r.slot \in Table /\ r.slot \in r.refs /\ r.refs \ {r.slot} = RefsAfter(r)
                      /\ r.then \in Thens /\ (r.then = "use" => r.file \in Files)

(* What a call has to know at its places; update is the one without a      *)
(* directory of its own.                                                   *)
CallOK(r) ==
  /\ r.pc # "idle" => r.goal \in FileCalls /\ r.dir \in Dirs
  /\ r.pc # "idle" =>
       (r.goal = "sync" <=> r.pc \in {"update", "updated"} \/ (r.pc \in Puts /\ r.then = "update"))
  /\ r.pc \in {"iget", "igetwake", "fsget", "noinode"} \/ (r.pc \in Puts /\ r.then = "noinode") =>
       r.ret \in Results /\ r.ino \in Inos
  /\ r.pc \in Results \cup {"removed", "iupdat", "enter"} => r.ino \in Inos
  /\ r.pc = "fill" => r.scan \in DOMAIN Ilist

PlaceOK(r) == RefsOK(r) /\ CallOK(r) /\ r.locks \subseteq r.refs
PlaceInv == \A p \in Users : PlaceOK(user[p])

(* A slot is on the free list, once, or stands for one number; only the    *)
(* first slots are directories, and a free slot has nothing to be written. *)
TableInv ==
  /\ \A s \in Table : inode[s].ino = Nil <=> \E i \in DOMAIN ifreel : ifreel[i] = s
  /\ \A i, j \in DOMAIN ifreel : ifreel[i] = ifreel[j] => i = j
  /\ \A s, t \in Table : inode[s].ino = inode[t].ino /\ inode[s].ino # Nil => s = t
  /\ \A d \in Dirs : inode[d].ino = -d
  /\ \A s \in Files : inode[s].ino \in Inos \cup {Nil}
  /\ \A s \in Table : inode[s].ino = Nil => ~inode[s].dirty

(* The references to a slot, and those of the processes that wait for it.  *)
Waits(r, s) == r.pc = "igetwake" /\ r.slot = s
Referrers(s) == {p \in Users : s \in user[p].refs}
Waiters(s) == {p \in Users : user[p].pc = "igetwake" /\ user[p].slot = s}

(* update may have a reference to a free slot that a waiter has yet to     *)
(* leave, as long as it has the processor.                                 *)
Passing(p, s) ==
  /\ running = p /\ user[p].goal = "sync" /\ user[p].pc \in {"updated", "iput"}
  /\ \E q \in Users : Waits(user[q], s)

RefInv == \A p \in Users : \A s \in user[p].refs : inode[s].ino # Nil \/ Passing(p, s)

(* An inode that is being freed or written for the last time is locked and *)
(* nobody else's.                                                          *)
PutInv ==
  \A p \in Users : user[p].pc \in {"t_free", "t_put"} =>
    /\ user[p].slot \notin Dirs /\ inode[user[p].slot].lock /\ inode[user[p].slot].ino # Nil
    /\ \A q \in Users : q # p => user[p].slot \notin user[q].refs

TabInv == TypesInv /\ PlaceInv /\ TableInv /\ CountAccounts /\ RefInv /\ PutInv

-----------------------------------------------------------------------------
(* Numbers are not 0 and not Nil; directories are slots.                   *)
LEMMA Constants ==
  /\ Inos \subseteq Nat \ {0} /\ Table \subseteq Nat \ {0} /\ Dirs \subseteq Table /\ Nil \notin Int
  /\ DirNumbers \subseteq Int \ Nat /\ Nil \notin Users /\ IsFiniteSet(Users) /\ 1 \in Table
  /\ InoCache \in Nat \ {0} /\ Nil \notin Inos \cup DirNumbers \cup Table
<1>1. Ilist \in Seq(Seq(Nat \ {0}))
  BY InodeConstants
<1>2. \A b \in DOMAIN Ilist : Ilist[b] \in Seq(Nat \ {0})
  BY <1>1, ElementOfSeq, LenProperties
<1>3. \A b \in DOMAIN Ilist : ToSet(Ilist[b]) \subseteq Nat \ {0}
  <2> SUFFICES ASSUME NEW b \in DOMAIN Ilist PROVE ToSet(Ilist[b]) \subseteq Nat \ {0}
    OBVIOUS
  <2>1. \A i \in DOMAIN Ilist[b] : Ilist[b][i] \in Nat \ {0}
    BY <1>2, ElementOfSeq, LenProperties
  <2> QED BY <2>1 DEF ToSet
<1>4. Inos \subseteq Nat \ {0}
  BY <1>3 DEF Inos
<1>5. Table \subseteq Nat \ {0} /\ 1 \in Table
  BY InodeConstants DEF Table
<1>6. DirNumbers \subseteq Int \ Nat
  BY <1>5, InodeConstants DEF DirNumbers
<1>7. Nil \notin Int
  BY InodeConstants
<1>8. Nil \notin Inos \cup DirNumbers \cup Table
  <2>1. Inos \subseteq Int /\ Table \subseteq Int /\ DirNumbers \subseteq Int
    BY <1>4, <1>5, <1>6
  <2> QED BY <1>7, <2>1, Zenon
<1> QED BY <1>4, <1>5, <1>6, <1>8, InodeConstants

(* Every set of slots that is not empty has a least one.                   *)
LEMMA LeastSlot == ASSUME NEW T \in SUBSET Nat, T # {} PROVE Min(T) \in T /\ \A i \in T : Min(T) <= i
<1> DEFINE R == {ss \in Nat \X Nat : ss[1] < ss[2]}
<1>1. IsWellFoundedOn(R, Nat)
  BY NatLessThanWellFounded DEF OpToRel
<1>2. PICK x \in T : \A y \in T : <<y, x>> \notin R
  <2> HIDE DEF R
  <2> QED BY <1>1, WFMin
<1>3. ASSUME NEW y \in T PROVE x <= y
  <2> SUFFICES ASSUME y < x PROVE FALSE
    OBVIOUS
  <2>1. y \in Nat /\ x \in Nat
    OBVIOUS
  <2>2. <<y, x>> \in R
    BY <2>1
  <2> QED BY <1>2, <2>2
<1> QED BY <1>3 DEF Min

-----------------------------------------------------------------------------
(* One process joins or leaves a set of processes.                         *)
LEMMA OneMoves ==
  ASSUME NEW A \in SUBSET Users, NEW B \in SUBSET Users, NEW p \in Users,
         \A q \in Users \ {p} : q \in A <=> q \in B
  PROVE  /\ Cardinality(A) \in Nat /\ Cardinality(B) \in Nat
         /\ Cardinality(B) + (IF p \in A THEN 1 ELSE 0) = Cardinality(A) + (IF p \in B THEN 1 ELSE 0)
<1>1. IsFiniteSet(A) /\ IsFiniteSet(B)
  BY Constants, FS_Subset
<1>2. Cardinality(A) \in Nat /\ Cardinality(B) \in Nat
  BY <1>1, FS_CardinalityType
<1>3. A \ {p} = B \ {p}
  OBVIOUS
<1>4. /\ Cardinality(A \ {p}) = IF p \in A THEN Cardinality(A) - 1 ELSE Cardinality(A)
      /\ Cardinality(B \ {p}) = IF p \in B THEN Cardinality(B) - 1 ELSE Cardinality(B)
  BY <1>1, FS_RemoveElement
<1> QED BY <1>2, <1>3, <1>4

(* What i_count says when it is 1 and a process has a reference: it is the *)
(* only one, and nobody waits.                                             *)
LEMMA OnlyReference ==
  ASSUME TypesInv, CountAccounts, NEW p \in Users, NEW s \in Table, s \in user[p].refs, inode[s].count = 1
  PROVE  /\ s \notin Dirs
         /\ \A q \in Users : ~Waits(user[q], s) /\ (q # p => s \notin user[q].refs)
<1>1. Referrers(s) \subseteq Users /\ Waiters(s) \subseteq Users /\ p \in Referrers(s)
  BY DEF Referrers, Waiters
<1>2. IsFiniteSet(Referrers(s)) /\ IsFiniteSet(Waiters(s))
  BY <1>1, Constants, FS_Subset
<1>3. /\ Cardinality(Referrers(s)) \in Nat /\ Cardinality(Waiters(s)) \in Nat
      /\ Cardinality(Referrers(s)) # 0
  BY <1>1, <1>2, FS_CardinalityType, FS_EmptySet
<1>4. 1 = Cardinality(Referrers(s)) + Cardinality(Waiters(s)) + (IF s \in Dirs THEN 1 ELSE 0)
  BY DEF CountAccounts, Referrers, Waiters
<1>5. s \notin Dirs /\ Cardinality(Waiters(s)) = 0 /\ Cardinality(Referrers(s)) = 1
  BY <1>3, <1>4
<1>6. Waiters(s) = {}
  BY <1>2, <1>5, FS_EmptySet
<1>7. PICK x : Referrers(s) = {x}
  BY <1>2, <1>5, FS_Singleton
<1> QED BY <1>1, <1>5, <1>6, <1>7 DEF Waiters, Referrers, Waits

(* A slot that is counted has a reference, or a process that waits for it, *)
(* or is a directory's.                                                    *)
LEMMA CountedIsUsed ==
  ASSUME TypesInv, CountAccounts, NEW s \in Table, inode[s].count # 0
  PROVE  s \in Dirs \/ \E q \in Users : s \in user[q].refs \/ Waits(user[q], s)
<1> SUFFICES ASSUME s \notin Dirs, \A q \in Users : s \notin user[q].refs /\ ~Waits(user[q], s) PROVE FALSE
  OBVIOUS
<1>1. Referrers(s) = {} /\ Waiters(s) = {}
  BY DEF Referrers, Waiters, Waits
<1>2. Cardinality(Referrers(s)) = 0 /\ Cardinality(Waiters(s)) = 0
  BY <1>1, FS_EmptySet
<1> QED BY <1>2 DEF CountAccounts, Referrers, Waiters

(* i_count is not negative.                                                *)
LEMMA CountIsNat ==
  ASSUME CountAccounts, NEW s \in Table PROVE inode[s].count \in Nat
<1>1. Referrers(s) \subseteq Users /\ Waiters(s) \subseteq Users
  BY DEF Referrers, Waiters
<1>2. Cardinality(Referrers(s)) \in Nat /\ Cardinality(Waiters(s)) \in Nat
  BY <1>1, Constants, FS_Subset, FS_CardinalityType
<1>3. inode[s].count =
        Cardinality(Referrers(s)) + Cardinality(Waiters(s)) + (IF s \in Dirs THEN 1 ELSE 0)
  BY DEF CountAccounts, Referrers, Waiters
<1> QED BY <1>2, <1>3

-----------------------------------------------------------------------------
(* A step of p: p goes on with r, the others at most wake.                 *)
Turns(p, r) ==
  /\ r \in UserRecords /\ PlaceOK(r)
  /\ user' \in [Users -> UserRecords] /\ user'[p] = Back(r)
  /\ \A q \in Users \ {p} : user'[q] \in {user[q], [user[q] EXCEPT !.asleep = Nil]}

Uses(r, s) == (IF s \in r.refs THEN 1 ELSE 0) + (IF Waits(r, s) THEN 1 ELSE 0)

(* The number of a slot stays, or it leaves the free list for a number     *)
(* that has no slot, or p has put it and it is free.                       *)
SameNumber(s, i) == i.ino = inode[s].ino /\ ifreel' = ifreel /\ (i.ino = Nil => ~i.dirty)
GetsNumber(s, i) ==
  /\ ifreel # <<>> /\ s = Head(ifreel) /\ ifreel' = Tail(ifreel)
  /\ i.ino \in Inos /\ Ifind(i.ino) = {} /\ ~i.dirty
LosesNumber(p, s, i, r) ==
  /\ user[p].pc = "t_put" /\ s = user[p].slot /\ s \notin r.refs
  /\ i.ino = Nil /\ ~i.dirty /\ ifreel' = <<s>> \o ifreel

(* It changes slot s to i and has no effect on the other slots.            *)
MayDo(p, s, i, r) ==
  /\ running \in {p, Nil} /\ Turns(p, r) /\ inode' = [inode EXCEPT ![s] = i]
  /\ \A t \in Table \ {s} : (t \in r.refs <=> t \in user[p].refs) /\ (Waits(r, t) <=> Waits(user[p], t))
  /\ i.count = inode[s].count + Uses(r, s) - Uses(user[p], s)
  /\ inode[s].lock => i.lock \/ s \in user[p].refs \cup Dirs
  /\ s \in r.refs => s \in user[p].refs \cup Dirs \/ ~inode[s].lock \/ inode[s].ino = Nil
  /\ s \in r.refs =>
       \/ i.ino # Nil
       \/ /\ running' = p /\ r.goal = "sync" /\ r.pc \in {"updated", "iput"}
          /\ \E q \in Users \ {p} : Waits(user[q], s)
  /\ r.refs \subseteq {s} \/ user[p].goal # "sync"
  /\ r.pc \in {"t_free", "t_put"} =>
       /\ r.slot = s /\ s \notin Dirs /\ i.lock /\ i.ino # Nil
       /\ \A q \in Users \ {p} : s \notin user[q].refs
  /\ SameNumber(s, i) \/ GetsNumber(s, i) \/ LosesNumber(p, s, i, r)

(* A process in user mode is one that has returned from its call.          *)
LEMMA BackIs ==
  ASSUME NEW r \in UserRecords, PlaceOK(r)
  PROVE  /\ Back(r) \in UserRecords /\ PlaceOK(Back(r)) /\ Back(r).refs = r.refs /\ Back(r).pc = r.pc
         /\ r.pc # "idle" => Back(r) = r
<1>1. CASE r.pc # "idle"
  BY <1>1 DEF Back
<1>2. CASE r.pc = "idle"
  <2>1. Back(r) = Fresh /\ r.refs = {}
    BY <1>2 DEF Back, PlaceOK, RefsOK
  <2>2. Fresh \in UserRecords /\ Fresh.pc = "idle" /\ Fresh.refs = {} /\ Fresh.locks = {}
    BY DEF Fresh, UserRecords, Labels
  <2>3. PlaceOK(Fresh)
    BY <2>2 DEF PlaceOK, RefsOK, CallOK, Puts, Results
  <2> QED BY <1>2, <2>1, <2>2, <2>3
<1> QED BY <1>1, <1>2

(* What a process that is woken keeps.                                     *)
LEMMA WokenIs ==
  ASSUME NEW o \in UserRecords, NEW n \in {o, [o EXCEPT !.asleep = Nil]}
  PROVE  /\ n \in UserRecords /\ n.pc = o.pc /\ n.goal = o.goal /\ n.dir = o.dir /\ n.ino = o.ino
         /\ n.slot = o.slot /\ n.file = o.file /\ n.ret = o.ret /\ n.then = o.then
         /\ n.refs = o.refs /\ n.locks = o.locks /\ n.scan = o.scan
BY DEF UserRecords

(* The others keep their places; p's is in order by assumption.            *)
LEMMA PlaceKept ==
  ASSUME TypesInv, PlaceInv, NEW p \in Users, NEW r, Turns(p, r)
  PROVE  /\ PlaceInv'
         /\ user'[p].refs = r.refs /\ user'[p].pc = r.pc
         /\ \A s : Waits(user'[p], s) <=> Waits(r, s)
         /\ r.pc # "idle" => user'[p] = r
         /\ \A q \in Users \ {p} :
              /\ user'[q].refs = user[q].refs /\ user'[q].pc = user[q].pc /\ user'[q].slot = user[q].slot
              /\ user'[q].goal = user[q].goal
              /\ \A s : Waits(user'[q], s) <=> Waits(user[q], s)
<1>1. r \in UserRecords /\ PlaceOK(r) /\ user'[p] = Back(r) /\ user \in [Users -> UserRecords]
  BY DEF Turns, TypesInv
<1>2. /\ PlaceOK(user'[p]) /\ user'[p].refs = r.refs /\ user'[p].pc = r.pc
      /\ r.pc # "idle" => user'[p] = r
  BY <1>1, BackIs
<1>3. \A s : Waits(user'[p], s) <=> Waits(r, s)
  BY <1>2 DEF Waits
<1>4. ASSUME NEW q \in Users \ {p}
      PROVE  /\ PlaceOK(user'[q])
             /\ user'[q].refs = user[q].refs /\ user'[q].pc = user[q].pc /\ user'[q].slot = user[q].slot
             /\ user'[q].goal = user[q].goal
             /\ \A s : Waits(user'[q], s) <=> Waits(user[q], s)
  <2> DEFINE o == user[q]
             n == user'[q]
  <2>1. o \in UserRecords /\ n \in {o, [o EXCEPT !.asleep = Nil]} /\ PlaceOK(o)
    BY <1>1 DEF Turns, PlaceInv
  <2> HIDE DEF o, n
  <2>2. /\ n \in UserRecords /\ n.pc = o.pc /\ n.goal = o.goal /\ n.dir = o.dir /\ n.ino = o.ino
        /\ n.slot = o.slot /\ n.file = o.file /\ n.ret = o.ret /\ n.then = o.then
        /\ n.refs = o.refs /\ n.locks = o.locks /\ n.scan = o.scan
    BY <2>1, WokenIs
  <2>3. RefsOK(n) <=> RefsOK(o)
    BY <2>2 DEF RefsOK, RefsAfter
  <2>4. CallOK(n) <=> CallOK(o)
    BY <2>2 DEF CallOK
  <2>5. PlaceOK(n)
    BY <2>1, <2>2, <2>3, <2>4 DEF PlaceOK
  <2>6. \A s : Waits(n, s) <=> Waits(o, s)
    BY <2>2 DEF Waits
  <2> QED BY <2>2, <2>5, <2>6 DEF o, n
<1>5. PlaceInv'
  <2>1. \A q \in Users : PlaceOK(user'[q])
    BY <1>2, <1>4
  <2> QED BY <2>1 DEF PlaceInv, PlaceOK, RefsOK, RefsAfter, CallOK
<1> QED BY <1>2, <1>3, <1>4, <1>5

(* The count of a slot goes with p's references and waits.                 *)
LEMMA CountKept ==
  ASSUME TypesInv, PlaceInv, CountAccounts, NEW p \in Users, NEW s \in Table, NEW i \in InodeRecords, NEW r,
         MayDo(p, s, i, r)
  PROVE  CountAccounts'
<1>1. Turns(p, r) /\ inode \in [Table -> InodeRecords] /\ inode' = [inode EXCEPT ![s] = i]
  BY DEF MayDo, TypesInv
<1>2. SUFFICES ASSUME NEW t \in Table
      PROVE  inode'[t].count = Cardinality(Referrers(t)') + Cardinality(Waiters(t)')
                               + (IF t \in Dirs THEN 1 ELSE 0)
  BY DEF CountAccounts, Referrers, Waiters
<1> DEFINE A == Referrers(t)
           B == Waiters(t)
           C == Referrers(t)'
           D == Waiters(t)'
<1>3. /\ \A q \in Users : (q \in A <=> t \in user[q].refs) /\ (q \in B <=> Waits(user[q], t))
      /\ \A q \in Users : (q \in C <=> t \in user'[q].refs) /\ (q \in D <=> Waits(user'[q], t))
      /\ A \subseteq Users /\ B \subseteq Users /\ C \subseteq Users /\ D \subseteq Users
  BY DEF Referrers, Waiters, Waits
<1>4. inode[t].count = Cardinality(A) + Cardinality(B) + (IF t \in Dirs THEN 1 ELSE 0)
  BY DEF CountAccounts, Referrers, Waiters
<1> HIDE DEF A, B, C, D
<1>5. \A q \in Users \ {p} : (q \in A <=> q \in C) /\ (q \in B <=> q \in D)
  BY <1>1, <1>3, PlaceKept
<1>6. (p \in C <=> t \in r.refs) /\ (p \in D <=> Waits(r, t))
  BY <1>1, <1>3, PlaceKept
<1>7. (p \in A <=> t \in user[p].refs) /\ (p \in B <=> Waits(user[p], t))
  BY <1>3
<1>8. /\ Cardinality(A) \in Nat /\ Cardinality(B) \in Nat /\ Cardinality(C) \in Nat /\ Cardinality(D) \in Nat
      /\ Cardinality(C) + (IF p \in A THEN 1 ELSE 0) = Cardinality(A) + (IF p \in C THEN 1 ELSE 0)
      /\ Cardinality(D) + (IF p \in B THEN 1 ELSE 0) = Cardinality(B) + (IF p \in D THEN 1 ELSE 0)
  <2>1. /\ Cardinality(A) \in Nat /\ Cardinality(C) \in Nat
        /\ Cardinality(C) + (IF p \in A THEN 1 ELSE 0) = Cardinality(A) + (IF p \in C THEN 1 ELSE 0)
    BY <1>3, <1>5, OneMoves
  <2>2. /\ Cardinality(B) \in Nat /\ Cardinality(D) \in Nat
        /\ Cardinality(D) + (IF p \in B THEN 1 ELSE 0) = Cardinality(B) + (IF p \in D THEN 1 ELSE 0)
    BY <1>3, <1>5, OneMoves
  <2> QED BY <2>1, <2>2
<1>9. CASE t = s
  <2>1. inode'[t].count = inode[t].count + Uses(r, t) - Uses(user[p], t)
    BY <1>1, <1>9 DEF MayDo
  <2>2. /\ Uses(r, t) = (IF p \in C THEN 1 ELSE 0) + (IF p \in D THEN 1 ELSE 0)
        /\ Uses(user[p], t) = (IF p \in A THEN 1 ELSE 0) + (IF p \in B THEN 1 ELSE 0)
    BY <1>6, <1>7 DEF Uses
  <2> QED BY <1>4, <1>8, <2>1, <2>2 DEF C, D
<1>10. CASE t # s
  <2>1. inode'[t].count = inode[t].count /\ (p \in A <=> p \in C) /\ (p \in B <=> p \in D)
    BY <1>1, <1>6, <1>7, <1>10 DEF MayDo
  <2> QED BY <1>4, <1>8, <2>1 DEF C, D
<1> QED BY <1>9, <1>10

(* The free list and the numbers stay in order.                            *)
LEMMA TableKept ==
  ASSUME TypesInv, TableInv, RefInv, PlaceInv, PutInv, NEW p \in Users, NEW s \in Table,
         NEW i \in InodeRecords, NEW r, MayDo(p, s, i, r)
  PROVE  TableInv' /\ ifreel' \in Seq(Table)
<1>1. /\ inode \in [Table -> InodeRecords] /\ inode' = [inode EXCEPT ![s] = i] /\ ifreel \in Seq(Table)
      /\ inode'[s] = i /\ \A t \in Table \ {s} : inode'[t] = inode[t]
  BY DEF MayDo, TypesInv
<1>2. \A j \in DOMAIN ifreel : ifreel[j] \in Table
  BY <1>1, ElementOfSeq, LenProperties
<1>3. CASE SameNumber(s, i)
  <2>1. ifreel' = ifreel /\ \A t \in Table : inode'[t].ino = inode[t].ino
    BY <1>1, <1>3 DEF SameNumber
  <2>2. \A t \in Table : inode'[t].ino = Nil => ~inode'[t].dirty
    BY <1>1, <1>3 DEF SameNumber, TableInv
  <2> QED BY <1>1, <2>1, <2>2, Constants DEF TableInv, Files
<1>4. CASE GetsNumber(s, i)
  <2> DEFINE n == Len(ifreel)
  <2>1. n \in Nat \ {0} /\ DOMAIN ifreel = 1 .. n /\ s = ifreel[1] /\ ifreel' = Tail(ifreel)
    BY <1>1, <1>4, LenProperties, EmptySeq DEF GetsNumber
  <2>2. /\ ifreel' \in Seq(Table) /\ DOMAIN ifreel' = 1 .. n - 1
        /\ \A j \in 1 .. n - 1 : ifreel'[j] = ifreel[j + 1]
    <3>1. Tail(ifreel) \in Seq(Table) /\ Len(Tail(ifreel)) = n - 1
          /\ \A j \in 1 .. n - 1 : Tail(ifreel)[j] = ifreel[j + 1]
      BY <1>1, <1>4, HeadTailProperties DEF GetsNumber
    <3> QED BY <2>1, <3>1, LenProperties
  <2> HIDE DEF n
  <2>3. inode[s].ino = Nil /\ i.ino \in Inos /\ Nil \notin Inos /\ ~i.dirty
    <3>1. 1 \in DOMAIN ifreel /\ ifreel[1] = s
      BY <2>1
    <3>2. inode[s].ino = Nil
      BY <3>1 DEF TableInv
    <3> QED BY <1>4, <3>2, Constants DEF GetsNumber
  <2>4. \A t \in Table \ {s} : inode[t].ino # i.ino
    BY <1>4 DEF GetsNumber, Ifind
  <2>5. s \notin Dirs
    BY <2>3, Constants, InodeConstants DEF TableInv
  <2>6. \A j, k \in DOMAIN ifreel : ifreel[j] = ifreel[k] => j = k
    BY DEF TableInv
  <2>7. \A j, k \in 1 .. n - 1 : ifreel'[j] = ifreel'[k] => j = k
    <3> SUFFICES ASSUME NEW j \in 1 .. n - 1, NEW k \in 1 .. n - 1, ifreel'[j] = ifreel'[k] PROVE j = k
      OBVIOUS
    <3>1. j + 1 \in DOMAIN ifreel /\ k + 1 \in DOMAIN ifreel /\ ifreel[j + 1] = ifreel[k + 1]
      BY <2>1, <2>2
    <3>2. j + 1 = k + 1
      BY <2>6, <3>1
    <3> QED BY <2>1, <3>2
  <2>8. \A t \in Table : (\E j \in 1 .. n - 1 : ifreel'[j] = t)
                          <=> t # s /\ \E j \in DOMAIN ifreel : ifreel[j] = t
    <3> SUFFICES ASSUME NEW t \in Table
                 PROVE  (\E j \in 1 .. n - 1 : ifreel'[j] = t)
                        <=> t # s /\ \E j \in DOMAIN ifreel : ifreel[j] = t
      OBVIOUS
    <3>1. ASSUME NEW j \in 1 .. n - 1, ifreel'[j] = t PROVE t # s /\ \E k \in DOMAIN ifreel : ifreel[k] = t
      <4>1. j + 1 \in DOMAIN ifreel /\ 1 \in DOMAIN ifreel /\ j + 1 # 1 /\ ifreel[j + 1] = t
        BY <2>1, <2>2, <3>1
      <4> QED BY <2>1, <2>6, <4>1
    <3>2. ASSUME t # s, NEW k \in DOMAIN ifreel, ifreel[k] = t PROVE \E j \in 1 .. n - 1 : ifreel'[j] = t
      <4>1. k # 1 /\ k - 1 \in 1 .. n - 1 /\ (k - 1) + 1 = k
        BY <2>1, <3>2
      <4> QED BY <2>2, <3>2, <4>1
    <3> QED BY <3>1, <3>2
  <2>9. \A t \in Table : inode'[t].ino = Nil <=> t # s /\ inode[t].ino = Nil
    BY <1>1, <2>3
  <2>10. /\ \A t \in Table : inode'[t].ino = Nil <=> \E j \in DOMAIN ifreel' : ifreel'[j] = t
         /\ \A j, k \in DOMAIN ifreel' : ifreel'[j] = ifreel'[k] => j = k
    BY <2>2, <2>7, <2>8, <2>9 DEF TableInv
  <2>11. \A t, u \in Table : inode'[t].ino = inode'[u].ino /\ inode'[t].ino # Nil => t = u
    BY <1>1, <2>4 DEF TableInv
  <2>12. \A d \in Dirs : inode'[d].ino = -d
    BY <1>1, <2>5, Constants DEF TableInv
  <2>13. \A t \in Files : inode'[t].ino \in Inos \cup {Nil}
    BY <1>1, <2>3 DEF TableInv, Files
  <2>14. \A t \in Table : inode'[t].ino = Nil => ~inode'[t].dirty
    BY <1>1, <2>3 DEF TableInv
  <2> QED BY <2>2, <2>10, <2>11, <2>12, <2>13, <2>14 DEF TableInv
<1>5. CASE LosesNumber(p, s, i, r)
  <2> DEFINE n == Len(ifreel)
  <2>1. n \in Nat /\ DOMAIN ifreel = 1 .. n
    BY <1>1, LenProperties
  <2>2. /\ ifreel' \in Seq(Table) /\ DOMAIN ifreel' = 1 .. n + 1 /\ ifreel'[1] = s
        /\ \A j \in 1 .. n : ifreel'[j + 1] = ifreel[j]
    <3>1. /\ ifreel' = <<s>> \o ifreel /\ <<s>> \in Seq(Table) /\ Len(<<s>>) = 1 /\ <<s>>[1] = s
      BY <1>5 DEF LosesNumber
    <3>2. /\ ifreel' \in Seq(Table) /\ Len(ifreel') = 1 + n
          /\ \A j \in 1 .. 1 + n : ifreel'[j] = IF j <= 1 THEN <<s>>[j] ELSE ifreel[j - 1]
      BY <1>1, <3>1, ConcatProperties
    <3> HIDE DEF n
    <3>3. DOMAIN ifreel' = 1 .. n + 1
      BY <2>1, <3>2, LenProperties
    <3>4. ASSUME NEW j \in 1 .. n PROVE ifreel'[j + 1] = ifreel[j]
      BY <2>1, <3>2
    <3>5. ifreel'[1] = s
      BY <2>1, <3>1, <3>2
    <3> QED BY <3>2, <3>3, <3>4, <3>5
  <2> HIDE DEF n
  <2>3. i.ino = Nil /\ inode[s].ino # Nil /\ s \notin Dirs /\ ~i.dirty
    BY <1>5 DEF LosesNumber, PutInv
  <2>4. \A j \in 1 .. n : ifreel[j] # s
    BY <2>1, <2>3 DEF TableInv
  <2>5. \A t \in Table : (\E j \in 1 .. n + 1 : ifreel'[j] = t)
                          <=> t = s \/ \E j \in DOMAIN ifreel : ifreel[j] = t
    <3> SUFFICES ASSUME NEW t \in Table
                 PROVE  (\E j \in 1 .. n + 1 : ifreel'[j] = t)
                        <=> t = s \/ \E j \in DOMAIN ifreel : ifreel[j] = t
      OBVIOUS
    <3>1. ASSUME NEW j \in 1 .. n + 1, ifreel'[j] = t
          PROVE  t = s \/ \E k \in DOMAIN ifreel : ifreel[k] = t
      <4>1. CASE j = 1
        BY <2>2, <3>1, <4>1
      <4>2. CASE j # 1
        <5>1. j - 1 \in 1 .. n /\ (j - 1) + 1 = j
          BY <2>1, <4>2
        <5> QED BY <2>1, <2>2, <3>1, <5>1
      <4> QED BY <4>1, <4>2
    <3>2. 1 \in 1 .. n + 1 /\ \A k \in 1 .. n : k + 1 \in 1 .. n + 1
      BY <2>1
    <3> QED BY <2>1, <2>2, <3>1, <3>2
  <2>6. \A j, k \in 1 .. n + 1 : ifreel'[j] = ifreel'[k] => j = k
    <3> SUFFICES ASSUME NEW j \in 1 .. n + 1, NEW k \in 1 .. n + 1, ifreel'[j] = ifreel'[k] PROVE j = k
      OBVIOUS
    <3>1. \A l \in 1 .. n + 1 : l # 1 => l - 1 \in 1 .. n /\ (l - 1) + 1 = l /\ ifreel'[l] = ifreel[l - 1]
      <4> SUFFICES ASSUME NEW l \in 1 .. n + 1, l # 1
                   PROVE  l - 1 \in 1 .. n /\ (l - 1) + 1 = l /\ ifreel'[l] = ifreel[l - 1]
        OBVIOUS
      <4>1. l - 1 \in 1 .. n /\ (l - 1) + 1 = l
        BY <2>1
      <4> QED BY <2>2, <4>1
    <3>2. CASE j # 1 /\ k # 1
      <4>1. ifreel[j - 1] = ifreel[k - 1] /\ j - 1 \in DOMAIN ifreel /\ k - 1 \in DOMAIN ifreel
        BY <2>1, <3>1, <3>2
      <4>2. j - 1 = k - 1
        BY <4>1 DEF TableInv
      <4> QED BY <3>1, <3>2, <4>2
    <3>3. CASE ~(j # 1 /\ k # 1)
      BY <2>2, <2>4, <3>1, <3>3
    <3> QED BY <3>2, <3>3
  <2>7. \A t \in Table : inode'[t].ino = Nil <=> t = s \/ inode[t].ino = Nil
    BY <1>1, <2>3
  <2>8. /\ \A t \in Table : inode'[t].ino = Nil <=> \E j \in DOMAIN ifreel' : ifreel'[j] = t
        /\ \A j, k \in DOMAIN ifreel' : ifreel'[j] = ifreel'[k] => j = k
    BY <2>2, <2>5, <2>6, <2>7 DEF TableInv
  <2>9. \A t, u \in Table : inode'[t].ino = inode'[u].ino /\ inode'[t].ino # Nil => t = u
    BY <1>1, <2>3 DEF TableInv
  <2>10. \A d \in Dirs : inode'[d].ino = -d
    BY <1>1, <2>3, Constants DEF TableInv
  <2>11. \A t \in Files : inode'[t].ino \in Inos \cup {Nil}
    BY <1>1, <2>3 DEF TableInv, Files
  <2>12. \A t \in Table : inode'[t].ino = Nil => ~inode'[t].dirty
    BY <1>1, <2>3 DEF TableInv
  <2> QED BY <2>2, <2>8, <2>9, <2>10, <2>11, <2>12 DEF TableInv
<1> QED BY <1>3, <1>4, <1>5 DEF MayDo

(* References lead to inodes that have a number.                           *)
LEMMA RefKept ==
  ASSUME TypesInv, TableInv, RefInv, PlaceInv, PutInv, NEW p \in Users, NEW s \in Table,
         NEW i \in InodeRecords, NEW r, MayDo(p, s, i, r)
  PROVE  RefInv'
<1>1. /\ inode \in [Table -> InodeRecords] /\ Turns(p, r) /\ running \in {p, Nil} /\ Nil \notin Users
      /\ inode'[s] = i /\ \A t \in Table \ {s} : inode'[t] = inode[t]
  BY Constants DEF MayDo, TypesInv
<1>2. \A q \in Users : user[q].refs \subseteq Table /\ user'[q].refs \subseteq Table
  BY <1>1 DEF TypesInv, UserRecords, Turns
<1>3. \A t \in Table : inode[t].ino # Nil /\ inode'[t].ino = Nil => t = s /\ LosesNumber(p, s, i, r)
  <2>1. Nil \notin Inos /\ (SameNumber(s, i) \/ GetsNumber(s, i) \/ LosesNumber(p, s, i, r))
    BY Constants DEF MayDo
  <2>2. SameNumber(s, i) \/ GetsNumber(s, i) => inode'[s].ino = inode[s].ino \/ inode'[s].ino # Nil
    BY <1>1, <2>1 DEF SameNumber, GetsNumber
  <2> QED BY <1>1, <2>1, <2>2
<1>4. ASSUME NEW q \in Users, NEW t \in user'[q].refs PROVE inode'[t].ino # Nil \/ Passing(q, t)'
  <2>1. CASE q # p
    <3>1. t \in user[q].refs /\ t \in Table
      BY <1>1, <1>2, <1>4, <2>1, PlaceKept
    <3>2. inode[t].ino # Nil
      BY <1>1, <2>1, <3>1 DEF RefInv, Passing
    <3>3. ~(t = s /\ LosesNumber(p, s, i, r))
      BY <2>1, <3>1 DEF PutInv, LosesNumber
    <3> QED BY <1>3, <3>1, <3>2, <3>3
  <2>2. CASE q = p /\ t = s
    <3>1. s \in r.refs /\ inode'[s] = i
      BY <1>1, <1>4, <2>2, PlaceKept
    <3>2. CASE i.ino # Nil
      BY <2>2, <3>1, <3>2
    <3>3. CASE i.ino = Nil
      <4>1. /\ running' = p /\ r.goal = "sync" /\ r.pc \in {"updated", "iput"}
            /\ \E x \in Users \ {p} : Waits(user[x], s)
        BY <3>1, <3>3 DEF MayDo
      <4>2. user'[p] = r /\ \E x \in Users : Waits(user'[x], s)
        BY <1>1, <4>1, PlaceKept
      <4> QED BY <2>2, <4>1, <4>2 DEF Passing
    <3> QED BY <3>2, <3>3
  <2>3. CASE q = p /\ t # s
    <3>1. t \in r.refs /\ t \in user[p].refs /\ t \in Table /\ user[p].goal # "sync"
      BY <1>1, <1>2, <1>4, <2>3, PlaceKept DEF MayDo
    <3>2. inode[t].ino # Nil
      BY <3>1 DEF RefInv, Passing
    <3> QED BY <1>1, <2>3, <3>1, <3>2
  <2> QED BY <2>1, <2>2, <2>3
<1> QED BY <1>4 DEF RefInv

(* What is being put stays locked, and nobody else's.                      *)
LEMMA PutKept ==
  ASSUME TypesInv, TableInv, RefInv, PlaceInv, PutInv, NEW p \in Users, NEW s \in Table,
         NEW i \in InodeRecords, NEW r, MayDo(p, s, i, r)
  PROVE  PutInv'
<1>1. /\ inode \in [Table -> InodeRecords] /\ Turns(p, r) /\ r \in UserRecords
      /\ inode'[s] = i /\ \A t \in Table \ {s} : inode'[t] = inode[t]
  BY DEF MayDo, TypesInv, Turns
<1>2. ASSUME NEW q \in Users, user'[q].pc \in {"t_free", "t_put"}
      PROVE  /\ user'[q].slot \notin Dirs /\ inode'[user'[q].slot].lock /\ inode'[user'[q].slot].ino # Nil
             /\ \A x \in Users : x # q => user'[q].slot \notin user'[x].refs
  <2>1. CASE q = p
    <3>1. r.pc \in {"t_free", "t_put"} /\ user'[p] = r
      BY <1>1, <1>2, <2>1, PlaceKept
    <3>2. /\ r.slot = s /\ s \notin Dirs /\ i.lock /\ i.ino # Nil
          /\ \A x \in Users \ {p} : s \notin user[x].refs
      BY <3>1 DEF MayDo
    <3>3. \A x \in Users \ {p} : s \notin user'[x].refs
      BY <1>1, <3>2, PlaceKept
    <3> QED BY <1>1, <2>1, <3>1, <3>2, <3>3
  <2>2. CASE q # p
    <3> DEFINE t == user[q].slot
    <3>1. user[q].pc \in {"t_free", "t_put"} /\ user'[q].slot = t
      BY <1>1, <1>2, <2>2, PlaceKept
    <3>2. PlaceOK(user[q])
      BY DEF PlaceInv
    <3>3. t \in Table /\ t \in user[q].refs
      BY <3>1, <3>2 DEF PlaceOK, RefsOK, Puts
    <3>4. t \notin Dirs /\ inode[t].lock /\ inode[t].ino # Nil /\ \A x \in Users : x # q => t \notin user[x].refs
      BY <3>1 DEF PutInv
    <3> HIDE DEF t
    <3>5. t \notin user[p].refs
      BY <2>2, <3>4
    <3>6. t \notin r.refs
      BY <3>3, <3>4, <3>5 DEF MayDo
    <3>7. \A x \in Users : x # q => t \notin user'[x].refs
      BY <1>1, <3>4, <3>6, PlaceKept
    <3>8. inode'[t].lock
      BY <1>1, <3>3, <3>4, <3>5 DEF MayDo
    <3>9. inode'[t].ino # Nil
      <4>1. ~(t = s /\ LosesNumber(p, s, i, r))
        <5> SUFFICES ASSUME t = s, LosesNumber(p, s, i, r) PROVE FALSE
          OBVIOUS
        <5>1. user[p].pc = "t_put" /\ s = user[p].slot /\ PlaceOK(user[p])
          BY DEF LosesNumber, PlaceInv
        <5>2. s \in user[p].refs
          BY <5>1 DEF PlaceOK, RefsOK, Puts
        <5> QED BY <3>5, <5>2
      <4>2. Nil \notin Inos /\ (t = s => SameNumber(s, i) \/ GetsNumber(s, i))
        BY <4>1, Constants DEF MayDo
      <4>3. SameNumber(s, i) \/ GetsNumber(s, i) => inode'[s].ino = inode[s].ino \/ inode'[s].ino # Nil
        BY <1>1, <4>2 DEF SameNumber, GetsNumber
      <4> QED BY <1>1, <3>3, <3>4, <4>2, <4>3
    <3> QED BY <3>1, <3>4, <3>7, <3>8, <3>9
  <2> QED BY <2>1, <2>2
<1> QED BY <1>2 DEF PutInv

(* A step that MayDo describes keeps everything but the types.             *)
Does(p) == \E s \in Table : \E i \in InodeRecords : \E r \in UserRecords : MayDo(p, s, i, r)

(* All parts of the invariant but the types of the numbers are kept.       *)
LEMMA DoesKeeps ==
  ASSUME TabInv, NEW p \in Users, Does(p)
  PROVE  /\ PlaceInv' /\ TableInv' /\ CountAccounts' /\ RefInv' /\ PutInv'
         /\ inode' \in [Table -> InodeRecords] /\ ifreel' \in Seq(Table) /\ user' \in [Users -> UserRecords]
<1>1. PICK s \in Table, i \in InodeRecords, r \in UserRecords : MayDo(p, s, i, r)
  BY DEF Does
<1>2. TypesInv /\ PlaceInv /\ TableInv /\ CountAccounts /\ RefInv /\ PutInv
  BY DEF TabInv
<1>3. PlaceInv'
  BY <1>1, <1>2, PlaceKept DEF MayDo
<1>4. TableInv' /\ ifreel' \in Seq(Table)
  BY <1>1, <1>2, TableKept
<1>5. CountAccounts'
  BY <1>1, <1>2, CountKept
<1>6. RefInv'
  BY <1>1, <1>2, RefKept
<1>7. PutInv'
  BY <1>1, <1>2, PutKept
<1>8. inode' \in [Table -> InodeRecords] /\ user' \in [Users -> UserRecords]
  BY <1>1, <1>2 DEF MayDo, TypesInv, Turns
<1> QED BY <1>3, <1>4, <1>5, <1>6, <1>7, <1>8

-----------------------------------------------------------------------------
(* The ways in which the actions give a process its next record.           *)
LEMMA GoesTurns ==
  ASSUME TypesInv, NEW p \in Users, NEW r \in UserRecords, PlaceOK(r), Goes(p, r)
  PROVE  /\ Turns(p, r) /\ running' \in Users \cup {Nil}
         /\ r.pc \notin {"idle", "open"} => running' = p
<1>1. Back(r) \in UserRecords
  BY BackIs
<1>2. user' = [user EXCEPT ![p] = Back(r)] /\ user \in [Users -> UserRecords]
  BY DEF Goes, TypesInv
<1>3. Turns(p, r)
  BY <1>1, <1>2 DEF Turns
<1> QED BY <1>3 DEF Goes, KeepsCpu, InUserMode

(* It gives the processor up where it may sleep.                           *)
LEMMA MaySleepTurns ==
  ASSUME TypesInv, NEW p \in Users, NEW r \in UserRecords, PlaceOK(r), r.pc # "idle", MaySleep(p, r)
  PROVE  Turns(p, r) /\ running' \in Users \cup {Nil}
<1>1. Back(r) = r
  BY BackIs
<1>2. user' = [user EXCEPT ![p] = r] /\ user \in [Users -> UserRecords] /\ running' = Nil
  BY DEF MaySleep, TypesInv
<1> QED BY <1>1, <1>2 DEF Turns

(* It sleeps.                                                              *)
LEMMA SleepsTurns ==
  ASSUME TypesInv, NEW p \in Users, NEW r \in UserRecords, PlaceOK(r), r.pc # "idle",
         NEW chan \in Table \cup {IlockChan}, Sleeps(p, chan, r)
  PROVE  /\ Turns(p, [r EXCEPT !.asleep = chan]) /\ running' \in Users \cup {Nil}
         /\ [r EXCEPT !.asleep = chan].refs = r.refs
         /\ [r EXCEPT !.asleep = chan].pc = r.pc /\ [r EXCEPT !.asleep = chan].slot = r.slot
<1> DEFINE n == [r EXCEPT !.asleep = chan]
<1>1. /\ n \in UserRecords /\ n.pc = r.pc /\ n.goal = r.goal /\ n.dir = r.dir /\ n.ino = r.ino
      /\ n.slot = r.slot /\ n.file = r.file /\ n.ret = r.ret /\ n.then = r.then
      /\ n.refs = r.refs /\ n.locks = r.locks /\ n.scan = r.scan
  BY DEF UserRecords
<1>2. user' = [user EXCEPT ![p] = n] /\ user \in [Users -> UserRecords] /\ running' = Nil
  BY DEF Sleeps, TypesInv
<1> HIDE DEF n
<1>3. PlaceOK(n)
  <2>1. RefsOK(n) <=> RefsOK(r)
    BY <1>1 DEF RefsOK, RefsAfter
  <2>2. CallOK(n) <=> CallOK(r)
    BY <1>1 DEF CallOK
  <2> QED BY <1>1, <2>1, <2>2 DEF PlaceOK
<1>4. Back(n) = n
  BY <1>1, <1>3, BackIs
<1>5. Turns(p, n)
  BY <1>1, <1>2, <1>3, <1>4 DEF Turns
<1> QED BY <1>1, <1>2, <1>5 DEF n

(* wakeup changes nothing but who sleeps.                                  *)
LEMMA WakeAllIs ==
  ASSUME TypesInv, NEW chan
  PROVE  /\ WakeAll(chan) \in [Users -> UserRecords]
         /\ \A q \in Users : WakeAll(chan)[q] \in {user[q], [user[q] EXCEPT !.asleep = Nil]}
<1>1. user \in [Users -> UserRecords]
  BY DEF TypesInv
<1>2. \A q \in Users : WakeAll(chan)[q] \in {user[q], [user[q] EXCEPT !.asleep = Nil]}
  BY DEF WakeAll
<1>3. \A q \in Users : WakeAll(chan)[q] \in UserRecords
  BY <1>1, <1>2, WokenIs
<1> QED BY <1>2, <1>3 DEF WakeAll

(* It unlocks s_ilock.                                                     *)
LEMMA IunlockTurns ==
  ASSUME TypesInv, NEW p \in Users, NEW r \in UserRecords, PlaceOK(r), r.pc # "idle", Iunlock(p, r)
  PROVE  Turns(p, r) /\ running' \in Users \cup {Nil} /\ s_ilock' \in BOOLEAN
<1>1. Back(r) = r
  BY BackIs
<1>2. user' = [WakeAll(IlockChan) EXCEPT ![p] = r] /\ running' \in {p, Nil} /\ s_ilock' = FALSE
  BY DEF Iunlock
<1> QED BY <1>1, <1>2, WakeAllIs DEF Turns

(* It unlocks an inode, and wakes those who wait for that.                 *)
LEMMA PreleTurns ==
  ASSUME TypesInv, NEW p \in Users, NEW s \in Table, NEW i \in InodeRecords, NEW r \in UserRecords,
         PlaceOK(r), Prele(p, s, i, r)
  PROVE  /\ Turns(p, r) /\ running' \in Users \cup {Nil}
         /\ \E n \in InodeRecords : /\ inode' = [inode EXCEPT ![s] = n]
                                    /\ n.ino = i.ino /\ n.count = i.count /\ n.dirty = i.dirty
<1>1. Back(r) \in UserRecords
  BY BackIs
<1> DEFINE u == IF inode[s].want THEN WakeAll(s) ELSE user
<1>2. /\ u \in [Users -> UserRecords]
      /\ \A q \in Users : u[q] \in {user[q], [user[q] EXCEPT !.asleep = Nil]}
  BY WakeAllIs DEF TypesInv
<1>3. user' = [u EXCEPT ![p] = Back(r)]
  BY DEF Prele
<1> HIDE DEF u
<1>4. Turns(p, r)
  BY <1>1, <1>2, <1>3 DEF Turns
<1> DEFINE n == [i EXCEPT !.lock = FALSE, !.want = FALSE]
<1>5. n \in InodeRecords /\ n.ino = i.ino /\ n.count = i.count /\ n.dirty = i.dirty
  BY DEF InodeRecords
<1>6. inode' = [inode EXCEPT ![s] = n]
  BY DEF Prele
<1> QED BY <1>4, <1>5, <1>6 DEF Prele, KeepsCpu, InUserMode

(* Where a process is that takes a step.                                   *)
LEMMA AtIs ==
  ASSUME TabInv, NEW p \in Users, NEW at, At(p, at)
  PROVE  /\ user[p] \in UserRecords /\ PlaceOK(user[p]) /\ RefsOK(user[p]) /\ CallOK(user[p])
         /\ user[p].locks \subseteq user[p].refs /\ user[p].pc = at /\ running \in {p, Nil}
         /\ user[p].refs \subseteq Table
         /\ inode \in [Table -> InodeRecords] /\ TypesInv /\ NumbersType
BY DEF TabInv, TypesInv, PlaceInv, PlaceOK, At, UserRecords

(* A step that leaves the inodes and p's references as they are.           *)
LEMMA QuietDoes ==
  ASSUME TabInv, NEW p \in Users, NEW r, Turns(p, r), running \in {p, Nil}, inode' = inode, ifreel' = ifreel,
         r.refs = user[p].refs, r.pc \notin {"igetwake", "t_free", "t_put"}, user[p].pc # "igetwake",
         r.refs = {} \/ user[p].goal # "sync"
  PROVE  Does(p)
<1> DEFINE i == inode[1]
<1>1. /\ 1 \in Table /\ inode \in [Table -> InodeRecords] /\ i \in InodeRecords /\ r \in UserRecords
      /\ inode' = [inode EXCEPT ![1] = i]
  BY Constants DEF TabInv, TypesInv, Turns
<1>2. \A t : (t \in r.refs <=> t \in user[p].refs) /\ (Waits(r, t) <=> Waits(user[p], t))
  BY DEF Waits
<1>3. i.count = inode[1].count + Uses(r, 1) - Uses(user[p], 1)
  <2>1. Uses(r, 1) = Uses(user[p], 1) /\ Uses(r, 1) \in Int
    BY <1>2 DEF Uses
  <2>2. i.count \in Int
    BY <1>1 DEF InodeRecords
  <2> QED BY <2>1, <2>2
<1>4. 1 \in r.refs => i.ino # Nil
  BY DEF TabInv, RefInv, Passing
<1>5. SameNumber(1, i)
  BY <1>1 DEF SameNumber, TabInv, TableInv
<1>6. MayDo(p, 1, i, r)
  BY <1>1, <1>2, <1>3, <1>4, <1>5 DEF MayDo
<1> QED BY <1>1, <1>6 DEF Does

(* The next call of iput.                                                  *)
LEMMA IputsIs ==
  ASSUME NEW o \in UserRecords, NEW s \in Table, NEW then \in Thens
  PROVE  LET r == Iputs(o, s, then)
         IN /\ r \in UserRecords /\ r.pc = "iput" /\ r.slot = s /\ r.then = then
            /\ r.goal = o.goal /\ r.dir = o.dir /\ r.ino = o.ino /\ r.file = o.file /\ r.ret = o.ret
            /\ r.refs = o.refs /\ r.locks = o.locks /\ r.scan = o.scan
<1> DEFINE r == [o EXCEPT !.pc = "iput", !.slot = s, !.then = then]
<1>1. then \in Labels /\ "iput" \in Labels
  BY DEF Labels, Thens, Puts
<1>2. /\ r \in UserRecords /\ r.pc = "iput" /\ r.slot = s /\ r.then = then
      /\ r.goal = o.goal /\ r.dir = o.dir /\ r.ino = o.ino /\ r.file = o.file /\ r.ret = o.ret
      /\ r.refs = o.refs /\ r.locks = o.locks /\ r.scan = o.scan
  BY <1>1 DEF UserRecords
<1> QED BY <1>2 DEF Iputs

(* The next call of iput is for the caller's directory.                    *)
LEMMA LeavesIs ==
  ASSUME NEW o \in UserRecords, CallOK(o), o.pc # "idle", NEW then \in Thens
  PROVE  LET r == Leaves(o, then)
         IN /\ r \in UserRecords /\ r.pc = "iput" /\ r.slot = o.dir /\ r.then = then
            /\ r.goal = o.goal /\ r.dir = o.dir /\ r.ino = o.ino /\ r.file = o.file /\ r.ret = o.ret
            /\ r.refs = o.refs /\ r.locks = o.locks /\ r.scan = o.scan
<1>1. o.dir \in Table
  BY Constants DEF CallOK
<1> QED BY <1>1, IputsIs DEF Leaves

(* A process that has only its directory puts it and returns.              *)
LEMMA LeavesPlace ==
  ASSUME NEW o \in UserRecords, CallOK(o), o.pc \notin {"idle", "update", "updated"} \cup Puts,
         o.refs = {o.dir}, o.locks \subseteq o.refs
  PROVE  /\ Leaves(o, "idle") \in UserRecords /\ PlaceOK(Leaves(o, "idle"))
         /\ Leaves(o, "idle").refs = o.refs /\ Leaves(o, "idle").pc = "iput" /\ o.goal # "sync"
<1> DEFINE r == Leaves(o, "idle")
<1>1. "idle" \in Thens
  BY DEF Thens
<1>2. /\ r \in UserRecords /\ r.pc = "iput" /\ r.slot = o.dir /\ r.then = "idle"
      /\ r.goal = o.goal /\ r.dir = o.dir /\ r.ino = o.ino /\ r.file = o.file /\ r.ret = o.ret
      /\ r.refs = o.refs /\ r.locks = o.locks
  BY <1>1, LeavesIs
<1> HIDE DEF r
<1>3. o.dir \in Dirs /\ o.dir \in Table /\ o.goal \in FileCalls /\ o.goal # "sync"
  BY Constants DEF CallOK
<1>4. RefsOK(r)
  BY <1>1, <1>2, <1>3 DEF RefsOK, RefsAfter, Puts, Results
<1>5. CallOK(r)
  BY <1>2, <1>3 DEF CallOK, Puts, Results
<1> QED BY <1>2, <1>3, <1>4, <1>5 DEF PlaceOK, r

-----------------------------------------------------------------------------
(* The actions, one by one: each does what MayDo allows and keeps the      *)
(* types of the rest.                                                      *)
LEMMA SyscallDoes == ASSUME TabInv, NEW p \in Users, Syscall(p) PROVE Does(p) /\ NumbersType'
<1> DEFINE o == user[p]
<1>1. /\ o \in UserRecords /\ RefsOK(o) /\ o.pc = "idle" /\ running \in {p, Nil} /\ TypesInv /\ NumbersType
      /\ UNCHANGED <<inode, ifreel, dinode, named, ialVars>>
  BY AtIs DEF Syscall
<1>2. PICK goal \in FileCalls, dir \in Dirs :
        LET r == [Fresh EXCEPT !.goal = goal, !.dir = dir]
        IN \/ goal = "sync" /\ Goes(p, [r EXCEPT !.pc = "update", !.scan = 1])
           \/ goal # "sync" /\ Goes(p, [r EXCEPT !.pc = "plock", !.slot = dir])
  <2>1. \A g \in Goals[p] : g[1] \in FileCalls /\ g[2] \in Dirs
    BY InodeConstants
  <2> QED BY <2>1 DEF Syscall
<1>3. dir \in Table /\ o.refs = {}
  BY <1>1, Constants DEF RefsOK
<1> DEFINE f == [Fresh EXCEPT !.goal = goal, !.dir = dir]
<1>4. f \in UserRecords /\ f.goal = goal /\ f.dir = dir /\ f.refs = {} /\ f.locks = {}
  <2>1. Fresh \in UserRecords /\ Fresh.refs = {} /\ Fresh.locks = {}
    BY DEF Fresh, UserRecords, Labels
  <2> QED BY <2>1 DEF UserRecords
<1>5. \/ goal = "sync" /\ Goes(p, [f EXCEPT !.pc = "update", !.scan = 1])
      \/ goal # "sync" /\ Goes(p, [f EXCEPT !.pc = "plock", !.slot = dir])
  BY <1>2
<1> HIDE DEF o, f
<1>6. CASE goal = "sync"
  <2> DEFINE r == [f EXCEPT !.pc = "update", !.scan = 1]
  <2>1. /\ r \in UserRecords /\ r.pc = "update" /\ r.goal = goal /\ r.dir = dir /\ r.refs = {}
        /\ r.locks = {}
    <3> DEFINE n == 1
    <3>1. n \in Int /\ "update" \in Labels
      BY DEF Labels
    <3> HIDE DEF n
    <3>2. [f EXCEPT !.pc = "update", !.scan = n] \in UserRecords
      BY <1>4, <3>1 DEF UserRecords
    <3>3. r \in UserRecords
      BY <3>2 DEF n
    <3>4. \A h \in {"goal", "dir", "refs", "locks"} : r[h] = f[h]
      BY <1>4 DEF UserRecords
    <3>5. r.pc = "update"
      BY <1>4 DEF UserRecords
    <3> QED BY <1>4, <3>3, <3>4, <3>5
  <2>2. Goes(p, r)
    BY <1>5, <1>6
  <2> HIDE DEF r
  <2>3. PlaceOK(r)
    BY <1>6, <2>1 DEF PlaceOK, RefsOK, CallOK, Puts, Results, FileCalls
  <2>4. Turns(p, r) /\ running' \in Users \cup {Nil}
    BY <1>1, <2>1, <2>2, <2>3, GoesTurns
  <2>5. Does(p)
    BY <1>1, <1>3, <2>1, <2>4, QuietDoes DEF o, ialVars, numbers
  <2> QED BY <1>1, <2>4, <2>5 DEF NumbersType, ialVars, numbers
<1>7. CASE goal # "sync"
  <2> DEFINE r == [f EXCEPT !.pc = "plock", !.slot = dir]
  <2>1. /\ r \in UserRecords /\ r.pc = "plock" /\ r.goal = goal /\ r.dir = dir /\ r.slot = dir /\ r.refs = {}
        /\ r.locks = {}
    BY <1>3, <1>4 DEF UserRecords, Labels
  <2>2. Goes(p, r)
    BY <1>5, <1>7
  <2> HIDE DEF r
  <2>3. PlaceOK(r)
    <3>1. RefsOK(r)
      BY <1>3, <2>1 DEF RefsOK, Puts, Results
    <3>2. CallOK(r)
      BY <1>3, <1>7, <2>1 DEF CallOK, Puts, Results
    <3> QED BY <2>1, <3>1, <3>2 DEF PlaceOK
  <2>4. Turns(p, r) /\ running' \in Users \cup {Nil}
    BY <1>1, <2>1, <2>2, <2>3, GoesTurns
  <2>5. Does(p)
    BY <1>1, <1>3, <2>1, <2>4, QuietDoes DEF o
  <2> QED BY <1>1, <2>4, <2>5 DEF NumbersType, ialVars, numbers
<1> QED BY <1>6, <1>7

(* close: closef locks the file, to which p has its reference.             *)
LEMMA CloseDoes == ASSUME TabInv, NEW p \in Users, Close(p) PROVE Does(p) /\ NumbersType'
<1> DEFINE o == user[p]
           r == [o EXCEPT !.pc = "plock"]
<1>1. /\ o \in UserRecords /\ RefsOK(o) /\ CallOK(o) /\ o.pc = "open" /\ running \in {p, Nil}
      /\ o.locks \subseteq o.refs /\ TypesInv /\ NumbersType
      /\ UNCHANGED <<inode, ifreel, dinode, named, ialVars>> /\ Goes(p, r)
  BY AtIs DEF Close
<1>2. /\ r \in UserRecords /\ r.pc = "plock" /\ r.slot = o.slot /\ r.refs = o.refs /\ r.locks = o.locks
      /\ r.goal = o.goal /\ r.dir = o.dir /\ r.ino = o.ino /\ r.ret = o.ret
  BY <1>1 DEF UserRecords, Labels
<1>3. o.slot \in Files /\ o.refs = {o.slot} /\ o.goal \in FileCalls /\ o.goal # "sync" /\ o.dir \in Dirs
  BY <1>1 DEF RefsOK, CallOK, Puts
<1> HIDE DEF o, r
<1>4. PlaceOK(r)
  <2>1. RefsOK(r)
    BY <1>2, <1>3 DEF RefsOK, Puts, Results, Files
  <2>2. CallOK(r)
    BY <1>2, <1>3 DEF CallOK, Puts, Results
  <2> QED BY <1>1, <1>2, <2>1, <2>2 DEF PlaceOK
<1>5. Turns(p, r) /\ running' \in Users \cup {Nil}
  BY <1>1, <1>2, <1>4, GoesTurns
<1>6. Does(p)
  BY <1>1, <1>2, <1>3, <1>5, QuietDoes DEF o
<1> QED BY <1>1, <1>5, <1>6 DEF NumbersType, ialVars, numbers

(* The caller of iget gets no inode, and has its directory only.           *)
LEMMA NoinodeDoes == ASSUME TabInv, NEW p \in Users, Noinode(p) PROVE Does(p) /\ NumbersType'
<1> DEFINE o == user[p]
           r == [o EXCEPT !.pc = o.ret, !.slot = Nil]
<1>1. /\ o \in UserRecords /\ RefsOK(o) /\ CallOK(o) /\ o.pc = "noinode" /\ running \in {p, Nil}
      /\ o.locks \subseteq o.refs /\ TypesInv /\ NumbersType
      /\ UNCHANGED <<inode, ifreel, dinode, named, ialVars>> /\ Goes(p, r)
  BY AtIs DEF Noinode
<1>2. /\ o.refs = {o.dir} /\ o.goal \in FileCalls /\ o.goal # "sync" /\ o.dir \in Dirs /\ o.ret \in Results
      /\ o.ino \in Inos
  BY <1>1 DEF RefsOK, CallOK, Puts
<1>3. /\ r \in UserRecords /\ r.pc = o.ret /\ r.slot = Nil /\ r.refs = o.refs /\ r.locks = o.locks
      /\ r.goal = o.goal /\ r.dir = o.dir /\ r.ino = o.ino
  BY <1>1, <1>2 DEF UserRecords
<1> HIDE DEF o, r
<1>4. PlaceOK(r)
  <2>1. RefsOK(r)
    BY <1>2, <1>3 DEF RefsOK, Puts, Results
  <2>2. CallOK(r)
    BY <1>2, <1>3 DEF CallOK, Puts, Results
  <2> QED BY <1>1, <1>3, <2>1, <2>2 DEF PlaceOK
<1>5. Turns(p, r) /\ running' \in Users \cup {Nil}
  BY <1>1, <1>3, <1>4, GoesTurns
<1>6. Does(p)
  BY <1>1, <1>2, <1>3, <1>5, QuietDoes DEF o, Results
<1> QED BY <1>1, <1>5, <1>6 DEF NumbersType, ialVars, numbers

(* A step that only puts the directory p is left with.                     *)
LEMMA LeavingDoes ==
  ASSUME TabInv, NEW p \in Users, NEW at, At(p, at), at \notin {"idle", "update", "updated", "igetwake"} \cup Puts,
         user[p].refs = {user[p].dir}, Goes(p, Leaves(user[p], "idle")), inode' = inode, ifreel' = ifreel
  PROVE  Does(p) /\ running' \in Users \cup {Nil}
<1> DEFINE o == user[p]
           r == Leaves(o, "idle")
<1>1. /\ o \in UserRecords /\ RefsOK(o) /\ CallOK(o) /\ o.pc = at /\ running \in {p, Nil}
      /\ o.locks \subseteq o.refs /\ TypesInv
  BY AtIs
<1>2. o.refs = {o.dir} /\ Goes(p, r)
  OBVIOUS
<1>3. r \in UserRecords /\ PlaceOK(r) /\ r.refs = o.refs /\ r.pc = "iput" /\ o.goal # "sync"
  BY <1>1, <1>2, LeavesPlace
<1> HIDE DEF r
<1>4. Turns(p, r) /\ running' \in Users \cup {Nil}
  BY <1>1, <1>2, <1>3, GoesTurns
<1> QED BY <1>1, <1>3, <1>4, QuietDoes

(* nami puts the directory of a name that has been removed.                *)
LEMMA LeaveDoes == ASSUME TabInv, NEW p \in Users, Leave(p) PROVE Does(p) /\ NumbersType'
<1>1. /\ At(p, "leave") /\ user[p].refs = {user[p].dir} /\ NumbersType
      /\ UNCHANGED <<inode, ifreel, dinode, named, ialVars>> /\ Goes(p, Leaves(user[p], "idle"))
  BY AtIs DEF Leave, RefsOK
<1>2. Does(p) /\ running' \in Users \cup {Nil}
  BY <1>1, LeavingDoes DEF Puts
<1> QED BY <1>1, <1>2 DEF NumbersType, ialVars, numbers

(* fsnami puts the directory and keeps the file, if there is one.          *)
LEMMA LookedDoes == ASSUME TabInv, NEW p \in Users, Looked(p) PROVE Does(p) /\ NumbersType'
<1> DEFINE o == user[p]
           then == IF o.slot = Nil THEN "idle" ELSE "use"
           m == Leaves(o, then)
           r == [m EXCEPT !.file = o.slot]
<1>1. /\ o \in UserRecords /\ RefsOK(o) /\ CallOK(o) /\ o.pc = "looked" /\ running \in {p, Nil}
      /\ o.locks \subseteq o.refs /\ TypesInv /\ NumbersType
      /\ UNCHANGED <<inode, ifreel, dinode, named, ialVars>> /\ Goes(p, r)
  BY AtIs DEF Looked
<1>2. /\ \/ o.slot = Nil /\ o.refs = {o.dir}
         \/ o.slot \in Files /\ o.refs = {o.dir, o.slot}
      /\ o.goal \in FileCalls /\ o.goal # "sync" /\ o.dir \in Dirs /\ o.dir \in Table /\ then \in Thens
  BY <1>1, Constants DEF RefsOK, CallOK, Puts, Results, Thens
<1> HIDE DEF o
<1>3. /\ m \in UserRecords /\ m.pc = "iput" /\ m.slot = o.dir /\ m.then = then
      /\ m.goal = o.goal /\ m.dir = o.dir /\ m.ino = o.ino /\ m.ret = o.ret
      /\ m.refs = o.refs /\ m.locks = o.locks
  BY <1>1, <1>2, LeavesIs
<1> HIDE DEF m
<1>4. /\ r \in UserRecords /\ r.pc = "iput" /\ r.slot = o.dir /\ r.then = then /\ r.file = o.slot
      /\ r.goal = o.goal /\ r.dir = o.dir /\ r.ino = o.ino /\ r.ret = o.ret
      /\ r.refs = o.refs /\ r.locks = o.locks
  BY <1>1, <1>3 DEF UserRecords
<1> HIDE DEF r
<1>5. PlaceOK(r)
  <2>1. CASE o.slot = Nil
    <3>1. RefsOK(r)
      BY <1>2, <1>4, <2>1, Constants DEF RefsOK, RefsAfter, Puts, Results, Thens, Files
    <3>2. CallOK(r)
      BY <1>2, <1>4, <2>1 DEF CallOK, Puts, Results
    <3> QED BY <1>1, <1>4, <3>1, <3>2 DEF PlaceOK
  <2>2. CASE o.slot # Nil
    <3>0. o.slot \in Files /\ o.slot # o.dir /\ o.refs = {o.dir, o.slot}
      BY <1>2, <2>2 DEF Files
    <3>1. RefsOK(r)
      BY <1>2, <1>4, <2>2, <3>0 DEF RefsOK, RefsAfter, Puts, Results, Thens
    <3>2. CallOK(r)
      BY <1>2, <1>4, <2>2 DEF CallOK, Puts, Results
    <3> QED BY <1>1, <1>4, <3>1, <3>2 DEF PlaceOK
  <2> QED BY <2>1, <2>2
<1>6. Turns(p, r) /\ running' \in Users \cup {Nil}
  BY <1>1, <1>4, <1>5, GoesTurns
<1>7. Does(p)
  BY <1>1, <1>2, <1>4, <1>6, QuietDoes DEF o
<1> QED BY <1>1, <1>6, <1>7 DEF NumbersType, ialVars, numbers

(* dormfile goes on with the inode it got, or gives up.                    *)
LEMMA DormfileDoes == ASSUME TabInv, NEW p \in Users, Dormfile(p) PROVE Does(p) /\ NumbersType'
<1> DEFINE o == user[p]
           r == [o EXCEPT !.pc = "removed"]
<1>1. /\ o \in UserRecords /\ RefsOK(o) /\ CallOK(o) /\ o.pc = "dormfile" /\ running \in {p, Nil}
      /\ o.locks \subseteq o.refs /\ TypesInv /\ NumbersType /\ At(p, "dormfile")
      /\ UNCHANGED <<inode, ifreel, dinode, named, ialVars>>
      /\ IF o.slot = Nil THEN Goes(p, Leaves(o, "idle")) ELSE MaySleep(p, r)
  BY AtIs DEF Dormfile
<1>2. /\ \/ o.slot = Nil /\ o.refs = {o.dir}
         \/ o.slot \in Files /\ o.refs = {o.dir, o.slot}
      /\ o.goal \in FileCalls /\ o.goal # "sync" /\ o.dir \in Dirs /\ o.ino \in Inos
  BY <1>1 DEF RefsOK, CallOK, Puts, Results
<1>3. CASE o.slot = Nil
  <2>1. o.refs = {o.dir} /\ Goes(p, Leaves(o, "idle"))
    BY <1>1, <1>2, <1>3, Constants DEF Files
  <2>2. Does(p) /\ running' \in Users \cup {Nil}
    BY <1>1, <2>1, LeavingDoes DEF Puts
  <2> QED BY <1>1, <2>2 DEF NumbersType, ialVars, numbers
<1>4. CASE o.slot # Nil
  <2> HIDE DEF o
  <2>1. /\ r \in UserRecords /\ r.pc = "removed" /\ r.slot = o.slot /\ r.refs = o.refs /\ r.locks = o.locks
        /\ r.goal = o.goal /\ r.dir = o.dir /\ r.ino = o.ino
    BY <1>1 DEF UserRecords, Labels
  <2> HIDE DEF r
  <2>2. PlaceOK(r)
    <3>1. RefsOK(r)
      BY <1>2, <1>4, <2>1 DEF RefsOK, Puts, Results
    <3>2. CallOK(r)
      BY <1>2, <2>1 DEF CallOK, Puts, Results
    <3> QED BY <1>1, <2>1, <3>1, <3>2 DEF PlaceOK
  <2>3. Turns(p, r) /\ running' \in Users \cup {Nil}
    BY <1>1, <1>4, <2>1, <2>2, MaySleepTurns
  <2>4. Does(p)
    BY <1>1, <1>2, <2>1, <2>3, QuietDoes DEF o
  <2> QED BY <1>1, <2>3, <2>4 DEF NumbersType, ialVars, numbers
<1> QED BY <1>3, <1>4

(* The new name is entered, and the directory put.                         *)
LEMMA EnterNameDoes == ASSUME TabInv, NEW p \in Users, EnterName(p) PROVE Does(p) /\ NumbersType'
<1> DEFINE o == user[p]
           r == Leaves(o, "use")
<1>1. /\ o \in UserRecords /\ RefsOK(o) /\ CallOK(o) /\ o.pc = "enter" /\ running \in {p, Nil}
      /\ o.locks \subseteq o.refs /\ TypesInv /\ NumbersType /\ Goes(p, r)
      /\ UNCHANGED <<inode, ifreel, dinode, ialVars>>
      /\ named' = [named EXCEPT ![o.dir] = @ \cup {o.ino}]
  BY AtIs DEF EnterName
<1>2. /\ o.file \in Files /\ o.refs = {o.dir, o.file} /\ "use" \in Thens /\ o.file # o.dir
      /\ o.goal \in FileCalls /\ o.goal # "sync" /\ o.dir \in Dirs /\ o.ino \in Inos /\ o.dir \in Table
  BY <1>1, Constants DEF RefsOK, CallOK, Puts, Results, Thens, Files
<1> HIDE DEF o
<1>3. /\ r \in UserRecords /\ r.pc = "iput" /\ r.slot = o.dir /\ r.then = "use" /\ r.file = o.file
      /\ r.goal = o.goal /\ r.dir = o.dir /\ r.ino = o.ino /\ r.refs = o.refs /\ r.locks = o.locks
  BY <1>1, <1>2, LeavesIs
<1> HIDE DEF r
<1>4. PlaceOK(r)
  <2>1. RefsOK(r)
    BY <1>2, <1>3 DEF RefsOK, RefsAfter, Puts, Results, Thens
  <2>2. CallOK(r)
    BY <1>2, <1>3 DEF CallOK, Puts, Results
  <2> QED BY <1>1, <1>3, <2>1, <2>2 DEF PlaceOK
<1>5. Turns(p, r) /\ running' \in Users \cup {Nil}
  BY <1>1, <1>3, <1>4, GoesTurns
<1>6. Does(p)
  BY <1>1, <1>2, <1>3, <1>5, QuietDoes DEF o
<1>7. named' \in [Dirs -> SUBSET Inos]
  BY <1>1, <1>2 DEF NumbersType
<1> QED BY <1>1, <1>5, <1>6, <1>7 DEF NumbersType, ialVars, numbers

-----------------------------------------------------------------------------
(* A step that changes an inode p has a reference to, and keeps that.      *)
Own(p, s, i, r) ==
  /\ Turns(p, r) /\ running \in {p, Nil} /\ inode' = [inode EXCEPT ![s] = i] /\ ifreel' = ifreel
  /\ s \in user[p].refs /\ i.ino = inode[s].ino /\ i.count = inode[s].count
  /\ r.refs = user[p].refs /\ r.pc \notin {"igetwake", "t_free", "t_put"} /\ user[p].pc # "igetwake"
  /\ user[p].goal # "sync"

(* Such a step is one that MayDo describes.                                *)
LEMMA OwnDoes ==
  ASSUME TabInv, NEW p \in Users, NEW s \in Table, NEW i \in InodeRecords, NEW r, Own(p, s, i, r)
  PROVE  Does(p)
<1>0. /\ Turns(p, r) /\ running \in {p, Nil} /\ inode' = [inode EXCEPT ![s] = i] /\ ifreel' = ifreel
      /\ s \in user[p].refs /\ i.ino = inode[s].ino /\ i.count = inode[s].count
      /\ r.refs = user[p].refs /\ r.pc \notin {"igetwake", "t_free", "t_put"} /\ user[p].pc # "igetwake"
      /\ user[p].goal # "sync"
  BY DEF Own
<1>1. inode[s] \in InodeRecords /\ r \in UserRecords
  BY <1>0 DEF TabInv, TypesInv, Turns
<1>2. \A t : (t \in r.refs <=> t \in user[p].refs) /\ (Waits(r, t) <=> Waits(user[p], t))
  BY <1>0 DEF Waits
<1>3. i.count = inode[s].count + Uses(r, s) - Uses(user[p], s)
  <2>1. Uses(r, s) = Uses(user[p], s) /\ Uses(r, s) \in Int
    BY <1>2 DEF Uses
  <2>2. i.count \in Int
    BY DEF InodeRecords
  <2> QED BY <1>0, <2>1, <2>2
<1>4. i.ino # Nil
  BY <1>0 DEF TabInv, RefInv, Passing
<1>5. SameNumber(s, i)
  BY <1>0, <1>4 DEF SameNumber
<1>6. MayDo(p, s, i, r)
  BY <1>0, <1>2, <1>3, <1>4, <1>5 DEF MayDo
<1> QED BY <1>1, <1>6 DEF Does

(* The link count of an inode p has a reference to goes down.              *)
LEMMA RemovedDoes == ASSUME TabInv, NEW p \in Users, Removed(p) PROVE Does(p) /\ NumbersType'
<1> DEFINE o == user[p]
           s == o.slot
           r == Iputs(o, s, "leave")
           i == [inode[s] EXCEPT !.nlink = @ - 1, !.dirty = TRUE]
<1>1. /\ o \in UserRecords /\ RefsOK(o) /\ CallOK(o) /\ o.pc = "removed" /\ running \in {p, Nil}
      /\ o.locks \subseteq o.refs /\ TypesInv /\ NumbersType /\ Goes(p, r)
      /\ inode \in [Table -> InodeRecords]
      /\ UNCHANGED <<ifreel, dinode, ialVars>>
      /\ named' = [named EXCEPT ![o.dir] = @ \ {o.ino}]
      /\ inode' = [inode EXCEPT ![s].nlink = @ - 1, ![s].dirty = TRUE]
  BY AtIs DEF Removed
<1>2. /\ s \in Files /\ s \in Table /\ o.refs = {o.dir, s} /\ "leave" \in Thens /\ s # o.dir /\ s \in o.refs
      /\ o.goal \in FileCalls /\ o.goal # "sync" /\ o.dir \in Dirs
  BY <1>1, Constants DEF RefsOK, CallOK, Puts, Results, Thens, Files
<1> HIDE DEF o, s
<1>3. i \in InodeRecords /\ i.ino = inode[s].ino /\ i.count = inode[s].count
  <2> DEFINE j == inode[s]
             l == j.nlink - 1
  <2>1. j \in InodeRecords /\ j.nlink \in Int
    BY <1>1, <1>2 DEF InodeRecords
  <2>2. l \in Int
    BY <2>1
  <2>3. i = [j EXCEPT !.nlink = l, !.dirty = TRUE]
    OBVIOUS
  <2> HIDE DEF i, j, l
  <2>4. i \in InodeRecords /\ i.ino = j.ino /\ i.count = j.count
    BY <2>1, <2>2, <2>3 DEF InodeRecords
  <2> QED BY <2>4 DEF j
<1>4. inode' = [inode EXCEPT ![s] = i]
  <2>1. inode[s] \in InodeRecords
    BY <1>1, <1>2
  <2>2. inode' = [[inode EXCEPT ![s].nlink = @ - 1] EXCEPT ![s].dirty = TRUE]
    BY <1>1
  <2>3. \A t \in Table : inode'[t] = IF t = s THEN i ELSE inode[t]
    BY <1>1, <1>2, <2>1, <2>2 DEF InodeRecords
  <2>4. DOMAIN inode' = Table /\ inode' = [t \in Table |-> inode'[t]]
    BY <1>1, <2>2
  <2> HIDE DEF i
  <2> QED BY <1>1, <2>3, <2>4
<1> HIDE DEF i
<1>5. /\ r \in UserRecords /\ r.pc = "iput" /\ r.slot = s /\ r.then = "leave"
      /\ r.goal = o.goal /\ r.dir = o.dir /\ r.refs = o.refs /\ r.locks = o.locks
  <2>1. o \in UserRecords /\ s \in Table /\ "leave" \in Thens
    BY <1>1, <1>2
  <2> QED BY ONLY <2>1, IputsIs
<1> HIDE DEF r
<1>6. PlaceOK(r)
  <2>1. RefsOK(r)
    BY <1>2, <1>5 DEF RefsOK, RefsAfter, Puts, Results, Thens
  <2>2. CallOK(r)
    BY <1>2, <1>5 DEF CallOK, Puts, Results
  <2> QED BY <1>1, <1>5, <2>1, <2>2 DEF PlaceOK
<1>7. Turns(p, r) /\ running' \in Users \cup {Nil}
  BY <1>1, <1>5, <1>6, GoesTurns
<1>8. Does(p)
  <2>1. Own(p, s, i, r)
    BY <1>1, <1>2, <1>3, <1>4, <1>5, <1>7 DEF o, Own
  <2> QED BY <1>2, <1>3, <2>1, OwnDoes
<1>9. named' \in [Dirs -> SUBSET Inos]
  BY <1>1, <1>2 DEF NumbersType
<1> QED BY <1>1, <1>7, <1>8, <1>9 DEF NumbersType, ialVars, numbers

(* An inode that has something to be written has a number, so that it is   *)
(* written to its own place on the disk.                                   *)
LEMMA WrittenIs ==
  ASSUME NumbersType, NEW i \in InodeRecords
  PROVE  Written(i) \in [Inos \cup DirNumbers -> DiskRecords]
<1>1. OnDisk(i) \in DiskRecords
  BY DEF OnDisk, InodeRecords, DiskRecords
<1> QED BY <1>1 DEF Written, NumbersType

(* fsiupdat keeps the types of the disk, also when it fails.               *)
LEMMA FsiupdatIs ==
  ASSUME NumbersType, NEW i \in InodeRecords, Fsiupdat(i) \/ FsiupdatFails(i)
  PROVE  dinode' \in [Inos \cup DirNumbers -> DiskRecords]
BY WrittenIs DEF Fsiupdat, FsiupdatFails, NumbersType

(* The new inode is written to its place on the disk.                      *)
LEMMA IupdatDoes == ASSUME TabInv, NEW p \in Users, Iupdat(p) PROVE Does(p) /\ NumbersType'
<1> DEFINE o == user[p]
           s == o.file
           r == [o EXCEPT !.pc = "enter"]
           clean == [inode[s] EXCEPT !.dirty = FALSE]
           i == IF inode' = inode THEN inode[s] ELSE clean
<1>1. /\ o \in UserRecords /\ RefsOK(o) /\ CallOK(o) /\ o.pc = "iupdat" /\ running \in {p, Nil}
      /\ o.locks \subseteq o.refs /\ TypesInv /\ NumbersType /\ MaySleep(p, r)
      /\ inode \in [Table -> InodeRecords]
      /\ UNCHANGED <<ifreel, named, numbers>>
      /\ Fsiupdat(inode[s]) \/ FsiupdatFails(inode[s])
      /\ inode' = [inode EXCEPT ![s].dirty = FALSE] \/ inode' = inode
  BY AtIs DEF Iupdat
<1>2. /\ s \in Files /\ s \in Table /\ o.refs = {o.dir, s} /\ s \in o.refs
      /\ o.goal \in FileCalls /\ o.goal # "sync" /\ o.dir \in Dirs /\ o.ino \in Inos
  BY <1>1, Constants DEF RefsOK, CallOK, Puts, Results, Thens, Files
<1> HIDE DEF o, s
<1>3. i \in InodeRecords /\ i.ino = inode[s].ino /\ i.count = inode[s].count /\ inode[s] \in InodeRecords
  <2>1. inode[s] \in InodeRecords
    BY <1>1, <1>2
  <2>2. clean \in InodeRecords /\ clean.ino = inode[s].ino /\ clean.count = inode[s].count
    BY <2>1 DEF InodeRecords
  <2> HIDE DEF clean
  <2> QED BY <2>1, <2>2
<1>4. inode' = [inode EXCEPT ![s] = i]
  <2>1. inode' # inode => inode' = [inode EXCEPT ![s] = clean]
    BY <1>1, <1>2 DEF InodeRecords
  <2> HIDE DEF clean
  <2> QED BY <1>1, <1>2, <2>1
<1> HIDE DEF i
<1>5. /\ r \in UserRecords /\ r.pc = "enter" /\ r.file = s
      /\ r.goal = o.goal /\ r.dir = o.dir /\ r.refs = o.refs /\ r.locks = o.locks /\ r.ino = o.ino
  BY <1>1, <1>2 DEF UserRecords, Labels, s
<1> HIDE DEF r
<1>6. PlaceOK(r)
  <2>1. RefsOK(r)
    BY <1>2, <1>5 DEF RefsOK, Puts, Results
  <2>2. CallOK(r)
    BY <1>2, <1>5 DEF CallOK, Puts, Results
  <2> QED BY <1>1, <1>5, <2>1, <2>2 DEF PlaceOK
<1>7. Turns(p, r) /\ running' \in Users \cup {Nil}
  BY <1>1, <1>5, <1>6, MaySleepTurns
<1>8. Does(p)
  <2>1. Own(p, s, i, r)
    BY <1>1, <1>2, <1>3, <1>4, <1>5, <1>7 DEF o, Own
  <2> QED BY <1>2, <1>3, <2>1, OwnDoes
<1>9. dinode' \in [Inos \cup DirNumbers -> DiskRecords]
  BY <1>1, <1>3, FsiupdatIs
<1> QED BY <1>1, <1>7, <1>8, <1>9 DEF NumbersType, numbers

(* The caller puts the file, or unlocks it and keeps it open.              *)
LEMMA UseDoes == ASSUME TabInv, NEW p \in Users, Use(p) PROVE Does(p) /\ NumbersType'
<1> DEFINE o == user[p]
           s == o.file
<1>1. /\ o \in UserRecords /\ RefsOK(o) /\ CallOK(o) /\ o.pc = "use" /\ running \in {p, Nil}
      /\ o.locks \subseteq o.refs /\ TypesInv /\ NumbersType
      /\ inode \in [Table -> InodeRecords]
      /\ UNCHANGED <<ifreel, dinode, named, ialVars>>
      /\ \/ UNCHANGED inode /\ MaySleep(p, Iputs(o, s, "idle"))
         \/ Prele(p, s, inode[s], [o EXCEPT !.pc = "open", !.slot = s, !.locks = @ \ {s}])
  BY AtIs DEF Use
<1>2. /\ s \in Files /\ s \in Table /\ o.refs = {s} /\ s \in o.refs
      /\ o.goal \in FileCalls /\ o.goal # "sync" /\ o.dir \in Dirs /\ "idle" \in Thens
      /\ inode[s] \in InodeRecords
  BY <1>1, Constants DEF RefsOK, CallOK, Puts, Results, Thens, Files
<1> HIDE DEF o
<1>3. CASE UNCHANGED inode /\ MaySleep(p, Iputs(o, s, "idle"))
  <2> DEFINE r == Iputs(o, s, "idle")
  <2>1. /\ r \in UserRecords /\ r.pc = "iput" /\ r.slot = s /\ r.then = "idle"
        /\ r.goal = o.goal /\ r.dir = o.dir /\ r.refs = o.refs /\ r.locks = o.locks
    BY <1>1, <1>2, IputsIs
  <2>0. MaySleep(p, r)
    BY <1>3
  <2> HIDE DEF r, s
  <2>2. RefsOK(r)
    BY <1>2, <2>1 DEF RefsOK, RefsAfter, Puts, Results, Thens
  <2>3. CallOK(r)
    BY <1>2, <2>1 DEF CallOK, Puts, Results
  <2>4. PlaceOK(r)
    BY <1>1, <2>1, <2>2, <2>3 DEF PlaceOK
  <2>5. Turns(p, r) /\ running' \in Users \cup {Nil}
    BY <1>1, <2>0, <2>1, <2>4, MaySleepTurns
  <2>6. Does(p)
    BY <1>1, <1>2, <1>3, <2>1, <2>5, QuietDoes DEF o
  <2> QED BY <1>1, <2>5, <2>6 DEF NumbersType, ialVars, numbers
<1>4. CASE Prele(p, s, inode[s], [o EXCEPT !.pc = "open", !.slot = s, !.locks = @ \ {s}])
  <2> DEFINE r == [o EXCEPT !.pc = "open", !.slot = s, !.locks = @ \ {s}]
  <2>1. /\ r \in UserRecords /\ r.pc = "open" /\ r.slot = s
        /\ r.goal = o.goal /\ r.dir = o.dir /\ r.refs = o.refs /\ r.locks = o.locks \ {s}
    BY <1>1, <1>2 DEF UserRecords, Labels
  <2>0. Prele(p, s, inode[s], r)
    BY <1>4
  <2> HIDE DEF r, s
  <2>2. RefsOK(r)
    BY <1>2, <2>1 DEF RefsOK, Puts, Results
  <2>3. CallOK(r)
    BY <1>2, <2>1 DEF CallOK, Puts, Results
  <2>4. PlaceOK(r)
    BY <1>1, <2>1, <2>2, <2>3 DEF PlaceOK
  <2>5. Turns(p, r) /\ running' \in Users \cup {Nil}
    BY <1>1, <1>2, <2>0, <2>1, <2>4, PreleTurns
  <2>6. PICK n \in InodeRecords : /\ inode' = [inode EXCEPT ![s] = n]
                                  /\ n.ino = inode[s].ino /\ n.count = inode[s].count
    BY <1>1, <1>2, <2>0, <2>1, <2>4, PreleTurns
  <2>7. Does(p)
    <3>1. Own(p, s, n, r)
      BY <1>1, <1>2, <2>1, <2>5, <2>6 DEF o, Own
    <3> QED BY <1>2, <3>1, OwnDoes
  <2> QED BY <1>1, <2>5, <2>7 DEF NumbersType, ialVars, numbers
<1> QED BY <1>1, <1>3, <1>4

(* A process that goes to look for inode n, and comes back to ret.         *)
Igets(o, n, ret, locks) == [o EXCEPT !.pc = "iget", !.ino = n, !.ret = ret, !.locks = locks]

(* Nothing else of p changes.                                              *)
LEMMA IgetsIs ==
  ASSUME NEW o \in UserRecords, NEW n \in Inos, NEW ret \in Results, NEW locks \in SUBSET Table
  PROVE  /\ Igets(o, n, ret, locks) \in UserRecords /\ Igets(o, n, ret, locks).pc = "iget"
         /\ Igets(o, n, ret, locks).ino = n /\ Igets(o, n, ret, locks).ret = ret
         /\ Igets(o, n, ret, locks).locks = locks /\ Igets(o, n, ret, locks).goal = o.goal
         /\ Igets(o, n, ret, locks).dir = o.dir /\ Igets(o, n, ret, locks).refs = o.refs
<1> DEFINE r == [o EXCEPT !.pc = "iget", !.ino = n, !.ret = ret, !.locks = locks]
<1>1. "iget" \in Labels /\ ret \in Labels
  BY DEF Labels, Results
<1>2. r \in UserRecords
  BY <1>1 DEF UserRecords
<1>3. r.pc = "iget" /\ r.ino = n /\ r.ret = ret /\ r.locks = locks
  BY DEF UserRecords
<1>4. r.goal = o.goal /\ r.dir = o.dir /\ r.refs = o.refs
  BY DEF UserRecords
<1> QED BY <1>2, <1>3, <1>4 DEF Igets

(* With the number it has found p goes on to iget; a lookup unlocks.       *)
LEMMA DsearchDoes == ASSUME TabInv, NEW p \in Users, Dsearch(p) PROVE Does(p) /\ NumbersType'
<1> DEFINE o == user[p]
           d == o.dir
<1>1. /\ o \in UserRecords /\ RefsOK(o) /\ CallOK(o) /\ o.pc = "dsearch" /\ running \in {p, Nil}
      /\ o.locks \subseteq o.refs /\ TypesInv /\ NumbersType /\ At(p, "dsearch")
      /\ inode \in [Table -> InodeRecords]
      /\ UNCHANGED <<ifreel, dinode, named, ialVars>>
  BY AtIs DEF Dsearch
<1>2. /\ o.refs = {d} /\ d \in Dirs /\ d \in Table /\ o.goal \in FileCalls /\ o.goal # "sync"
      /\ inode[d] \in InodeRecords /\ named[d] \subseteq Inos
  BY <1>1, Constants DEF RefsOK, CallOK, Puts, NumbersType
<1>3. \/ o.goal = "look" /\ \E n \in named[d] : Prele(p, d, inode[d],
              [o EXCEPT !.pc = "iget", !.ino = n, !.ret = "looked", !.locks = @ \ {d}])
      \/ UNCHANGED inode /\ \E n \in named[d] : Goes(p, [o EXCEPT !.pc = "iget", !.ino = n, !.ret = "dormfile"])
      \/ UNCHANGED inode /\ Goes(p, [o EXCEPT !.pc = "ialloc"])
      \/ UNCHANGED inode /\ Goes(p, Leaves(o, "idle"))
  BY DEF Dsearch
<1>7. ASSUME UNCHANGED inode, Goes(p, Leaves(o, "idle"))
      PROVE  Does(p) /\ running' \in Users \cup {Nil}
  <2>1. user[p].refs = {user[p].dir} /\ ifreel' = ifreel
    BY <1>1, <1>2
  <2> QED BY <1>1, <1>7, <2>1, LeavingDoes DEF Puts
<1> HIDE DEF o, d
<1>4. ASSUME NEW n \in named[d],
             Prele(p, d, inode[d], [o EXCEPT !.pc = "iget", !.ino = n, !.ret = "looked", !.locks = @ \ {d}])
      PROVE  Does(p) /\ running' \in Users \cup {Nil}
  <2> DEFINE r == [o EXCEPT !.pc = "iget", !.ino = n, !.ret = "looked", !.locks = @ \ {d}]
  <2>0. n \in Inos
    BY <1>2, <1>4
  <2>1. /\ r \in UserRecords /\ r.pc = "iget" /\ r.ino = n /\ r.ret = "looked"
        /\ r.goal = o.goal /\ r.dir = o.dir /\ r.refs = o.refs /\ r.locks = o.locks \ {d}
    <3> DEFINE locks == o.locks \ {d}
    <3>1. locks \in SUBSET Table /\ "looked" \in Results /\ o \in UserRecords
      BY <1>1 DEF UserRecords, Results
    <3>2. r = Igets(o, n, "looked", locks)
      BY DEF Igets
    <3> HIDE DEF locks, r
    <3> DEFINE x == Igets(o, n, "looked", locks)
    <3>3. /\ x \in UserRecords /\ x.pc = "iget" /\ x.ino = n /\ x.ret = "looked" /\ x.locks = locks
          /\ x.goal = o.goal /\ x.dir = o.dir /\ x.refs = o.refs
      BY ONLY <2>0, <3>1, IgetsIs
    <3> QED BY <3>2, <3>3 DEF locks
  <2>2. Prele(p, d, inode[d], r)
    BY <1>4
  <2> HIDE DEF r
  <2>3. RefsOK(r)
    BY <1>2, <2>1 DEF RefsOK, Puts, Results, d
  <2>4. CallOK(r)
    BY <1>2, <2>0, <2>1 DEF CallOK, Puts, Results, d
  <2>5. PlaceOK(r)
    BY <1>1, <2>1, <2>3, <2>4 DEF PlaceOK
  <2>6. /\ Turns(p, r) /\ running' \in Users \cup {Nil}
        /\ \E i \in InodeRecords : /\ inode' = [inode EXCEPT ![d] = i]
                                   /\ i.ino = inode[d].ino /\ i.count = inode[d].count
    BY <1>1, <1>2, <2>1, <2>2, <2>5, PreleTurns
  <2>7. PICK i \in InodeRecords : /\ inode' = [inode EXCEPT ![d] = i]
                                  /\ i.ino = inode[d].ino /\ i.count = inode[d].count
    BY <2>6
  <2>8. Own(p, d, i, r)
    BY <1>1, <1>2, <2>1, <2>6, <2>7 DEF o, Own
  <2> QED BY <1>2, <2>6, <2>8, OwnDoes
<1>5. ASSUME NEW n \in named[d], UNCHANGED inode, Goes(p, [o EXCEPT !.pc = "iget", !.ino = n, !.ret = "dormfile"])
      PROVE  Does(p) /\ running' \in Users \cup {Nil}
  <2> DEFINE r == [o EXCEPT !.pc = "iget", !.ino = n, !.ret = "dormfile"]
  <2>0. n \in Inos
    BY <1>2, <1>5
  <2>1. /\ r \in UserRecords /\ r.pc = "iget" /\ r.ino = n /\ r.ret = "dormfile"
        /\ r.goal = o.goal /\ r.dir = o.dir /\ r.refs = o.refs /\ r.locks = o.locks
    <3> DEFINE locks == o.locks
    <3>1. locks \in SUBSET Table /\ "dormfile" \in Results /\ o \in UserRecords
      BY <1>1 DEF UserRecords, Results
    <3>2. r = Igets(o, n, "dormfile", locks)
      BY <1>1 DEF Igets, UserRecords
    <3> HIDE DEF locks, r
    <3> DEFINE x == Igets(o, n, "dormfile", locks)
    <3>3. /\ x \in UserRecords /\ x.pc = "iget" /\ x.ino = n /\ x.ret = "dormfile" /\ x.locks = locks
          /\ x.goal = o.goal /\ x.dir = o.dir /\ x.refs = o.refs
      BY ONLY <2>0, <3>1, IgetsIs
    <3> QED BY <3>2, <3>3 DEF locks
  <2>2. Goes(p, r)
    BY <1>5
  <2> HIDE DEF r
  <2>3. RefsOK(r)
    BY <1>2, <2>1 DEF RefsOK, Puts, Results, d
  <2>4. CallOK(r)
    BY <1>2, <2>0, <2>1 DEF CallOK, Puts, Results, d
  <2>5. PlaceOK(r)
    BY <1>1, <2>1, <2>3, <2>4 DEF PlaceOK
  <2>6. Turns(p, r) /\ running' \in Users \cup {Nil}
    BY <1>1, <2>1, <2>2, <2>5, GoesTurns
  <2>7. Does(p)
    BY <1>1, <1>2, <1>5, <2>1, <2>6, QuietDoes DEF o
  <2> QED BY <2>6, <2>7
<1>6. ASSUME UNCHANGED inode, Goes(p, [o EXCEPT !.pc = "ialloc"])
      PROVE  Does(p) /\ running' \in Users \cup {Nil}
  <2> DEFINE r == [o EXCEPT !.pc = "ialloc"]
  <2>1. /\ r \in UserRecords /\ r.pc = "ialloc"
        /\ r.goal = o.goal /\ r.dir = o.dir /\ r.refs = o.refs /\ r.locks = o.locks
    BY <1>1 DEF UserRecords, Labels
  <2>2. Goes(p, r)
    BY <1>6
  <2> HIDE DEF r
  <2>3. RefsOK(r)
    BY <1>2, <2>1 DEF RefsOK, Puts, Results, d
  <2>4. CallOK(r)
    BY <1>2, <2>1 DEF CallOK, Puts, Results, d
  <2>5. PlaceOK(r)
    BY <1>1, <2>1, <2>3, <2>4 DEF PlaceOK
  <2>6. Turns(p, r) /\ running' \in Users \cup {Nil}
    BY <1>1, <2>1, <2>2, <2>5, GoesTurns
  <2>7. Does(p)
    BY <1>1, <1>2, <1>6, <2>1, <2>6, QuietDoes DEF o
  <2> QED BY <2>6, <2>7
<1>8. Does(p) /\ running' \in Users \cup {Nil}
  BY <1>3, <1>4, <1>5, <1>6, <1>7
<1> QED BY <1>1, <1>8 DEF NumbersType, ialVars, numbers

(* ialloc waits for s_ilock, or has it.                                    *)
LEMMA IallocDoes == ASSUME TabInv, NEW p \in Users, Ialloc(p) PROVE Does(p) /\ NumbersType'
<1> DEFINE o == user[p]
           r == [o EXCEPT !.pc = "iloop"]
           z == [o EXCEPT !.asleep = IlockChan]
<1>1. /\ o \in UserRecords /\ RefsOK(o) /\ CallOK(o) /\ PlaceOK(o) /\ o.pc = "ialloc" /\ running \in {p, Nil}
      /\ o.locks \subseteq o.refs /\ TypesInv /\ NumbersType
      /\ UNCHANGED <<inode, ifreel, dinode, named, s_inode, spoilt>>
      /\ \/ Sleeps(p, IlockChan, o) /\ UNCHANGED s_ilock
         \/ s_ilock' = TRUE /\ Goes(p, r)
  BY AtIs DEF Ialloc
<1>2. o.refs = {o.dir} /\ o.goal \in FileCalls /\ o.goal # "sync" /\ o.dir \in Dirs
  BY <1>1 DEF RefsOK, CallOK, Puts
<1> HIDE DEF o
<1>3. CASE Sleeps(p, IlockChan, o) /\ UNCHANGED s_ilock
  <2>1. Turns(p, z) /\ running' \in Users \cup {Nil} /\ z.refs = o.refs /\ z.pc = o.pc
    BY <1>1, <1>3, SleepsTurns
  <2> HIDE DEF z
  <2>2. Does(p)
    BY <1>1, <1>2, <2>1, QuietDoes DEF o
  <2> QED BY <1>1, <1>3, <2>1, <2>2 DEF NumbersType
<1>4. CASE s_ilock' = TRUE /\ Goes(p, r)
  <2>1. /\ r \in UserRecords /\ r.pc = "iloop"
        /\ r.goal = o.goal /\ r.dir = o.dir /\ r.refs = o.refs /\ r.locks = o.locks
    BY <1>1 DEF UserRecords, Labels
  <2> HIDE DEF r
  <2>2. RefsOK(r)
    BY <1>2, <2>1 DEF RefsOK, Puts, Results
  <2>3. CallOK(r)
    BY <1>2, <2>1 DEF CallOK, Puts, Results
  <2>4. PlaceOK(r)
    BY <1>1, <2>1, <2>2, <2>3 DEF PlaceOK
  <2>5. Turns(p, r) /\ running' \in Users \cup {Nil}
    BY <1>1, <1>4, <2>1, <2>4, GoesTurns
  <2>6. Does(p)
    BY <1>1, <1>2, <2>1, <2>5, QuietDoes DEF o
  <2> QED BY <1>1, <1>4, <2>5, <2>6 DEF NumbersType
<1> QED BY <1>1, <1>3, <1>4

(* Taking the last number of a sequence leaves a sequence.                 *)
LEMMA FrontIs ==
  ASSUME NEW S, NEW q \in Seq(S), q # <<>>
  PROVE  Front(q) \in Seq(S) /\ Last(q) \in S
<1>1. Len(q) \in Nat /\ Len(q) # 0 /\ \A k \in 1 .. Len(q) : q[k] \in S
  BY LenProperties, EmptySeq, ElementOfSeq
<1>2. Last(q) \in S
  BY <1>1 DEF Last
<1>3. SubSeq(q, 1, Len(q) - 1) \in Seq(S)
  BY <1>1, SubSeqProperties
<1> QED BY <1>2, <1>3 DEF Front

(* ialloc takes the last of the free numbers, or searches for some.        *)
LEMMA IloopDoes == ASSUME TabInv, NEW p \in Users, Iloop(p) PROVE Does(p) /\ NumbersType'
<1> DEFINE o == user[p]
<1>1. /\ o \in UserRecords /\ RefsOK(o) /\ CallOK(o) /\ o.pc = "iloop" /\ running \in {p, Nil}
      /\ o.locks \subseteq o.refs /\ TypesInv /\ NumbersType
      /\ UNCHANGED <<inode, ifreel, dinode, named, s_ilock, spoilt>>
  BY AtIs DEF Iloop
<1>2. o.refs = {o.dir} /\ o.goal \in FileCalls /\ o.goal # "sync" /\ o.dir \in Dirs
  BY <1>1 DEF RefsOK, CallOK, Puts
<1>3. \/ /\ s_inode # <<>> /\ s_inode' = Front(s_inode)
         /\ Goes(p, [o EXCEPT !.pc = "iget", !.ino = Last(s_inode), !.ret = "ialloced"])
      \/ /\ UNCHANGED s_inode
         /\ \E b \in DOMAIN Ilist, first \in BOOLEAN :
              MaySleep(p, [o EXCEPT !.pc = "fill", !.scan = b, !.first = first])
  <2>1. Ilist \in Seq(Seq(Nat \ {0})) /\ Ilist # <<>>
    BY InodeConstants
  <2>2. 1 \in DOMAIN Ilist
    BY <2>1, LenProperties, EmptySeq
  <2> QED BY <2>2 DEF Iloop
<1> HIDE DEF o
<1>4. CASE /\ s_inode # <<>> /\ s_inode' = Front(s_inode)
           /\ Goes(p, [o EXCEPT !.pc = "iget", !.ino = Last(s_inode), !.ret = "ialloced"])
  <2> DEFINE n == Last(s_inode)
             r == [o EXCEPT !.pc = "iget", !.ino = n, !.ret = "ialloced"]
  <2>1. Goes(p, r)
    BY <1>4
  <2>2. n \in Inos /\ s_inode' \in Seq(Inos)
    BY <1>1, <1>4, FrontIs DEF NumbersType
  <2> HIDE DEF n
  <2>3. /\ r \in UserRecords /\ r.pc = "iget" /\ r.ino = n /\ r.ret = "ialloced"
        /\ r.goal = o.goal /\ r.dir = o.dir /\ r.refs = o.refs /\ r.locks = o.locks
    <3> DEFINE locks == o.locks
    <3>1. locks \in SUBSET Table /\ "ialloced" \in Results /\ o \in UserRecords
      BY <1>1 DEF UserRecords, Results
    <3>2. r = Igets(o, n, "ialloced", locks)
      BY <1>1 DEF Igets, UserRecords
    <3> HIDE DEF locks, r
    <3> DEFINE x == Igets(o, n, "ialloced", locks)
    <3>3. /\ x \in UserRecords /\ x.pc = "iget" /\ x.ino = n /\ x.ret = "ialloced" /\ x.locks = locks
          /\ x.goal = o.goal /\ x.dir = o.dir /\ x.refs = o.refs
      BY ONLY <2>2, <3>1, IgetsIs
    <3> QED BY <3>2, <3>3 DEF locks
  <2> HIDE DEF r
  <2>4. RefsOK(r)
    BY <1>2, <2>3 DEF RefsOK, Puts, Results
  <2>5. CallOK(r)
    BY <1>2, <2>2, <2>3 DEF CallOK, Puts, Results
  <2>6. PlaceOK(r)
    BY <1>1, <2>3, <2>4, <2>5 DEF PlaceOK
  <2>7. Turns(p, r) /\ running' \in Users \cup {Nil}
    BY <1>1, <2>1, <2>3, <2>6, GoesTurns
  <2>8. Does(p)
    BY <1>1, <1>2, <2>3, <2>7, QuietDoes DEF o
  <2> QED BY <1>1, <2>2, <2>7, <2>8 DEF NumbersType
<1>5. ASSUME UNCHANGED s_inode, NEW b \in DOMAIN Ilist, NEW first \in BOOLEAN,
             MaySleep(p, [o EXCEPT !.pc = "fill", !.scan = b, !.first = first])
      PROVE  Does(p) /\ NumbersType'
  <2> DEFINE r == [o EXCEPT !.pc = "fill", !.scan = b, !.first = first]
  <2>1. b \in Int
    BY InodeConstants, LenProperties
  <2>2. /\ r \in UserRecords /\ r.pc = "fill" /\ r.scan = b
        /\ r.goal = o.goal /\ r.dir = o.dir /\ r.refs = o.refs /\ r.locks = o.locks
    <3>1. "fill" \in Labels
      BY DEF Labels
    <3>2. r \in UserRecords
      BY <1>1, <2>1, <3>1 DEF UserRecords
    <3> QED BY <1>1, <3>2 DEF UserRecords
  <2>3. MaySleep(p, r)
    BY <1>5
  <2> HIDE DEF r
  <2>4. RefsOK(r)
    BY <1>2, <2>2 DEF RefsOK, Puts, Results
  <2>5. CallOK(r)
    BY <1>2, <2>2 DEF CallOK, Puts, Results
  <2>6. PlaceOK(r)
    BY <1>1, <2>2, <2>4, <2>5 DEF PlaceOK
  <2>7. Turns(p, r) /\ running' \in Users \cup {Nil}
    BY <1>1, <2>2, <2>3, <2>6, MaySleepTurns
  <2>8. Does(p)
    BY <1>1, <1>2, <2>2, <2>7, QuietDoes DEF o
  <2> QED BY <1>1, <1>5, <2>7, <2>8 DEF NumbersType
<1> QED BY <1>3, <1>4, <1>5

-----------------------------------------------------------------------------
(* What the operations on one inode leave of it.                           *)
LEMMA InodeIs ==
  ASSUME NEW j \in InodeRecords, NEW d \in Int
  PROVE  /\ Locked(j) \in InodeRecords /\ Locked(j).ino = j.ino /\ Locked(j).count = j.count
         /\ Locked(j).dirty = j.dirty /\ Locked(j).lock
         /\ Wanted(j) \in InodeRecords /\ Wanted(j).ino = j.ino /\ Wanted(j).count = j.count
         /\ Wanted(j).dirty = j.dirty /\ Wanted(j).lock = j.lock
         /\ Counted(j, d) \in InodeRecords /\ Counted(j, d).ino = j.ino /\ Counted(j, d).count = j.count + d
         /\ Counted(j, d).dirty = j.dirty /\ Counted(j, d).lock = j.lock
<1>1. /\ Locked(j) \in InodeRecords /\ Locked(j).ino = j.ino /\ Locked(j).count = j.count
      /\ Locked(j).dirty = j.dirty /\ Locked(j).lock
  BY DEF Locked, InodeRecords
<1>2. /\ Wanted(j) \in InodeRecords /\ Wanted(j).ino = j.ino /\ Wanted(j).count = j.count
      /\ Wanted(j).dirty = j.dirty /\ Wanted(j).lock = j.lock
  BY DEF Wanted, InodeRecords
<1>3. /\ Counted(j, d) \in InodeRecords /\ Counted(j, d).ino = j.ino /\ Counted(j, d).count = j.count + d
      /\ Counted(j, d).dirty = j.dirty /\ Counted(j, d).lock = j.lock
  BY DEF Counted, InodeRecords
<1> QED BY <1>1, <1>2, <1>3

(* One more reference.                                                     *)
LEMMA OneMore ==
  ASSUME NEW j \in InodeRecords
  PROVE  /\ Counted(j, 1) \in InodeRecords /\ Counted(j, 1).ino = j.ino
         /\ Counted(j, 1).count = j.count + 1
         /\ Counted(j, 1).dirty = j.dirty /\ Counted(j, 1).lock = j.lock
<1> DEFINE d == 1
<1>1. d \in Int
  OBVIOUS
<1> HIDE DEF d
<1>2. /\ Counted(j, d) \in InodeRecords /\ Counted(j, d).ino = j.ino /\ Counted(j, d).count = j.count + d
      /\ Counted(j, d).dirty = j.dirty /\ Counted(j, d).lock = j.lock
  BY <1>1, InodeIs
<1> QED BY <1>2 DEF d

(* A process that takes a lock, and one that takes a reference with it.    *)
LEMMA HoldingIs ==
  ASSUME NEW o \in UserRecords, NEW s \in Table
  PROVE  /\ Holding(o, s) \in UserRecords /\ Holding(o, s).locks = o.locks \cup {s}
         /\ Holding(o, s).refs = o.refs /\ Holding(o, s).pc = o.pc /\ Holding(o, s).goal = o.goal
         /\ Holding(o, s).dir = o.dir /\ Holding(o, s).ino = o.ino /\ Holding(o, s).slot = o.slot
         /\ Holding(o, s).file = o.file /\ Holding(o, s).ret = o.ret /\ Holding(o, s).then = o.then
         /\ Holding(o, s).scan = o.scan
<1>1. o.locks \cup {s} \in SUBSET Table
  BY DEF UserRecords
<1> QED BY <1>1 DEF Holding, UserRecords

Taking(o, s, pc) == [Holding(Referring(o, s), s) EXCEPT !.pc = pc, !.slot = s]

(* The lock and the reference are all that changes, with the slot.         *)
LEMMA TakingIs ==
  ASSUME NEW o \in UserRecords, NEW s \in Table, NEW pc \in Labels
  PROVE  /\ Taking(o, s, pc) \in UserRecords /\ Taking(o, s, pc).locks = o.locks \cup {s}
         /\ Taking(o, s, pc).refs = o.refs \cup {s} /\ Taking(o, s, pc).pc = pc
         /\ Taking(o, s, pc).slot = s /\ Taking(o, s, pc).goal = o.goal
         /\ Taking(o, s, pc).dir = o.dir /\ Taking(o, s, pc).ino = o.ino
         /\ Taking(o, s, pc).file = o.file /\ Taking(o, s, pc).ret = o.ret
<1> DEFINE m == Referring(o, s)
           h == Holding(m, s)
           r == [h EXCEPT !.pc = pc, !.slot = s]
<1>1. o.refs \cup {s} \in SUBSET Table
  BY DEF UserRecords
<1>2. /\ m \in UserRecords /\ m.refs = o.refs \cup {s} /\ m.locks = o.locks /\ m.goal = o.goal
      /\ m.dir = o.dir /\ m.ino = o.ino /\ m.file = o.file /\ m.ret = o.ret
  BY <1>1 DEF Referring, UserRecords
<1> HIDE DEF m
<1>3. /\ h \in UserRecords /\ h.refs = o.refs \cup {s} /\ h.locks = o.locks \cup {s} /\ h.goal = o.goal
      /\ h.dir = o.dir /\ h.ino = o.ino /\ h.file = o.file /\ h.ret = o.ret
  BY <1>2, HoldingIs
<1> HIDE DEF h
<1>4. r \in UserRecords
  BY <1>3 DEF UserRecords
<1>5. /\ r.refs = h.refs /\ r.locks = h.locks /\ r.goal = h.goal /\ r.pc = pc /\ r.slot = s
      /\ r.dir = h.dir /\ r.ino = h.ino /\ r.file = h.file /\ r.ret = h.ret
  BY <1>3 DEF UserRecords
<1>6. Taking(o, s, pc) = r
  BY DEF Taking, h, m
<1> HIDE DEF r
<1> QED BY <1>3, <1>4, <1>5, <1>6

(* A step that locks an inode and takes a reference to it.                 *)
Takes(p, s, i, r) ==
  /\ Turns(p, r) /\ running \in {p, Nil} /\ inode' = [inode EXCEPT ![s] = i] /\ i.lock
  /\ s \notin user[p].refs /\ r.refs = user[p].refs \cup {s} /\ i.count = inode[s].count + 1
  /\ s \in Dirs \/ ~inode[s].lock \/ inode[s].ino = Nil
  /\ r.pc \notin {"igetwake", "t_free", "t_put"} /\ user[p].pc # "igetwake"
  /\ user[p].refs = {} \/ user[p].goal # "sync"
  /\ \/ i.ino # Nil
     \/ /\ running' = p /\ r.goal = "sync" /\ r.pc \in {"updated", "iput"}
        /\ \E q \in Users \ {p} : Waits(user[q], s)
  /\ SameNumber(s, i) \/ GetsNumber(s, i)

(* Such a step is one that MayDo describes.                                *)
LEMMA TakesDoes ==
  ASSUME TabInv, NEW p \in Users, NEW s \in Table, NEW i \in InodeRecords, NEW r, Takes(p, s, i, r)
  PROVE  Does(p)
<1>1. /\ Turns(p, r) /\ running \in {p, Nil} /\ inode' = [inode EXCEPT ![s] = i] /\ i.lock
      /\ s \notin user[p].refs /\ r.refs = user[p].refs \cup {s} /\ i.count = inode[s].count + 1
      /\ s \in Dirs \/ ~inode[s].lock \/ inode[s].ino = Nil
      /\ r.pc \notin {"igetwake", "t_free", "t_put"} /\ user[p].pc # "igetwake"
      /\ user[p].refs = {} \/ user[p].goal # "sync"
      /\ \/ i.ino # Nil
         \/ /\ running' = p /\ r.goal = "sync" /\ r.pc \in {"updated", "iput"}
            /\ \E q \in Users \ {p} : Waits(user[q], s)
      /\ SameNumber(s, i) \/ GetsNumber(s, i)
  BY DEF Takes
<1>2. inode[s] \in InodeRecords /\ r \in UserRecords
  BY <1>1 DEF TabInv, TypesInv, Turns
<1>3. \A t \in Table : ~Waits(r, t) /\ ~Waits(user[p], t)
  BY <1>1 DEF Waits
<1>4. i.count = inode[s].count + Uses(r, s) - Uses(user[p], s)
  <2>1. Uses(r, s) = 1 /\ Uses(user[p], s) = 0
    BY <1>1, <1>3 DEF Uses
  <2>2. i.count \in Int /\ inode[s].count \in Int
    BY <1>2 DEF InodeRecords
  <2> QED BY <1>1, <2>1, <2>2
<1>5. MayDo(p, s, i, r)
  BY <1>1, <1>3, <1>4 DEF MayDo
<1> QED BY <1>2, <1>5 DEF Does

(* A step that counts p in or out as one who waits for an inode.           *)
Counts(p, s, i, r) ==
  /\ Turns(p, r) /\ running \in {p, Nil} /\ inode' = [inode EXCEPT ![s] = i] /\ ifreel' = ifreel
  /\ r.refs = user[p].refs /\ i.ino = inode[s].ino /\ i.dirty = inode[s].dirty /\ i.lock = inode[s].lock
  /\ i.count = inode[s].count + Uses(r, s) - Uses(user[p], s)
  /\ \A t \in Table \ {s} : Waits(r, t) <=> Waits(user[p], t)
  /\ r.pc \notin {"t_free", "t_put"} /\ user[p].goal # "sync"

(* Such a step is one that MayDo describes.                                *)
LEMMA CountsDoes ==
  ASSUME TabInv, NEW p \in Users, NEW s \in Table, NEW i \in InodeRecords, NEW r, Counts(p, s, i, r)
  PROVE  Does(p)
<1>1. /\ Turns(p, r) /\ running \in {p, Nil} /\ inode' = [inode EXCEPT ![s] = i] /\ ifreel' = ifreel
      /\ r.refs = user[p].refs /\ i.ino = inode[s].ino /\ i.dirty = inode[s].dirty /\ i.lock = inode[s].lock
      /\ i.count = inode[s].count + Uses(r, s) - Uses(user[p], s)
      /\ \A t \in Table \ {s} : Waits(r, t) <=> Waits(user[p], t)
      /\ r.pc \notin {"t_free", "t_put"} /\ user[p].goal # "sync"
  BY DEF Counts
<1>2. inode[s] \in InodeRecords /\ r \in UserRecords
  BY <1>1 DEF TabInv, TypesInv, Turns
<1>3. s \in r.refs => i.ino # Nil
  BY <1>1 DEF TabInv, RefInv, Passing
<1>4. SameNumber(s, i)
  BY <1>1 DEF SameNumber, TabInv, TableInv
<1>5. MayDo(p, s, i, r)
  BY <1>1, <1>3, <1>4 DEF MayDo
<1> QED BY <1>2, <1>5 DEF Does

(* plock: p waits, or has its directory, or has the file it closes.        *)
LEMMA PlockDoes == ASSUME TabInv, NEW p \in Users, Plock(p) PROVE Does(p) /\ NumbersType'
<1> DEFINE o == user[p]
           s == o.slot
           j == inode[s]
<1>1. /\ o \in UserRecords /\ RefsOK(o) /\ CallOK(o) /\ PlaceOK(o) /\ o.pc = "plock" /\ running \in {p, Nil}
      /\ o.locks \subseteq o.refs /\ TypesInv /\ NumbersType /\ inode \in [Table -> InodeRecords]
      /\ UNCHANGED <<ifreel, dinode, named, ialVars>>
      /\ \/ j.lock /\ inode' = [inode EXCEPT ![s] = Wanted(@)] /\ Sleeps(p, s, o)
         \/ /\ ~j.lock /\ s \in Dirs /\ inode' = [inode EXCEPT ![s] = Counted(Locked(@), 1)]
            /\ MaySleep(p, [Referring(Holding(o, s), s) EXCEPT !.pc = "dsearch"])
         \/ /\ ~j.lock /\ s \notin Dirs /\ inode' = [inode EXCEPT ![s] = Locked(@)]
            /\ Goes(p, Iputs(Holding(o, s), s, "idle"))
  BY AtIs DEF Plock
<1>2. /\ s \in Files \cup {o.dir} /\ s \in Table /\ o.refs = {s} \ Dirs /\ j \in InodeRecords
      /\ o.goal \in FileCalls /\ o.goal # "sync" /\ o.dir \in Dirs /\ j.count \in Int
  BY <1>1 DEF RefsOK, CallOK, Puts, InodeRecords
<1>3. s \in Dirs => j.ino # Nil
  <2> SUFFICES ASSUME s \in Dirs PROVE j.ino # Nil
    OBVIOUS
  <2>1. j.ino = -s
    BY DEF TabInv, TableInv
  <2>2. -s \in DirNumbers
    BY DEF DirNumbers
  <2> QED BY <2>1, <2>2, Constants
<1> HIDE DEF o, s, j
<1>4. CASE j.lock /\ inode' = [inode EXCEPT ![s] = Wanted(@)] /\ Sleeps(p, s, o)
  <2> DEFINE z == [o EXCEPT !.asleep = s]
             i == Wanted(j)
  <2>1. /\ Turns(p, z) /\ running' \in Users \cup {Nil} /\ z.refs = o.refs /\ z.pc = o.pc
    BY <1>1, <1>2, <1>4, SleepsTurns
  <2>2. i \in InodeRecords /\ i.ino = j.ino /\ i.count = j.count /\ i.dirty = j.dirty /\ i.lock = j.lock
    BY <1>2, InodeIs
  <2>3. inode' = [inode EXCEPT ![s] = i]
    BY <1>4 DEF j
  <2> HIDE DEF z, i
  <2>4. \A t : ~Waits(z, t) /\ ~Waits(o, t)
    BY <1>1, <2>1 DEF Waits
  <2>5. i.count = j.count + Uses(z, s) - Uses(o, s)
    <3>1. Uses(z, s) = Uses(o, s) /\ Uses(z, s) \in Int
      BY <2>1, <2>4 DEF Uses
    <3> QED BY <1>2, <2>2, <3>1
  <2>6. Counts(p, s, i, z)
    BY <1>1, <1>2, <2>1, <2>2, <2>3, <2>4, <2>5 DEF Counts, o, j
  <2>7. Does(p)
    BY <1>2, <2>2, <2>6, CountsDoes
  <2> QED BY <1>1, <2>1, <2>7 DEF NumbersType, ialVars, numbers
<1>5. CASE /\ ~j.lock /\ s \in Dirs /\ inode' = [inode EXCEPT ![s] = Counted(Locked(@), 1)]
           /\ MaySleep(p, [Referring(Holding(o, s), s) EXCEPT !.pc = "dsearch"])
  <2> DEFINE m == Holding(o, s)
             r == [Referring(m, s) EXCEPT !.pc = "dsearch"]
             i == Counted(Locked(j), 1)
  <2>1. /\ m \in UserRecords /\ m.refs = o.refs /\ m.locks = o.locks \cup {s} /\ m.goal = o.goal /\ m.dir = o.dir
    BY <1>1, <1>2, HoldingIs
  <2>0. MaySleep(p, r)
    BY <1>5
  <2> HIDE DEF m
  <2>2. /\ r \in UserRecords /\ r.pc = "dsearch" /\ r.refs = o.refs \cup {s} /\ r.locks = o.locks \cup {s}
        /\ r.goal = o.goal /\ r.dir = o.dir
    <3>1. m.refs \cup {s} \in SUBSET Table /\ "dsearch" \in Labels
      BY <1>2, <2>1 DEF UserRecords, Labels
    <3>2. [m EXCEPT !.refs = @ \cup {s}] \in UserRecords
      BY <2>1, <3>1 DEF UserRecords
    <3>3. r \in UserRecords
      BY <3>1, <3>2 DEF UserRecords, Referring
    <3> QED BY <2>1, <3>3 DEF UserRecords, Referring
  <2>3. i \in InodeRecords /\ i.ino = j.ino /\ i.count = j.count + 1 /\ i.dirty = j.dirty /\ i.lock
    <3>1. Locked(j) \in InodeRecords /\ Locked(j).ino = j.ino /\ Locked(j).count = j.count
          /\ Locked(j).dirty = j.dirty /\ Locked(j).lock
      BY <1>2, InodeIs
    <3> QED BY <3>1, InodeIs
  <2>4. inode' = [inode EXCEPT ![s] = i]
    BY <1>5 DEF j
  <2> HIDE DEF r, i
  <2>5. s = o.dir /\ o.refs = {}
    BY <1>2, <1>5 DEF Files
  <2>6. RefsOK(r)
    BY <2>2, <2>5 DEF RefsOK, Puts, Results
  <2>7. CallOK(r)
    BY <1>2, <2>2 DEF CallOK, Puts, Results
  <2>8. PlaceOK(r)
    BY <1>1, <2>2, <2>5, <2>6, <2>7 DEF PlaceOK
  <2>9. Turns(p, r) /\ running' \in Users \cup {Nil}
    BY <1>1, <2>0, <2>2, <2>8, MaySleepTurns
  <2>10. SameNumber(s, i) /\ i.ino # Nil
    BY <1>1, <1>3, <1>5, <2>3 DEF SameNumber, j
  <2>11. Takes(p, s, i, r)
    BY <1>1, <1>5, <2>2, <2>3, <2>4, <2>5, <2>9, <2>10 DEF Takes, o, j
  <2>12. Does(p)
    BY <1>2, <2>3, <2>11, TakesDoes
  <2> QED BY <1>1, <2>9, <2>12 DEF NumbersType, ialVars, numbers
<1>6. CASE /\ ~j.lock /\ s \notin Dirs /\ inode' = [inode EXCEPT ![s] = Locked(@)]
           /\ Goes(p, Iputs(Holding(o, s), s, "idle"))
  <2> DEFINE m == Holding(o, s)
             r == Iputs(m, s, "idle")
             i == Locked(j)
  <2>1. /\ m \in UserRecords /\ m.refs = o.refs /\ m.locks = o.locks \cup {s} /\ m.goal = o.goal /\ m.dir = o.dir
    BY <1>1, <1>2, HoldingIs
  <2>0. Goes(p, r)
    BY <1>6
  <2> HIDE DEF m
  <2>2. /\ r \in UserRecords /\ r.pc = "iput" /\ r.slot = s /\ r.then = "idle"
        /\ r.goal = o.goal /\ r.dir = o.dir /\ r.refs = o.refs /\ r.locks = o.locks \cup {s}
    <3>1. "idle" \in Thens
      BY DEF Thens
    <3> QED BY <1>2, <2>1, <3>1, IputsIs
  <2>3. i \in InodeRecords /\ i.ino = j.ino /\ i.count = j.count
    BY <1>2, InodeIs
  <2>4. inode' = [inode EXCEPT ![s] = i]
    BY <1>6 DEF j
  <2> HIDE DEF r, i
  <2>5. o.refs = {s}
    BY <1>2, <1>6
  <2>6. RefsOK(r)
    BY <1>2, <2>2, <2>5 DEF RefsOK, RefsAfter, Puts, Results, Thens
  <2>7. CallOK(r)
    BY <1>2, <2>2 DEF CallOK, Puts, Results
  <2>8. PlaceOK(r)
    BY <1>1, <2>2, <2>5, <2>6, <2>7 DEF PlaceOK
  <2>9. Turns(p, r) /\ running' \in Users \cup {Nil}
    BY <1>1, <2>0, <2>2, <2>8, GoesTurns
  <2>10. Own(p, s, i, r)
    BY <1>1, <1>2, <2>2, <2>3, <2>4, <2>5, <2>9 DEF o, j, Own, ialVars
  <2>11. Does(p)
    BY <1>2, <2>3, <2>10, OwnDoes
  <2> QED BY <1>1, <2>9, <2>11 DEF NumbersType, ialVars, numbers
<1> QED BY <1>1, <1>4, <1>5, <1>6

(* Who has waited in iget gives back the count of his wait.                *)
LEMMA IgetWakeDoes == ASSUME TabInv, NEW p \in Users, IgetWake(p) PROVE Does(p) /\ NumbersType'
<1> DEFINE o == user[p]
           s == o.slot
           j == inode[s]
           r == [o EXCEPT !.pc = "iget"]
           i == WaitedFor(j)
<1>1. /\ o \in UserRecords /\ RefsOK(o) /\ CallOK(o) /\ o.pc = "igetwake" /\ running \in {p, Nil}
      /\ o.locks \subseteq o.refs /\ TypesInv /\ NumbersType /\ inode \in [Table -> InodeRecords]
      /\ UNCHANGED <<ifreel, dinode, named, ialVars>> /\ Goes(p, r)
      /\ inode' = [inode EXCEPT ![s] = i]
  BY AtIs DEF IgetWake
<1>2. /\ s \in Table /\ o.refs = {o.dir} /\ j \in InodeRecords /\ j.count \in Int
      /\ o.goal \in FileCalls /\ o.goal # "sync" /\ o.dir \in Dirs /\ o.ret \in Results /\ o.ino \in Inos
  BY <1>1 DEF RefsOK, CallOK, Puts, InodeRecords
<1>3. i \in InodeRecords /\ i.ino = j.ino /\ i.count = j.count - 1 /\ i.dirty = j.dirty /\ i.lock = j.lock
  <2> DEFINE d == -1
  <2>1. d \in Int
    OBVIOUS
  <2>2. i = Counted(j, d)
    BY DEF WaitedFor
  <2>3. j.count + d = j.count - 1
    BY <1>2
  <2> HIDE DEF d, i, j
  <2> QED BY <1>2, <2>1, <2>2, <2>3, InodeIs
<1> HIDE DEF o, s, j, i
<1>4. /\ r \in UserRecords /\ r.pc = "iget" /\ r.slot = s /\ r.refs = o.refs /\ r.locks = o.locks
      /\ r.goal = o.goal /\ r.dir = o.dir /\ r.ino = o.ino /\ r.ret = o.ret
  <2>1. "iget" \in Labels
    BY DEF Labels
  <2> QED BY <1>1, <2>1 DEF UserRecords, s
<1> HIDE DEF r
<1>5. RefsOK(r)
  BY <1>2, <1>4 DEF RefsOK, Puts, Results
<1>6. CallOK(r)
  BY <1>2, <1>4 DEF CallOK, Puts, Results
<1>7. PlaceOK(r)
  BY <1>1, <1>4, <1>5, <1>6 DEF PlaceOK
<1>8. Turns(p, r) /\ running' \in Users \cup {Nil}
  BY <1>1, <1>4, <1>7, GoesTurns
<1>9. \A t : ~Waits(r, t) /\ (Waits(o, t) <=> t = s)
  BY <1>1, <1>4 DEF Waits, s
<1>10. i.count = j.count + Uses(r, s) - Uses(o, s)
  <2>1. Uses(o, s) = Uses(r, s) + 1 /\ Uses(r, s) \in Int
    BY <1>4, <1>9 DEF Uses
  <2> QED BY <1>2, <1>3, <2>1
<1>11. Counts(p, s, i, r)
  BY <1>1, <1>2, <1>3, <1>4, <1>8, <1>9, <1>10 DEF Counts, o, j
<1>12. Does(p)
  BY <1>2, <1>3, <1>11, CountsDoes
<1> QED BY <1>1, <1>8, <1>12 DEF NumbersType, ialVars, numbers

(* iget: p waits with a count of its own, gets the inode, or a free slot.  *)
LEMMA IgetDoes == ASSUME TabInv, NEW p \in Users, Iget(p) PROVE Does(p) /\ NumbersType'
<1> DEFINE o == user[p]
<1>1. /\ o \in UserRecords /\ RefsOK(o) /\ CallOK(o) /\ o.pc = "iget" /\ running \in {p, Nil}
      /\ o.locks \subseteq o.refs /\ TypesInv /\ NumbersType /\ inode \in [Table -> InodeRecords]
      /\ UNCHANGED <<dinode, named, ialVars>>
      /\ \/ \E s \in Ifind(o.ino) : IgetHit(p, s) /\ UNCHANGED ifreel
         \/ Ifind(o.ino) = {} /\ IgetMiss(p)
         \/ Tablefull(p) /\ UNCHANGED <<inode, ifreel>>
  BY AtIs DEF Iget
<1>2. /\ o.refs = {o.dir} /\ o.goal \in FileCalls /\ o.goal # "sync" /\ o.dir \in Dirs /\ o.dir \in Table
      /\ o.ret \in Results /\ o.ino \in Inos /\ o.ret \in Labels
  BY <1>1, Constants DEF RefsOK, CallOK, Puts, Results, Labels
<1>3. \A d \in Dirs : inode[d].ino # o.ino
  <2> SUFFICES ASSUME NEW d \in Dirs PROVE inode[d].ino # o.ino
    OBVIOUS
  <2>1. -d \in DirNumbers /\ inode[d].ino = -d
    BY DEF DirNumbers, TabInv, TableInv
  <2>2. inode[d].ino \notin Nat /\ o.ino \in Nat
    BY <1>2, <2>1, Constants
  <2> QED BY <2>2
<1>4. o.ino # Nil
  BY <1>2, Constants
<1>5. ASSUME NEW s \in Ifind(o.ino), IgetHit(p, s), UNCHANGED ifreel
      PROVE  Does(p) /\ running' \in Users \cup {Nil}
  <2> DEFINE j == inode[s]
  <2>1. s \in Table /\ s \notin Dirs /\ s \in Files /\ j \in InodeRecords /\ j.ino = o.ino /\ j.count \in Int
        /\ s \notin o.refs
    BY <1>1, <1>2, <1>3, <1>5 DEF Ifind, Files, InodeRecords
  <2>2. CASE /\ j.lock /\ inode' = [inode EXCEPT ![s] = Counted(Wanted(@), 1)]
             /\ Sleeps(p, s, [o EXCEPT !.pc = "igetwake", !.slot = s])
    <3> DEFINE r == [o EXCEPT !.pc = "igetwake", !.slot = s]
               z == [r EXCEPT !.asleep = s]
               i == Counted(Wanted(j), 1)
    <3>1. inode' = [inode EXCEPT ![s] = i] /\ Sleeps(p, s, r)
      BY <2>2
    <3>2. i \in InodeRecords /\ i.ino = j.ino /\ i.count = j.count + 1 /\ i.dirty = j.dirty /\ i.lock = j.lock
      <4>1. Wanted(j) \in InodeRecords /\ Wanted(j).ino = j.ino /\ Wanted(j).count = j.count
            /\ Wanted(j).dirty = j.dirty /\ Wanted(j).lock = j.lock
        BY <2>1, InodeIs
      <4> QED BY <4>1, OneMore
    <3> HIDE DEF o, j, i
    <3>3. /\ r \in UserRecords /\ r.pc = "igetwake" /\ r.slot = s /\ r.refs = o.refs /\ r.locks = o.locks
          /\ r.goal = o.goal /\ r.dir = o.dir /\ r.ino = o.ino /\ r.ret = o.ret
      <4>1. "igetwake" \in Labels
        BY DEF Labels
      <4> QED BY <1>1, <2>1, <4>1 DEF UserRecords
    <3> HIDE DEF r
    <3>4. RefsOK(r)
      BY <1>2, <2>1, <3>3 DEF RefsOK, Puts, Results
    <3>5. CallOK(r)
      BY <1>2, <3>3 DEF CallOK, Puts, Results
    <3>6. PlaceOK(r)
      BY <1>1, <3>3, <3>4, <3>5 DEF PlaceOK
    <3>7. Turns(p, z) /\ running' \in Users \cup {Nil} /\ z.refs = r.refs /\ z.pc = r.pc /\ z.slot = r.slot
      BY <1>1, <2>1, <3>1, <3>3, <3>6, SleepsTurns
    <3> HIDE DEF z
    <3>8. \A t : (Waits(z, t) <=> t = s) /\ ~Waits(o, t)
      BY <1>1, <3>3, <3>7 DEF Waits
    <3>9. i.count = j.count + Uses(z, s) - Uses(o, s)
      <4>1. Uses(z, s) = Uses(o, s) + 1 /\ Uses(o, s) \in Int
        BY <3>3, <3>7, <3>8 DEF Uses
      <4> QED BY <2>1, <3>2, <4>1
    <3>10. Counts(p, s, i, z)
      BY <1>1, <1>2, <1>5, <3>1, <3>2, <3>3, <3>7, <3>8, <3>9 DEF Counts, o, j
    <3> QED BY <2>1, <3>2, <3>7, <3>10, CountsDoes
  <2>3. CASE /\ ~j.lock /\ inode' = [inode EXCEPT ![s] = Counted(Locked(@), 1)]
             /\ Goes(p, Taking(o, s, o.ret))
    <3> DEFINE r == Taking(o, s, o.ret)
               i == Counted(Locked(j), 1)
    <3>1. inode' = [inode EXCEPT ![s] = i] /\ Goes(p, r)
      BY <2>3
    <3>2. i \in InodeRecords /\ i.ino = j.ino /\ i.count = j.count + 1 /\ i.dirty = j.dirty /\ i.lock
      <4>1. Locked(j) \in InodeRecords /\ Locked(j).ino = j.ino /\ Locked(j).count = j.count
            /\ Locked(j).dirty = j.dirty /\ Locked(j).lock
        BY <2>1, InodeIs
      <4> QED BY <4>1, OneMore
    <3> HIDE DEF o, j, i
    <3>3. /\ r \in UserRecords /\ r.pc = o.ret /\ r.slot = s /\ r.refs = o.refs \cup {s}
          /\ r.locks = o.locks \cup {s} /\ r.goal = o.goal /\ r.dir = o.dir /\ r.ino = o.ino
      BY <1>1, <1>2, <2>1, TakingIs
    <3> HIDE DEF r
    <3>4. RefsOK(r)
      BY <1>2, <2>1, <3>3 DEF RefsOK, Puts, Results
    <3>5. CallOK(r)
      BY <1>2, <3>3 DEF CallOK, Puts, Results
    <3>6. PlaceOK(r)
      BY <1>1, <3>3, <3>4, <3>5 DEF PlaceOK
    <3>7. Turns(p, r) /\ running' \in Users \cup {Nil}
      BY <1>1, <3>1, <3>3, <3>6, GoesTurns
    <3>8. i.ino # Nil /\ SameNumber(s, i)
      BY <1>4, <1>5, <2>1, <3>2 DEF SameNumber, j
    <3>9. r.pc \notin {"igetwake", "t_free", "t_put"}
      BY <1>2, <3>3 DEF Results
    <3>10. Takes(p, s, i, r)
      BY <1>1, <1>2, <2>1, <2>3, <3>1, <3>2, <3>3, <3>7, <3>8, <3>9 DEF Takes, o, j
    <3> QED BY <2>1, <3>2, <3>7, <3>10, TakesDoes
  <2>4. [Holding(Referring(o, s), s) EXCEPT !.pc = o.ret, !.slot = s] = Taking(o, s, o.ret)
    BY DEF Taking
  <2> HIDE DEF o
  <2> QED BY <1>5, <2>2, <2>3, <2>4 DEF IgetHit, o
<1>6. ASSUME Ifind(o.ino) = {}, IgetMiss(p)
      PROVE  Does(p) /\ running' \in Users \cup {Nil}
  <2> DEFINE s == Head(ifreel)
             j == inode[s]
             m == [j EXCEPT !.ino = o.ino, !.lock = TRUE, !.want = FALSE, !.dirty = FALSE]
             i == Counted(m, 1)
             r == Taking(o, s, "fsget")
  <2>1. /\ ifreel # <<>> /\ ifreel' = Tail(ifreel) /\ inode' = [inode EXCEPT ![s] = i]
        /\ MaySleep(p, r)
    BY <1>6 DEF IgetMiss, Taking
  <2>2. s \in Table /\ j.ino = Nil
    <3>1. ifreel \in Seq(Table)
      BY <1>1 DEF TypesInv
    <3>2. 1 \in DOMAIN ifreel /\ s = ifreel[1] /\ s \in Table
      BY <2>1, <3>1, LenProperties, EmptySeq, ElementOfSeq
    <3> QED BY <3>2 DEF TabInv, TableInv
  <2> HIDE DEF o, s
  <2>3. s \notin Dirs
    <3> SUFFICES ASSUME s \in Dirs PROVE FALSE
      OBVIOUS
    <3>1. j.ino = -s /\ -s \in DirNumbers
      BY DEF TabInv, TableInv, DirNumbers
    <3> QED BY <2>2, <3>1, Constants
  <2>4. j \in InodeRecords /\ j.count \in Int
    BY <1>1, <2>2 DEF InodeRecords
  <2>5. m \in InodeRecords /\ m.ino = o.ino /\ m.count = j.count /\ ~m.dirty /\ m.lock
    BY <1>2, <2>4 DEF InodeRecords
  <2> HIDE DEF j, m
  <2>6. i \in InodeRecords /\ i.ino = o.ino /\ i.count = j.count + 1 /\ ~i.dirty /\ i.lock
    BY <2>5, OneMore
  <2>7. "fsget" \in Labels
    BY DEF Labels
  <2>8. /\ r \in UserRecords /\ r.pc = "fsget" /\ r.slot = s /\ r.refs = o.refs \cup {s}
        /\ r.locks = o.locks \cup {s} /\ r.goal = o.goal /\ r.dir = o.dir /\ r.ino = o.ino /\ r.ret = o.ret
    BY <1>1, <2>2, <2>7, TakingIs
  <2> HIDE DEF r, i
  <2>9. s \in Files /\ s \notin o.refs
    BY <1>2, <2>2, <2>3 DEF Files
  <2>10. RefsOK(r)
    BY <1>2, <2>8, <2>9 DEF RefsOK, Puts, Results
  <2>11. CallOK(r)
    BY <1>2, <2>8 DEF CallOK, Puts, Results
  <2>12. PlaceOK(r)
    BY <1>1, <2>8, <2>10, <2>11 DEF PlaceOK
  <2>13. Turns(p, r) /\ running' \in Users \cup {Nil}
    BY <1>1, <2>1, <2>8, <2>12, MaySleepTurns
  <2>14. GetsNumber(s, i) /\ i.ino # Nil
    BY <1>2, <1>4, <1>6, <2>1, <2>6 DEF GetsNumber, s
  <2>15. Takes(p, s, i, r)
    BY <1>1, <1>2, <2>1, <2>2, <2>6, <2>8, <2>9, <2>13, <2>14 DEF Takes, o, j
  <2> QED BY <2>2, <2>6, <2>13, <2>15, TakesDoes
<1>7. ASSUME Tablefull(p), UNCHANGED <<inode, ifreel>>
      PROVE  Does(p) /\ running' \in Users \cup {Nil}
  <2> DEFINE r == [o EXCEPT !.pc = o.ret, !.slot = Nil]
  <2>1. Goes(p, r)
    BY <1>7 DEF Tablefull
  <2> HIDE DEF o
  <2>2. /\ r \in UserRecords /\ r.pc = o.ret /\ r.slot = Nil /\ r.refs = o.refs /\ r.locks = o.locks
        /\ r.goal = o.goal /\ r.dir = o.dir /\ r.ino = o.ino
    BY <1>1, <1>2 DEF UserRecords
  <2> HIDE DEF r
  <2>3. RefsOK(r)
    BY <1>2, <2>2 DEF RefsOK, Puts, Results
  <2>4. CallOK(r)
    BY <1>2, <2>2 DEF CallOK, Puts, Results
  <2>5. PlaceOK(r)
    BY <1>1, <2>2, <2>3, <2>4 DEF PlaceOK
  <2>6. Turns(p, r) /\ running' \in Users \cup {Nil}
    BY <1>1, <2>1, <2>2, <2>5, GoesTurns
  <2>7. r.pc \notin {"igetwake", "t_free", "t_put"}
    BY <1>2, <2>2 DEF Results
  <2> QED BY <1>1, <1>2, <1>7, <2>2, <2>6, <2>7, QuietDoes DEF o
<1>8. Does(p) /\ running' \in Users \cup {Nil}
  <2> HIDE DEF o
  <2> QED BY <1>1, <1>5, <1>6, <1>7
<1> QED BY <1>1, <1>8 DEF NumbersType, ialVars, numbers

(* The inode is read, or put because that failed.                          *)
LEMMA FsgetDoes == ASSUME TabInv, NEW p \in Users, Fsget(p) PROVE Does(p) /\ NumbersType'
<1> DEFINE o == user[p]
           s == o.slot
           j == inode[s]
           d == dinode[j.ino]
<1>1. /\ o \in UserRecords /\ RefsOK(o) /\ CallOK(o) /\ o.pc = "fsget" /\ running \in {p, Nil}
      /\ o.locks \subseteq o.refs /\ TypesInv /\ NumbersType /\ inode \in [Table -> InodeRecords]
      /\ UNCHANGED <<ifreel, dinode, named, numbers>>
      /\ \/ /\ inode' = [inode EXCEPT ![s].mode = d.mode, ![s].nlink = d.nlink]
            /\ Goes(p, [o EXCEPT !.pc = o.ret])
         \/ Goes(p, Iputs(o, s, "noinode")) /\ UNCHANGED inode
  BY AtIs DEF Fsget
<1>2. /\ s \in Files /\ s \in Table /\ o.refs = {o.dir, s} /\ s \in o.refs /\ j \in InodeRecords
      /\ o.goal \in FileCalls /\ o.goal # "sync" /\ o.dir \in Dirs /\ o.ret \in Results /\ o.ino \in Inos
      /\ o.ret \in Labels /\ s # o.dir
  BY <1>1 DEF RefsOK, CallOK, Puts, Files, Results, Labels
<1>3. j.ino \in Inos
  <2>1. j.ino # Nil
    BY <1>2 DEF TabInv, RefInv, Passing
  <2> QED BY <1>2, <2>1 DEF TabInv, TableInv
<1>4. d \in DiskRecords
  BY <1>1, <1>3 DEF NumbersType
<1> HIDE DEF o, s, d
<1>5. ASSUME inode' = [inode EXCEPT ![s].mode = d.mode, ![s].nlink = d.nlink], Goes(p, [o EXCEPT !.pc = o.ret])
      PROVE  Does(p) /\ running' \in Users \cup {Nil}
  <2> DEFINE r == [o EXCEPT !.pc = o.ret]
             i == [j EXCEPT !.mode = d.mode, !.nlink = d.nlink]
  <2>1. i \in InodeRecords /\ i.ino = j.ino /\ i.count = j.count
    BY <1>2, <1>4 DEF InodeRecords, DiskRecords
  <2>2. inode' = [inode EXCEPT ![s] = i]
    <3>1. inode' = [[inode EXCEPT ![s].mode = d.mode] EXCEPT ![s].nlink = d.nlink]
      BY <1>5
    <3>2. \A t \in Table : inode'[t] = IF t = s THEN i ELSE inode[t]
      BY <1>1, <1>2, <3>1 DEF InodeRecords
    <3>3. DOMAIN inode' = Table /\ inode' = [t \in Table |-> inode'[t]]
      BY <1>1, <3>1
    <3> HIDE DEF i
    <3> QED BY <1>1, <3>2, <3>3
  <2>3. Goes(p, r)
    BY <1>5
  <2>4. /\ r \in UserRecords /\ r.pc = o.ret /\ r.slot = o.slot /\ r.refs = o.refs /\ r.locks = o.locks
        /\ r.goal = o.goal /\ r.dir = o.dir /\ r.ino = o.ino
    BY <1>1, <1>2 DEF UserRecords
  <2> HIDE DEF r, i, j
  <2>5. RefsOK(r)
    BY <1>2, <2>4 DEF RefsOK, Puts, Results, s
  <2>6. CallOK(r)
    BY <1>2, <2>4 DEF CallOK, Puts, Results
  <2>7. PlaceOK(r)
    BY <1>1, <2>4, <2>5, <2>6 DEF PlaceOK
  <2>8. Turns(p, r) /\ running' \in Users \cup {Nil}
    BY <1>1, <2>3, <2>4, <2>7, GoesTurns
  <2>9. r.pc \notin {"igetwake", "t_free", "t_put"}
    BY <1>2, <2>4 DEF Results
  <2>10. Own(p, s, i, r)
    BY <1>1, <1>2, <2>1, <2>2, <2>4, <2>8, <2>9 DEF o, j, Own
  <2> QED BY <1>2, <2>1, <2>8, <2>10, OwnDoes
<1>6. ASSUME Goes(p, Iputs(o, s, "noinode")), UNCHANGED inode
      PROVE  Does(p) /\ running' \in Users \cup {Nil}
  <2> DEFINE r == Iputs(o, s, "noinode")
  <2>1. /\ r \in UserRecords /\ r.pc = "iput" /\ r.slot = s /\ r.then = "noinode"
        /\ r.goal = o.goal /\ r.dir = o.dir /\ r.refs = o.refs /\ r.locks = o.locks
        /\ r.ino = o.ino /\ r.ret = o.ret
    <3>1. "noinode" \in Thens
      BY DEF Thens
    <3> QED BY <1>1, <1>2, <3>1, IputsIs
  <2>2. Goes(p, r)
    BY <1>6
  <2> HIDE DEF r
  <2>3. RefsOK(r)
    BY <1>2, <2>1 DEF RefsOK, RefsAfter, Puts, Results, Thens
  <2>4. CallOK(r)
    BY <1>2, <2>1 DEF CallOK, Puts, Results
  <2>5. PlaceOK(r)
    BY <1>1, <2>1, <2>3, <2>4 DEF PlaceOK
  <2>6. Turns(p, r) /\ running' \in Users \cup {Nil}
    BY <1>1, <2>1, <2>2, <2>5, GoesTurns
  <2> QED BY <1>1, <1>2, <1>6, <2>1, <2>6, QuietDoes DEF o
<1>7. Does(p) /\ running' \in Users \cup {Nil}
  BY <1>1, <1>5, <1>6
<1> QED BY <1>1, <1>7 DEF NumbersType, numbers

-----------------------------------------------------------------------------
(* A step of iput that goes on with the inode as its only reference.       *)
StillPut(p, s, i, r) ==
  /\ Turns(p, r) /\ running \in {p, Nil} /\ inode' = [inode EXCEPT ![s] = i] /\ ifreel' = ifreel
  /\ r.refs = user[p].refs /\ r.slot = s /\ r.pc \in {"t_free", "t_put"} /\ user[p].pc # "igetwake"
  /\ s \notin Dirs /\ i.lock /\ i.ino = inode[s].ino /\ i.ino # Nil /\ i.count = inode[s].count
  /\ \A q \in Users \ {p} : s \notin user[q].refs
  /\ s \in user[p].refs /\ (r.refs \subseteq {s} \/ user[p].goal # "sync")

(* Such a step is one that MayDo describes.                                *)
LEMMA StillPutDoes ==
  ASSUME TabInv, NEW p \in Users, NEW s \in Table, NEW i \in InodeRecords, NEW r, StillPut(p, s, i, r)
  PROVE  Does(p)
<1>1. /\ Turns(p, r) /\ running \in {p, Nil} /\ inode' = [inode EXCEPT ![s] = i] /\ ifreel' = ifreel
      /\ r.refs = user[p].refs /\ r.slot = s /\ r.pc \in {"t_free", "t_put"} /\ user[p].pc # "igetwake"
      /\ s \notin Dirs /\ i.lock /\ i.ino = inode[s].ino /\ i.ino # Nil /\ i.count = inode[s].count
      /\ \A q \in Users \ {p} : s \notin user[q].refs
      /\ s \in user[p].refs /\ (r.refs \subseteq {s} \/ user[p].goal # "sync")
  BY DEF StillPut
<1>2. inode[s] \in InodeRecords /\ r \in UserRecords
  BY <1>1 DEF TabInv, TypesInv, Turns
<1>3. \A t : ~Waits(r, t) /\ ~Waits(user[p], t)
  BY <1>1 DEF Waits
<1>4. i.count = inode[s].count + Uses(r, s) - Uses(user[p], s)
  <2>1. Uses(r, s) = 1 /\ Uses(user[p], s) = 1
    BY <1>1, <1>3 DEF Uses
  <2>2. i.count \in Int /\ inode[s].count \in Int
    BY <1>2 DEF InodeRecords
  <2> QED BY <1>1, <2>1, <2>2
<1>5. SameNumber(s, i)
  BY <1>1 DEF SameNumber
<1>6. MayDo(p, s, i, r)
  BY <1>1, <1>3, <1>4, <1>5 DEF MayDo
<1> QED BY <1>2, <1>6 DEF Does

(* What is left to a process that has put its inode.                       *)
Away(o) == [Left(o, o.slot) EXCEPT !.pc = o.then]

(* It is what the place iput returns to requires.                          *)
LEMMA AwayIs ==
  ASSUME NEW o \in UserRecords, PlaceOK(o), o.pc \in Puts
  PROVE  /\ Away(o) \in UserRecords /\ PlaceOK(Away(o)) /\ Away(o).refs = o.refs \ {o.slot}
         /\ Away(o).pc \notin {"igetwake", "t_free", "t_put"} /\ o.slot \in Table /\ o.slot \in o.refs
         /\ Away(o).refs = {} \/ o.goal # "sync"
<1> DEFINE s == o.slot
           r == Away(o)
<1>1. /\ s \in Table /\ s \in o.refs /\ o.refs \ {s} = RefsAfter(o) /\ o.then \in Thens /\ o.pc # "idle"
      /\ (o.then = "use" => o.file \in Files) /\ o.locks \subseteq o.refs
      /\ o.goal \in FileCalls /\ o.dir \in Dirs /\ (o.goal = "sync" <=> o.then = "update")
      /\ o.then = "noinode" => o.ret \in Results /\ o.ino \in Inos
  BY DEF PlaceOK, RefsOK, CallOK, Puts
<1>2. o.then \in Labels
  BY <1>1 DEF Thens, Labels
<1>3. /\ Left(o, s) \in UserRecords /\ Left(o, s).refs = o.refs \ {s} /\ Left(o, s).locks = o.locks \ {s}
      /\ Left(o, s).goal = o.goal /\ Left(o, s).dir = o.dir /\ Left(o, s).ino = o.ino
      /\ Left(o, s).file = o.file /\ Left(o, s).ret = o.ret
  <2>1. o.locks \ {s} \in SUBSET Table /\ o.refs \ {s} \in SUBSET Table
    BY DEF UserRecords
  <2> QED BY <2>1 DEF Left, UserRecords
<1>4. /\ r \in UserRecords /\ r.pc = o.then /\ r.refs = o.refs \ {s} /\ r.locks = o.locks \ {s}
      /\ r.goal = o.goal /\ r.dir = o.dir /\ r.ino = o.ino /\ r.file = o.file /\ r.ret = o.ret
  BY <1>2, <1>3 DEF Away, UserRecords
<1> HIDE DEF s, r
<1>5. RefsOK(r)
  BY <1>1, <1>4 DEF RefsOK, RefsAfter, Puts, Results, Thens
<1>6. CallOK(r)
  BY <1>1, <1>4 DEF CallOK, Puts, Results, Thens
<1>7. PlaceOK(r)
  BY <1>1, <1>4, <1>5, <1>6 DEF PlaceOK
<1>8. r.pc \notin {"igetwake", "t_free", "t_put"} /\ (r.refs = {} \/ o.goal # "sync")
  BY <1>1, <1>4 DEF Thens, RefsAfter
<1> QED BY <1>1, <1>4, <1>7, <1>8 DEF s, r

(* iput locks the last reference, or gives up one of several.              *)
LEMMA IputDoes == ASSUME TabInv, NEW p \in Users, Iput(p) PROVE Does(p) /\ NumbersType'
<1> DEFINE o == user[p]
           s == o.slot
           j == inode[s]
           at == IF j.nlink <= 0 THEN "t_free" ELSE "t_put"
           r == [Holding(o, s) EXCEPT !.pc = at]
<1>1. /\ o \in UserRecords /\ RefsOK(o) /\ CallOK(o) /\ PlaceOK(o) /\ o.pc = "iput" /\ running \in {p, Nil}
      /\ o.locks \subseteq o.refs /\ TypesInv /\ NumbersType /\ inode \in [Table -> InodeRecords]
      /\ UNCHANGED <<ifreel, dinode, named, ialVars>>
      /\ \/ /\ j.count = 1 /\ inode' = [inode EXCEPT ![s] = Locked(@)]
            /\ MaySleep(p, r) \/ Goes(p, r)
         \/ Prele(p, s, Counted(j, -1), Away(o))
  BY AtIs DEF Iput, Away
<1>2. /\ s \in Table /\ s \in o.refs /\ o.refs \ {s} = RefsAfter(o) /\ o.then \in Thens
      /\ (o.then = "use" => o.file \in Files) /\ j \in InodeRecords /\ j.count \in Int
      /\ o.goal \in FileCalls /\ o.dir \in Dirs /\ (o.goal = "sync" <=> o.then = "update")
      /\ (o.then = "noinode" => o.ret \in Results /\ o.ino \in Inos)
  BY <1>1 DEF RefsOK, CallOK, Puts, InodeRecords
<1>3. o.pc \in Puts /\ at \in {"t_free", "t_put"} /\ at \in Labels
  BY <1>1 DEF Puts, Labels
<1> HIDE DEF at
<1>4. ASSUME j.count = 1, inode' = [inode EXCEPT ![s] = Locked(@)], MaySleep(p, r) \/ Goes(p, r)
      PROVE  Does(p) /\ running' \in Users \cup {Nil}
  <2> DEFINE i == Locked(j)
  <2>1. s \notin Dirs /\ \A q \in Users : ~Waits(user[q], s) /\ (q # p => s \notin user[q].refs)
    BY <1>1, <1>2, <1>4, OnlyReference DEF TabInv
  <2>2. j.ino # Nil
    BY <1>2, <2>1 DEF TabInv, RefInv, Passing
  <2>3. i \in InodeRecords /\ i.ino = j.ino /\ i.count = j.count /\ i.lock
    BY <1>2, InodeIs
  <2>4. inode' = [inode EXCEPT ![s] = i]
    BY <1>4
  <2> HIDE DEF o, s, j, i
  <2>5. /\ Holding(o, s) \in UserRecords /\ Holding(o, s).locks = o.locks \cup {s}
        /\ Holding(o, s).refs = o.refs /\ Holding(o, s).goal = o.goal
        /\ Holding(o, s).dir = o.dir /\ Holding(o, s).ino = o.ino /\ Holding(o, s).slot = o.slot
        /\ Holding(o, s).file = o.file /\ Holding(o, s).ret = o.ret /\ Holding(o, s).then = o.then
    BY <1>1, <1>2, HoldingIs
  <2>6. /\ r \in UserRecords /\ r.pc = at /\ r.locks = o.locks \cup {s} /\ r.refs = o.refs
        /\ r.goal = o.goal /\ r.dir = o.dir /\ r.ino = o.ino /\ r.slot = s
        /\ r.file = o.file /\ r.ret = o.ret /\ r.then = o.then
    BY <1>3, <2>5 DEF UserRecords, s
  <2>0. MaySleep(p, r) \/ Goes(p, r)
    BY <1>4
  <2> HIDE DEF r
  <2>7. RefsOK(r)
    BY <1>2, <1>3, <2>6 DEF RefsOK, RefsAfter, Puts, Results
  <2>8. CallOK(r)
    BY <1>2, <1>3, <2>6 DEF CallOK, Puts, Results
  <2>9. PlaceOK(r)
    BY <1>1, <1>2, <2>6, <2>7, <2>8 DEF PlaceOK
  <2>10. Turns(p, r) /\ running' \in Users \cup {Nil}
    <3>1. r.pc # "idle"
      BY <1>3, <2>6
    <3> QED BY <1>1, <2>0, <2>6, <2>9, <3>1, GoesTurns, MaySleepTurns
  <2>11. r.refs \subseteq {s} \/ o.goal # "sync"
    BY <1>2, <2>6 DEF RefsAfter
  <2>12. StillPut(p, s, i, r)
    BY <1>1, <1>2, <1>3, <2>1, <2>2, <2>3, <2>4, <2>6, <2>10, <2>11 DEF StillPut, o, j
  <2> QED BY <1>2, <2>3, <2>10, <2>12, StillPutDoes
<1>5. ASSUME Prele(p, s, Counted(j, -1), Away(o))
      PROVE  Does(p) /\ running' \in Users \cup {Nil}
  <2> DEFINE w == Away(o)
             d == -1
             i == Counted(j, d)
  <2>1. d \in Int /\ Prele(p, s, i, w)
    BY <1>5
  <2>2. j.count + d = j.count - 1
    BY <1>2
  <2> HIDE DEF d
  <2>3. i \in InodeRecords /\ i.ino = j.ino /\ i.count = j.count + d /\ i.dirty = j.dirty
    BY <1>2, <2>1, InodeIs
  <2>4. /\ w \in UserRecords /\ PlaceOK(w) /\ w.refs = o.refs \ {s}
        /\ w.pc \notin {"igetwake", "t_free", "t_put"} /\ (w.refs = {} \/ o.goal # "sync")
    BY <1>1, <1>3, AwayIs
  <2> HIDE DEF o, s, j, i, w
  <2>5. /\ Turns(p, w) /\ running' \in Users \cup {Nil}
        /\ \E n \in InodeRecords : /\ inode' = [inode EXCEPT ![s] = n]
                                   /\ n.ino = i.ino /\ n.count = i.count /\ n.dirty = i.dirty
    BY <1>1, <1>2, <2>1, <2>3, <2>4, PreleTurns
  <2>6. PICK n \in InodeRecords : /\ inode' = [inode EXCEPT ![s] = n]
                                  /\ n.ino = i.ino /\ n.count = i.count /\ n.dirty = i.dirty
    BY <2>5
  <2>7. \A t : ~Waits(w, t) /\ ~Waits(o, t)
    BY <1>1, <2>4 DEF Waits
  <2>8. n.count = j.count + Uses(w, s) - Uses(o, s)
    <3>1. Uses(w, s) = 0 /\ Uses(o, s) = 1
      BY <1>2, <2>4, <2>7 DEF Uses
    <3> QED BY <1>2, <2>2, <2>3, <2>6, <3>1
  <2>9. SameNumber(s, n)
    BY <1>1, <1>2, <2>3, <2>6 DEF SameNumber, TabInv, TableInv, j
  <2>10. MayDo(p, s, n, w)
    BY <1>1, <1>2, <2>4, <2>5, <2>6, <2>7, <2>8, <2>9 DEF MayDo, o, j
  <2> QED BY <1>2, <2>4, <2>5, <2>6, <2>10 DEF Does
<1>6. Does(p) /\ running' \in Users \cup {Nil}
  <2> HIDE DEF o, s, j, r
  <2> QED BY <1>1, <1>4, <1>5
<1> QED BY <1>1, <1>6 DEF NumbersType, ialVars, numbers

(* The file is freed, and its number perhaps kept for ialloc.              *)
LEMMA TFreeDoes == ASSUME TabInv, NEW p \in Users, TFree(p) PROVE Does(p) /\ NumbersType'
<1> DEFINE o == user[p]
           s == o.slot
           j == inode[s]
           r == [o EXCEPT !.pc = "t_put"]
           i == [j EXCEPT !.mode = 0, !.dirty = TRUE]
<1>1. /\ o \in UserRecords /\ RefsOK(o) /\ CallOK(o) /\ o.pc = "t_free" /\ running \in {p, Nil}
      /\ o.locks \subseteq o.refs /\ TypesInv /\ NumbersType /\ inode \in [Table -> InodeRecords]
      /\ UNCHANGED <<ifreel, dinode, named, s_ilock, spoilt>> /\ MaySleep(p, r)
      /\ inode' = [inode EXCEPT ![s].mode = 0, ![s].dirty = TRUE]
      /\ s_inode' \in {s_inode, Append(s_inode, j.ino)}
  BY AtIs DEF TFree
<1>2. /\ s \in Table /\ s \in o.refs /\ o.refs \ {s} = RefsAfter(o) /\ o.then \in Thens
      /\ (o.then = "use" => o.file \in Files) /\ j \in InodeRecords
      /\ o.goal \in FileCalls /\ o.dir \in Dirs /\ (o.goal = "sync" <=> o.then = "update")
      /\ (o.then = "noinode" => o.ret \in Results /\ o.ino \in Inos)
  BY <1>1 DEF RefsOK, CallOK, Puts
<1>3. s \notin Dirs /\ j.lock /\ j.ino # Nil /\ \A q \in Users \ {p} : s \notin user[q].refs
  BY <1>1 DEF TabInv, PutInv
<1>4. j.ino \in Inos
  BY <1>2, <1>3 DEF TabInv, TableInv, Files
<1>5. s_inode' \in Seq(Inos)
  <2>1. s_inode \in Seq(Inos)
    BY <1>1 DEF NumbersType
  <2>2. Append(s_inode, j.ino) \in Seq(Inos)
    BY <1>4, <2>1, AppendProperties
  <2> QED BY <1>1, <2>1, <2>2
<1>6. i \in InodeRecords /\ i.ino = j.ino /\ i.count = j.count /\ i.lock = j.lock
  BY <1>2 DEF InodeRecords
<1> HIDE DEF o, s
<1>7. inode' = [inode EXCEPT ![s] = i]
  <2>1. inode' = [[inode EXCEPT ![s].mode = 0] EXCEPT ![s].dirty = TRUE]
    BY <1>1
  <2>2. \A t \in Table : inode'[t] = IF t = s THEN i ELSE inode[t]
    BY <1>1, <1>2, <2>1 DEF InodeRecords
  <2>3. DOMAIN inode' = Table /\ inode' = [t \in Table |-> inode'[t]]
    BY <1>1, <2>1
  <2> HIDE DEF i
  <2> QED BY <1>1, <2>2, <2>3
<1> HIDE DEF j, i
<1>8. /\ r \in UserRecords /\ r.pc = "t_put" /\ r.locks = o.locks /\ r.refs = o.refs
      /\ r.goal = o.goal /\ r.dir = o.dir /\ r.ino = o.ino /\ r.slot = s
      /\ r.file = o.file /\ r.ret = o.ret /\ r.then = o.then
  <2>1. "t_put" \in Labels
    BY DEF Labels, Puts
  <2> QED BY <1>1, <2>1 DEF UserRecords, s
<1> HIDE DEF r
<1>9. RefsOK(r)
  BY <1>2, <1>8 DEF RefsOK, RefsAfter, Puts, Results
<1>10. CallOK(r)
  BY <1>2, <1>8 DEF CallOK, Puts, Results
<1>11. PlaceOK(r)
  BY <1>1, <1>8, <1>9, <1>10 DEF PlaceOK
<1>12. Turns(p, r) /\ running' \in Users \cup {Nil}
  BY <1>1, <1>8, <1>11, MaySleepTurns
<1>13. r.refs \subseteq {s} \/ o.goal # "sync"
  BY <1>2, <1>8 DEF RefsAfter
<1>14. StillPut(p, s, i, r)
  BY <1>1, <1>2, <1>3, <1>6, <1>7, <1>8, <1>12, <1>13 DEF StillPut, o, j
<1>15. Does(p)
  BY <1>2, <1>6, <1>14, StillPutDoes
<1> QED BY <1>1, <1>5, <1>12, <1>15 DEF NumbersType

(* The inode is written, loses its number and is free.                     *)
LEMMA TPutDoes == ASSUME TabInv, NEW p \in Users, TPut(p) PROVE Does(p) /\ NumbersType'
<1> DEFINE o == user[p]
           s == o.slot
           j == inode[s]
           w == Away(o)
           d == -1
           m == [j EXCEPT !.ino = Nil, !.dirty = FALSE]
           i == Counted(m, d)
<1>1. /\ o \in UserRecords /\ RefsOK(o) /\ CallOK(o) /\ PlaceOK(o) /\ o.pc = "t_put" /\ running \in {p, Nil}
      /\ o.locks \subseteq o.refs /\ TypesInv /\ NumbersType /\ inode \in [Table -> InodeRecords]
      /\ UNCHANGED <<named, numbers>> /\ (Fsiupdat(j) \/ FsiupdatFails(j)) /\ ifreel' = <<s>> \o ifreel
      /\ Prele(p, s, i, w)
  BY AtIs DEF TPut, Away
<1>2. o.pc \in Puts
  BY <1>1 DEF Puts
<1>3. /\ w \in UserRecords /\ PlaceOK(w) /\ w.refs = o.refs \ {s} /\ s \in Table /\ s \in o.refs
      /\ w.pc \notin {"igetwake", "t_free", "t_put"} /\ (w.refs = {} \/ o.goal # "sync")
  BY <1>1, <1>2, AwayIs
<1>4. s \notin Dirs /\ j.lock /\ j.ino # Nil /\ \A q \in Users \ {p} : s \notin user[q].refs
  BY <1>1 DEF TabInv, PutInv
<1>5. j \in InodeRecords /\ j.count \in Int /\ d \in Int /\ j.count + d = j.count - 1
  BY <1>1, <1>3 DEF InodeRecords
<1>6. m \in InodeRecords /\ m.ino = Nil /\ m.count = j.count /\ ~m.dirty
  BY <1>5 DEF InodeRecords
<1> HIDE DEF o, s, j, m, d
<1>7. i \in InodeRecords /\ i.ino = Nil /\ i.count = j.count + d /\ ~i.dirty
  BY <1>5, <1>6, InodeIs
<1> HIDE DEF i, w
<1>8. /\ Turns(p, w) /\ running' \in Users \cup {Nil}
      /\ \E n \in InodeRecords : /\ inode' = [inode EXCEPT ![s] = n]
                                 /\ n.ino = i.ino /\ n.count = i.count /\ n.dirty = i.dirty
  BY <1>1, <1>3, <1>7, PreleTurns
<1>9. PICK n \in InodeRecords : /\ inode' = [inode EXCEPT ![s] = n]
                                /\ n.ino = i.ino /\ n.count = i.count /\ n.dirty = i.dirty
  BY <1>8
<1>10. \A t : ~Waits(w, t) /\ ~Waits(o, t)
  BY <1>1, <1>3 DEF Waits
<1>11. n.count = j.count + Uses(w, s) - Uses(o, s)
  <2>1. Uses(w, s) = 0 /\ Uses(o, s) = 1
    BY <1>3, <1>10 DEF Uses
  <2> QED BY <1>5, <1>7, <1>9, <2>1
<1>12. LosesNumber(p, s, n, w)
  BY <1>1, <1>3, <1>7, <1>9 DEF LosesNumber, o, s
<1>13. MayDo(p, s, n, w)
  BY <1>1, <1>3, <1>8, <1>9, <1>10, <1>11, <1>12 DEF MayDo, o, j
<1>14. Does(p)
  BY <1>3, <1>9, <1>13 DEF Does
<1>15. dinode' \in [Inos \cup DirNumbers -> DiskRecords]
  BY <1>1, <1>5, FsiupdatIs
<1> QED BY <1>1, <1>8, <1>14, <1>15 DEF NumbersType, numbers

(* ialloc sets up the inode it got, or puts it, or leaves.                 *)
LEMMA IallocedDoes == ASSUME TabInv, NEW p \in Users, Ialloced(p) PROVE Does(p) /\ NumbersType'
<1> DEFINE o == user[p]
           s == o.slot
           j == inode[s]
<1>1. /\ o \in UserRecords /\ RefsOK(o) /\ CallOK(o) /\ o.pc = "ialloced" /\ running \in {p, Nil}
      /\ o.locks \subseteq o.refs /\ TypesInv /\ NumbersType /\ inode \in [Table -> InodeRecords]
      /\ UNCHANGED <<ifreel, dinode, named, s_inode, spoilt>>
      /\ \/ s = Nil /\ Iunlock(p, Leaves(o, "idle")) /\ UNCHANGED inode
         \/ /\ s # Nil /\ inode' = [inode EXCEPT ![s].mode = 1, ![s].nlink = 1, ![s].dirty = TRUE]
            /\ Iunlock(p, [o EXCEPT !.pc = "iupdat", !.file = s])
         \/ s # Nil /\ Goes(p, Iputs(o, s, "iloop")) /\ UNCHANGED <<inode, s_ilock>>
  BY AtIs DEF Ialloced
<1>2. /\ \/ s = Nil /\ o.refs = {o.dir}
         \/ s \in Files /\ s \in Table /\ o.refs = {o.dir, s} /\ s # o.dir
      /\ o.goal \in FileCalls /\ o.goal # "sync" /\ o.dir \in Dirs /\ o.ino \in Inos
  BY <1>1, Constants DEF RefsOK, CallOK, Puts, Results, Files
<1>3. Nil \notin Files
  BY Constants DEF Files
<1> HIDE DEF o, s, j
<1>4. ASSUME s = Nil, Iunlock(p, Leaves(o, "idle")), UNCHANGED inode
      PROVE  Does(p) /\ running' \in Users \cup {Nil} /\ s_ilock' \in BOOLEAN
  <2> DEFINE r == Leaves(o, "idle")
  <2>0. o.refs = {o.dir}
    BY <1>2, <1>3, <1>4
  <2>1. r \in UserRecords /\ PlaceOK(r) /\ r.refs = o.refs /\ r.pc = "iput"
    <3>1. o.pc \notin {"idle", "update", "updated"} \cup Puts
      BY <1>1 DEF Puts
    <3> QED BY <1>1, <2>0, <3>1, LeavesPlace
  <2>2. Iunlock(p, r)
    BY <1>4
  <2> HIDE DEF r
  <2>3. Turns(p, r) /\ running' \in Users \cup {Nil} /\ s_ilock' \in BOOLEAN
    BY <1>1, <2>1, <2>2, IunlockTurns
  <2> QED BY <1>1, <1>2, <1>4, <2>1, <2>3, QuietDoes DEF o
<1>5. ASSUME s # Nil, inode' = [inode EXCEPT ![s].mode = 1, ![s].nlink = 1, ![s].dirty = TRUE],
             Iunlock(p, [o EXCEPT !.pc = "iupdat", !.file = s])
      PROVE  Does(p) /\ running' \in Users \cup {Nil} /\ s_ilock' \in BOOLEAN
  <2> DEFINE r == [o EXCEPT !.pc = "iupdat", !.file = s]
             i == [j EXCEPT !.mode = 1, !.nlink = 1, !.dirty = TRUE]
  <2>0. s \in Files /\ s \in Table /\ o.refs = {o.dir, s} /\ s \in o.refs /\ j \in InodeRecords
    BY <1>1, <1>2, <1>5 DEF j
  <2>1. i \in InodeRecords /\ i.ino = j.ino /\ i.count = j.count
    <3> DEFINE one == 1
               x == [j EXCEPT !.mode = one, !.nlink = one, !.dirty = TRUE]
    <3>1. one \in Int /\ one \in {0, 1}
      OBVIOUS
    <3> HIDE DEF one
    <3>2. x \in InodeRecords
      BY <2>0, <3>1 DEF InodeRecords
    <3>3. x.ino = j.ino /\ x.count = j.count
      BY <2>0 DEF InodeRecords
    <3> QED BY <3>2, <3>3 DEF one
  <2>2. inode' = [inode EXCEPT ![s] = i]
    <3>1. inode' = [[[inode EXCEPT ![s].mode = 1] EXCEPT ![s].nlink = 1] EXCEPT ![s].dirty = TRUE]
      BY <1>5
    <3>2. \A t \in Table : inode'[t] = IF t = s THEN i ELSE inode[t]
      BY <1>1, <2>0, <3>1 DEF InodeRecords, j
    <3>3. DOMAIN inode' = Table /\ inode' = [t \in Table |-> inode'[t]]
      BY <1>1, <3>1
    <3> HIDE DEF i
    <3> QED BY <1>1, <3>2, <3>3
  <2>3. Iunlock(p, r)
    BY <1>5
  <2>4. /\ r \in UserRecords /\ r.pc = "iupdat" /\ r.file = s /\ r.refs = o.refs /\ r.locks = o.locks
        /\ r.goal = o.goal /\ r.dir = o.dir /\ r.ino = o.ino
    <3>1. "iupdat" \in Labels
      BY DEF Labels
    <3> QED BY <1>1, <2>0, <3>1 DEF UserRecords
  <2> HIDE DEF r, i
  <2>5. RefsOK(r)
    BY <2>0, <2>4 DEF RefsOK, Puts, Results
  <2>6. CallOK(r)
    BY <1>2, <2>4 DEF CallOK, Puts, Results
  <2>7. PlaceOK(r)
    BY <1>1, <2>4, <2>5, <2>6 DEF PlaceOK
  <2>8. Turns(p, r) /\ running' \in Users \cup {Nil} /\ s_ilock' \in BOOLEAN
    BY <1>1, <2>3, <2>4, <2>7, IunlockTurns
  <2>9. Own(p, s, i, r)
    BY <1>1, <1>2, <2>0, <2>1, <2>2, <2>4, <2>8 DEF o, j, Own
  <2> QED BY <2>0, <2>1, <2>8, <2>9, OwnDoes
<1>6. ASSUME s # Nil, Goes(p, Iputs(o, s, "iloop")), UNCHANGED <<inode, s_ilock>>
      PROVE  Does(p) /\ running' \in Users \cup {Nil} /\ s_ilock' \in BOOLEAN
  <2> DEFINE r == Iputs(o, s, "iloop")
  <2>0. s \in Files /\ s \in Table /\ o.refs = {o.dir, s} /\ s # o.dir
    BY <1>2, <1>6
  <2>1. /\ r \in UserRecords /\ r.pc = "iput" /\ r.slot = s /\ r.then = "iloop"
        /\ r.goal = o.goal /\ r.dir = o.dir /\ r.refs = o.refs /\ r.locks = o.locks
    <3>1. "iloop" \in Thens
      BY DEF Thens
    <3> QED BY <1>1, <2>0, <3>1, IputsIs
  <2>2. Goes(p, r)
    BY <1>6
  <2> HIDE DEF r
  <2>3. RefsOK(r)
    BY <1>2, <2>0, <2>1 DEF RefsOK, RefsAfter, Puts, Results, Thens
  <2>4. CallOK(r)
    BY <1>2, <2>1 DEF CallOK, Puts, Results
  <2>5. PlaceOK(r)
    BY <1>1, <2>1, <2>3, <2>4 DEF PlaceOK
  <2>6. Turns(p, r) /\ running' \in Users \cup {Nil}
    BY <1>1, <2>1, <2>2, <2>5, GoesTurns
  <2>7. Does(p)
    BY <1>1, <1>2, <1>6, <2>1, <2>6, QuietDoes DEF o
  <2> QED BY <1>1, <1>6, <2>6, <2>7 DEF NumbersType
<1>7. Does(p) /\ running' \in Users \cup {Nil} /\ s_ilock' \in BOOLEAN
  BY <1>1, <1>4, <1>5, <1>6
<1> QED BY <1>1, <1>7 DEF NumbersType

(* update has written an inode and puts it.                                *)
LEMMA UpdatedDoes == ASSUME TabInv, NEW p \in Users, Updated(p) PROVE Does(p) /\ NumbersType'
<1> DEFINE o == user[p]
           s == o.slot
           j == inode[s]
           r == Iputs(o, s, "update")
           clean == [j EXCEPT !.dirty = FALSE]
           i == IF inode' = inode THEN j ELSE clean
<1>1. /\ o \in UserRecords /\ RefsOK(o) /\ CallOK(o) /\ o.pc = "updated" /\ running \in {p, Nil}
      /\ o.locks \subseteq o.refs /\ TypesInv /\ NumbersType /\ inode \in [Table -> InodeRecords]
      /\ UNCHANGED <<ifreel, named, numbers>> /\ Goes(p, r)
      /\ \/ Fsiupdat(j) /\ inode' = [inode EXCEPT ![s].dirty = FALSE]
         \/ FsiupdatFails(j) /\ j.dirty /\ inode' = inode
  BY AtIs DEF Updated, FsiupdatFails
<1>2. /\ s \in Table /\ o.refs = {s} /\ o.goal = "sync" /\ o.goal \in FileCalls /\ o.dir \in Dirs
      /\ j \in InodeRecords /\ j.count \in Int
  BY <1>1 DEF RefsOK, CallOK, InodeRecords
<1>3. j.ino # Nil \/ Passing(p, s)
  BY <1>2 DEF TabInv, RefInv
<1> HIDE DEF o, s
<1>4. i \in InodeRecords /\ i.ino = j.ino /\ i.count = j.count /\ i.lock = j.lock /\ (i.ino = Nil => ~i.dirty)
  <2>1. clean \in InodeRecords /\ clean.ino = j.ino /\ clean.count = j.count /\ clean.lock = j.lock /\ ~clean.dirty
    BY <1>2 DEF InodeRecords
  <2>2. j.ino = Nil => ~j.dirty
    BY <1>2 DEF TabInv, TableInv, j
  <2> HIDE DEF clean, j
  <2> QED BY <1>2, <2>1, <2>2
<1>5. inode' = [inode EXCEPT ![s] = i]
  <2>1. inode' # inode => inode' = [inode EXCEPT ![s] = clean]
    BY <1>1, <1>2 DEF InodeRecords
  <2> HIDE DEF clean
  <2> QED BY <1>1, <1>2, <2>1
<1> HIDE DEF j, i
<1>6. /\ r \in UserRecords /\ r.pc = "iput" /\ r.slot = s /\ r.then = "update"
      /\ r.goal = o.goal /\ r.dir = o.dir /\ r.refs = o.refs /\ r.locks = o.locks
  <2>1. "update" \in Thens
    BY DEF Thens
  <2> QED BY <1>1, <1>2, <2>1, IputsIs
<1> HIDE DEF r
<1>7. RefsOK(r)
  BY <1>2, <1>6 DEF RefsOK, RefsAfter, Puts, Results, Thens
<1>8. CallOK(r)
  BY <1>2, <1>6 DEF CallOK, Puts, Results
<1>9. PlaceOK(r)
  BY <1>1, <1>6, <1>7, <1>8 DEF PlaceOK
<1>10. Turns(p, r) /\ running' \in Users \cup {Nil} /\ running' = p
  BY <1>1, <1>6, <1>9, GoesTurns
<1>11. \A t : ~Waits(r, t) /\ ~Waits(o, t)
  BY <1>1, <1>6 DEF Waits
<1>12. i.ino # Nil \/ \E q \in Users \ {p} : Waits(user[q], s)
  BY <1>3, <1>4, <1>11 DEF Passing, o, j
<1>13. i.count = j.count + Uses(r, s) - Uses(o, s)
  <2>1. Uses(r, s) = 1 /\ Uses(o, s) = 1
    BY <1>2, <1>6, <1>11 DEF Uses
  <2> QED BY <1>2, <1>4, <2>1
<1>14. SameNumber(s, i)
  BY <1>1, <1>4 DEF SameNumber, j
<1>15. MayDo(p, s, i, r)
  BY <1>1, <1>2, <1>4, <1>5, <1>6, <1>10, <1>11, <1>12, <1>13, <1>14 DEF MayDo, o, j
<1>16. Does(p)
  BY <1>2, <1>4, <1>6, <1>15 DEF Does
<1>17. dinode' \in [Inos \cup DirNumbers -> DiskRecords]
  BY <1>1, <1>2, FsiupdatIs
<1> QED BY <1>1, <1>10, <1>16, <1>17 DEF NumbersType, numbers

(* An inode that update finds counted but free is one a waiter has yet to  *)
(* leave.                                                                  *)
LEMMA FreeIsWaitedFor ==
  ASSUME TabInv, NEW s \in Table, inode[s].count # 0, inode[s].ino = Nil
  PROVE  \E q \in Users : Waits(user[q], s)
<1>1. s \notin Dirs
  <2> SUFFICES ASSUME s \in Dirs PROVE FALSE
    OBVIOUS
  <2>1. inode[s].ino = -s /\ -s \in DirNumbers
    BY DEF TabInv, TableInv, DirNumbers
  <2> QED BY <2>1, Constants
<1>2. PICK q \in Users : s \in user[q].refs \/ Waits(user[q], s)
  BY <1>1, CountedIsUsed DEF TabInv
<1>3. CASE s \in user[q].refs
  BY <1>3 DEF TabInv, RefInv, Passing
<1> QED BY <1>2, <1>3

(* update takes the next inode that is in use and not locked, or is done.  *)
LEMMA UpdateDoes == ASSUME TabInv, NEW p \in Users, Update(p) PROVE Does(p) /\ NumbersType'
<1> DEFINE o == user[p]
           rest == {s \in Table : s >= o.scan /\ ~inode[s].lock /\ inode[s].count # 0}
           s == Min(rest)
           j == inode[s]
           n == [o EXCEPT !.pc = "updated", !.slot = s, !.scan = s + 1]
           r == Holding(Referring(n, s), s)
<1>1. /\ o \in UserRecords /\ RefsOK(o) /\ CallOK(o) /\ o.pc = "update" /\ running \in {p, Nil}
      /\ o.locks \subseteq o.refs /\ TypesInv /\ NumbersType /\ inode \in [Table -> InodeRecords]
      /\ UNCHANGED <<ifreel, dinode, named, ialVars>>
      /\ \/ /\ rest # {} /\ inode' = [inode EXCEPT ![s] = Counted(Locked(@), 1)]
            /\ IF j.dirty THEN MaySleep(p, r) ELSE Goes(p, r)
         \/ Goes(p, Fresh) /\ UNCHANGED inode
  BY AtIs DEF Update
<1>2. o.refs = {} /\ o.locks = {} /\ o.goal = "sync" /\ o.goal \in FileCalls /\ o.dir \in Dirs
  BY <1>1 DEF RefsOK, CallOK
<1>3. rest \subseteq Nat
  BY Constants
<1>4. rest # {} => s \in rest
  <2> HIDE DEF rest
  <2> QED BY <1>3, LeastSlot
<1>5. rest # {} => s \in Table /\ ~j.lock /\ j.count # 0
  BY <1>4
<1> HIDE DEF o, s, rest
<1>6. ASSUME rest # {}, inode' = [inode EXCEPT ![s] = Counted(Locked(@), 1)],
             IF j.dirty THEN MaySleep(p, r) ELSE Goes(p, r)
      PROVE  Does(p) /\ running' \in Users \cup {Nil}
  <2> DEFINE i == Counted(Locked(j), 1)
             m == Referring(n, s)
  <2>1. s \in Table /\ ~j.lock /\ j.count # 0 /\ j \in InodeRecords /\ s \in Int /\ s + 1 \in Int
    <3>1. s \in Nat
      BY <1>5, <1>6, Constants
    <3> QED BY <1>1, <1>5, <1>6, <3>1
  <2>2. inode' = [inode EXCEPT ![s] = i]
    BY <1>6
  <2>3. i \in InodeRecords /\ i.ino = j.ino /\ i.count = j.count + 1 /\ i.dirty = j.dirty /\ i.lock
    <3>1. Locked(j) \in InodeRecords /\ Locked(j).ino = j.ino /\ Locked(j).count = j.count
          /\ Locked(j).dirty = j.dirty /\ Locked(j).lock
      BY <2>1, InodeIs
    <3> QED BY <3>1, OneMore
  <2>4. n \in UserRecords /\ n.pc = "updated" /\ n.slot = s /\ n.refs = {} /\ n.locks = {}
        /\ n.goal = "sync" /\ n.dir = o.dir
    <3> DEFINE next == s + 1
    <3>1. "updated" \in Labels /\ next \in Int
      BY <2>1 DEF Labels
    <3> HIDE DEF next
    <3>2. [o EXCEPT !.pc = "updated", !.slot = s, !.scan = next] \in UserRecords
      BY <1>1, <2>1, <3>1 DEF UserRecords
    <3>3. n \in UserRecords
      BY <3>2 DEF next
    <3>4. n.pc = "updated" /\ n.slot = s
      BY <1>1 DEF UserRecords
    <3>5. n.refs = o.refs /\ n.locks = o.locks /\ n.goal = o.goal /\ n.dir = o.dir
      BY <1>1 DEF UserRecords
    <3> QED BY <1>2, <3>3, <3>4, <3>5
  <2> HIDE DEF n, j, i
  <2>5. m \in UserRecords /\ m.pc = "updated" /\ m.slot = s /\ m.refs = {s} /\ m.locks = {}
        /\ m.goal = "sync" /\ m.dir = o.dir
    <3>1. {s} \in SUBSET Table /\ n.refs \cup {s} = {s}
      BY <2>1, <2>4
    <3>2. m = [n EXCEPT !.refs = {s}]
      BY <2>4, <3>1 DEF Referring, UserRecords
    <3> QED BY <2>4, <3>1, <3>2 DEF UserRecords
  <2>6. r = Holding(m, s)
    OBVIOUS
  <2> HIDE DEF m, r
  <2>7. r \in UserRecords /\ r.pc = "updated" /\ r.slot = s /\ r.refs = {s} /\ r.locks = {s}
        /\ r.goal = "sync" /\ r.dir = o.dir
    BY <2>1, <2>5, <2>6, HoldingIs
  <2>8. RefsOK(r)
    BY <2>1, <2>7 DEF RefsOK, Puts, Results
  <2>9. CallOK(r)
    BY <1>2, <2>7 DEF CallOK, Puts, Results, FileCalls
  <2>10. PlaceOK(r)
    BY <2>7, <2>8, <2>9 DEF PlaceOK
  <2>11. Turns(p, r) /\ running' \in Users \cup {Nil} /\ (~j.dirty => running' = p)
    BY <1>1, <1>6, <2>7, <2>10, GoesTurns, MaySleepTurns
  <2>12. j.ino = Nil => ~j.dirty /\ \E q \in Users \ {p} : Waits(user[q], s)
    <3> SUFFICES ASSUME j.ino = Nil PROVE ~j.dirty /\ \E q \in Users \ {p} : Waits(user[q], s)
      OBVIOUS
    <3>1. \E q \in Users : Waits(user[q], s)
      BY <2>1, FreeIsWaitedFor DEF j
    <3>2. ~Waits(user[p], s)
      BY <1>1 DEF Waits, o
    <3>3. ~j.dirty
      BY <2>1 DEF TabInv, TableInv, j
    <3> QED BY <3>1, <3>2, <3>3
  <2>13. SameNumber(s, i)
    BY <1>1, <2>3, <2>12 DEF SameNumber, j
  <2>14. \/ i.ino # Nil
         \/ /\ running' = p /\ r.goal = "sync" /\ r.pc \in {"updated", "iput"}
            /\ \E q \in Users \ {p} : Waits(user[q], s)
    BY <2>3, <2>7, <2>11, <2>12
  <2>15. Takes(p, s, i, r)
    BY <1>1, <1>2, <2>1, <2>2, <2>3, <2>7, <2>11, <2>13, <2>14 DEF Takes, o, j
  <2> QED BY <2>1, <2>3, <2>11, <2>15, TakesDoes
<1>7. ASSUME Goes(p, Fresh), UNCHANGED inode
      PROVE  Does(p) /\ running' \in Users \cup {Nil}
  <2>1. Fresh \in UserRecords /\ Fresh.pc = "idle" /\ Fresh.refs = {} /\ Fresh.locks = {}
    BY DEF Fresh, UserRecords, Labels
  <2>2. PlaceOK(Fresh)
    BY <2>1 DEF PlaceOK, RefsOK, CallOK, Puts, Results
  <2>3. Turns(p, Fresh) /\ running' \in Users \cup {Nil}
    BY <1>1, <1>7, <2>1, <2>2, GoesTurns
  <2> QED BY <1>1, <1>2, <1>7, <2>1, <2>3, QuietDoes DEF o
<1>8. Does(p) /\ running' \in Users \cup {Nil}
  <2> HIDE DEF j, r
  <2> QED BY <1>1, <1>6, <1>7
<1> QED BY <1>1, <1>8 DEF NumbersType, ialVars, numbers

-----------------------------------------------------------------------------
(* Of a finite set of positions there is a k-th one, for every k up to     *)
(* their number.                                                           *)
UpTo(free, i) == {j \in free : j <= i}

(* It is the least position up to which there are k of them.               *)
LEMMA NthIs ==
  ASSUME NEW n \in Nat, NEW free \in SUBSET (1 .. n), NEW k \in 1 .. Cardinality(free)
  PROVE  \E i \in free : Cardinality(UpTo(free, i)) = k
<1>0. \A j \in free : j \in Nat /\ j >= 1 /\ j <= n
  OBVIOUS
<1>1. \A i \in Nat : UpTo(free, i) \subseteq free
  BY DEF UpTo
<1>2. IsFiniteSet(free) /\ Cardinality(free) \in Nat
  <2>1. IsFiniteSet(1 .. n)
    BY FS_Interval
  <2> QED BY <2>1, FS_Subset, FS_CardinalityType
<1>3. \A i \in Nat : IsFiniteSet(UpTo(free, i)) /\ Cardinality(UpTo(free, i)) \in Nat
  BY <1>1, <1>2, FS_Subset, FS_CardinalityType
<1> DEFINE T == {i \in Nat : Cardinality(UpTo(free, i)) >= k}
<1>4. n \in T
  <2>1. UpTo(free, n) = free
    BY <1>0 DEF UpTo
  <2> QED BY <1>2, <2>1
<1>5. Min(T) \in T /\ \A i \in T : Min(T) <= i
  <2>1. T \in SUBSET Nat /\ T # {}
    BY <1>4
  <2> HIDE DEF T
  <2> QED BY <2>1, LeastSlot
<1> DEFINE m == Min(T)
<1>6. m \in Nat /\ Cardinality(UpTo(free, m)) >= k
  BY <1>5
<1>7. \A i \in Nat : Cardinality(UpTo(free, i)) >= k => m <= i
  BY <1>5
<1> HIDE DEF T, m
<1>8. k \in Nat /\ k >= 1
  BY <1>2
<1>9. m # 0
  <2> SUFFICES ASSUME m = 0 PROVE FALSE
    OBVIOUS
  <2>1. UpTo(free, m) = {}
    <3>1. \A j \in free : ~(j <= m)
      BY <1>0
    <3> QED BY <3>1 DEF UpTo
  <2>2. Cardinality(UpTo(free, m)) = 0
    BY <2>1, FS_EmptySet
  <2> QED BY <1>6, <1>8, <2>2
<1>10. m - 1 \in Nat /\ ~(m <= m - 1)
  BY <1>6, <1>9
<1>11. Cardinality(UpTo(free, m - 1)) < k
  BY <1>3, <1>7, <1>8, <1>10
<1>12. m \in free
  <2> SUFFICES ASSUME m \notin free PROVE FALSE
    OBVIOUS
  <2>1. UpTo(free, m) = UpTo(free, m - 1)
    <3>1. \A j \in free : j <= m <=> j <= m - 1
      BY <1>0, <1>6
    <3> QED BY <3>1 DEF UpTo
  <2> QED BY <1>3, <1>6, <1>8, <1>10, <1>11, <2>1
<1>13. UpTo(free, m) = UpTo(free, m - 1) \cup {m} /\ m \notin UpTo(free, m - 1)
  <2>1. \A j \in free : j <= m <=> j <= m - 1 \/ j = m
    BY <1>0, <1>6
  <2>2. m <= m
    BY <1>6
  <2> QED BY <1>10, <1>12, <2>1, <2>2 DEF UpTo
<1>14. Cardinality(UpTo(free, m)) = Cardinality(UpTo(free, m - 1)) + 1
  BY <1>3, <1>10, <1>13, FS_AddElement
<1>15. Cardinality(UpTo(free, m)) = k
  BY <1>3, <1>6, <1>8, <1>10, <1>11, <1>14
<1> QED BY <1>12, <1>15

(* The free numbers of a block are numbers of the i-list.                  *)
LEMMA FreeInIs ==
  ASSUME NEW b \in DOMAIN Ilist
  PROVE  FreeIn(Ilist[b]) \in Seq(Inos)
<1> DEFINE block == Ilist[b]
           free == {i \in DOMAIN block : dinode[block[i]].mode = 0 /\ Ifind(block[i]) = {}}
           nth(k) == CHOOSE i \in free : Cardinality({j \in free : j <= i}) = k
<1>1. Ilist \in Seq(Seq(Nat \ {0}))
  BY InodeConstants
<1>2. block \in Seq(Nat \ {0})
  BY <1>1, ElementOfSeq, LenProperties
<1>3. Len(block) \in Nat /\ DOMAIN block = 1 .. Len(block)
  BY <1>2, LenProperties
<1>4. \A i \in DOMAIN block : block[i] \in Inos
  BY DEF Inos, ToSet
<1>5. free \in SUBSET (1 .. Len(block))
  BY <1>3
<1>6. FreeIn(block) = [k \in 1 .. Cardinality(free) |-> block[nth(k)]]
  BY DEF FreeIn
<1>7. Cardinality(free) \in Nat
  <2>1. IsFiniteSet(1 .. Len(block))
    BY <1>3, FS_Interval
  <2> HIDE DEF free, block
  <2> QED BY <1>5, <2>1, FS_Subset, FS_CardinalityType
<1>8. ASSUME NEW k \in 1 .. Cardinality(free) PROVE block[nth(k)] \in Inos
  <2>1. \E i \in free : Cardinality(UpTo(free, i)) = k
    <3> HIDE DEF free, block
    <3> QED BY <1>3, <1>5, <1>8, NthIs
  <2>2. nth(k) \in free
    <3> HIDE DEF free
    <3> QED BY <2>1 DEF UpTo
  <2> QED BY <1>3, <1>4, <1>5, <2>2
<1> HIDE DEF free, nth
<1>9. FreeIn(block) \in [1 .. Cardinality(free) -> Inos]
  BY <1>6, <1>8
<1> QED BY <1>7, <1>9, SeqDef

(* What is taken of them is as well.                                       *)
LEMMA TakenIs ==
  ASSUME NEW cache \in Seq(Inos), NEW found \in Seq(Inos)
  PROVE  Taken(cache, found) \in Seq(Inos)
<1> DEFINE room == InoCache - Len(cache)
           most == Max({1, room})
           n == Min({Len(found), most})
<1>1. Len(cache) \in Nat /\ Len(found) \in Nat /\ room \in Int
  BY Constants, LenProperties
<1> HIDE DEF room
<1>2. most \in Int /\ most >= 1
  <2> DEFINE S == {1, room}
  <2>1. \E x \in S : \A y \in S : x >= y
    <3>1. CASE room >= 1
      BY <1>1, <3>1
    <3>2. CASE ~(room >= 1)
      BY <1>1, <3>2
    <3> QED BY <3>1, <3>2
  <2>2. Max(S) \in S /\ \A y \in S : Max(S) >= y
    <3> HIDE DEF S
    <3> QED BY <2>1 DEF Max
  <2> QED BY <1>1, <2>2
<1> HIDE DEF most
<1>3. n \in Nat /\ n <= Len(found)
  <2>1. {Len(found), most} \in SUBSET Nat /\ {Len(found), most} # {}
    BY <1>1, <1>2
  <2>2. n \in {Len(found), most} /\ \A y \in {Len(found), most} : n <= y
    BY <2>1, LeastSlot
  <2> QED BY <1>1, <1>2, <2>2
<1> HIDE DEF n
<1>4. \A i \in 1 .. n : found[i] \in Inos
  <2>1. \A i \in 1 .. n : i \in 1 .. Len(found)
    BY <1>1, <1>3
  <2> QED BY <2>1, ElementOfSeq
<1>5. SubSeq(found, 1, n) \in Seq(Inos)
  BY <1>3, <1>4, SubSeqProperties
<1>6. cache \o SubSeq(found, 1, n) \in Seq(Inos)
  BY <1>5, ConcatProperties
<1> QED BY <1>6 DEF Taken, n, most, room

(* One block of the search, and the end of it.                             *)
LEMMA FillDoes == ASSUME TabInv, NEW p \in Users, Fill(p) PROVE Does(p) /\ NumbersType'
<1> DEFINE o == user[p]
           cache == Taken(s_inode, FreeIn(Ilist[o.scan]))
           full == Len(cache) >= InoCache
           end == o.scan = Len(Ilist)
           e == [o EXCEPT !.scan = 0]
           l == [o EXCEPT !.pc = "iloop", !.scan = 0]
<1>1. /\ o \in UserRecords /\ RefsOK(o) /\ CallOK(o) /\ o.pc = "fill" /\ running \in {p, Nil}
      /\ o.locks \subseteq o.refs /\ TypesInv /\ NumbersType
      /\ UNCHANGED <<inode, ifreel, dinode, named>>
      /\ s_inode' \in {s_inode, cache} /\ spoilt' \in BOOLEAN
      /\ \/ ~end /\ MaySleep(p, [o EXCEPT !.scan = @ + 1]) /\ UNCHANGED s_ilock
         \/ MaySleep(p, [o EXCEPT !.scan = 1, !.first = FALSE]) /\ UNCHANGED s_ilock
         \/ Iunlock(p, IF cache = <<>> THEN Leaves(e, "idle") ELSE l)
  BY AtIs DEF Fill
<1>2. /\ o.refs = {o.dir} /\ o.goal \in FileCalls /\ o.goal # "sync" /\ o.dir \in Dirs
      /\ o.scan \in DOMAIN Ilist
  BY <1>1 DEF RefsOK, CallOK, Puts
<1>3. s_inode' \in Seq(Inos)
  <2>1. FreeIn(Ilist[o.scan]) \in Seq(Inos) /\ s_inode \in Seq(Inos)
    BY <1>1, <1>2, FreeInIs DEF NumbersType
  <2>2. cache \in Seq(Inos)
    BY <2>1, TakenIs
  <2> QED BY <1>1, <2>1, <2>2
<1>4. /\ Len(Ilist) \in Nat /\ DOMAIN Ilist = 1 .. Len(Ilist) /\ 1 \in DOMAIN Ilist /\ DOMAIN Ilist \subseteq Int
      /\ ~end => o.scan + 1 \in DOMAIN Ilist
  <2>1. Ilist \in Seq(Seq(Nat \ {0})) /\ Ilist # <<>>
    BY InodeConstants
  <2>2. Len(Ilist) \in Nat /\ DOMAIN Ilist = 1 .. Len(Ilist) /\ Len(Ilist) # 0
    BY <2>1, LenProperties, EmptySeq
  <2> QED BY <1>2, <2>2
<1>5. \/ \E b \in DOMAIN Ilist, first \in BOOLEAN :
           MaySleep(p, [o EXCEPT !.scan = b, !.first = first]) /\ UNCHANGED s_ilock
      \/ Iunlock(p, Leaves(e, "idle"))
      \/ Iunlock(p, l)
  <2>1. [o EXCEPT !.scan = @ + 1] = [o EXCEPT !.scan = o.scan + 1, !.first = o.first] /\ o.first \in BOOLEAN
    BY <1>1 DEF UserRecords
  <2> HIDE DEF o, cache, end, e, l
  <2> QED BY <1>1, <1>4, <2>1
<1> HIDE DEF o, cache, full, end
<1>6. ASSUME NEW b \in DOMAIN Ilist, NEW first \in BOOLEAN,
             MaySleep(p, [o EXCEPT !.scan = b, !.first = first]), UNCHANGED s_ilock
      PROVE  Does(p) /\ running' \in Users \cup {Nil} /\ s_ilock' \in BOOLEAN
  <2> DEFINE r == [o EXCEPT !.scan = b, !.first = first]
  <2>1. MaySleep(p, r) /\ b \in Int
    BY <1>4, <1>6
  <2>2. /\ r \in UserRecords /\ r.pc = "fill" /\ r.scan = b
        /\ r.goal = o.goal /\ r.dir = o.dir /\ r.refs = o.refs /\ r.locks = o.locks
    BY <1>1, <2>1 DEF UserRecords
  <2> HIDE DEF r
  <2>3. RefsOK(r)
    BY <1>2, <2>2 DEF RefsOK, Puts, Results
  <2>4. CallOK(r)
    BY <1>2, <2>2 DEF CallOK, Puts, Results
  <2>5. PlaceOK(r)
    BY <1>1, <2>2, <2>3, <2>4 DEF PlaceOK
  <2>6. Turns(p, r) /\ running' \in Users \cup {Nil}
    BY <1>1, <2>1, <2>2, <2>5, MaySleepTurns
  <2>7. Does(p)
    BY <1>1, <1>2, <2>2, <2>6, QuietDoes DEF o
  <2> QED BY <1>1, <1>6, <2>6, <2>7 DEF NumbersType
<1>7. e \in UserRecords /\ e.pc = "fill" /\ e.goal = o.goal /\ e.dir = o.dir /\ e.refs = o.refs /\ e.locks = o.locks
  <2> DEFINE n == 0
  <2>1. n \in Int
    OBVIOUS
  <2> HIDE DEF n
  <2>2. [o EXCEPT !.scan = n] \in UserRecords
    BY <1>1, <2>1 DEF UserRecords
  <2>3. e \in UserRecords
    BY <2>2 DEF n
  <2> QED BY <1>1, <2>3 DEF UserRecords
<1>8. /\ l \in UserRecords /\ l.pc = "iloop" /\ l.goal = o.goal /\ l.dir = o.dir /\ l.refs = o.refs
      /\ l.locks = o.locks
  <2>1. "iloop" \in Labels /\ l = [e EXCEPT !.pc = "iloop"]
    BY <1>1 DEF Labels, UserRecords
  <2> HIDE DEF e, l
  <2> QED BY <1>7, <2>1 DEF UserRecords
<1> HIDE DEF e, l
<1>9. ASSUME Iunlock(p, Leaves(e, "idle"))
      PROVE  Does(p) /\ running' \in Users \cup {Nil} /\ s_ilock' \in BOOLEAN
  <2> DEFINE r == Leaves([e EXCEPT !.pc = "iloop"], "idle")
  <2>1. r = Leaves(e, "idle")
    BY <1>7 DEF Leaves, Iputs, UserRecords
  <2> DEFINE x == [e EXCEPT !.pc = "iloop"]
  <2>2. /\ x \in UserRecords /\ x.pc = "iloop" /\ x.goal = o.goal /\ x.dir = o.dir /\ x.refs = o.refs
        /\ x.locks = o.locks
    <3>1. "iloop" \in Labels
      BY DEF Labels
    <3> QED BY <1>7, <3>1 DEF UserRecords
  <2>3. r = Leaves(x, "idle")
    OBVIOUS
  <2> HIDE DEF x, r
  <2>4. CallOK(x)
    BY <1>2, <2>2 DEF CallOK, Puts, Results
  <2>5. x.pc \notin {"idle", "update", "updated"} \cup Puts /\ x.refs = {x.dir} /\ x.locks \subseteq x.refs
    BY <1>1, <1>2, <2>2 DEF Puts
  <2>6. r \in UserRecords /\ PlaceOK(r) /\ r.refs = x.refs /\ r.pc = "iput"
    BY <2>2, <2>3, <2>4, <2>5, LeavesPlace
  <2>7. Turns(p, r) /\ running' \in Users \cup {Nil} /\ s_ilock' \in BOOLEAN
    BY <1>1, <1>9, <2>1, <2>6, IunlockTurns
  <2> QED BY <1>1, <1>2, <2>2, <2>6, <2>7, QuietDoes DEF o
<1>10. ASSUME Iunlock(p, l)
       PROVE  Does(p) /\ running' \in Users \cup {Nil} /\ s_ilock' \in BOOLEAN
  <2>1. RefsOK(l)
    BY <1>2, <1>8 DEF RefsOK, Puts, Results
  <2>2. CallOK(l)
    BY <1>2, <1>8 DEF CallOK, Puts, Results
  <2>3. PlaceOK(l)
    BY <1>1, <1>8, <2>1, <2>2 DEF PlaceOK
  <2>4. Turns(p, l) /\ running' \in Users \cup {Nil} /\ s_ilock' \in BOOLEAN
    BY <1>1, <1>8, <1>10, <2>3, IunlockTurns
  <2> QED BY <1>1, <1>2, <1>8, <2>4, QuietDoes DEF o
<1>11. Does(p) /\ running' \in Users \cup {Nil} /\ s_ilock' \in BOOLEAN
  BY <1>5, <1>6, <1>9, <1>10
<1> QED BY <1>1, <1>3, <1>11 DEF NumbersType

-----------------------------------------------------------------------------
(* Every step of a process keeps the inductive invariant.                  *)
LEMMA StepDoes == ASSUME TabInv, NEW p \in Users, InodeStep(p) PROVE Does(p) /\ NumbersType'
<1>1. CASE Syscall(p) \/ Close(p) \/ Plock(p) \/ Dsearch(p) \/ Iget(p) \/ IgetWake(p) \/ Fsget(p) \/ Noinode(p)
  BY <1>1, SyscallDoes, CloseDoes, PlockDoes, DsearchDoes, IgetDoes, IgetWakeDoes, FsgetDoes, NoinodeDoes
<1>2. CASE Iput(p) \/ TFree(p) \/ TPut(p) \/ Looked(p) \/ Use(p) \/ Dormfile(p) \/ Removed(p) \/ Leave(p)
  BY <1>2, IputDoes, TFreeDoes, TPutDoes, LookedDoes, UseDoes, DormfileDoes, RemovedDoes, LeaveDoes
<1>3. CASE \/ Ialloc(p) \/ Iloop(p) \/ Ialloced(p) \/ Fill(p) \/ Iupdat(p) \/ EnterName(p)
           \/ Update(p) \/ Updated(p)
  BY <1>3, IallocDoes, IloopDoes, IallocedDoes, FillDoes, IupdatDoes, EnterNameDoes, UpdateDoes, UpdatedDoes
<1> QED BY <1>1, <1>2, <1>3 DEF InodeStep

(* And so does every step, and none.                                       *)
LEMMA NextTabInv == TabInv /\ [InodeNext]_inodeVars => TabInv'
<1> SUFFICES ASSUME TabInv, [InodeNext]_inodeVars PROVE TabInv'
  OBVIOUS
<1>1. CASE InodeNext
  <2>1. PICK p \in Users : InodeStep(p)
    BY <1>1 DEF InodeNext
  <2>2. Does(p) /\ NumbersType'
    BY <2>1, StepDoes
  <2>3. /\ PlaceInv' /\ TableInv' /\ CountAccounts' /\ RefInv' /\ PutInv'
        /\ inode' \in [Table -> InodeRecords] /\ ifreel' \in Seq(Table) /\ user' \in [Users -> UserRecords]
    BY <2>2, DoesKeeps
  <2> QED BY <2>2, <2>3 DEF TabInv, TypesInv
<1>2. CASE UNCHANGED inodeVars
  <2>1. /\ inode' = inode /\ ifreel' = ifreel /\ dinode' = dinode /\ named' = named /\ s_inode' = s_inode
        /\ s_ilock' = s_ilock /\ spoilt' = spoilt /\ running' = running /\ user' = user
    BY <1>2 DEF inodeVars
  <2>2. TypesInv'
    BY <2>1 DEF TabInv, TypesInv, NumbersType
  <2>3. PlaceInv'
    BY <2>1 DEF TabInv, PlaceInv, PlaceOK, RefsOK, RefsAfter, CallOK
  <2>4. TableInv' /\ RefInv' /\ PutInv'
    BY <2>1 DEF TabInv, TableInv, RefInv, Passing, Waits, PutInv
  <2>5. CountAccounts'
    BY <2>1 DEF TabInv, CountAccounts
  <2> QED BY <2>2, <2>3, <2>4, <2>5 DEF TabInv
<1> QED BY <1>1, <1>2

(* At the start everybody is in user mode, the directories have their own  *)
(* reference each and the other slots are free.                            *)
LEMMA InitTabInv == InodeInit => TabInv
<1> SUFFICES ASSUME InodeInit PROVE TabInv
  OBVIOUS
<1> DEFINE c == Cardinality(Dirs)
           m == ninode - c
<1>1. /\ c \in Nat /\ Dirs = 1 .. c /\ Dirs \subseteq Table /\ ninode \in Nat /\ m \in Nat /\ Table = 1 .. ninode
  <2>1. c \in Nat /\ Dirs = 1 .. c /\ ninode \in Nat \ {0} /\ Dirs \subseteq Table /\ Table = 1 .. ninode
    BY InodeConstants, FS_CardinalityType DEF Table
  <2>2. c <= ninode
    <3>1. CASE c = 0
      BY <2>1, <3>1
    <3>2. CASE c # 0
      <4>1. c \in Dirs
        BY <2>1, <3>2
      <4> QED BY <2>1, <4>1
    <3> QED BY <3>1, <3>2
  <2> QED BY <2>1, <2>2
<1>2. /\ \A d \in Dirs : -d \in DirNumbers /\ -d # Nil /\ -d \in Int
      /\ Nil \notin Inos
  BY Constants DEF DirNumbers
<1>3. inode \in [Table -> InodeRecords]
  <2>1. /\ inode = [s \in Table |-> [ino |-> IF s \in Dirs THEN -s ELSE Nil, lock |-> FALSE, want |-> FALSE,
                               count |-> IF s \in Dirs THEN 1 ELSE 0, dirty |-> FALSE,
                               mode |-> 1, nlink |-> 1]]
    BY DEF InodeInit
  <2> QED BY <1>2, <2>1 DEF InodeRecords
<1>4. /\ \A s \in Table : /\ inode[s].ino = (IF s \in Dirs THEN -s ELSE Nil) /\ ~inode[s].dirty
                          /\ inode[s].count = (IF s \in Dirs THEN 1 ELSE 0)
      /\ user = [p \in Users |-> Fresh] /\ ifreel = [i \in 1 .. m |-> c + i] /\ running = Nil
  BY DEF InodeInit
<1> HIDE DEF c, m
<1>5. Fresh \in UserRecords /\ Fresh.pc = "idle" /\ Fresh.refs = {} /\ Fresh.locks = {}
  BY DEF Fresh, UserRecords, Labels
<1>6. PlaceOK(Fresh)
  BY <1>5 DEF PlaceOK, RefsOK, CallOK, Puts, Results
<1>7. PlaceInv
  BY <1>4, <1>6 DEF PlaceInv
<1>8. \A i \in 1 .. m : c + i \in Table /\ c + i \notin Dirs
  BY <1>1 DEF m
<1>9. ifreel \in Seq(Table) /\ DOMAIN ifreel = 1 .. m
  <2>1. ifreel \in [1 .. m -> Table]
    BY <1>4, <1>8
  <2> QED BY <1>1, <2>1, SeqDef
<1>10. NumbersType
  <2>1. dinode = [n \in Inos \cup {-d : d \in Dirs} |->
               IF n > 0 /\ \A d \in Dirs : n \notin named[d] THEN Unused ELSE [mode |-> 1, nlink |-> 1]]
    BY DEF InodeInit
  <2>2. Unused \in DiskRecords /\ [mode |-> 1, nlink |-> 1] \in DiskRecords
    BY DEF Unused, DiskRecords
  <2>3. dinode \in [Inos \cup DirNumbers -> DiskRecords]
    BY <2>1, <2>2 DEF DirNumbers
  <2>4. named \in [Dirs -> SUBSET Inos]
    BY InodeConstants DEF InodeInit
  <2>5. s_inode \in Seq(Inos) /\ s_ilock \in BOOLEAN /\ spoilt \in BOOLEAN /\ running \in Users \cup {Nil}
    BY EmptySeq DEF InodeInit
  <2> QED BY <2>3, <2>4, <2>5 DEF NumbersType
<1>11. TypesInv
  BY <1>3, <1>4, <1>5, <1>9, <1>10 DEF TypesInv
<1>12. TableInv
  <2>1. \A s \in Table : s \notin Dirs <=> \E i \in 1 .. m : c + i = s
    <3> SUFFICES ASSUME NEW s \in Table PROVE s \notin Dirs <=> \E i \in 1 .. m : c + i = s
      OBVIOUS
    <3>1. s \notin Dirs => s - c \in 1 .. m /\ c + (s - c) = s
      BY <1>1 DEF m
    <3> QED BY <1>8, <3>1
  <2>2. \A s \in Table : inode[s].ino = Nil <=> s \notin Dirs
    BY <1>2, <1>4
  <2>3. \A s \in Table : inode[s].ino = Nil <=> \E i \in DOMAIN ifreel : ifreel[i] = s
    BY <1>4, <1>9, <2>1, <2>2
  <2>4. \A i, j \in DOMAIN ifreel : ifreel[i] = ifreel[j] => i = j
    BY <1>1, <1>4, <1>9
  <2>5. \A s, t \in Table : inode[s].ino = inode[t].ino /\ inode[s].ino # Nil => s = t
    <3> SUFFICES ASSUME NEW s \in Table, NEW t \in Table, inode[s].ino = inode[t].ino, inode[s].ino # Nil
                 PROVE  s = t
      OBVIOUS
    <3>1. s \in Dirs /\ t \in Dirs /\ -s = -t
      BY <1>4, <2>2
    <3> QED BY <1>1, <3>1
  <2>6. \A d \in Dirs : inode[d].ino = -d
    BY <1>1, <1>4
  <2>7. \A s \in Files : inode[s].ino \in Inos \cup {Nil}
    BY <1>4 DEF Files
  <2> QED BY <1>4, <2>3, <2>4, <2>5, <2>6, <2>7 DEF TableInv
<1>13. CountAccounts
  <2> SUFFICES ASSUME NEW s \in Table
               PROVE  inode[s].count = Cardinality(Referrers(s)) + Cardinality(Waiters(s))
                                       + (IF s \in Dirs THEN 1 ELSE 0)
    BY DEF CountAccounts, Referrers, Waiters
  <2>1. Referrers(s) = {} /\ Waiters(s) = {}
    BY <1>4, <1>5 DEF Referrers, Waiters
  <2>2. Cardinality(Referrers(s)) = 0 /\ Cardinality(Waiters(s)) = 0
    BY <2>1, FS_EmptySet
  <2> QED BY <1>4, <2>2
<1>14. RefInv /\ PutInv
  BY <1>4, <1>5 DEF RefInv, PutInv
<1> QED BY <1>7, <1>11, <1>12, <1>13, <1>14 DEF TabInv

-----------------------------------------------------------------------------
(* The inductive invariant holds in every state.                           *)
THEOREM InodeInvariant == InodeSpec => []TabInv
<1> QED BY InitTabInv, NextTabInv, PTL DEF InodeSpec

(* Every inode, number and process record keeps its type; locks are among  *)
(* the references, and i_count, which the code keeps in a short, never     *)
(* goes below 0.                                                           *)
THEOREM InodeTypes == InodeSpec => []InodeTypeOK
<1>1. TabInv => InodeTypeOK
  <2> SUFFICES ASSUME TabInv PROVE InodeTypeOK
    OBVIOUS
  <2>1. /\ inode \in [Table -> InodeRecords] /\ ifreel \in Seq(Table) /\ user \in [Users -> UserRecords]
        /\ NumbersType /\ PlaceInv /\ CountAccounts
    BY DEF TabInv, TypesInv
  <2>2. inode \in [Table -> [ino : Inos \cup {-d : d \in Dirs} \cup {Nil}, lock : BOOLEAN, want : BOOLEAN,
                             count : Nat, dirty : BOOLEAN, mode : {0, 1}, nlink : Int]]
    <3>1. \A s \in Table : inode[s].count \in Nat
      BY <2>1, CountIsNat
    <3>2. \A s \in Table : inode[s] \in [ino : Inos \cup {-d : d \in Dirs} \cup {Nil}, lock : BOOLEAN,
                            want : BOOLEAN, count : Nat, dirty : BOOLEAN, mode : {0, 1}, nlink : Int]
      <4> SUFFICES ASSUME NEW s \in Table
                   PROVE  inode[s] \in [ino : Inos \cup {-d : d \in Dirs} \cup {Nil}, lock : BOOLEAN,
                            want : BOOLEAN, count : Nat, dirty : BOOLEAN, mode : {0, 1}, nlink : Int]
        OBVIOUS
      <4> DEFINE j == inode[s]
      <4>1. j \in InodeRecords /\ j.count \in Nat
        BY <2>1, <3>1
      <4> HIDE DEF j
      <4>2. j \in [ino : Inos \cup {-d : d \in Dirs} \cup {Nil}, lock : BOOLEAN,
                   want : BOOLEAN, count : Nat, dirty : BOOLEAN, mode : {0, 1}, nlink : Int]
        BY <4>1 DEF InodeRecords, DirNumbers
      <4> QED BY <4>2 DEF j
    <3> QED BY <2>1, <3>2
  <2>3. \A n \in DOMAIN dinode : dinode[n].mode \in {0, 1} /\ dinode[n].nlink \in Int
    BY <2>1 DEF NumbersType, DiskRecords
  <2>4. \A p \in Users : /\ user[p].refs \subseteq Table /\ user[p].locks \subseteq user[p].refs
                         /\ user[p].asleep \in Table \cup {IlockChan, Nil}
    BY <2>1 DEF UserRecords, PlaceInv, PlaceOK
  <2> QED BY <2>1, <2>2, <2>3, <2>4 DEF InodeTypeOK, NumbersType
<1> QED BY <1>1, InodeInvariant, PTL

(* iget.c: a slot is free or stands for one number, no number has two      *)
(* slots, the free list has no slot twice, and nobody's file is in a free  *)
(* slot, but for the one update passes over while a waiter has yet to      *)
(* leave it.                                                               *)
THEOREM OneInodePerNumber == InodeSpec => []OneInode
<1>1. TabInv => OneInode
  <2> SUFFICES ASSUME TabInv PROVE OneInode
    OBVIOUS
  <2>1. \A p \in Users : \A s \in user[p].refs :
          inode[s].ino # Nil \/ (user[p].goal = "sync" /\ running = p /\ ~inode[s].dirty)
    <3> SUFFICES ASSUME NEW p \in Users, NEW s \in user[p].refs, inode[s].ino = Nil
                 PROVE  user[p].goal = "sync" /\ running = p /\ ~inode[s].dirty
      OBVIOUS
    <3>1. Passing(p, s)
      BY DEF TabInv, RefInv
    <3>2. s \in Table
      BY DEF TabInv, TypesInv, UserRecords
    <3> QED BY <3>1, <3>2 DEF Passing, TabInv, TableInv
  <2> QED BY <2>1 DEF TabInv, TableInv, OneInode
<1> QED BY <1>1, InodeInvariant, PTL

(* iget.c: i_count is the number of references, the waiters of iget        *)
(* included, so that iput takes for the last one only what is the last.    *)
THEOREM CountsAccount == InodeSpec => []CountAccounts
<1>1. TabInv => CountAccounts
  BY DEF TabInv
<1> QED BY <1>1, InodeInvariant, PTL

-----------------------------------------------------------------------------
(* Nobody is forgotten.  The invariant says that whoever sleeps sleeps     *)
(* for a lock that somebody holds.                                         *)
(* Who is in ialloc between taking and giving up s_ilock.                  *)
InIalloc(r) ==
  \/ r.pc \in {"iloop", "fill", "ialloced"}
  \/ r.pc \in {"iget", "igetwake", "fsget", "noinode"} /\ r.ret = "ialloced"
  \/ r.pc \in Puts /\ (r.then = "iloop" \/ (r.then = "noinode" /\ r.ret = "ialloced"))

(* Where a process sleeps: in plock, where it has nothing locked, in iget, *)
(* for a file, and in ialloc.                                              *)
WakePlace(r) ==
  /\ r.asleep \in Table => r.pc \in {"plock", "igetwake"} /\ r.slot = r.asleep
  /\ r.asleep = IlockChan => r.pc = "ialloc"
  /\ r.pc \in {"plock", "open", "idle"} => r.locks = {}
  /\ r.pc = "igetwake" => r.slot \in Files
Minds(chan) ==
  /\ chan \in Table => inode[chan].lock /\ inode[chan].want
  /\ chan = IlockChan => s_ilock

(* What is locked somebody holds.                                          *)
HolderInv ==
  /\ \A s \in Table : inode[s].lock => \E q \in Users : s \in user[q].locks
  /\ s_ilock => \E q \in Users : InIalloc(user[q])
WakeInv == (\A p \in Users : WakePlace(user[p]) /\ Minds(user[p].asleep)) /\ HolderInv

(* A step of p that changes the locks of one inode at most: p keeps its    *)
(* other locks, and who sleeps for that inode afterwards will be woken.    *)
WakesAt(p, s) ==
  /\ \A t \in Table \ {s} : inode'[t].lock = inode[t].lock /\ inode'[t].want = inode[t].want
  /\ \A q \in Users \ {p} : user'[q] \in {user[q], [user[q] EXCEPT !.asleep = Nil]}
  /\ \A q \in Users \ {p} : user'[q].asleep = s => inode'[s].lock /\ inode'[s].want
  /\ inode'[s].lock => s \in user'[p].locks \/ (inode[s].lock /\ s \notin user[p].locks)
  /\ user[p].locks \ {s} \subseteq user'[p].locks
  /\ \A q \in Users \ {p} : user'[q].asleep = IlockChan => s_ilock'
  /\ s_ilock' => InIalloc(user'[p]) \/ (s_ilock /\ ~InIalloc(user[p]))
  /\ WakePlace(user'[p]) /\ Minds(user[p].asleep)'
Wakes(p) == \E s \in Table : WakesAt(p, s)

(* The channels are told apart.                                            *)
LEMMA Channels == IlockChan \notin Table /\ Nil \notin Table /\ Nil # IlockChan /\ 0 \notin Table
BY Constants DEF IlockChan

(* A process that is woken stays where it is.                              *)
LEMMA WokenPlace ==
  ASSUME NEW o \in UserRecords, NEW n \in {o, [o EXCEPT !.asleep = Nil]}, WakePlace(o)
  PROVE  WakePlace(n) /\ (InIalloc(n) <=> InIalloc(o)) /\ n.asleep \in {o.asleep, Nil} /\ n.locks = o.locks
<1>1. /\ n.pc = o.pc /\ n.slot = o.slot /\ n.ret = o.ret /\ n.then = o.then /\ n.locks = o.locks
      /\ n.asleep \in {o.asleep, Nil}
  BY WokenIs DEF UserRecords
<1> QED BY <1>1, Channels DEF WakePlace, InIalloc

LEMMA WakesKeeps ==
  ASSUME TabInv, TypesInv', WakeInv, NEW p \in Users, Wakes(p)
  PROVE  WakeInv'
<1>1. PICK s \in Table : WakesAt(p, s)
  BY DEF Wakes
<1>2. \A q \in Users \ {p} : /\ WakePlace(user'[q]) /\ (InIalloc(user'[q]) <=> InIalloc(user[q]))
                             /\ user'[q].asleep \in {user[q].asleep, Nil} /\ user'[q].locks = user[q].locks
  <2>1. SUFFICES ASSUME NEW q \in Users \ {p}
                 PROVE  /\ WakePlace(user'[q]) /\ (InIalloc(user'[q]) <=> InIalloc(user[q]))
                        /\ user'[q].asleep \in {user[q].asleep, Nil} /\ user'[q].locks = user[q].locks
    OBVIOUS
  <2>2. user[q] \in UserRecords /\ WakePlace(user[q])
    BY DEF TabInv, TypesInv, WakeInv
  <2>3. user'[q] \in {user[q], [user[q] EXCEPT !.asleep = Nil]}
    BY <1>1 DEF WakesAt
  <2> DEFINE o == user[q]
             n == user'[q]
  <2>4. o \in UserRecords /\ WakePlace(o) /\ n \in {o, [o EXCEPT !.asleep = Nil]}
    BY <2>2, <2>3
  <2> HIDE DEF o, n
  <2>5. WakePlace(n) /\ (InIalloc(n) <=> InIalloc(o)) /\ n.asleep \in {o.asleep, Nil} /\ n.locks = o.locks
    BY <2>4, WokenPlace
  <2> QED BY <2>5, Zenon DEF o, n
<1>3. ASSUME NEW q \in Users
      PROVE  WakePlace(user[q])' /\ Minds(user[q].asleep)'
  <2>1. CASE q = p
    BY <1>1, <2>1 DEF WakesAt
  <2>2. CASE q # p
    <3>1. WakePlace(user'[q]) /\ user'[q].asleep \in {user[q].asleep, Nil} /\ Minds(user[q].asleep)
      BY <1>2, <2>2 DEF WakeInv
    <3>2. user'[q].asleep = IlockChan => s_ilock'
      BY <1>1, <2>2 DEF WakesAt
    <3>3. ASSUME user'[q].asleep \in Table
          PROVE  inode'[user'[q].asleep].lock /\ inode'[user'[q].asleep].want
      <4>1. user'[q].asleep = user[q].asleep
        BY <3>1, <3>3, Channels
      <4>2. CASE user'[q].asleep = s
        BY <1>1, <2>2, <4>2 DEF WakesAt
      <4>3. CASE user'[q].asleep # s
        BY <1>1, <3>1, <3>3, <4>1, <4>3 DEF WakesAt, Minds
      <4> QED BY <4>2, <4>3
    <3> QED BY <3>1, <3>2, <3>3 DEF Minds
  <2> QED BY <2>1, <2>2
<1>4. ASSUME NEW t \in Table, inode'[t].lock
      PROVE  \E q \in Users : t \in user'[q].locks
  <2>1. CASE t = s /\ s \in user'[p].locks
    BY <2>1
  <2>2. CASE t = s /\ s \notin user'[p].locks
    <3>1. inode[s].lock /\ s \notin user[p].locks
      BY <1>1, <1>4, <2>2 DEF WakesAt
    <3>2. PICK q \in Users : s \in user[q].locks
      BY <3>1 DEF WakeInv, HolderInv
    <3> QED BY <1>2, <2>2, <3>1, <3>2
  <2>3. CASE t # s
    <3>1. inode[t].lock
      BY <1>1, <1>4, <2>3 DEF WakesAt
    <3>2. PICK q \in Users : t \in user[q].locks
      BY <3>1 DEF WakeInv, HolderInv
    <3>3. CASE q = p
      BY <1>1, <2>3, <3>2, <3>3 DEF WakesAt
    <3>4. CASE q # p
      BY <1>2, <3>2, <3>4
    <3> QED BY <3>3, <3>4
  <2> QED BY <2>1, <2>2, <2>3
<1>5. ASSUME s_ilock'
      PROVE  \E q \in Users : InIalloc(user'[q])
  <2>1. CASE InIalloc(user'[p])
    BY <2>1
  <2>2. CASE ~InIalloc(user'[p])
    <3>1. s_ilock /\ ~InIalloc(user[p])
      BY <1>1, <1>5, <2>2 DEF WakesAt
    <3>2. PICK q \in Users : InIalloc(user[q])
      BY <3>1 DEF WakeInv, HolderInv
    <3> QED BY <1>2, <3>1, <3>2
  <2> QED BY <2>1, <2>2
<1>6. HolderInv'
  BY <1>4, <1>5 DEF HolderInv, InIalloc
<1> QED BY <1>3, <1>6 DEF WakeInv

(* The kinds of steps.  Inodes are locked and wanted as before, and so is  *)
(* s_ilock unless p takes it.                                              *)
LEMMA PlainWakes ==
  ASSUME TabInv, WakeInv, NEW p \in Users, NEW x, user' = [user EXCEPT ![p] = x],
         \A t \in Table : inode'[t].lock = inode[t].lock /\ inode'[t].want = inode[t].want,
         user[p].locks \subseteq x.locks, x.asleep = Nil, WakePlace(x),
         \/ s_ilock' = s_ilock /\ (InIalloc(user[p]) => InIalloc(x))
         \/ s_ilock' /\ InIalloc(x)
  PROVE  Wakes(p)
<1>1. user'[p] = x /\ \A q \in Users \ {p} : user'[q] = user[q]
  BY DEF TabInv, TypesInv
<1>2. 1 \in Table
  BY Constants
<1>3. Minds(user[p].asleep)'
  BY <1>1, Channels DEF Minds
<1>4. \A q \in Users : /\ user[q].asleep = 1 => inode[1].lock /\ inode[1].want
                       /\ user[q].asleep = IlockChan => s_ilock
  BY <1>2 DEF WakeInv, Minds
<1>5. inode'[1].lock => 1 \in user'[p].locks \/ (inode[1].lock /\ 1 \notin user[p].locks)
  BY <1>1, <1>2
<1>6. WakesAt(p, 1)
  BY <1>1, <1>2, <1>3, <1>4, <1>5 DEF WakesAt
<1> QED BY <1>2, <1>6 DEF Wakes

(* p locks an inode; if it was not locked nobody sleeps for it.            *)
LEMMA LockWakes ==
  ASSUME TabInv, WakeInv, NEW p \in Users, NEW x, user' = [user EXCEPT ![p] = x],
         NEW s \in Table, NEW i \in InodeRecords, inode' = [inode EXCEPT ![s] = i],
         i.lock, i.want = inode[s].want \/ ~inode[s].lock,
         user[p].locks \subseteq x.locks, s \in x.locks, x.asleep = Nil, WakePlace(x),
         s_ilock' = s_ilock, InIalloc(user[p]) => InIalloc(x)
  PROVE  Wakes(p)
<1>1. user'[p] = x /\ \A q \in Users \ {p} : user'[q] = user[q]
  BY DEF TabInv, TypesInv
<1>2. inode'[s] = i /\ \A t \in Table \ {s} : inode'[t] = inode[t]
  BY DEF TabInv, TypesInv
<1>3. Minds(user[p].asleep)'
  BY <1>1, Channels DEF Minds
<1>4. \A q \in Users : /\ user[q].asleep = s => inode[s].lock /\ inode[s].want
                       /\ user[q].asleep = IlockChan => s_ilock
  BY DEF WakeInv, Minds
<1>5. WakesAt(p, s)
  BY <1>1, <1>2, <1>3, <1>4 DEF WakesAt
<1> QED BY <1>5 DEF Wakes

(* p unlocks an inode.                                                     *)
LEMMA PreleWakes ==
  ASSUME TabInv, WakeInv, NEW p \in Users, NEW s \in Table, NEW i \in InodeRecords, NEW r,
         Prele(p, s, i, r), user[p].locks \ {s} \subseteq Back(r).locks, Back(r).asleep = Nil,
         WakePlace(Back(r)), s_ilock' = s_ilock, InIalloc(user[p]) => InIalloc(Back(r))
  PROVE  Wakes(p)
<1> DEFINE u == IF inode[s].want THEN WakeAll(s) ELSE user
<1>1. /\ u \in [Users -> UserRecords]
      /\ \A q \in Users : u[q] \in {user[q], [user[q] EXCEPT !.asleep = Nil]}
  BY WakeAllIs DEF TabInv, TypesInv
<1>2. user' = [u EXCEPT ![p] = Back(r)] /\ inode' = [inode EXCEPT ![s] = [i EXCEPT !.lock = FALSE, !.want = FALSE]]
  BY DEF Prele
<1>3. \A q \in Users : /\ user[q].asleep \in Table => inode[user[q].asleep].lock /\ inode[user[q].asleep].want
                       /\ user[q].asleep = IlockChan => s_ilock
  BY DEF WakeInv, Minds
<1>4. \A q \in Users : u[q].asleep # s
  <2>1. SUFFICES ASSUME NEW q \in Users PROVE u[q].asleep # s
    OBVIOUS
  <2>2. CASE inode[s].want
    <3>1. u[q] = IF user[q].asleep = s THEN [user[q] EXCEPT !.asleep = Nil] ELSE user[q]
      BY <2>2 DEF WakeAll
    <3>2. user[q] \in UserRecords
      BY DEF TabInv, TypesInv
    <3>3. [user[q] EXCEPT !.asleep = Nil].asleep = Nil
      BY <3>2 DEF UserRecords
    <3> QED BY <3>1, <3>3, Channels
  <2>3. CASE ~inode[s].want
    <3>1. u[q] = user[q]
      BY <2>3
    <3> QED BY <1>3, <2>3, <3>1
  <2> QED BY <2>2, <2>3
<1>5. \A q \in Users : user[q] \in UserRecords /\ u[q].asleep \in {user[q].asleep, Nil}
  BY <1>1 DEF TabInv, TypesInv, UserRecords
<1> HIDE DEF u
<1>6. user'[p] = Back(r) /\ \A q \in Users \ {p} : user'[q] = u[q]
  BY <1>1, <1>2
<1>7. ~inode'[s].lock /\ \A t \in Table \ {s} : inode'[t] = inode[t]
  BY <1>2 DEF TabInv, TypesInv, InodeRecords
<1>8. Minds(user[p].asleep)'
  BY <1>6, Channels DEF Minds
<1>9. \A q \in Users \ {p} : user'[q].asleep = IlockChan => s_ilock'
  BY <1>3, <1>5, <1>6, Channels
<1>10. \A q \in Users \ {p} : user'[q] \in {user[q], [user[q] EXCEPT !.asleep = Nil]} /\ user'[q].asleep # s
  BY <1>1, <1>4, <1>6
<1>11. WakesAt(p, s)
  BY <1>6, <1>7, <1>8, <1>9, <1>10 DEF WakesAt
<1> QED BY <1>11 DEF Wakes

(* p falls asleep for an inode that is locked.                             *)
LEMMA SleepWakes ==
  ASSUME TabInv, WakeInv, NEW p \in Users, NEW s \in Table, NEW i \in InodeRecords, NEW r \in UserRecords,
         inode' = [inode EXCEPT ![s] = i], i.lock, i.want, inode[s].lock, Sleeps(p, s, r), r.pc \in {"plock", "igetwake"},
         r.slot = s, r.locks = user[p].locks, r.pc = "plock" => r.locks = {}, r.pc = "igetwake" => s \in Files,
         s_ilock' = s_ilock, InIalloc(user[p]) => InIalloc(r)
  PROVE  Wakes(p)
<1> DEFINE x == [r EXCEPT !.asleep = s]
<1>1. x.pc = r.pc /\ x.slot = r.slot /\ x.locks = r.locks /\ x.asleep = s /\ x.ret = r.ret /\ x.then = r.then
  BY DEF UserRecords
<1>2. user' = [user EXCEPT ![p] = x]
  BY DEF Sleeps
<1> HIDE DEF x
<1>3. user'[p] = x /\ \A q \in Users \ {p} : user'[q] = user[q]
  BY <1>2 DEF TabInv, TypesInv
<1>4. inode'[s] = i /\ \A t \in Table \ {s} : inode'[t] = inode[t]
  BY DEF TabInv, TypesInv
<1>5. Minds(user[p].asleep)'
  BY <1>1, <1>3, <1>4, Channels DEF Minds
<1>6. \A q \in Users : user[q].asleep = IlockChan => s_ilock
  BY DEF WakeInv, Minds
<1>7. WakePlace(x) /\ (InIalloc(user[p]) => InIalloc(x))
  BY <1>1, Channels DEF WakePlace, InIalloc
<1>8. WakesAt(p, s)
  BY <1>1, <1>3, <1>4, <1>5, <1>6, <1>7 DEF WakesAt
<1> QED BY <1>8 DEF Wakes

(* p unlocks s_ilock.                                                      *)
LEMMA IunlockWakes ==
  ASSUME TabInv, WakeInv, NEW p \in Users, NEW r, Iunlock(p, r),
         \A t \in Table : inode'[t].lock = inode[t].lock /\ inode'[t].want = inode[t].want,
         user[p].locks \subseteq r.locks, r.asleep = Nil, WakePlace(r)
  PROVE  Wakes(p)
<1> DEFINE u == WakeAll(IlockChan)
<1>1. /\ u \in [Users -> UserRecords]
      /\ \A q \in Users : u[q] \in {user[q], [user[q] EXCEPT !.asleep = Nil]}
  BY WakeAllIs DEF TabInv, TypesInv
<1>2. user' = [u EXCEPT ![p] = r] /\ s_ilock' = FALSE
  BY DEF Iunlock
<1>3. \A q \in Users : user[q] \in UserRecords /\ u[q].asleep \in {user[q].asleep, Nil} /\ u[q].asleep # IlockChan
  <2>1. SUFFICES ASSUME NEW q \in Users
                 PROVE  user[q] \in UserRecords /\ u[q].asleep \in {user[q].asleep, Nil} /\ u[q].asleep # IlockChan
    OBVIOUS
  <2>2. user[q] \in UserRecords /\ [user[q] EXCEPT !.asleep = Nil].asleep = Nil
    BY DEF TabInv, TypesInv, UserRecords
  <2>3. u[q] = IF user[q].asleep = IlockChan THEN [user[q] EXCEPT !.asleep = Nil] ELSE user[q]
    BY DEF WakeAll
  <2> QED BY <2>2, <2>3, Channels
<1>4. \A q \in Users : user[q].asleep = 1 => inode[1].lock /\ inode[1].want
  BY Constants DEF WakeInv, Minds
<1> HIDE DEF u
<1>5. user'[p] = r /\ \A q \in Users \ {p} : user'[q] = u[q]
  BY <1>1, <1>2
<1>6. Minds(user[p].asleep)'
  BY <1>5, Channels DEF Minds
<1>7. 1 \in Table
  BY Constants
<1>8. \A q \in Users \ {p} : user'[q].asleep = 1 => inode'[1].lock /\ inode'[1].want
  BY <1>3, <1>4, <1>5, <1>7, Channels
<1>9. inode'[1].lock => 1 \in user'[p].locks \/ (inode[1].lock /\ 1 \notin user[p].locks)
  BY <1>5, <1>7
<1>10. WakesAt(p, 1)
  BY <1>1, <1>2, <1>3, <1>5, <1>6, <1>7, <1>8, <1>9 DEF WakesAt
<1> QED BY <1>7, <1>10 DEF Wakes

(* Where a process is that takes a step, and that it is awake.             *)
LEMMA AwakeIs ==
  ASSUME TabInv, WakeInv, NEW p \in Users, NEW at, At(p, at)
  PROVE  /\ user[p] \in UserRecords /\ RefsOK(user[p]) /\ CallOK(user[p])
         /\ user[p].locks \subseteq user[p].refs /\ user[p].refs \subseteq Table
         /\ user[p].pc = at /\ user[p].asleep = Nil /\ running \in {p, Nil} /\ WakePlace(user[p])
         /\ inode \in [Table -> InodeRecords] /\ user \in [Users -> UserRecords] /\ s_ilock \in BOOLEAN
BY AtIs DEF At, WakeInv, TypesInv, NumbersType

(* p goes on with what it has locked, to a place where nobody sleeps.      *)
LEMMA QuietWakes ==
  ASSUME TabInv, WakeInv, NEW p \in Users, NEW r, Goes(p, r) \/ MaySleep(p, r),
         r.pc \notin {"idle", "open", "plock", "igetwake"}, r.asleep = Nil, user[p].locks \subseteq r.locks,
         \A t \in Table : inode'[t].lock = inode[t].lock /\ inode'[t].want = inode[t].want,
         \/ s_ilock' = s_ilock /\ (InIalloc(user[p]) => InIalloc(r))
         \/ s_ilock' /\ InIalloc(r)
  PROVE  Wakes(p)
<1>1. user' = [user EXCEPT ![p] = r]
  BY DEF Goes, MaySleep, Back
<1>2. WakePlace(r)
  BY Channels DEF WakePlace
<1> QED BY <1>1, <1>2, PlainWakes

(* These go on as they are: to iput, to the disk or to what they do next.  *)
LEMMA LeaveWakes == ASSUME TabInv, WakeInv, NEW p \in Users, Leave(p) PROVE Wakes(p)
<1> DEFINE o == user[p]
           r == Leaves(o, "idle")
<1>1. /\ o \in UserRecords /\ o.pc = "leave" /\ o.asleep = Nil
      /\ UNCHANGED <<inode, s_ilock>> /\ Goes(p, r)
  BY AwakeIs DEF Leave, ialVars, numbers
<1>2. r.pc \notin {"idle", "open", "plock", "igetwake"} /\ r.asleep = Nil /\ r.locks = o.locks
  BY <1>1 DEF UserRecords, Leaves, Iputs
<1>3. ~InIalloc(o)
  BY <1>1 DEF InIalloc, Puts
<1> HIDE DEF r
<1> QED BY <1>1, <1>2, <1>3, QuietWakes


LEMMA LookedWakes == ASSUME TabInv, WakeInv, NEW p \in Users, Looked(p) PROVE Wakes(p)
<1> DEFINE o == user[p]
           r == [Leaves(o, IF o.slot = Nil THEN "idle" ELSE "use") EXCEPT !.file = o.slot]
<1>1. /\ o \in UserRecords /\ o.pc = "looked" /\ o.asleep = Nil
      /\ UNCHANGED <<inode, s_ilock>> /\ Goes(p, r)
  BY AwakeIs DEF Looked, ialVars, numbers
<1>2. r.pc \notin {"idle", "open", "plock", "igetwake"} /\ r.asleep = Nil /\ r.locks = o.locks
  BY <1>1 DEF UserRecords, Leaves, Iputs
<1>3. ~InIalloc(o)
  BY <1>1 DEF InIalloc, Puts
<1> HIDE DEF r
<1> QED BY <1>1, <1>2, <1>3, QuietWakes


LEMMA EnterNameWakes == ASSUME TabInv, WakeInv, NEW p \in Users, EnterName(p) PROVE Wakes(p)
<1> DEFINE o == user[p]
           r == Leaves(o, "use")
<1>1. /\ o \in UserRecords /\ o.pc = "enter" /\ o.asleep = Nil
      /\ UNCHANGED <<inode, s_ilock>> /\ Goes(p, r)
  BY AwakeIs DEF EnterName, ialVars, numbers
<1>2. r.pc \notin {"idle", "open", "plock", "igetwake"} /\ r.asleep = Nil /\ r.locks = o.locks
  BY <1>1 DEF UserRecords, Leaves, Iputs
<1>3. ~InIalloc(o)
  BY <1>1 DEF InIalloc, Puts
<1> HIDE DEF r
<1> QED BY <1>1, <1>2, <1>3, QuietWakes


LEMMA DormfileWakes == ASSUME TabInv, WakeInv, NEW p \in Users, Dormfile(p) PROVE Wakes(p)
<1> DEFINE o == user[p]
           r == IF o.slot = Nil THEN Leaves(o, "idle") ELSE [o EXCEPT !.pc = "removed"]
<1>1. /\ o \in UserRecords /\ o.pc = "dormfile" /\ o.asleep = Nil
      /\ UNCHANGED <<inode, s_ilock>> /\ (Goes(p, r) \/ MaySleep(p, r))
  BY AwakeIs DEF Dormfile, ialVars, numbers
<1>2. r.pc \notin {"idle", "open", "plock", "igetwake"} /\ r.asleep = Nil /\ r.locks = o.locks
  BY <1>1 DEF UserRecords, Leaves, Iputs
<1>3. ~InIalloc(o)
  BY <1>1 DEF InIalloc, Puts
<1> HIDE DEF r
<1> QED BY <1>1, <1>2, <1>3, QuietWakes


LEMMA NoinodeWakes == ASSUME TabInv, WakeInv, NEW p \in Users, Noinode(p) PROVE Wakes(p)
<1> DEFINE o == user[p]
           r == [o EXCEPT !.pc = o.ret, !.slot = Nil]
<1>1. /\ o \in UserRecords /\ o.pc = "noinode" /\ o.asleep = Nil
      /\ UNCHANGED <<inode, s_ilock>> /\ Goes(p, r) /\ o.ret \in Results
  BY AwakeIs DEF Noinode, ialVars, numbers, CallOK
<1>2. r.pc \notin {"idle", "open", "plock", "igetwake"} /\ r.asleep = Nil /\ r.locks = o.locks
  BY <1>1 DEF UserRecords, Results
<1>3. InIalloc(o) => InIalloc(r)
  BY <1>1, <1>2 DEF InIalloc, Puts, UserRecords
<1> HIDE DEF r
<1> QED BY <1>1, <1>2, <1>3, QuietWakes

LEMMA RemovedWakes == ASSUME TabInv, WakeInv, NEW p \in Users, Removed(p) PROVE Wakes(p)
<1> DEFINE o == user[p]
           r == Iputs(o, o.slot, "leave")
<1>1. /\ o \in UserRecords /\ o.pc = "removed" /\ o.asleep = Nil /\ s_ilock' = s_ilock /\ Goes(p, r)
  BY AwakeIs DEF Removed, ialVars, numbers
<1>2. \A t \in Table : inode'[t].lock = inode[t].lock /\ inode'[t].want = inode[t].want
  BY AwakeIs DEF Removed, InodeRecords
<1>3. r.pc \notin {"idle", "open", "plock", "igetwake"} /\ r.asleep = Nil /\ r.locks = o.locks
  BY <1>1 DEF UserRecords, Iputs
<1>4. ~InIalloc(o)
  BY <1>1 DEF InIalloc, Puts
<1> HIDE DEF r
<1> QED BY <1>1, <1>2, <1>3, <1>4, QuietWakes

LEMMA IupdatWakes == ASSUME TabInv, WakeInv, NEW p \in Users, Iupdat(p) PROVE Wakes(p)
<1> DEFINE o == user[p]
           r == [o EXCEPT !.pc = "enter"]
<1>1. /\ o \in UserRecords /\ o.pc = "iupdat" /\ o.asleep = Nil /\ s_ilock' = s_ilock /\ MaySleep(p, r)
  BY AwakeIs DEF Iupdat, numbers
<1>2. \A t \in Table : inode'[t].lock = inode[t].lock /\ inode'[t].want = inode[t].want
  BY AwakeIs DEF Iupdat, InodeRecords
<1>3. r.pc \notin {"idle", "open", "plock", "igetwake"} /\ r.asleep = Nil /\ r.locks = o.locks
  BY <1>1 DEF UserRecords
<1>4. ~InIalloc(o)
  BY <1>1 DEF InIalloc, Puts
<1> HIDE DEF r
<1> QED BY <1>1, <1>2, <1>3, <1>4, QuietWakes

LEMMA UpdatedWakes == ASSUME TabInv, WakeInv, NEW p \in Users, Updated(p) PROVE Wakes(p)
<1> DEFINE o == user[p]
           r == Iputs(o, o.slot, "update")
<1>1. /\ o \in UserRecords /\ o.pc = "updated" /\ o.asleep = Nil /\ s_ilock' = s_ilock /\ Goes(p, r)
  BY AwakeIs DEF Updated, numbers
<1>2. \A t \in Table : inode'[t].lock = inode[t].lock /\ inode'[t].want = inode[t].want
  BY AwakeIs DEF Updated, InodeRecords
<1>3. r.pc \notin {"idle", "open", "plock", "igetwake"} /\ r.asleep = Nil /\ r.locks = o.locks
  BY <1>1 DEF UserRecords, Iputs
<1>4. ~InIalloc(o)
  BY <1>1 DEF InIalloc, Puts
<1> HIDE DEF r
<1> QED BY <1>1, <1>2, <1>3, <1>4, QuietWakes

LEMMA TFreeWakes == ASSUME TabInv, WakeInv, NEW p \in Users, TFree(p) PROVE Wakes(p)
<1> DEFINE o == user[p]
           r == [o EXCEPT !.pc = "t_put"]
<1>1. /\ o \in UserRecords /\ o.pc = "t_free" /\ o.asleep = Nil /\ s_ilock' = s_ilock /\ MaySleep(p, r)
  BY AwakeIs DEF TFree, ialVars, numbers
<1>2. \A t \in Table : inode'[t].lock = inode[t].lock /\ inode'[t].want = inode[t].want
  BY AwakeIs DEF TFree, InodeRecords
<1>3. r.pc \notin {"idle", "open", "plock", "igetwake"} /\ r.asleep = Nil /\ r.locks = o.locks
  BY <1>1 DEF UserRecords
<1>4. InIalloc(o) => InIalloc(r)
  BY <1>1, <1>3 DEF InIalloc, Puts, UserRecords
<1> HIDE DEF r
<1> QED BY <1>1, <1>2, <1>3, <1>4, QuietWakes

LEMMA IgetWakeWakes == ASSUME TabInv, WakeInv, NEW p \in Users, IgetWake(p) PROVE Wakes(p)
<1> DEFINE o == user[p]
           r == [o EXCEPT !.pc = "iget"]
<1>1. /\ o \in UserRecords /\ o.pc = "igetwake" /\ o.asleep = Nil /\ s_ilock' = s_ilock /\ Goes(p, r)
  BY AwakeIs DEF IgetWake, ialVars, numbers
<1>2. \A t \in Table : inode'[t].lock = inode[t].lock /\ inode'[t].want = inode[t].want
  BY AwakeIs DEF IgetWake, WaitedFor, Counted, InodeRecords
<1>3. r.pc \notin {"idle", "open", "plock", "igetwake"} /\ r.asleep = Nil /\ r.locks = o.locks
  BY <1>1 DEF UserRecords
<1>4. InIalloc(o) => InIalloc(r)
  BY <1>1, <1>3 DEF InIalloc, Puts, UserRecords
<1> HIDE DEF r
<1> QED BY <1>1, <1>2, <1>3, <1>4, QuietWakes

(* What becomes of the flags of an inode.                                  *)
LEMMA FlagsAre ==
  ASSUME NEW j \in InodeRecords
  PROVE  /\ Wanted(j) \in InodeRecords /\ Wanted(j).lock = j.lock /\ Wanted(j).want
         /\ Locked(j) \in InodeRecords /\ Locked(j).lock /\ Locked(j).want = j.want
         /\ Counted(j, 1) \in InodeRecords /\ Counted(j, 1).lock = j.lock /\ Counted(j, 1).want = j.want
         /\ Counted(j, -1) \in InodeRecords
<1>1. Wanted(j) \in InodeRecords /\ Wanted(j).lock = j.lock /\ Wanted(j).want
  BY DEF Wanted, InodeRecords
<1>2. Locked(j) \in InodeRecords /\ Locked(j).lock /\ Locked(j).want = j.want
  BY DEF Locked, InodeRecords
<1>3. Counted(j, 1) \in InodeRecords /\ Counted(j, 1).lock = j.lock /\ Counted(j, 1).want = j.want
  BY OneMore DEF Counted, InodeRecords
<1>4. Counted(j, -1) \in InodeRecords
  BY DEF Counted, InodeRecords
<1> QED BY <1>1, <1>2, <1>3, <1>4

(* The others do one of several things.                                    *)
LEMMA SyscallWakes == ASSUME TabInv, WakeInv, NEW p \in Users, Syscall(p) PROVE Wakes(p)
<1> DEFINE o == user[p]
           u(g) == [[Fresh EXCEPT !.goal = g[1], !.dir = g[2]] EXCEPT !.pc = "update", !.scan = 1]
           l(g) == [[Fresh EXCEPT !.goal = g[1], !.dir = g[2]] EXCEPT !.pc = "plock", !.slot = g[2]]
<1>1. /\ o.pc = "idle" /\ UNCHANGED <<inode, s_ilock>> /\ o.locks = {}
      /\ \E g \in Goals[p] : Goes(p, u(g)) \/ Goes(p, l(g))
  BY AwakeIs DEF Syscall, ialVars, numbers, WakePlace
<1>2. PICK g \in Goals[p] : Goes(p, u(g)) \/ Goes(p, l(g))
  BY <1>1
<1>3. ~InIalloc(o)
  BY <1>1 DEF InIalloc, Puts
<1>4. CASE Goes(p, u(g))
  <2>1. u(g).pc = "update" /\ u(g).asleep = Nil
    BY DEF Fresh
  <2> HIDE DEF u
  <2> QED BY <1>1, <1>3, <1>4, <2>1, QuietWakes
<1>5. CASE Goes(p, l(g))
  <2>1. l(g).pc = "plock" /\ l(g).asleep = Nil /\ l(g).locks = {}
    BY DEF Fresh
  <2> HIDE DEF l
  <2>2. user' = [user EXCEPT ![p] = l(g)]
    BY <1>5, <2>1 DEF Goes, Back
  <2>3. WakePlace(l(g))
    BY <2>1, Channels DEF WakePlace
  <2> QED BY <1>1, <1>3, <2>1, <2>2, <2>3, PlainWakes
<1> QED BY <1>2, <1>4, <1>5

LEMMA CloseWakes == ASSUME TabInv, WakeInv, NEW p \in Users, Close(p) PROVE Wakes(p)
<1> DEFINE o == user[p]
           r == [o EXCEPT !.pc = "plock"]
<1>1. /\ o \in UserRecords /\ o.pc = "open" /\ o.asleep = Nil /\ o.locks = {}
      /\ UNCHANGED <<inode, s_ilock>> /\ Goes(p, r)
  BY AwakeIs DEF Close, ialVars, numbers, WakePlace
<1>2. r.pc = "plock" /\ r.asleep = Nil /\ r.locks = {}
  BY <1>1 DEF UserRecords
<1>3. ~InIalloc(o)
  BY <1>1 DEF InIalloc, Puts
<1> HIDE DEF r
<1>4. user' = [user EXCEPT ![p] = r] /\ WakePlace(r)
  BY <1>1, <1>2, Channels DEF Goes, Back, WakePlace
<1> QED BY <1>1, <1>2, <1>3, <1>4, PlainWakes

LEMMA PlockWakes == ASSUME TabInv, WakeInv, NEW p \in Users, Plock(p) PROVE Wakes(p)
<1> DEFINE o == user[p]
           s == o.slot
           h == Holding(o, s)
           d == [Referring(h, s) EXCEPT !.pc = "dsearch"]
           f == Iputs(h, s, "idle")
<1>1. /\ o \in UserRecords /\ o.pc = "plock" /\ o.asleep = Nil /\ o.locks = {} /\ s_ilock' = s_ilock
      /\ s \in Table /\ inode[s] \in InodeRecords /\ inode \in [Table -> InodeRecords]
      /\ \/ inode[s].lock /\ inode' = [inode EXCEPT ![s] = Wanted(inode[s])] /\ Sleeps(p, s, o)
         \/ inode' = [inode EXCEPT ![s] = Counted(Locked(inode[s]), 1)] /\ MaySleep(p, d)
         \/ inode' = [inode EXCEPT ![s] = Locked(inode[s])] /\ Goes(p, f)
  BY AwakeIs DEF Plock, ialVars, numbers, WakePlace, RefsOK
<1>2. /\ d.pc = "dsearch" /\ d.asleep = Nil /\ s \in d.locks
      /\ f.pc = "iput" /\ f.asleep = Nil /\ s \in f.locks
  BY <1>1 DEF UserRecords, Holding, Referring, Iputs
<1>3. /\ Wanted(inode[s]) \in InodeRecords /\ Wanted(inode[s]).lock = inode[s].lock /\ Wanted(inode[s]).want
      /\ Counted(Locked(inode[s]), 1) \in InodeRecords /\ Counted(Locked(inode[s]), 1).lock
      /\ Counted(Locked(inode[s]), 1).want = inode[s].want
      /\ Locked(inode[s]) \in InodeRecords /\ Locked(inode[s]).lock /\ Locked(inode[s]).want = inode[s].want
  BY <1>1, FlagsAre
<1>4. ~InIalloc(o)
  BY <1>1 DEF InIalloc, Puts
<1> HIDE DEF d, f, h
<1>5. CASE inode[s].lock /\ inode' = [inode EXCEPT ![s] = Wanted(inode[s])] /\ Sleeps(p, s, o)
  BY <1>1, <1>3, <1>4, <1>5, SleepWakes
<1>6. CASE inode' = [inode EXCEPT ![s] = Counted(Locked(inode[s]), 1)] /\ MaySleep(p, d)
  <2>1. user' = [user EXCEPT ![p] = d] /\ WakePlace(d)
    BY <1>2, <1>6, Channels DEF MaySleep, WakePlace
  <2> QED BY <1>1, <1>2, <1>3, <1>4, <1>6, <2>1, LockWakes
<1>7. CASE inode' = [inode EXCEPT ![s] = Locked(inode[s])] /\ Goes(p, f)
  <2>1. user' = [user EXCEPT ![p] = f] /\ WakePlace(f)
    BY <1>2, <1>7, Channels DEF Goes, Back, WakePlace
  <2> QED BY <1>1, <1>2, <1>3, <1>4, <1>7, <2>1, LockWakes
<1> QED BY <1>1, <1>5, <1>6, <1>7

LEMMA DsearchWakes == ASSUME TabInv, WakeInv, NEW p \in Users, Dsearch(p) PROVE Wakes(p)
<1> DEFINE o == user[p]
           d == o.dir
           k(n) == [o EXCEPT !.pc = "iget", !.ino = n, !.ret = "looked", !.locks = @ \ {d}]
           m(n) == [o EXCEPT !.pc = "iget", !.ino = n, !.ret = "dormfile"]
           c == [o EXCEPT !.pc = "ialloc"]
           e == Leaves(o, "idle")
<1>1. /\ o \in UserRecords /\ o.pc = "dsearch" /\ o.asleep = Nil /\ d \in Table /\ s_ilock' = s_ilock
      /\ \/ \E n \in named[d] : Prele(p, d, inode[d], k(n))
         \/ inode' = inode /\ \E n \in named[d] : Goes(p, m(n))
         \/ inode' = inode /\ Goes(p, c)
         \/ inode' = inode /\ Goes(p, e)
  <2>1. At(p, "dsearch") /\ s_ilock' = s_ilock
    BY DEF Dsearch, ialVars, numbers
  <2>2. o \in UserRecords /\ o.pc = "dsearch" /\ o.asleep = Nil /\ d \in Table
    <3>1. o \in UserRecords /\ o.pc = "dsearch" /\ o.asleep = Nil /\ CallOK(o)
      BY <2>1, AwakeIs
    <3> QED BY <3>1, Constants DEF CallOK
  <2> QED BY <2>1, <2>2, Zenon DEF Dsearch
<1>2. /\ inode[d] \in InodeRecords
      /\ \A n : /\ k(n).pc = "iget" /\ k(n).asleep = Nil /\ k(n).locks = o.locks \ {d}
                /\ m(n).pc = "iget" /\ m(n).asleep = Nil /\ m(n).locks = o.locks
      /\ c.pc = "ialloc" /\ c.asleep = Nil /\ c.locks = o.locks
      /\ e.pc = "iput" /\ e.asleep = Nil /\ e.locks = o.locks
  BY <1>1 DEF UserRecords, Leaves, Iputs, TabInv, TypesInv
<1>3. ~InIalloc(o)
  BY <1>1 DEF InIalloc, Puts
<1> HIDE DEF k, m, c, e
<1>4. CASE \E n \in named[d] : Prele(p, d, inode[d], k(n))
  <2>1. PICK n \in named[d] : Prele(p, d, inode[d], k(n))
    BY <1>4
  <2>2. Back(k(n)) = k(n) /\ WakePlace(k(n))
    BY <1>2, Channels DEF Back, WakePlace
  <2> QED BY <1>1, <1>2, <1>3, <2>1, <2>2, PreleWakes
<1>5. CASE inode' = inode /\ \E n \in named[d] : Goes(p, m(n))
  <2>1. PICK n \in named[d] : Goes(p, m(n))
    BY <1>5
  <2> QED BY <1>1, <1>2, <1>3, <1>5, <2>1, QuietWakes
<1>6. CASE inode' = inode /\ Goes(p, c)
  BY <1>1, <1>2, <1>3, <1>6, QuietWakes
<1>7. CASE inode' = inode /\ Goes(p, e)
  BY <1>1, <1>2, <1>3, <1>7, QuietWakes
<1> QED BY <1>1, <1>4, <1>5, <1>6, <1>7

LEMMA FsgetWakes == ASSUME TabInv, WakeInv, NEW p \in Users, Fsget(p) PROVE Wakes(p)
<1> DEFINE o == user[p]
           g == [o EXCEPT !.pc = o.ret]
           e == Iputs(o, o.slot, "noinode")
<1>1. /\ o \in UserRecords /\ o.pc = "fsget" /\ o.asleep = Nil /\ s_ilock' = s_ilock /\ o.ret \in Results
      /\ Goes(p, g) \/ Goes(p, e)
  BY AwakeIs DEF Fsget, numbers, CallOK
<1>2. \A t \in Table : inode'[t].lock = inode[t].lock /\ inode'[t].want = inode[t].want
  BY AwakeIs DEF Fsget, InodeRecords
<1>3. /\ g.pc = o.ret /\ g.asleep = Nil /\ g.locks = o.locks
      /\ e.pc = "iput" /\ e.asleep = Nil /\ e.locks = o.locks /\ e.then = "noinode" /\ e.ret = o.ret
  BY <1>1 DEF UserRecords, Iputs
<1>4. (InIalloc(o) => InIalloc(g)) /\ (InIalloc(o) => InIalloc(e))
  BY <1>1, <1>3 DEF InIalloc, Puts, Results
<1> HIDE DEF g, e
<1>5. CASE Goes(p, g)
  BY <1>1, <1>2, <1>3, <1>4, <1>5, QuietWakes DEF Results
<1>6. CASE Goes(p, e)
  BY <1>1, <1>2, <1>3, <1>4, <1>6, QuietWakes
<1> QED BY <1>1, <1>5, <1>6

LEMMA IallocWakes == ASSUME TabInv, WakeInv, NEW p \in Users, Ialloc(p) PROVE Wakes(p)
<1> DEFINE o == user[p]
           r == [o EXCEPT !.pc = "iloop"]
           x == [o EXCEPT !.asleep = IlockChan]
<1>1. /\ o \in UserRecords /\ o.pc = "ialloc" /\ o.asleep = Nil /\ inode' = inode
      /\ \/ s_ilock /\ s_ilock' = s_ilock /\ user' = [user EXCEPT ![p] = x]
         \/ s_ilock' /\ Goes(p, r)
  BY AwakeIs DEF Ialloc, Sleeps
<1>2. /\ r.pc = "iloop" /\ r.asleep = Nil /\ r.locks = o.locks
      /\ x.pc = "ialloc" /\ x.asleep = IlockChan /\ x.locks = o.locks
  BY <1>1 DEF UserRecords
<1>3. ~InIalloc(o) /\ InIalloc(r)
  BY <1>1, <1>2 DEF InIalloc, Puts
<1> HIDE DEF r, x
<1>4. CASE s_ilock' /\ Goes(p, r)
  BY <1>1, <1>2, <1>3, <1>4, QuietWakes
<1>5. CASE s_ilock /\ s_ilock' = s_ilock /\ user' = [user EXCEPT ![p] = x]
  <2>1. user'[p] = x /\ \A q \in Users \ {p} : user'[q] = user[q]
    BY <1>5 DEF TabInv, TypesInv
  <2>2. Minds(user[p].asleep)' /\ WakePlace(x)
    BY <1>2, <1>5, <2>1, Channels DEF Minds, WakePlace
  <2>3. 1 \in Table /\ \A q \in Users : user[q].asleep = 1 => inode[1].lock /\ inode[1].want
    BY Constants DEF WakeInv, Minds
  <2>4. inode'[1].lock => 1 \in user'[p].locks \/ (inode[1].lock /\ 1 \notin user[p].locks)
    BY <1>1, <1>2, <2>1
  <2>5. WakesAt(p, 1)
    BY <1>1, <1>2, <1>3, <1>5, <2>1, <2>2, <2>3, <2>4 DEF WakesAt
  <2> QED BY <2>3, <2>5 DEF Wakes
<1> QED BY <1>1, <1>4, <1>5

LEMMA IloopWakes == ASSUME TabInv, WakeInv, NEW p \in Users, Iloop(p) PROVE Wakes(p)
<1> DEFINE o == user[p]
           g == [o EXCEPT !.pc = "iget", !.ino = Last(s_inode), !.ret = "ialloced"]
           a(b) == [o EXCEPT !.pc = "fill", !.scan = b, !.first = TRUE]
           z == [o EXCEPT !.pc = "fill", !.scan = 1, !.first = FALSE]
<1>1. /\ o \in UserRecords /\ o.pc = "iloop" /\ o.asleep = Nil /\ UNCHANGED <<inode, s_ilock>>
      /\ Goes(p, g) \/ (\E b \in DOMAIN Ilist : MaySleep(p, a(b))) \/ MaySleep(p, z)
  BY AwakeIs DEF Iloop
<1>2. /\ g.pc = "iget" /\ g.asleep = Nil /\ g.locks = o.locks /\ g.ret = "ialloced"
      /\ \A b : a(b).pc = "fill" /\ a(b).asleep = Nil /\ a(b).locks = o.locks
      /\ z.pc = "fill" /\ z.asleep = Nil /\ z.locks = o.locks
  BY <1>1 DEF UserRecords
<1>3. InIalloc(g) /\ InIalloc(z) /\ \A b : InIalloc(a(b))
  BY <1>2 DEF InIalloc
<1> HIDE DEF g, a, z
<1>4. CASE Goes(p, g)
  BY <1>1, <1>2, <1>3, <1>4, QuietWakes
<1>5. CASE \E b \in DOMAIN Ilist : MaySleep(p, a(b))
  <2>1. PICK b \in DOMAIN Ilist : MaySleep(p, a(b))
    BY <1>5
  <2> QED BY <1>1, <1>2, <1>3, <2>1, QuietWakes
<1>6. CASE MaySleep(p, z)
  BY <1>1, <1>2, <1>3, <1>6, QuietWakes
<1> QED BY <1>1, <1>4, <1>5, <1>6

(* A slot of the free list is not locked, for who holds an inode has a     *)
(* reference, and only update refers to a free slot, while it runs.        *)
LEMMA FreeUnlocked ==
  ASSUME TabInv, WakeInv, NEW p \in Users, At(p, "iget"), NEW s \in Table, inode[s].ino = Nil
  PROVE  ~inode[s].lock
<1>1. SUFFICES ASSUME inode[s].lock PROVE FALSE
  OBVIOUS
<1>2. PICK q \in Users : s \in user[q].locks
  BY <1>1 DEF WakeInv, HolderInv
<1>3. s \in user[q].refs
  BY <1>2 DEF TabInv, PlaceInv, PlaceOK
<1>4. Passing(q, s)
  BY <1>3 DEF TabInv, RefInv
<1>5. running = q /\ user[q].pc \in {"updated", "iput"}
  BY <1>4 DEF Passing
<1>6. running \in {p, Nil} /\ user[p].pc = "iget"
  BY AwakeIs
<1>7. Nil \notin Users
  BY Constants
<1> QED BY <1>5, <1>6, <1>7

LEMMA IgetHitWakes ==
  ASSUME TabInv, WakeInv, NEW p \in Users, At(p, "iget"), NEW s \in Ifind(user[p].ino), IgetHit(p, s),
         s_ilock' = s_ilock
  PROVE  Wakes(p)
<1> DEFINE o == user[p]
           w == [o EXCEPT !.pc = "igetwake", !.slot = s]
           r == [Holding(Referring(o, s), s) EXCEPT !.pc = o.ret, !.slot = s]
           j == inode[s]
<1>1. /\ o \in UserRecords /\ o.pc = "iget" /\ o.asleep = Nil /\ o.ret \in Results /\ s \in Table /\ s \in Files
      /\ j \in InodeRecords
  <2>1. o \in UserRecords /\ o.pc = "iget" /\ o.asleep = Nil /\ CallOK(o) /\ inode \in [Table -> InodeRecords]
    BY AwakeIs
  <2>2. s \in Table /\ inode[s].ino = o.ino
    BY DEF Ifind
  <2>3. o.ret \in Results /\ o.ino \in Inos
    BY <2>1 DEF CallOK
  <2>4. s \in Dirs => inode[s].ino \in DirNumbers
    BY DEF TabInv, TableInv, DirNumbers
  <2>5. s \notin Dirs
    BY <2>2, <2>3, <2>4, Constants
  <2> QED BY <2>1, <2>2, <2>3, <2>5 DEF Files
<1>2. /\ w \in UserRecords /\ w.pc = "igetwake" /\ w.slot = s /\ w.locks = o.locks /\ w.ret = o.ret
      /\ r.pc = o.ret /\ r.asleep = Nil /\ r.locks = o.locks \cup {s}
  <2>1. w \in UserRecords /\ w.pc = "igetwake" /\ w.slot = s /\ w.locks = o.locks /\ w.ret = o.ret
    <3>1. "igetwake" \in Labels
      BY DEF Labels
    <3> QED BY <1>1, <3>1 DEF UserRecords
  <2>2. r.pc = o.ret /\ r.asleep = Nil /\ r.locks = o.locks \cup {s}
    BY <1>1 DEF UserRecords, Holding, Referring
  <2> QED BY <2>1, <2>2
<1>3. /\ Counted(Wanted(j), 1) \in InodeRecords /\ Counted(Wanted(j), 1).lock = j.lock /\ Counted(Wanted(j), 1).want
      /\ Counted(Locked(j), 1) \in InodeRecords /\ Counted(Locked(j), 1).lock
      /\ Counted(Locked(j), 1).want = j.want
  BY <1>1, FlagsAre
<1>4. (InIalloc(o) => InIalloc(w)) /\ (InIalloc(o) => InIalloc(r))
  BY <1>1, <1>2 DEF InIalloc, Puts, Results
<1>5. \/ j.lock /\ inode' = [inode EXCEPT ![s] = Counted(Wanted(j), 1)] /\ Sleeps(p, s, w)
      \/ inode' = [inode EXCEPT ![s] = Counted(Locked(j), 1)] /\ Goes(p, r)
  BY DEF IgetHit
<1> HIDE DEF w, r
<1>6. CASE j.lock /\ inode' = [inode EXCEPT ![s] = Counted(Wanted(j), 1)] /\ Sleeps(p, s, w)
  BY <1>1, <1>2, <1>3, <1>4, <1>6, SleepWakes
<1>7. CASE inode' = [inode EXCEPT ![s] = Counted(Locked(j), 1)] /\ Goes(p, r)
  <2>1. user' = [user EXCEPT ![p] = r] /\ WakePlace(r)
    BY <1>1, <1>2, <1>7, Channels DEF Goes, Back, WakePlace, Results
  <2> QED BY <1>1, <1>2, <1>3, <1>4, <1>7, <2>1, LockWakes
<1> QED BY <1>5, <1>6, <1>7

LEMMA IgetMissWakes ==
  ASSUME TabInv, WakeInv, NEW p \in Users, At(p, "iget"), IgetMiss(p), s_ilock' = s_ilock
  PROVE  Wakes(p)
<1> DEFINE o == user[p]
           s == Head(ifreel)
           r == [Holding(Referring(o, s), s) EXCEPT !.pc = "fsget", !.slot = s]
           j == inode[s]
           i == [j EXCEPT !.ino = o.ino, !.lock = TRUE, !.want = FALSE, !.dirty = FALSE]
<1>1. /\ o \in UserRecords /\ o.pc = "iget" /\ o.asleep = Nil /\ o.ino \in Inos
      /\ inode \in [Table -> InodeRecords]
  BY AwakeIs DEF CallOK
<1>2. s \in Table /\ j \in InodeRecords /\ ~j.lock
  <2>1. ifreel \in Seq(Table) /\ ifreel # <<>>
    BY DEF TabInv, TypesInv, IgetMiss
  <2>2. s \in Table /\ 1 \in DOMAIN ifreel /\ s = ifreel[1]
    BY <2>1, EmptySeq, LenProperties, HeadTailProperties
  <2>3. inode[s].ino = Nil
    BY <2>2 DEF TabInv, TableInv
  <2> QED BY <1>1, <2>2, <2>3, FreeUnlocked
<1> HIDE DEF s
<1>3. i \in InodeRecords /\ i.lock
  BY <1>1, <1>2 DEF InodeRecords
<1>4. Counted(i, 1) \in InodeRecords /\ Counted(i, 1).lock
  <2> HIDE DEF i
  <2> QED BY <1>3, FlagsAre
<1>5. r.pc = "fsget" /\ r.asleep = Nil /\ r.locks = o.locks \cup {s} /\ r.ret = o.ret
  BY <1>1 DEF UserRecords, Holding, Referring
<1>6. InIalloc(o) => InIalloc(r)
  BY <1>1, <1>5 DEF InIalloc, Puts
<1>7. inode' = [inode EXCEPT ![s] = Counted(i, 1)] /\ MaySleep(p, r)
  BY DEF IgetMiss, s
<1> HIDE DEF r, i
<1>8. user' = [user EXCEPT ![p] = r] /\ WakePlace(r)
  BY <1>5, <1>7, Channels DEF MaySleep, WakePlace
<1> QED BY <1>1, <1>2, <1>4, <1>5, <1>6, <1>7, <1>8, LockWakes

LEMMA IgetWakes == ASSUME TabInv, WakeInv, NEW p \in Users, Iget(p) PROVE Wakes(p)
<1> DEFINE o == user[p]
           r == [o EXCEPT !.pc = o.ret, !.slot = Nil]
<1>1. /\ At(p, "iget") /\ s_ilock' = s_ilock
      /\ \/ \E s \in Ifind(o.ino) : IgetHit(p, s)
         \/ IgetMiss(p)
         \/ Goes(p, r) /\ inode' = inode
  BY DEF Iget, Tablefull, ialVars, numbers
<1>2. CASE \E s \in Ifind(o.ino) : IgetHit(p, s)
  BY <1>1, <1>2, IgetHitWakes
<1>3. CASE IgetMiss(p)
  BY <1>1, <1>3, IgetMissWakes
<1>4. CASE Goes(p, r) /\ inode' = inode
  <2>1. o \in UserRecords /\ o.pc = "iget" /\ o.asleep = Nil /\ o.ret \in Results
    BY <1>1, AwakeIs DEF CallOK
  <2>2. r.pc = o.ret /\ r.asleep = Nil /\ r.locks = o.locks
    BY <2>1 DEF UserRecords
  <2>3. (InIalloc(o) => InIalloc(r)) /\ r.pc \notin {"idle", "open", "plock", "igetwake"}
    BY <2>1, <2>2 DEF InIalloc, Puts, Results
  <2> HIDE DEF r
  <2> QED BY <1>1, <1>4, <2>1, <2>2, <2>3, QuietWakes
<1> QED BY <1>1, <1>2, <1>3, <1>4

(* iput returns to its caller with the rest of the locks.                  *)
LEMMA AwayWakes ==
  ASSUME TabInv, WakeInv, NEW p \in Users, user[p].pc \in {"iput", "t_put"}, user[p].asleep = Nil, NEW i \in InodeRecords,
         Prele(p, user[p].slot, i, Away(user[p])), s_ilock' = s_ilock
  PROVE  Wakes(p)
<1> DEFINE o == user[p]
           r == Away(o)
<1>1. o \in UserRecords /\ PlaceOK(o) /\ o.pc \in Puts /\ WakePlace(o)
  BY DEF TabInv, TypesInv, PlaceInv, WakeInv, Puts
<1>2. /\ r \in UserRecords /\ PlaceOK(r) /\ r.refs = o.refs \ {o.slot} /\ o.slot \in Table
  BY <1>1, AwayIs
<1>3. r.pc = o.then /\ r.asleep = Nil /\ r.locks = o.locks \ {o.slot} /\ r.ret = o.ret
  BY <1>1 DEF Away, Left, UserRecords
<1>4. o.then \in Thens
  BY <1>1 DEF PlaceOK, RefsOK
<1> HIDE DEF r
<1>5. o.then = "idle" => o.locks \ {o.slot} = {}
  <2>1. ASSUME o.then = "idle" PROVE r.refs = {}
    BY <1>2, <1>3, <2>1 DEF PlaceOK, RefsOK
  <2> QED BY <1>1, <1>2, <2>1 DEF PlaceOK
<1>6. /\ Back(r).locks = r.locks /\ Back(r).asleep = Nil /\ Back(r).pc = r.pc
      /\ r.pc = "idle" => Back(r).locks = {} /\ r.locks = {}
      /\ r.pc # "idle" => Back(r) = r
  BY <1>3, <1>5 DEF Back, Fresh
<1>7. WakePlace(Back(r))
  BY <1>3, <1>4, <1>6, Channels DEF WakePlace, Thens
<1>8. InIalloc(o) => InIalloc(Back(r))
  BY <1>1, <1>3, <1>4, <1>6 DEF InIalloc, Puts, Thens
<1>9. Prele(p, o.slot, i, r) /\ o.locks \ {o.slot} \subseteq Back(r).locks
  BY <1>3, <1>6 DEF r
<1> QED BY <1>2, <1>6, <1>7, <1>8, <1>9, PreleWakes

LEMMA IputWakes == ASSUME TabInv, WakeInv, NEW p \in Users, Iput(p) PROVE Wakes(p)
<1> DEFINE o == user[p]
           s == o.slot
           at == IF inode[s].nlink <= 0 THEN "t_free" ELSE "t_put"
           r == [Holding(o, s) EXCEPT !.pc = at]
<1>1. /\ At(p, "iput") /\ s_ilock' = s_ilock
      /\ \/ inode' = [inode EXCEPT ![s] = Locked(inode[s])] /\ (Goes(p, r) \/ MaySleep(p, r))
         \/ Prele(p, s, Counted(inode[s], -1), Away(o))
  BY DEF Iput, Away, ialVars, numbers
<1>2. /\ o \in UserRecords /\ o.pc = "iput" /\ o.asleep = Nil /\ s \in Table /\ inode[s] \in InodeRecords
  BY <1>1, AwakeIs DEF RefsOK, Puts
<1>3. Locked(inode[s]) \in InodeRecords /\ Locked(inode[s]).lock /\ Locked(inode[s]).want = inode[s].want
      /\ Counted(inode[s], -1) \in InodeRecords
  BY <1>2, FlagsAre
<1>4. CASE inode' = [inode EXCEPT ![s] = Locked(inode[s])] /\ (Goes(p, r) \/ MaySleep(p, r))
  <2>1. at \in {"t_free", "t_put"}
    OBVIOUS
  <2> HIDE DEF at
  <2>2. /\ r.pc = at /\ r.asleep = Nil /\ r.locks = o.locks \cup {s} /\ r.then = o.then /\ r.ret = o.ret
    BY <1>2 DEF UserRecords, Holding
  <2>3. InIalloc(o) => InIalloc(r)
    BY <1>2, <2>1, <2>2 DEF InIalloc, Puts
  <2> HIDE DEF r
  <2>4. user' = [user EXCEPT ![p] = r] /\ WakePlace(r)
    BY <1>4, <2>1, <2>2, Channels DEF Goes, MaySleep, Back, WakePlace
  <2> QED BY <1>1, <1>2, <1>3, <1>4, <2>2, <2>3, <2>4, LockWakes
<1>5. CASE Prele(p, s, Counted(inode[s], -1), Away(o))
  BY <1>1, <1>2, <1>3, <1>5, AwayWakes
<1> QED BY <1>1, <1>4, <1>5

LEMMA TPutWakes == ASSUME TabInv, WakeInv, NEW p \in Users, TPut(p) PROVE Wakes(p)
<1> DEFINE o == user[p]
           s == o.slot
           j == [inode[s] EXCEPT !.ino = Nil, !.dirty = FALSE]
<1>1. /\ At(p, "t_put") /\ s_ilock' = s_ilock /\ Prele(p, s, Counted(j, -1), Away(o))
  BY DEF TPut, Away, numbers
<1>2. o \in UserRecords /\ o.pc = "t_put" /\ o.asleep = Nil /\ s \in Table /\ inode[s] \in InodeRecords
  BY <1>1, AwakeIs DEF RefsOK, Puts
<1>3. j \in InodeRecords
  BY <1>2 DEF InodeRecords
<1> HIDE DEF j
<1>4. Counted(j, -1) \in InodeRecords
  BY <1>3, FlagsAre
<1> QED BY <1>1, <1>2, <1>4, AwayWakes

LEMMA UseWakes == ASSUME TabInv, WakeInv, NEW p \in Users, Use(p) PROVE Wakes(p)
<1> DEFINE o == user[p]
           s == o.file
           e == Iputs(o, s, "idle")
           f == [o EXCEPT !.pc = "open", !.slot = s, !.locks = @ \ {s}]
<1>1. /\ At(p, "use") /\ s_ilock' = s_ilock
      /\ \/ inode' = inode /\ MaySleep(p, e)
         \/ Prele(p, s, inode[s], f)
  BY DEF Use, ialVars, numbers
<1>2. /\ o \in UserRecords /\ o.pc = "use" /\ o.asleep = Nil /\ s \in Table /\ inode[s] \in InodeRecords
      /\ o.locks \subseteq {s}
  BY <1>1, AwakeIs DEF RefsOK, Puts, Files
<1>3. /\ e.pc = "iput" /\ e.asleep = Nil /\ e.locks = o.locks
      /\ f.pc = "open" /\ f.asleep = Nil /\ f.locks = {}
  BY <1>2 DEF UserRecords, Iputs
<1>4. ~InIalloc(o)
  BY <1>2 DEF InIalloc, Puts
<1> HIDE DEF e, f
<1>5. CASE inode' = inode /\ MaySleep(p, e)
  BY <1>1, <1>2, <1>3, <1>4, <1>5, QuietWakes
<1>6. CASE Prele(p, s, inode[s], f)
  <2>1. Back(f) = f /\ WakePlace(f) /\ o.locks \ {s} \subseteq f.locks
    BY <1>2, <1>3, Channels DEF Back, WakePlace
  <2> QED BY <1>1, <1>2, <1>3, <1>4, <1>6, <2>1, PreleWakes
<1> QED BY <1>1, <1>5, <1>6

LEMMA IallocedWakes == ASSUME TabInv, WakeInv, NEW p \in Users, Ialloced(p) PROVE Wakes(p)
<1> DEFINE o == user[p]
           s == o.slot
           e == Leaves(o, "idle")
           n == [o EXCEPT !.pc = "iupdat", !.file = s]
           b == Iputs(o, s, "iloop")
<1>1. /\ At(p, "ialloced")
      /\ \/ Iunlock(p, e)
         \/ Iunlock(p, n)
         \/ Goes(p, b) /\ s_ilock' = s_ilock
  BY DEF Ialloced
<1>2. \A t \in Table : inode'[t].lock = inode[t].lock /\ inode'[t].want = inode[t].want
  BY <1>1, AwakeIs DEF Ialloced, InodeRecords
<1>3. o \in UserRecords /\ o.pc = "ialloced" /\ o.asleep = Nil
  BY <1>1, AwakeIs
<1>4. /\ e.pc = "iput" /\ e.asleep = Nil /\ e.locks = o.locks
      /\ n.pc = "iupdat" /\ n.asleep = Nil /\ n.locks = o.locks
      /\ b.pc = "iput" /\ b.asleep = Nil /\ b.locks = o.locks /\ b.then = "iloop"
  BY <1>3 DEF UserRecords, Leaves, Iputs
<1>5. InIalloc(b)
  BY <1>4 DEF InIalloc, Puts
<1> HIDE DEF e, n, b
<1>6. WakePlace(e) /\ WakePlace(n)
  BY <1>4, Channels DEF WakePlace
<1>7. CASE Iunlock(p, e)
  BY <1>2, <1>4, <1>6, <1>7, IunlockWakes
<1>8. CASE Iunlock(p, n)
  BY <1>2, <1>4, <1>6, <1>8, IunlockWakes
<1>9. CASE Goes(p, b) /\ s_ilock' = s_ilock
  BY <1>2, <1>4, <1>5, <1>9, QuietWakes
<1> QED BY <1>1, <1>7, <1>8, <1>9

LEMMA FillWakes == ASSUME TabInv, WakeInv, NEW p \in Users, Fill(p) PROVE Wakes(p)
<1> DEFINE o == user[p]
           a == [o EXCEPT !.scan = @ + 1]
           z == [o EXCEPT !.scan = 1, !.first = FALSE]
           m == [o EXCEPT !.scan = 0]
           e == Leaves(m, "idle")
           g == [o EXCEPT !.pc = "iloop", !.scan = 0]
<1>1. /\ At(p, "fill") /\ inode' = inode
      /\ \/ MaySleep(p, a) /\ s_ilock' = s_ilock
         \/ MaySleep(p, z) /\ s_ilock' = s_ilock
         \/ Iunlock(p, e)
         \/ Iunlock(p, g)
  BY DEF Fill
<1>2. o \in UserRecords /\ o.pc = "fill" /\ o.asleep = Nil
  BY <1>1, AwakeIs
<1>3. /\ a.pc = "fill" /\ a.asleep = Nil /\ a.locks = o.locks
      /\ z.pc = "fill" /\ z.asleep = Nil /\ z.locks = o.locks
      /\ e.pc = "iput" /\ e.asleep = Nil /\ e.locks = o.locks
      /\ g.pc = "iloop" /\ g.asleep = Nil /\ g.locks = o.locks
  BY <1>2 DEF UserRecords, Leaves, Iputs
<1>4. InIalloc(a) /\ InIalloc(z)
  BY <1>3 DEF InIalloc
<1> HIDE DEF a, z, e, g
<1>5. WakePlace(e) /\ WakePlace(g)
  BY <1>3, Channels DEF WakePlace
<1>6. CASE MaySleep(p, a) /\ s_ilock' = s_ilock
  BY <1>1, <1>3, <1>4, <1>6, QuietWakes
<1>7. CASE MaySleep(p, z) /\ s_ilock' = s_ilock
  BY <1>1, <1>3, <1>4, <1>7, QuietWakes
<1>8. CASE Iunlock(p, e)
  BY <1>1, <1>3, <1>5, <1>8, IunlockWakes
<1>9. CASE Iunlock(p, g)
  BY <1>1, <1>3, <1>5, <1>9, IunlockWakes
<1> QED BY <1>1, <1>6, <1>7, <1>8, <1>9

LEMMA UpdateWakes == ASSUME TabInv, WakeInv, NEW p \in Users, Update(p) PROVE Wakes(p)
<1> DEFINE o == user[p]
           rest == {t \in Table : t >= o.scan /\ ~inode[t].lock /\ inode[t].count # 0}
           s == Min(rest)
           u == [o EXCEPT !.pc = "updated", !.slot = s, !.scan = s + 1]
           r == Holding(Referring(u, s), s)
<1>1. /\ At(p, "update") /\ s_ilock' = s_ilock
      /\ \/ rest # {} /\ inode' = [inode EXCEPT ![s] = Counted(Locked(@), 1)] /\ (Goes(p, r) \/ MaySleep(p, r))
         \/ Goes(p, Fresh) /\ inode' = inode
  BY DEF Update, ialVars, numbers
<1>2. /\ o \in UserRecords /\ o.pc = "update" /\ o.asleep = Nil /\ o.locks = {} /\ inode \in [Table -> InodeRecords]
  BY <1>1, AwakeIs DEF RefsOK
<1>3. ~InIalloc(o)
  BY <1>2 DEF InIalloc, Puts
<1>4. CASE rest # {} /\ inode' = [inode EXCEPT ![s] = Counted(Locked(@), 1)] /\ (Goes(p, r) \/ MaySleep(p, r))
  <2>1. rest \in SUBSET Nat /\ rest \subseteq Table
    BY Constants
  <2>2. s \in Table
    <3> HIDE DEF rest
    <3> QED BY <1>4, <2>1, LeastSlot
  <2> HIDE DEF s
  <2>3. Counted(Locked(inode[s]), 1) \in InodeRecords /\ Counted(Locked(inode[s]), 1).lock
        /\ Counted(Locked(inode[s]), 1).want = inode[s].want
    BY <1>2, <2>2, FlagsAre
  <2>4. r.pc = "updated" /\ r.asleep = Nil /\ s \in r.locks
    BY <1>2 DEF UserRecords, Holding, Referring
  <2> HIDE DEF r
  <2>5. user' = [user EXCEPT ![p] = r] /\ WakePlace(r)
    BY <1>4, <2>4, Channels DEF Goes, MaySleep, Back, WakePlace
  <2>6. inode' = [inode EXCEPT ![s] = Counted(Locked(inode[s]), 1)]
    BY <1>4
  <2> QED BY <1>1, <1>2, <1>3, <2>2, <2>3, <2>4, <2>5, <2>6, LockWakes
<1>5. CASE Goes(p, Fresh) /\ inode' = inode
  <2>1. user' = [user EXCEPT ![p] = Fresh] /\ Fresh.asleep = Nil /\ Fresh.locks = {} /\ Fresh.pc = "idle"
    BY <1>5 DEF Goes, Back, Fresh
  <2>2. WakePlace(Fresh)
    BY <2>1, Channels DEF WakePlace
  <2> QED BY <1>1, <1>2, <1>3, <1>5, <2>1, <2>2, PlainWakes
<1> QED BY <1>1, <1>4, <1>5

LEMMA StepWakes == ASSUME TabInv, WakeInv, NEW p \in Users, InodeStep(p) PROVE Wakes(p)
BY SyscallWakes, CloseWakes, PlockWakes, DsearchWakes, IgetWakes, IgetWakeWakes, FsgetWakes, NoinodeWakes,
   IputWakes, TFreeWakes, TPutWakes, LookedWakes, UseWakes, DormfileWakes, RemovedWakes, LeaveWakes,
   IallocWakes, IloopWakes, IallocedWakes, FillWakes, IupdatWakes, EnterNameWakes, UpdateWakes, UpdatedWakes
   DEF InodeStep

LEMMA NextWakeInv == TabInv /\ WakeInv /\ [InodeNext]_inodeVars => WakeInv'
<1> SUFFICES ASSUME TabInv, WakeInv, [InodeNext]_inodeVars PROVE WakeInv'
  OBVIOUS
<1>1. CASE InodeNext
  <2>1. PICK p \in Users : InodeStep(p)
    BY <1>1 DEF InodeNext
  <2>2. TypesInv'
    BY <1>1, NextTabInv DEF TabInv
  <2> QED BY <2>1, <2>2, StepWakes, WakesKeeps
<1>2. CASE UNCHANGED inodeVars
  BY <1>2 DEF inodeVars, WakeInv, HolderInv, WakePlace, Minds, InIalloc
<1> QED BY <1>1, <1>2

LEMMA InitWakeInv == InodeInit => WakeInv
<1> SUFFICES ASSUME InodeInit PROVE WakeInv
  OBVIOUS
<1>1. \A p \in Users : user[p] = Fresh
  BY DEF InodeInit
<1>2. Fresh.asleep = Nil /\ Fresh.locks = {} /\ Fresh.pc = "idle"
  BY DEF Fresh
<1>3. ~s_ilock /\ \A s \in Table : ~inode[s].lock
  BY DEF InodeInit
<1>4. \A p \in Users : WakePlace(user[p]) /\ Minds(user[p].asleep)
  BY <1>1, <1>2, Channels DEF WakePlace, Minds
<1> QED BY <1>3, <1>4 DEF WakeInv, HolderInv

(* Who sleeps in plock has nothing locked, and who sleeps in iget or in    *)
(* ialloc no file; so the holder of what one waits for is awake, or waits  *)
(* for one who is.                                                         *)
LEMMA SomebodyAwake ==
  ASSUME TabInv, WakeInv, Users # {}
  PROVE  \E p \in Users : user[p].asleep = Nil
<1>1. SUFFICES ASSUME \A p \in Users : user[p].asleep # Nil PROVE FALSE
  OBVIOUS
<1>2. ASSUME NEW p \in Users
      PROVE  /\ user[p].asleep \in Table \cup {IlockChan}
             /\ user[p].pc \in {"plock", "igetwake", "ialloc"} /\ WakePlace(user[p]) /\ Minds(user[p].asleep)
             /\ user[p].locks \subseteq Dirs /\ (user[p].pc = "plock" => user[p].locks = {})
  <2>1. user[p] \in UserRecords /\ PlaceOK(user[p]) /\ WakePlace(user[p]) /\ Minds(user[p].asleep)
    BY DEF TabInv, TypesInv, PlaceInv, WakeInv
  <2>2. user[p].asleep \in Table \cup {IlockChan}
    BY <1>1, <2>1 DEF UserRecords
  <2>3. user[p].pc \in {"plock", "igetwake", "ialloc"} /\ (user[p].pc = "plock" => user[p].locks = {})
    BY <2>1, <2>2 DEF WakePlace
  <2>4. user[p].pc \in {"igetwake", "ialloc"} => user[p].locks \subseteq Dirs
    BY <2>1 DEF PlaceOK, RefsOK, CallOK
  <2> QED BY <2>1, <2>2, <2>3, <2>4
<1>3. ASSUME NEW p \in Users, user[p].pc = "igetwake"
      PROVE  FALSE
  <2>1. user[p].asleep # IlockChan
    BY <1>2, <1>3 DEF WakePlace
  <2>2. user[p].asleep \in Files /\ inode[user[p].asleep].lock /\ user[p].asleep \in Table
    BY <1>2, <1>3, <2>1 DEF WakePlace, Minds
  <2>3. PICK q \in Users : user[p].asleep \in user[q].locks
    BY <2>2 DEF WakeInv, HolderInv
  <2> QED BY <1>2, <2>2, <2>3 DEF Files
<1>4. ASSUME NEW p \in Users, user[p].pc = "ialloc"
      PROVE  FALSE
  <2>1. user[p].asleep = IlockChan
    BY <1>2, <1>4 DEF WakePlace
  <2>2. s_ilock
    BY <1>2, <2>1 DEF Minds
  <2>3. PICK q \in Users : InIalloc(user[q])
    BY <2>2 DEF WakeInv, HolderInv
  <2>4. user[q].pc \notin {"plock", "ialloc"}
    BY <2>3 DEF InIalloc, Puts
  <2> QED BY <1>2, <1>3, <2>4
<1>5. PICK p \in Users : TRUE
  OBVIOUS
<1>6. user[p].pc = "plock" /\ user[p].asleep \in Table /\ inode[user[p].asleep].lock
  BY <1>2, <1>3, <1>4 DEF WakePlace, Minds
<1>7. PICK q \in Users : user[p].asleep \in user[q].locks
  BY <1>6 DEF WakeInv, HolderInv
<1> QED BY <1>2, <1>3, <1>4, <1>7

(* Nobody waits for a lock that will not be released with a wakeup, and    *)
(* the processes do not all wait for each other: plock, iget, ialloc and   *)
(* prele, for any calls, as long as there is a process at all.             *)
THEOREM NobodyForgotten ==
  ASSUME Users # {}
  PROVE  InodeSpec => []WaitersWillWake
<1>1. InodeInit => TabInv /\ WakeInv
  BY InitTabInv, InitWakeInv
<1>2. TabInv /\ WakeInv /\ [InodeNext]_inodeVars => TabInv' /\ WakeInv'
  BY NextTabInv, NextWakeInv
<1>3. TabInv /\ WakeInv => WaitersWillWake
  BY SomebodyAwake DEF WakeInv, Minds, WaitersWillWake
<1> QED BY <1>1, <1>2, <1>3, PTL DEF InodeSpec
=============================================================================
