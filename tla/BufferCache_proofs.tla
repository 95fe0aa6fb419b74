-------------------------- MODULE BufferCache_proofs --------------------------
(***************************************************************************)
(* Theorems about the buffer cache, for any processes, buffers, devices,   *)
(* blocks, calls and failures.  The inductive invariant IInv ties the flag *)
(* word of a buffer (B_BUSY, B_ASYNC, B_DONE) to the place the buffer is   *)
(* in, and the place a process is at in the code to the buffers it owns;   *)
(* TypeOK, InOnePlace and NoDupIodone follow from it.  OneBufferPerBlock   *)
(* is inductive given the types: only getblk gives a buffer a block, and   *)
(* it does so in the step that has found no valid buffer of that block.    *)
(***************************************************************************)
EXTENDS BufferCache, TLAPS

(***************************************************************************)
(* The inductive invariant                                                 *)
(***************************************************************************)
HoldingPCs == PCs \ {"user", "getblk", "bflush"}

(* What a process's place in the code says of its local variables.         *)
PcFor(p) ==
  /\ pc[p] = "user" => kept[p] = None
  /\ pc[p] # "user" => call[p] \in Call
  /\ pc[p] \in HoldingPCs => bp[p] \in Bufs
  /\ kept[p] # None => /\ pc[p] \in {"getblk", "claim", "victim", "got"}
                       /\ call[p].kind = "reada" /\ stage[p] = "ra"

PcInv == \A p \in Procs : PcFor(p)

(* Where buffer b is: free, owned by one process, or in an asynchronous    *)
(* transfer, at whose end iodone releases it.                              *)
Place(b) ==
  /\ "BUSY" \in b_flags[b] <=> av[b] = "none"
  /\ "BUSY" \in b_flags[b] /\ "ASYNC" \notin b_flags[b] <=> Owned(b)
  /\ "ASYNC" \in b_flags[b] => b \in active
  /\ b \in active => /\ "BUSY" \in b_flags[b] /\ "DONE" \notin b_flags[b]
                     /\ b_blk[b] \in Blocks
  /\ \A p, q \in Procs : b \in Owns(p) /\ b \in Owns(q) => p = q

PlaceInv == \A b \in Bufs : Place(b)

(* The two buffers of breada are different; where a process uses or        *)
(* releases a buffer the driver is done with it.                           *)
UseFor(p) ==
  /\ pc[p] \in OwningPCs => bp[p] # kept[p]
  /\ pc[p] \in {"got", "iomove", "wrote"} => bp[p] \notin active

UseInv == \A p \in Procs : UseFor(p)

IInv == TypeOK /\ PcInv /\ PlaceInv /\ UseInv

-----------------------------------------------------------------------------
USE DEF NODEV

(* The initial states satisfy the invariant.                               *)
LEMMA InitIInv == Init => IInv
<1> SUFFICES ASSUME Init PROVE IInv
  OBVIOUS
<1>1. TypeOK
  BY CallsAssumption DEF Init, TypeOK, Flags, PCs
<1>2. PcInv
  BY DEF Init, PcInv, PcFor, HoldingPCs, PCs
<1>3. PlaceInv
  BY DEF Init, PlaceInv, Place, Owned, Owns, OwningPCs
<1>4. UseInv
  BY DEF Init, UseInv, UseFor, OwningPCs
<1> QED BY <1>1, <1>2, <1>3, <1>4 DEF IInv

-----------------------------------------------------------------------------
(* brelse keeps the types of the headers, the free lists and the sleeping  *)
(* processes.                                                              *)
LEMMA BrelseType ==
  ASSUME TypeOK, NEW b \in Bufs, NEW fl \in SUBSET Flags, Brelse(b, fl)
  PROVE  /\ b_blk' \in [Bufs -> Blocks \cup {NODEV}]
         /\ b_flags' \in [Bufs -> SUBSET Flags]
         /\ av' \in [Bufs -> {"LOCKED", "LRU", "AGE", "none"}]
         /\ flwanted' \in BOOLEAN
         /\ wchan' \in [Procs -> Bufs \cup {bfreelist, None}]
BY DEF TypeOK, Brelse, BrelseFlags, BrelseList, Wakeup

(* Giving a buffer to the driver keeps the types of the headers and of the *)
(* driver's queue.                                                         *)
LEMMA StrategyType ==
  ASSUME TypeOK, NEW b \in Bufs, NEW fl \in SUBSET Flags, Strategy(b, fl)
  PROVE  /\ b_flags' \in [Bufs -> SUBSET Flags]
         /\ active' \subseteq Bufs
         /\ ahead' \in [Bufs -> SUBSET Bufs]
         /\ disk' = disk
         /\ b_blk[b] \in Blocks
<1>1. PICK first \in Firsts(b) :
        ahead' = [c \in Bufs |-> IF c = b THEN first
                                 ELSE IF c \in Queued(b) \ first THEN ahead[c] \cup {b}
                                 ELSE ahead[c]]
  BY DEF Strategy
<1>2. first \subseteq Bufs
  BY DEF TypeOK, Firsts, Queued
<1>3. ahead' \in [Bufs -> SUBSET Bufs]
  BY <1>1, <1>2 DEF TypeOK
<1> QED BY <1>3 DEF TypeOK, Strategy

(* What getblk looks for is a block, or none.                              *)
LEMMA WantType ==
  ASSUME NEW p \in Procs, call[p] \in Call
  PROVE  Want(p) \in Blocks \cup {NODEV}
BY DEF Call, Want

(* Every step of getblk and geteblk preserves the types.                   *)
LEMMA GetblkType == ASSUME IInv, NEW p \in Procs, Getblk(p) PROVE TypeOK'
<1> USE DEF IInv, TypeOK, HoldingPCs, PCs, bufVars, diskVars, procVars, Goto
<1>1. CASE GetblkHit(p)
  BY <1>1 DEF GetblkHit
<1>2. CASE GetblkBusy(p)
  BY <1>2 DEF GetblkBusy, PcInv, PcFor, Flags
<1>3. CASE GetblkClaim(p)
  BY <1>3 DEF GetblkClaim, PcInv, PcFor, Flags
<1>4. CASE GetblkSleep(p)
  BY <1>4 DEF GetblkSleep
<1>5. CASE GetblkVictim(p)
  <2>1. PICK b \in Reusable :
          /\ av' = [av EXCEPT ![b] = "none"]
          /\ Strategy(b, BwriteFlags(b_flags[b]) \cup {"BUSY", "ASYNC"})
          /\ bp' = [bp EXCEPT ![p] = b]
    BY <1>5 DEF GetblkVictim
  <2>2. b \in Bufs /\ BwriteFlags(b_flags[b]) \cup {"BUSY", "ASYNC"} \in SUBSET Flags
    BY DEF Reusable, BwriteFlags, Flags
  <2> QED BY <1>5, <2>1, <2>2, StrategyType DEF GetblkVictim
<1>6. CASE VictimTail(p)
  BY <1>6 DEF VictimTail, PcInv, PcFor, Flags
<1>7. CASE GetblkAssign(p)
  <2>1. Want(p) \in Blocks \cup {NODEV}
    BY <1>7, WantType DEF GetblkAssign, PcInv, PcFor
  <2> QED BY <1>7, <2>1 DEF GetblkAssign, Reusable, Flags
<1> QED BY <1>1, <1>2, <1>3, <1>4, <1>5, <1>6, <1>7 DEF Getblk

(* The bread at the end of breada, which starts no transfer, preserves the *)
(* types.                                                                  *)
LEMMA BreadaFinishType ==
  ASSUME TypeOK, NEW p \in Procs, BreadaFinish(p)
  PROVE  /\ pc' \in [Procs -> PCs]
         /\ stage' \in [Procs -> {"bread", "main", "ra"}]
         /\ bp' \in [Procs -> Bufs \cup {None}]
         /\ kept' \in [Procs -> Bufs \cup {None}]
         /\ cur' \in Procs \cup {None}
         /\ UNCHANGED <<call, uerror, left>>
BY DEF TypeOK, BreadaFinish, Goto, PCs

(* Every step of bread, breada and iowait preserves the types.             *)
LEMMA BreadType == ASSUME IInv, NEW p \in Procs, Bread(p) PROVE TypeOK'
<1> USE DEF IInv, TypeOK, HoldingPCs, PCs, bufVars, diskVars, procVars, Goto
<1>1. CASE BreadCached(p)
  BY <1>1 DEF BreadCached
<1>2. CASE BreadStart(p)
  <2>1. bp[p] \in Bufs /\ b_flags[bp[p]] \cup {"READ"} \in SUBSET Flags
    BY <1>2 DEF BreadStart, PcInv, PcFor, Flags
  <2> QED BY <1>2, <2>1, StrategyType DEF BreadStart
<1>3. CASE BreadaMain(p)
  <2>1. bp[p] \in Bufs /\ b_flags[bp[p]] \cup {"READ"} \in SUBSET Flags
    BY <1>3 DEF BreadaMain, PcInv, PcFor, Flags
  <2>2. /\ b_flags' \in [Bufs -> SUBSET Flags] /\ active' \subseteq Bufs
        /\ ahead' \in [Bufs -> SUBSET Bufs] /\ disk' = disk
    BY <1>3, <2>1, StrategyType DEF BreadaMain
  <2>3. /\ pc' \in [Procs -> PCs] /\ stage' \in [Procs -> {"bread", "main", "ra"}]
        /\ bp' \in [Procs -> Bufs \cup {None}] /\ kept' \in [Procs -> Bufs \cup {None}]
        /\ cur' \in Procs \cup {None}
    <3>1. CASE WantsAhead(call[p])
      BY <1>3, <2>1, <3>1 DEF BreadaMain
    <3>2. CASE ~WantsAhead(call[p])
      BY <1>3, <2>1, <3>2 DEF BreadaMain
    <3> QED BY <3>1, <3>2
  <2>4. UNCHANGED <<b_blk, av, data, flwanted, call, uerror, wchan, left>>
    BY <1>3 DEF BreadaMain
  <2> QED BY <2>2, <2>3, <2>4
<1>4. CASE BreadaCached(p)
  <2>1. bp[p] \in Bufs /\ b_flags[bp[p]] \in SUBSET Flags
    BY <1>4 DEF BreadaCached, PcInv, PcFor
  <2>2. Brelse(bp[p], b_flags[bp[p]]) /\ BreadaFinish(p) /\ UNCHANGED <<data, diskVars>>
    BY <1>4 DEF BreadaCached
  <2> HIDE DEF TypeOK, PCs
  <2> QED BY <2>1, <2>2, BrelseType, BreadaFinishType DEF TypeOK
<1>5. CASE BreadaAhead(p)
  <2>1. bp[p] \in Bufs /\ b_flags[bp[p]] \cup {"READ", "ASYNC"} \in SUBSET Flags
    BY <1>5 DEF BreadaAhead, PcInv, PcFor, Flags
  <2>2. /\ Strategy(bp[p], b_flags[bp[p]] \cup {"READ", "ASYNC"})
        /\ BreadaFinish(p) /\ UNCHANGED <<b_blk, av, data, flwanted, wchan>>
    BY <1>5 DEF BreadaAhead
  <2> HIDE DEF TypeOK, PCs
  <2> QED BY <2>1, <2>2, StrategyType, BreadaFinishType DEF TypeOK
<1>6. CASE IowaitSleep(p)
  BY <1>6 DEF IowaitSleep, PcInv, PcFor
<1>7. CASE IowaitDone(p)
  BY <1>7 DEF IowaitDone
<1> QED BY <1>1, <1>2, <1>3, <1>4, <1>5, <1>6, <1>7 DEF Bread

(* Returning to user mode preserves the types of the process's variables.  *)
LEMMA ReturnType ==
  ASSUME TypeOK, NEW p \in Procs, Return(p)
  PROVE  /\ pc' \in [Procs -> PCs]
         /\ call' \in [Procs -> Call \cup {None}]
         /\ stage' \in [Procs -> {"bread", "main", "ra"}]
         /\ bp' \in [Procs -> Bufs \cup {None}]
         /\ uerror' \in [Procs -> BOOLEAN]
         /\ cur' \in Procs \cup {None}
         /\ UNCHANGED <<kept, left>>
BY DEF TypeOK, Return, Goto, PCs

(* Storing a value in a buffer preserves the type of the memory.           *)
LEMMA DataType ==
  ASSUME TypeOK, NEW b, \E v \in Values : data' = [data EXCEPT ![b] = v]
  PROVE  data' \in [Bufs -> Values]
BY DEF TypeOK

(* Every step of fsread, fswrite, bwrite, bflush and closef preserves the  *)
(* types.                                                                  *)
LEMMA CallerType == ASSUME IInv, NEW p \in Procs, Caller(p) PROVE TypeOK'
<1> USE DEF IInv, bufVars, diskVars, procVars
<1>0. pc[p] \in HoldingPCs => bp[p] \in Bufs /\ b_flags[bp[p]] \in SUBSET Flags
  BY DEF TypeOK, PcInv, PcFor
<1> USE DEF HoldingPCs, PCs
<1>1. CASE FsreadDone(p)
  <2>1. PICK old \in {{}, {"AGE"}} : Brelse(bp[p], b_flags[bp[p]] \cup old)
    BY <1>1 DEF FsreadDone
  <2>2. bp[p] \in Bufs /\ b_flags[bp[p]] \cup old \in SUBSET Flags
    BY <1>0, <1>1 DEF FsreadDone, Flags
  <2>3. Return(p) /\ UNCHANGED <<data, diskVars>>
    BY <1>1 DEF FsreadDone
  <2> QED BY <2>1, <2>2, <2>3, BrelseType, ReturnType DEF TypeOK
<1>2. CASE FswriteError(p)
  <2>1. bp[p] \in Bufs /\ b_flags[bp[p]] \in SUBSET Flags
    BY <1>0, <1>2 DEF FswriteError
  <2>2. Brelse(bp[p], b_flags[bp[p]]) /\ Return(p) /\ UNCHANGED diskVars
    BY <1>2 DEF FswriteError
  <2>3. data' \in [Bufs -> Values]
    <3>1. \E v \in Values : data' = [data EXCEPT ![bp[p]] = v]
      BY <1>2 DEF FswriteError
    <3> QED BY <3>1, DataType
  <2> QED BY <2>1, <2>2, <2>3, BrelseType, ReturnType DEF TypeOK
<1>3. CASE FswritePart(p)
  <2>1. bp[p] \in Bufs /\ b_flags[bp[p]] \cup {"DELWRI", "DONE"} \in SUBSET Flags
    BY <1>0, <1>3 DEF FswritePart, Flags
  <2>2. /\ Brelse(bp[p], b_flags[bp[p]] \cup {"DELWRI", "DONE"})
        /\ Return(p) /\ UNCHANGED diskVars
    BY <1>3 DEF FswritePart
  <2>3. data' \in [Bufs -> Values]
    <3>1. \E v \in Values : data' = [data EXCEPT ![bp[p]] = v]
      BY <1>3 DEF FswritePart
    <3> QED BY <3>1, DataType
  <2> QED BY <2>1, <2>2, <2>3, BrelseType, ReturnType DEF TypeOK
<1>4. CASE FswriteDir(p)
  <2>1. bp[p] \in Bufs /\ BwriteFlags(b_flags[bp[p]]) \in SUBSET Flags
    BY <1>0, <1>4 DEF FswriteDir, BwriteFlags
  <2>2. Strategy(bp[p], BwriteFlags(b_flags[bp[p]]))
    BY <1>4 DEF FswriteDir
  <2>3. data' \in [Bufs -> Values]
    <3>1. \E v \in Values : data' = [data EXCEPT ![bp[p]] = v]
      BY <1>4 DEF FswriteDir
    <3> QED BY <3>1, DataType
  <2> QED BY <1>4, <2>1, <2>2, <2>3, StrategyType DEF FswriteDir, TypeOK, Goto
<1>5. CASE BwriteDone(p)
  <2>1. bp[p] \in Bufs /\ b_flags[bp[p]] \in SUBSET Flags
    BY <1>0, <1>5 DEF BwriteDone
  <2>2. Brelse(bp[p], b_flags[bp[p]]) /\ Return(p) /\ UNCHANGED <<data, diskVars>>
    BY <1>5 DEF BwriteDone
  <2> QED BY <2>1, <2>2, BrelseType, ReturnType DEF TypeOK
<1>6. CASE FswriteFull(p)
  <2>1. /\ bp[p] \in Bufs
        /\ BwriteFlags(b_flags[bp[p]]) \cup {"ASYNC"} \in SUBSET Flags
    BY <1>0, <1>6 DEF FswriteFull, BwriteFlags, Flags
  <2>2. Strategy(bp[p], BwriteFlags(b_flags[bp[p]]) \cup {"ASYNC"})
    BY <1>6 DEF FswriteFull
  <2>3. data' \in [Bufs -> Values]
    <3>1. \E v \in Values : data' = [data EXCEPT ![bp[p]] = v]
      BY <1>6 DEF FswriteFull
    <3> QED BY <3>1, DataType
  <2> QED BY <1>6, <2>1, <2>2, <2>3, StrategyType DEF FswriteFull, TypeOK, Goto
<1>7. CASE BawriteTail(p)
  <2>1. b_flags' \in [Bufs -> SUBSET Flags]
    BY <1>0, <1>7 DEF BawriteTail, TypeOK, Flags
  <2>2. Return(p) /\ UNCHANGED <<b_blk, av, data, flwanted, diskVars, wchan>>
    BY <1>7 DEF BawriteTail
  <2> QED BY <2>1, <2>2, ReturnType DEF TypeOK
<1>8. CASE BflushOne(p)
  <2>1. PICK b \in Flushable(call[p]) :
          /\ av' = [av EXCEPT ![b] = "none"]
          /\ Strategy(b, BwriteFlags(b_flags[b]) \cup {"BUSY", "ASYNC", "AGE"})
    BY <1>8 DEF BflushOne
  <2>2. /\ b \in Bufs
        /\ BwriteFlags(b_flags[b]) \cup {"BUSY", "ASYNC", "AGE"} \in SUBSET Flags
    BY DEF Flushable, BwriteFlags, Flags, TypeOK
  <2>3. UNCHANGED <<b_blk, data, flwanted, procVars>>
    BY <1>8 DEF BflushOne
  <2>4. av' \in [Bufs -> {"LOCKED", "LRU", "AGE", "none"}]
    BY <2>1, <2>2 DEF TypeOK
  <2>5. /\ b_flags' \in [Bufs -> SUBSET Flags] /\ active' \subseteq Bufs
        /\ ahead' \in [Bufs -> SUBSET Bufs] /\ disk' = disk
    BY <2>1, <2>2, StrategyType
  <2> QED BY <2>3, <2>4, <2>5 DEF TypeOK
<1>9. CASE BflushDone(p)
  <2>1. b_flags' \in [Bufs -> SUBSET Flags]
    BY <1>9 DEF BflushDone, TypeOK, Flags
  <2>2. Return(p) /\ UNCHANGED <<b_blk, av, data, flwanted, diskVars, wchan>>
    BY <1>9 DEF BflushDone
  <2> QED BY <2>1, <2>2, ReturnType DEF TypeOK
<1> QED BY <1>1, <1>2, <1>3, <1>4, <1>5, <1>6, <1>7, <1>8, <1>9 DEF Caller

(* Entering a system call preserves the types.                             *)
LEMMA StartType ==
  ASSUME IInv, NEW p \in Procs, NEW c \in CallsOf[p], Start(p, c)
  PROVE  TypeOK'
<1>1. c \in Call
  BY CallsAssumption
<1> QED BY <1>1 DEF Start, Enter, FirstStage, Goto, IInv, TypeOK, PCs, bufVars, diskVars

(* The end of a transfer, with an error or without, preserves the types.   *)
LEMMA IodoneType ==
  ASSUME IInv, NEW b \in Bufs, NEW err \in BOOLEAN, Iodone(b, err)
  PROVE  TypeOK'
<1> DEFINE fl == b_flags[b] \cup {"DONE"} \cup (IF err THEN {"ERROR"} ELSE {})
<1>1. fl \in SUBSET Flags
  BY DEF IInv, TypeOK, Flags
<1>2. /\ b_blk' \in [Bufs -> Blocks \cup {NODEV}]
      /\ b_flags' \in [Bufs -> SUBSET Flags]
      /\ av' \in [Bufs -> {"LOCKED", "LRU", "AGE", "none"}]
      /\ flwanted' \in BOOLEAN
      /\ wchan' \in [Procs -> Bufs \cup {bfreelist, None}]
  <2>1. CASE "ASYNC" \in fl
    <3>1. Brelse(b, fl)
      BY <2>1 DEF Iodone
    <3> QED BY <1>1, <3>1, BrelseType DEF IInv
  <2>2. CASE "ASYNC" \notin fl
    <3>1. /\ b_flags' = [b_flags EXCEPT ![b] = fl \ {"WANTED"}]
          /\ Wakeup({b}) /\ UNCHANGED <<b_blk, av, flwanted>>
      BY <2>2 DEF Iodone
    <3> QED BY <1>1, <3>1 DEF IInv, TypeOK, Wakeup
  <2> QED BY <2>1, <2>2
<1>3. b_blk[b] \in Blocks
  BY DEF Iodone, IInv, PlaceInv, Place
<1>4. data' \in [Bufs -> Values] /\ disk' \in [Blocks -> Values]
  BY <1>3 DEF Iodone, IInv, TypeOK
<1>5. active' \subseteq Bufs /\ ahead' \in [Bufs -> SUBSET Bufs]
  BY DEF Iodone, IInv, TypeOK
<1>6. UNCHANGED <<pc, call, stage, bp, kept, uerror, cur, left>>
  BY DEF Iodone
<1> QED BY <1>2, <1>4, <1>5, <1>6 DEF IInv, TypeOK

-----------------------------------------------------------------------------
(***************************************************************************)
(* The life of a buffer: the ways in which a step moves one from place to  *)
(* place.  Each lemma shows PlaceInv' when b is the buffer that moves.     *)
(***************************************************************************)
(* A buffer that nothing happens to stays where it is.                     *)
Still(c) ==
  /\ \A f \in {"BUSY", "ASYNC", "DONE"} : f \in b_flags'[c] <=> f \in b_flags[c]
  /\ av'[c] = av[c] /\ b_blk'[c] = b_blk[c]
  /\ c \in active' <=> c \in active
  /\ \A q \in Procs : c \in Owns(q)' <=> c \in Owns(q)

(* A buffer of which nothing changes but B_WANTED, B_AGE and B_INVAL stays *)
(* in its place.                                                           *)
LEMMA StillPlace ==
  ASSUME NEW c \in Bufs, Place(c), Still(c)
  PROVE  Place(c)'
BY DEF Place, Still, Owned

(* A step of process p leaves the local variables of the others alone and  *)
(* keeps what its place in the code says of its own.                       *)
StepOf(p) ==
  /\ \A q \in Procs \ {p} : /\ pc'[q] = pc[q] /\ bp'[q] = bp[q] /\ kept'[q] = kept[q]
                           /\ call'[q] = call[q] /\ stage'[q] = stage[q]
  /\ PcFor(p)' /\ UseFor(p)'

Rest == PcInv /\ PlaceInv /\ UseInv

(* A step of p leaves what the other processes own as it was.              *)
LEMMA OthersKeep ==
  ASSUME NEW p \in Procs, StepOf(p)
  PROVE  \A q \in Procs \ {p} : Owns(q)' = Owns(q)
BY DEF StepOf, Owns

(* The invariants of the local variables, when the driver is given no      *)
(* buffer but one that p owned or that was free.                           *)
LEMMA LocalsKeep ==
  ASSUME IInv, NEW p \in Procs, StepOf(p), NEW b \in Bufs,
         b \in Owns(p) \/ av[b] # "none", active' \subseteq active \cup {b}
  PROVE  PcInv' /\ UseInv'
<1>1. PcInv'
  BY DEF IInv, PcInv, PcFor, StepOf
<1>2. ASSUME NEW q \in Procs \ {p} PROVE UseFor(q)'
  <2>1. /\ pc'[q] = pc[q] /\ bp'[q] = bp[q] /\ kept'[q] = kept[q]
        /\ UseFor(q)
    BY DEF StepOf, IInv, UseInv
  <2>2. pc[q] \in OwningPCs => bp[q] \in Owns(q)
    BY DEF Owns
  <2>3. b \notin Owns(q)
    BY DEF IInv, PlaceInv, Place, Owned
  <2> QED BY <2>1, <2>2, <2>3 DEF UseFor, OwningPCs
<1>3. UseFor(p)'
  BY DEF StepOf
<1> QED BY <1>1, <1>2, <1>3 DEF UseInv

(* The same when the driver is given no buffer at all.                     *)
LEMMA LocalsKeepStill ==
  ASSUME IInv, NEW p \in Procs, StepOf(p), active' \subseteq active
  PROVE  PcInv' /\ UseInv'
BY DEF IInv, PcInv, PcFor, UseInv, UseFor, StepOf

(* A process takes a free buffer.                                          *)
LEMMA Taken ==
  ASSUME IInv, NEW p \in Procs, NEW b \in Bufs, NEW fl \in SUBSET Flags,
         av[b] # "none", "BUSY" \in fl, "ASYNC" \notin fl,
         av' = [av EXCEPT ![b] = "none"],
         b_flags' = [b_flags EXCEPT ![b] = fl],
         \A c \in Bufs \ {b} : b_blk'[c] = b_blk[c],
         UNCHANGED active,
         Owns(p)' = Owns(p) \cup {b}, StepOf(p)
  PROVE  Rest'
<1>0. \A q \in Procs \ {p} : Owns(q)' = Owns(q)
  BY OthersKeep
<1>1. "BUSY" \notin b_flags[b] /\ b \notin active /\ ~Owned(b)
  BY DEF IInv, PlaceInv, Place
<1>2. Place(b)'
  BY <1>0, <1>1 DEF IInv, TypeOK, Place, Owned
<1>3. \A c \in Bufs \ {b} : Still(c)
  BY <1>0 DEF IInv, TypeOK, Still
<1> QED BY <1>2, <1>3, StillPlace, LocalsKeepStill DEF IInv, PlaceInv, Rest

(* A process releases a buffer the driver does not have.                   *)
LEMMA Released ==
  ASSUME IInv, NEW p \in Procs, NEW b \in Bufs, NEW fl \in SUBSET Flags,
         b \in Owns(p), b \notin active, Brelse(b, fl), UNCHANGED active,
         Owns(p)' = Owns(p) \ {b}, StepOf(p)
  PROVE  Rest'
<1>0. \A q \in Procs \ {p} : Owns(q)' = Owns(q)
  BY OthersKeep
<1>1. \A q \in Procs : b \notin Owns(q)'
  BY <1>0 DEF IInv, PlaceInv, Place
<1>2. /\ "BUSY" \notin b_flags'[b] /\ "ASYNC" \notin b_flags'[b]
      /\ av'[b] # "none"
  BY DEF Brelse, BrelseFlags, BrelseList, IInv, TypeOK
<1>3. Place(b)'
  BY <1>1, <1>2 DEF Place, Owned
<1>4. \A c \in Bufs \ {b} : Still(c)
  BY <1>0 DEF IInv, TypeOK, Still, Brelse
<1> QED BY <1>3, <1>4, StillPlace, LocalsKeepStill DEF IInv, PlaceInv, Rest

(* A process starts a transfer it will wait for.                           *)
LEMMA Started ==
  ASSUME IInv, NEW p \in Procs, NEW b \in Bufs, NEW fl \in SUBSET Flags,
         b \in Owns(p), Strategy(b, fl),
         "BUSY" \in fl, "ASYNC" \notin fl, "DONE" \notin fl,
         UNCHANGED <<b_blk, av>>,
         Owns(p)' = Owns(p), StepOf(p)
  PROVE  Rest'
<1>0. \A q \in Procs : Owns(q)' = Owns(q)
  BY OthersKeep
<1>1. Owned(b) /\ av[b] = "none" /\ Owned(b)'
  BY <1>0 DEF IInv, PlaceInv, Place, Owned
<1>2. Place(b)'
  BY <1>0, <1>1 DEF IInv, TypeOK, PlaceInv, Place, Strategy
<1>3. \A c \in Bufs \ {b} : Still(c)
  BY <1>0 DEF IInv, TypeOK, Still, Strategy
<1>4. active' \subseteq active \cup {b}
  BY DEF Strategy
<1> QED BY <1>2, <1>3, <1>4, StillPlace, LocalsKeep DEF IInv, PlaceInv, Rest

(* A process starts an asynchronous transfer of a buffer it owns, or of    *)
(* one it takes off a free list to that end.                               *)
LEMMA HandedOver ==
  ASSUME IInv, NEW p \in Procs, NEW b \in Bufs, NEW fl \in SUBSET Flags,
         b \in Owns(p) \/ av[b] # "none", Strategy(b, fl),
         "BUSY" \in fl, "ASYNC" \in fl, "DONE" \notin fl,
         UNCHANGED b_blk, av' = [av EXCEPT ![b] = "none"],
         Owns(p)' = Owns(p) \ {b}, StepOf(p)
  PROVE  Rest'
<1>0. \A q \in Procs \ {p} : Owns(q)' = Owns(q)
  BY OthersKeep
<1>1. \A q \in Procs : b \notin Owns(q)'
  BY <1>0 DEF IInv, PlaceInv, Place, Owned
<1>2. Place(b)'
  BY <1>1 DEF IInv, TypeOK, Place, Owned, Strategy
<1>3. \A c \in Bufs \ {b} : Still(c)
  BY <1>0 DEF IInv, TypeOK, Still, Strategy
<1>4. active' \subseteq active \cup {b}
  BY DEF Strategy
<1> QED BY <1>2, <1>3, <1>4, StillPlace, LocalsKeep DEF IInv, PlaceInv, Rest

(* Nothing moves: at most B_WANTED, B_AGE and B_INVAL change.              *)
LEMMA Stayed ==
  ASSUME IInv, NEW p \in Procs,
         \A c \in Bufs : \A f \in {"BUSY", "ASYNC", "DONE"} :
           f \in b_flags'[c] <=> f \in b_flags[c],
         UNCHANGED <<b_blk, av, active>>,
         Owns(p)' = Owns(p), StepOf(p)
  PROVE  Rest'
<1>0. \A q \in Procs : Owns(q)' = Owns(q)
  BY OthersKeep
<1>1. \A c \in Bufs : Still(c)
  BY <1>0 DEF Still
<1> QED BY <1>1, StillPlace, LocalsKeepStill DEF IInv, PlaceInv, Rest

-----------------------------------------------------------------------------
(***************************************************************************)
(* Every action moves at most one buffer, in one of those ways             *)
(***************************************************************************)
(* What is known of the buffer that a process at an owning place works on. *)
LEMMA Held ==
  ASSUME IInv, NEW p \in Procs, pc[p] \in OwningPCs
  PROVE  /\ bp[p] \in Bufs /\ bp[p] \in Owns(p) /\ bp[p] # kept[p]
         /\ Owns(p) \ {bp[p]} = (IF kept[p] # None THEN {kept[p]} ELSE {})
         /\ b_flags[bp[p]] \in SUBSET Flags
         /\ "BUSY" \in b_flags[bp[p]] /\ "ASYNC" \notin b_flags[bp[p]]
         /\ av[bp[p]] = "none"
<1>1. bp[p] \in Bufs /\ bp[p] \in Owns(p) /\ bp[p] # kept[p]
  BY DEF IInv, PcInv, PcFor, UseInv, UseFor, HoldingPCs, OwningPCs, PCs, Owns
<1>2. Owned(bp[p]) /\ Place(bp[p])
  BY <1>1 DEF Owned, IInv, PlaceInv
<1> QED BY <1>1, <1>2 DEF Place, IInv, TypeOK, Owns

(* Every step of getblk preserves the places of the buffers and the local  *)
(* variables.                                                              *)
LEMMA GetblkRest == ASSUME IInv, NEW p \in Procs, Getblk(p) PROVE Rest'
<1> USE DEF bufVars, diskVars, procVars, Goto
<1>0. TypeOK /\ PcFor(p) /\ UseFor(p)
  BY DEF IInv, PcInv, UseInv
<1>1. CASE GetblkHit(p)
  <2>1. StepOf(p) /\ Owns(p)' = Owns(p)
    BY <1>0, <1>1 DEF GetblkHit, StepOf, TypeOK, PcFor, UseFor, Owns, HoldingPCs, OwningPCs, PCs
  <2> QED BY <1>1, <2>1, Stayed DEF GetblkHit
<1>2. CASE GetblkBusy(p)
  <2>1. StepOf(p) /\ Owns(p)' = Owns(p)
    BY <1>0, <1>2 DEF GetblkBusy, StepOf, TypeOK, PcFor, UseFor, Owns, HoldingPCs, OwningPCs, PCs
  <2> QED BY <1>0, <1>2, <2>1, Stayed DEF GetblkBusy, TypeOK
<1>3. CASE GetblkClaim(p)
  <2> DEFINE b == bp[p]
             fl == b_flags[b] \cup {"BUSY"}
  <2>1. /\ b \in Bufs /\ fl \in SUBSET Flags /\ "BUSY" \notin b_flags[b]
        /\ b_flags' = [b_flags EXCEPT ![b] = fl]
    BY <1>0, <1>3 DEF GetblkClaim, TypeOK, PcFor, HoldingPCs, PCs, Flags
  <2>2. /\ av[b] # "none" /\ "ASYNC" \notin fl /\ b \notin active
        /\ \A q \in Procs : b \notin Owns(q)
    BY <2>1 DEF IInv, PlaceInv, Place, Owned
  <2>3. StepOf(p) /\ Owns(p)' = Owns(p) \cup {b}
    BY <1>0, <1>3, <2>1, <2>2, NoneAssumption DEF GetblkClaim, StepOf, TypeOK, PcFor, UseFor, Owns, HoldingPCs,
      OwningPCs, PCs
  <2>4. av' = [av EXCEPT ![b] = "none"] /\ UNCHANGED <<b_blk, active>>
    BY <1>3 DEF GetblkClaim
  <2> QED BY <2>1, <2>2, <2>3, <2>4, Taken
<1>4. CASE GetblkSleep(p)
  <2>1. StepOf(p) /\ Owns(p)' = Owns(p)
    BY <1>0, <1>4 DEF GetblkSleep, StepOf, TypeOK, PcFor, UseFor, Owns, HoldingPCs, OwningPCs, PCs
  <2> QED BY <1>4, <2>1, Stayed DEF GetblkSleep
<1>5. CASE GetblkVictim(p)
  <2>1. PICK b \in Reusable :
          /\ av' = [av EXCEPT ![b] = "none"]
          /\ Strategy(b, BwriteFlags(b_flags[b]) \cup {"BUSY", "ASYNC"})
          /\ bp' = [bp EXCEPT ![p] = b]
    BY <1>5 DEF GetblkVictim
  <2> DEFINE fl == BwriteFlags(b_flags[b]) \cup {"BUSY", "ASYNC"}
  <2>2. b \in Bufs /\ av[b] # "none" /\ fl \in SUBSET Flags /\ "DONE" \notin fl
    BY <1>0 DEF Reusable, BwriteFlags, Flags, TypeOK
  <2>3. \A q \in Procs : b \notin Owns(q)
    BY <2>2 DEF IInv, PlaceInv, Place, Owned
  <2>4. StepOf(p) /\ Owns(p)' = Owns(p) \ {b}
    BY <1>0, <1>5, <2>1, <2>2, <2>3 DEF GetblkVictim, StepOf, TypeOK, PcFor, UseFor, Owns,
      HoldingPCs, OwningPCs, PCs
  <2>5. UNCHANGED b_blk
    BY <1>5 DEF GetblkVictim
  <2> QED BY <2>1, <2>2, <2>4, <2>5, HandedOver
<1>6. CASE VictimTail(p)
  <2>1. StepOf(p) /\ Owns(p)' = Owns(p)
    BY <1>0, <1>6 DEF VictimTail, StepOf, TypeOK, PcFor, UseFor, Owns, HoldingPCs, OwningPCs, PCs
  <2> QED BY <1>0, <1>6, <2>1, Stayed DEF VictimTail, TypeOK
<1>7. CASE GetblkAssign(p)
  <2> DEFINE fl == IF Want(p) = NODEV THEN {"BUSY", "INVAL"} ELSE {"BUSY"}
  <2>1. PICK b \in Reusable :
          /\ av' = [av EXCEPT ![b] = "none"]
          /\ b_flags' = [b_flags EXCEPT ![b] = fl]
          /\ b_blk' = [b_blk EXCEPT ![b] = Want(p)]
          /\ bp' = [bp EXCEPT ![p] = b]
    BY <1>7 DEF GetblkAssign
  <2>2. b \in Bufs /\ av[b] # "none"
    BY DEF Reusable
  <2>3. /\ fl \in SUBSET Flags /\ "BUSY" \in fl /\ "ASYNC" \notin fl
        /\ \A c \in Bufs \ {b} : b_blk'[c] = b_blk[c]
    BY <1>0, <2>1 DEF Flags, TypeOK
  <2>4. b \notin active /\ \A q \in Procs : b \notin Owns(q)
    BY <2>2 DEF IInv, PlaceInv, Place, Owned
  <2>5. StepOf(p) /\ Owns(p)' = Owns(p) \cup {b}
    BY <1>0, <1>7, <2>1, <2>2, <2>4, NoneAssumption DEF GetblkAssign, StepOf, TypeOK, PcFor,
      UseFor, Owns, HoldingPCs, OwningPCs, PCs
  <2>6. UNCHANGED active
    BY <1>7 DEF GetblkAssign
  <2> QED BY <2>1, <2>2, <2>3, <2>5, <2>6, Taken
<1> QED BY <1>1, <1>2, <1>3, <1>4, <1>5, <1>6, <1>7 DEF Getblk

(* Every step of bread, breada and iowait preserves the places of the      *)
(* buffers and the local variables.                                        *)
LEMMA BreadRest == ASSUME IInv, NEW p \in Procs, Bread(p) PROVE Rest'
<1> USE DEF bufVars, diskVars, procVars, Goto
<1>0. TypeOK /\ PcFor(p) /\ UseFor(p)
  BY DEF IInv, PcInv, UseInv
<1> DEFINE b == bp[p]
<1>a. pc[p] \in OwningPCs =>
        /\ b \in Bufs /\ b \in Owns(p) /\ b # kept[p] /\ av[b] = "none"
        /\ Owns(p) \ {b} = (IF kept[p] # None THEN {kept[p]} ELSE {})
        /\ b_flags[b] \in SUBSET Flags
        /\ "BUSY" \in b_flags[b] /\ "ASYNC" \notin b_flags[b]
  BY Held
<1>1. CASE BreadCached(p)
  <2>1. StepOf(p) /\ Owns(p)' = Owns(p)
    BY <1>0, <1>1 DEF BreadCached, InBreada, StepOf, TypeOK, PcFor, UseFor, Owns, HoldingPCs, OwningPCs, PCs
  <2> QED BY <1>1, <2>1, Stayed DEF BreadCached
<1>2. CASE BreadStart(p)
  <2> DEFINE fl == b_flags[b] \cup {"READ"}
  <2>1. /\ Strategy(b, fl) /\ "DONE" \notin fl /\ pc[p] \in OwningPCs
        /\ UNCHANGED <<b_blk, av>>
    BY <1>2 DEF BreadStart, OwningPCs
  <2>2. fl \in SUBSET Flags /\ "BUSY" \in fl /\ "ASYNC" \notin fl
    BY <1>a, <2>1 DEF Flags
  <2>3. StepOf(p) /\ Owns(p)' = Owns(p)
    BY <1>0, <1>2 DEF BreadStart, InBreada, StepOf, TypeOK, PcFor, UseFor, Owns,
      HoldingPCs, OwningPCs, PCs
  <2> QED BY <1>a, <2>1, <2>2, <2>3, Started
<1>3. CASE BreadaMain(p)
  <2> DEFINE fl == b_flags[b] \cup {"READ"}
  <2>1. pc[p] = "got" /\ stage[p] = "main" /\ kept[p] = None /\ b \notin active
    BY <1>0, <1>3 DEF BreadaMain, PcFor, UseFor
  <2>2. StepOf(p) /\ Owns(p)' = Owns(p)
    <3>1. CASE WantsAhead(call[p])
      BY <1>0, <1>a, <1>3, <2>1, <3>1, NoneAssumption DEF BreadaMain, InBreada, StepOf,
        TypeOK, PcFor, UseFor, Owns, HoldingPCs, OwningPCs, PCs
    <3>2. CASE ~WantsAhead(call[p])
      BY <1>0, <1>a, <1>3, <2>1, <3>2 DEF BreadaMain, StepOf, TypeOK, PcFor, UseFor, Owns,
        HoldingPCs, OwningPCs, PCs
    <3> QED BY <3>1, <3>2
  <2>3. CASE "DONE" \in b_flags[b]
    BY <1>3, <2>2, <2>3, Stayed DEF BreadaMain
  <2>4. CASE "DONE" \notin b_flags[b]
    <3>1. Strategy(b, fl) /\ UNCHANGED <<b_blk, av>>
      BY <1>3, <2>4 DEF BreadaMain
    <3>2. /\ fl \in SUBSET Flags /\ "BUSY" \in fl /\ "ASYNC" \notin fl
          /\ "DONE" \notin fl /\ b \in Bufs /\ b \in Owns(p)
      BY <1>a, <2>1, <2>4 DEF Flags, OwningPCs
    <3> QED BY <2>2, <3>1, <3>2, Started
  <2> QED BY <2>3, <2>4
<1>b. ASSUME BreadaFinish(p), pc[p] = "got", pc[p] # "user" => call[p] \in Call
      PROVE  StepOf(p) /\ Owns(p)' = Owns(p) \ {b}
  <2>1. CASE kept[p] # None
    BY <1>0, <1>a, <1>b, <2>1 DEF BreadaFinish, StepOf, TypeOK, PcFor, UseFor, Owns,
      HoldingPCs, OwningPCs, PCs
  <2>2. CASE kept[p] = None
    BY <1>0, <1>a, <1>b, <2>2 DEF BreadaFinish, StepOf, TypeOK, PcFor, UseFor, Owns,
      HoldingPCs, OwningPCs, PCs
  <2> QED BY <2>1, <2>2
<1>4. CASE BreadaCached(p)
  <2>1. /\ pc[p] = "got" /\ b \notin active /\ Brelse(b, b_flags[b]) /\ UNCHANGED active
        /\ BreadaFinish(p)
    BY <1>0, <1>4 DEF BreadaCached, UseFor
  <2>2. StepOf(p) /\ Owns(p)' = Owns(p) \ {b}
    BY <1>0, <1>b, <2>1 DEF PcFor
  <2>3. b \in Bufs /\ b \in Owns(p) /\ b_flags[b] \in SUBSET Flags
    BY <1>a, <2>1 DEF OwningPCs
  <2> QED BY <2>1, <2>2, <2>3, Released
<1>5. CASE BreadaAhead(p)
  <2> DEFINE fl == b_flags[b] \cup {"READ", "ASYNC"}
  <2>1. /\ pc[p] = "got" /\ Strategy(b, fl) /\ "DONE" \notin fl
        /\ BreadaFinish(p) /\ UNCHANGED <<b_blk, av>>
    BY <1>5 DEF BreadaAhead
  <2>2. StepOf(p) /\ Owns(p)' = Owns(p) \ {b}
    BY <1>0, <1>b, <2>1 DEF PcFor
  <2>3. /\ b \in Bufs /\ b \in Owns(p) /\ fl \in SUBSET Flags
        /\ "BUSY" \in fl /\ "ASYNC" \in fl /\ av[b] = "none"
    BY <1>a, <2>1 DEF OwningPCs, Flags
  <2>4. av' = [av EXCEPT ![b] = "none"]
    BY <1>0, <2>1, <2>3 DEF TypeOK
  <2> QED BY <2>1, <2>2, <2>3, <2>4, HandedOver
<1>6. CASE IowaitSleep(p)
  <2>1. StepOf(p) /\ Owns(p)' = Owns(p)
    BY <1>0, <1>6 DEF IowaitSleep, StepOf, TypeOK, PcFor, UseFor, Owns, HoldingPCs, OwningPCs, PCs
  <2> QED BY <1>6, <2>1, Stayed DEF IowaitSleep
<1>7. CASE IowaitDone(p)
  <2>1. b \notin active
    BY <1>a, <1>7 DEF IowaitDone, IInv, PlaceInv, Place, OwningPCs
  <2>2. StepOf(p) /\ Owns(p)' = Owns(p)
    BY <1>0, <1>7, <2>1 DEF IowaitDone, StepOf, TypeOK, PcFor, UseFor, Owns, HoldingPCs,
      OwningPCs, PCs
  <2> QED BY <1>7, <2>2, Stayed DEF IowaitDone
<1> QED BY <1>1, <1>2, <1>3, <1>4, <1>5, <1>6, <1>7 DEF Bread

(* Every step of the system calls on top of the cache preserves the places *)
(* of the buffers and the local variables.                                 *)
LEMMA CallerRest == ASSUME IInv, NEW p \in Procs, Caller(p) PROVE Rest'
<1> USE DEF bufVars, diskVars, procVars, Goto
<1>0. TypeOK /\ PcFor(p) /\ UseFor(p)
  BY DEF IInv, PcInv, UseInv
<1> DEFINE b == bp[p]
<1>a. pc[p] \in OwningPCs =>
        /\ b \in Bufs /\ b \in Owns(p) /\ b # kept[p] /\ av[b] = "none"
        /\ Owns(p) \ {b} = (IF kept[p] # None THEN {kept[p]} ELSE {})
        /\ b_flags[b] \in SUBSET Flags
        /\ "BUSY" \in b_flags[b] /\ "ASYNC" \notin b_flags[b]
  BY Held
<1>b. ASSUME Return(p), pc[p] \in PCs \ {"getblk", "claim", "victim", "got"}
      PROVE  /\ StepOf(p) /\ Owns(p)' = {} /\ kept[p] = None
             /\ pc[p] \in OwningPCs => Owns(p)' = Owns(p) \ {b}
             /\ pc[p] \notin OwningPCs => Owns(p)' = Owns(p)
  BY <1>0, <1>a, <1>b DEF Return, StepOf, TypeOK, PcFor, UseFor, Owns, HoldingPCs, OwningPCs, PCs
<1>1. CASE FsreadDone(p)
  <2>1. PICK old \in {{}, {"AGE"}} : Brelse(b, b_flags[b] \cup old)
    BY <1>1 DEF FsreadDone
  <2>2. pc[p] = "iomove" /\ Return(p) /\ UNCHANGED active
    BY <1>1 DEF FsreadDone
  <2>3. b_flags[b] \cup old \in SUBSET Flags /\ b \in Bufs /\ b \in Owns(p) /\ b \notin active
    BY <1>0, <1>a, <2>2 DEF UseFor, OwningPCs, Flags
  <2>4. StepOf(p) /\ Owns(p)' = Owns(p) \ {b}
    BY <1>b, <2>2 DEF OwningPCs, PCs
  <2> QED BY <2>1, <2>2, <2>3, <2>4, Released
<1>2. CASE FswriteError(p)
  <2> DEFINE fl == b_flags[b]
  <2>1. pc[p] = "iomove" /\ Return(p) /\ Brelse(b, fl) /\ UNCHANGED active
    BY <1>2 DEF FswriteError
  <2>2. fl \in SUBSET Flags /\ b \in Bufs /\ b \in Owns(p) /\ b \notin active
    BY <1>0, <1>a, <2>1 DEF UseFor, OwningPCs, Flags
  <2>3. StepOf(p) /\ Owns(p)' = Owns(p) \ {b}
    BY <1>b, <2>1 DEF OwningPCs, PCs
  <2> QED BY <2>1, <2>2, <2>3, Released
<1>3. CASE FswritePart(p)
  <2> DEFINE fl == b_flags[b] \cup {"DELWRI", "DONE"}
  <2>1. pc[p] = "iomove" /\ Return(p) /\ Brelse(b, fl) /\ UNCHANGED active
    BY <1>3 DEF FswritePart
  <2>2. fl \in SUBSET Flags /\ b \in Bufs /\ b \in Owns(p) /\ b \notin active
    BY <1>0, <1>a, <2>1 DEF UseFor, OwningPCs, Flags
  <2>3. StepOf(p) /\ Owns(p)' = Owns(p) \ {b}
    BY <1>b, <2>1 DEF OwningPCs, PCs
  <2> QED BY <2>1, <2>2, <2>3, Released
<1>5. CASE BwriteDone(p)
  <2> DEFINE fl == b_flags[b]
  <2>1. pc[p] = "wrote" /\ Return(p) /\ Brelse(b, fl) /\ UNCHANGED active
    BY <1>5 DEF BwriteDone
  <2>2. fl \in SUBSET Flags /\ b \in Bufs /\ b \in Owns(p) /\ b \notin active
    BY <1>0, <1>a, <2>1 DEF UseFor, OwningPCs, Flags
  <2>3. StepOf(p) /\ Owns(p)' = Owns(p) \ {b}
    BY <1>b, <2>1 DEF OwningPCs, PCs
  <2> QED BY <2>1, <2>2, <2>3, Released
<1>4. CASE FswriteDir(p)
  <2> DEFINE fl == BwriteFlags(b_flags[b])
  <2>1. pc[p] = "iomove" /\ Strategy(b, fl) /\ UNCHANGED <<b_blk, av>>
    BY <1>4 DEF FswriteDir
  <2>2. /\ fl \in SUBSET Flags /\ "BUSY" \in fl /\ "ASYNC" \notin fl /\ "DONE" \notin fl
        /\ b \in Bufs /\ b \in Owns(p)
    BY <1>a, <2>1 DEF BwriteFlags, OwningPCs
  <2>3. StepOf(p) /\ Owns(p)' = Owns(p)
    BY <1>0, <1>4 DEF FswriteDir, StepOf, TypeOK, PcFor, UseFor, Owns, HoldingPCs, OwningPCs, PCs
  <2> QED BY <2>1, <2>2, <2>3, Started
<1>6. CASE FswriteFull(p)
  <2> DEFINE fl == BwriteFlags(b_flags[b]) \cup {"ASYNC"}
  <2>1. pc[p] = "iomove" /\ Strategy(b, fl) /\ UNCHANGED <<b_blk, av>>
    BY <1>6 DEF FswriteFull
  <2>2. /\ fl \in SUBSET Flags /\ "BUSY" \in fl /\ "ASYNC" \in fl /\ "DONE" \notin fl
        /\ b \in Bufs /\ b \in Owns(p) /\ av[b] = "none"
    BY <1>a, <2>1 DEF BwriteFlags, OwningPCs, Flags
  <2>3. StepOf(p) /\ Owns(p)' = Owns(p) \ {b}
    BY <1>0, <1>6 DEF FswriteFull, StepOf, TypeOK, PcFor, UseFor, Owns, HoldingPCs, OwningPCs, PCs
  <2>4. av' = [av EXCEPT ![b] = "none"]
    BY <1>0, <2>1, <2>2 DEF TypeOK
  <2> QED BY <2>1, <2>2, <2>3, <2>4, HandedOver
<1>7. CASE BawriteTail(p)
  <2>1. /\ pc[p] \in {"bawrote", "bawrote_delayed"} /\ Return(p)
        /\ UNCHANGED <<b_blk, av, active>>
    BY <1>7 DEF BawriteTail
  <2>2. StepOf(p) /\ Owns(p)' = Owns(p)
    BY <1>b, <2>1 DEF OwningPCs, PCs
  <2>3. \A c \in Bufs : \A f \in {"BUSY", "ASYNC", "DONE"} :
          f \in b_flags'[c] <=> f \in b_flags[c]
    BY <1>0, <1>7 DEF BawriteTail, TypeOK
  <2> QED BY <2>1, <2>2, <2>3, Stayed
<1>8. CASE BflushOne(p)
  <2>1. PICK c \in Flushable(call[p]) :
          /\ av' = [av EXCEPT ![c] = "none"]
          /\ Strategy(c, BwriteFlags(b_flags[c]) \cup {"BUSY", "ASYNC", "AGE"})
    BY <1>8 DEF BflushOne
  <2> DEFINE fl == BwriteFlags(b_flags[c]) \cup {"BUSY", "ASYNC", "AGE"}
  <2>2. /\ c \in Bufs /\ av[c] # "none"
        /\ fl \in SUBSET Flags /\ "DONE" \notin fl
    BY <1>0 DEF Flushable, BwriteFlags, Flags, TypeOK
  <2>3. UNCHANGED b_blk /\ StepOf(p) /\ Owns(p)' = Owns(p) /\ pc[p] = "bflush"
    BY <1>0, <1>8 DEF BflushOne, StepOf, TypeOK, PcFor, UseFor, Owns, HoldingPCs, OwningPCs, PCs
  <2>4. Owns(p)' = Owns(p) \ {c}
    BY <2>2, <2>3 DEF IInv, PlaceInv, Place, Owned
  <2> QED BY <2>1, <2>2, <2>3, <2>4, HandedOver
<1>9. CASE BflushDone(p)
  <2>1. pc[p] = "bflush" /\ Return(p) /\ UNCHANGED <<b_blk, av, active>>
    BY <1>9 DEF BflushDone
  <2>2. StepOf(p) /\ Owns(p)' = Owns(p)
    BY <1>b, <2>1 DEF OwningPCs, PCs
  <2>3. \A c \in Bufs : \A f \in {"BUSY", "ASYNC", "DONE"} :
          f \in b_flags'[c] <=> f \in b_flags[c]
    BY <1>0, <1>9 DEF BflushDone, TypeOK
  <2> QED BY <2>1, <2>2, <2>3, Stayed
<1> QED BY <1>1, <1>2, <1>3, <1>4, <1>5, <1>6, <1>7, <1>8, <1>9 DEF Caller

(* Entering a system call preserves the places of the buffers and the      *)
(* local variables.                                                        *)
LEMMA StartRest ==
  ASSUME IInv, NEW p \in Procs, NEW c \in CallsOf[p], Start(p, c)
  PROVE  Rest'
<1>0. TypeOK /\ PcFor(p) /\ UseFor(p)
  BY DEF IInv, PcInv, UseInv
<1>1. c \in Call
  BY CallsAssumption
<1>2. Enter(p, c)
  BY DEF Start
<1>3. StepOf(p) /\ Owns(p)' = Owns(p)
  BY <1>0, <1>1, <1>2 DEF Enter, Goto, StepOf, TypeOK, PcFor, UseFor, Owns, HoldingPCs,
    OwningPCs, PCs
<1> QED BY <1>2, <1>3, Stayed DEF Enter, bufVars, diskVars

(* The end of a transfer.  An asynchronous one releases the buffer; the    *)
(* buffer of a synchronous one stays with the process that waits for it.   *)
LEMMA IodoneRest ==
  ASSUME IInv, NEW b \in Bufs, NEW err \in BOOLEAN, Iodone(b, err)
  PROVE  Rest'
<1> DEFINE fl == b_flags[b] \cup {"DONE"} \cup (IF err THEN {"ERROR"} ELSE {})
<1>1. /\ UNCHANGED <<pc, call, stage, bp, kept>> /\ active' = active \ {b} /\ b \in active
      /\ IF "ASYNC" \in fl THEN Brelse(b, fl)
         ELSE /\ b_flags' = [b_flags EXCEPT ![b] = fl \ {"WANTED"}]
              /\ UNCHANGED <<b_blk, av, flwanted>>
  BY DEF Iodone
<1>2. PcInv' /\ UseInv'
  BY <1>1 DEF IInv, PcInv, PcFor, UseInv, UseFor
<1>3. \A q \in Procs : Owns(q)' = Owns(q)
  BY <1>1 DEF Owns
<1>4. TypeOK /\ Place(b) /\ fl \in SUBSET Flags
  BY DEF IInv, PlaceInv, TypeOK, Flags
<1>5. CASE "ASYNC" \in fl
  <2>1. Brelse(b, fl)
    BY <1>1, <1>5
  <2>2. /\ "BUSY" \notin b_flags'[b] /\ "ASYNC" \notin b_flags'[b]
        /\ av'[b] # "none"
    BY <1>4, <2>1 DEF Brelse, BrelseFlags, BrelseList, TypeOK
  <2>3. ~Owned(b) /\ ~Owned(b)'
    BY <1>3, <1>4, <1>5 DEF Place, Owned
  <2>4. Place(b)'
    BY <1>1, <2>2, <2>3 DEF Place, Owned
  <2>5. \A c \in Bufs \ {b} : Still(c)
    BY <1>1, <1>3, <1>4, <2>1 DEF Still, Brelse, TypeOK
  <2> QED BY <1>2, <2>4, <2>5, StillPlace DEF IInv, PlaceInv, Rest
<1>6. CASE "ASYNC" \notin fl
  <2>1. b_flags' = [b_flags EXCEPT ![b] = fl \ {"WANTED"}] /\ UNCHANGED <<b_blk, av>>
    BY <1>1, <1>6
  <2>2. Place(b)'
    BY <1>1, <1>3, <1>4, <1>6, <2>1 DEF Place, Owned, TypeOK
  <2>3. \A c \in Bufs \ {b} : Still(c)
    BY <1>1, <1>3, <1>4, <2>1 DEF Still, TypeOK
  <2> QED BY <1>2, <2>2, <2>3, StillPlace DEF IInv, PlaceInv, Rest
<1> QED BY <1>5, <1>6

-----------------------------------------------------------------------------
(* A step that changes nothing keeps the invariant.                        *)
LEMMA StutterIInv == ASSUME IInv, UNCHANGED vars PROVE IInv'
<1> USE DEF vars, bufVars, diskVars, procVars
<1>1. TypeOK'
  BY DEF IInv, TypeOK
<1>2. PcInv' /\ UseInv'
  BY DEF IInv, PcInv, PcFor, UseInv, UseFor
<1>3. PlaceInv'
  BY DEF IInv, PlaceInv, Place, Owned, Owns
<1> QED BY <1>1, <1>2, <1>3 DEF IInv

(* The invariant is inductive.                                             *)
LEMMA NextIInv == ASSUME IInv, [Next]_vars PROVE IInv'
<1>1. ASSUME NEW p \in Procs, Proceed(p) PROVE IInv'
  BY <1>1, GetblkType, GetblkRest, BreadType, BreadRest, CallerType, CallerRest
     DEF Proceed, Rest, IInv
<1>2. ASSUME NEW p \in Procs, NEW c \in CallsOf[p], Start(p, c) PROVE IInv'
  BY <1>2, StartType, StartRest DEF Rest, IInv
<1>3. ASSUME NEW b \in Bufs, Interrupt(b) PROVE IInv'
  BY <1>3, IodoneType, IodoneRest DEF Interrupt, Rest, IInv
<1> QED BY <1>1, <1>2, <1>3, StutterIInv DEF Next

(* Every reachable state satisfies it.                                     *)
THEOREM Invariant == Spec => []IInv
BY InitIInv, NextIInv, PTL DEF Spec

(* Type correctness of the headers, the free lists, the driver's queue and *)
(* the processes' variables, whatever the calls of dev/bio.c do.           *)
THEOREM TypeInvariant == Spec => []TypeOK
<1>1. IInv => TypeOK
  BY DEF IInv
<1> QED BY <1>1, Invariant, PTL

(* Every buffer is in exactly one place: a free list, a process, or the    *)
(* driver on nobody's behalf.                                              *)
THEOREM BufferInOnePlace == Spec => []InOnePlace
<1>1. ASSUME IInv PROVE InOnePlace
  <2>1. ASSUME NEW b \in Bufs
        PROVE  \/ Free(b) /\ ~InFlight(b) /\ ~Owned(b)
               \/ ~Free(b) /\ InFlight(b) /\ ~Owned(b)
               \/ ~Free(b) /\ ~InFlight(b) /\ Owned(b)
    BY <1>1 DEF IInv, PlaceInv, Place, Free, InFlight
  <2>2. ASSUME NEW p \in Procs, NEW q \in Procs, p # q
        PROVE  Owns(p) \cap Owns(q) = {}
    <3>1. \A r \in Procs : Owns(r) \subseteq Bufs
      BY <1>1 DEF IInv, TypeOK, PcInv, PcFor, HoldingPCs, OwningPCs, PCs, Owns
    <3> QED BY <1>1, <2>2, <3>1 DEF IInv, PlaceInv, Place
  <2>3. \A p \in Procs : pc[p] \in OwningPCs => bp[p] # kept[p]
    BY <1>1 DEF IInv, UseInv, UseFor
  <2> QED BY <2>1, <2>2, <2>3 DEF InOnePlace
<1> QED BY <1>1, Invariant, PTL

(* iodone is never called for a buffer that is marked B_DONE, so it does   *)
(* not panic.                                                              *)
THEOREM NoDuplicateIodone == Spec => []NoDupIodone
<1>1. IInv => NoDupIodone
  BY DEF IInv, TypeOK, PlaceInv, Place, NoDupIodone
<1> QED BY <1>1, Invariant, PTL

-----------------------------------------------------------------------------
(***************************************************************************)
(* One buffer per block                                                    *)
(***************************************************************************)
(* Buffer c is given no new block and, if it was invalid, stays so.        *)
NoRevival(c) ==
  /\ b_blk'[c] \in {b_blk[c], NODEV}
  /\ "INVAL" \in b_flags[c] => "INVAL" \in b_flags'[c]

(* A step that makes no buffer stand for a new block keeps one buffer per  *)
(* block.                                                                  *)
LEMMA OneBufferKept ==
  ASSUME OneBufferPerBlock, \A c \in Bufs : NoRevival(c)
  PROVE  OneBufferPerBlock'
BY DEF OneBufferPerBlock, NoRevival

(* brelse gives no buffer a block and never clears B_INVAL.                *)
LEMMA BrelseNoRevival ==
  ASSUME TypeOK, NEW b, NEW fl, Brelse(b, fl), "INVAL" \in b_flags[b] => "INVAL" \in fl
  PROVE  \A c \in Bufs : NoRevival(c)
<1>1. "INVAL" \in fl => "INVAL" \in BrelseFlags(fl)
  BY DEF BrelseFlags
<1> QED BY <1>1 DEF TypeOK, Brelse, NoRevival

(* The strategy routine gives no buffer a block; B_INVAL stays set.        *)
LEMMA StrategyNoRevival ==
  ASSUME TypeOK, NEW b, NEW fl, Strategy(b, fl), "INVAL" \in b_flags[b] => "INVAL" \in fl,
         UNCHANGED b_blk
  PROVE  \A c \in Bufs : NoRevival(c)
BY DEF TypeOK, Strategy, NoRevival

(* Only getblk's reassignment of a buffer gives it a block, when no valid  *)
(* buffer holds that block.                                                *)
LEMMA OneBufferStep ==
  ASSUME TypeOK, OneBufferPerBlock, Next
  PROVE  OneBufferPerBlock'
<1> USE DEF bufVars, diskVars, procVars
<1>1. ASSUME NEW p \in Procs, Getblk(p) PROVE OneBufferPerBlock'
  <2>1. CASE GetblkAssign(p)
    <3>1. PICK b \in Bufs :
            /\ b_flags' = [b_flags EXCEPT ![b] =
                             IF Want(p) = NODEV THEN {"BUSY", "INVAL"} ELSE {"BUSY"}]
            /\ b_blk' = [b_blk EXCEPT ![b] = Want(p)]
      BY <2>1 DEF GetblkAssign, Reusable
    <3>2. \A c \in Bufs : b_blk[c] = Want(p) /\ Want(p) # NODEV => "INVAL" \in b_flags[c]
      BY <2>1 DEF GetblkAssign, Incore, Match
    <3> QED BY <3>1, <3>2 DEF OneBufferPerBlock, TypeOK
  <2>2. CASE GetblkVictim(p)
    <3>1. PICK b \in Bufs : Strategy(b, BwriteFlags(b_flags[b]) \cup {"BUSY", "ASYNC"})
      BY <2>2 DEF GetblkVictim, Reusable
    <3> QED BY <2>2, <3>1, StrategyNoRevival, OneBufferKept DEF GetblkVictim, BwriteFlags
  <2>3. ASSUME UNCHANGED b_blk, \A c \in Bufs : b_flags[c] \subseteq b_flags'[c]
        PROVE  OneBufferPerBlock'
    BY <2>3 DEF OneBufferPerBlock
  <2>4. CASE GetblkHit(p) \/ GetblkBusy(p) \/ GetblkClaim(p) \/ GetblkSleep(p) \/ VictimTail(p)
    BY <2>3, <2>4 DEF TypeOK, GetblkHit, GetblkBusy, GetblkClaim, GetblkSleep, VictimTail
  <2> QED BY <1>1, <2>1, <2>2, <2>4 DEF Getblk
<1>2. ASSUME NEW p \in Procs, Bread(p) PROVE OneBufferPerBlock'
  <2>1. CASE BreadCached(p) \/ IowaitSleep(p) \/ IowaitDone(p)
    BY <2>1 DEF BreadCached, IowaitSleep, IowaitDone, OneBufferPerBlock
  <2>2. CASE BreadStart(p) \/ BreadaAhead(p)
    <3>1. PICK fl : Strategy(bp[p], fl) /\ b_flags[bp[p]] \subseteq fl /\ UNCHANGED b_blk
      BY <2>2 DEF BreadStart, BreadaAhead
    <3> QED BY <3>1, StrategyNoRevival, OneBufferKept
  <2>3. CASE BreadaMain(p)
    <3>1. CASE UNCHANGED b_flags
      BY <2>3, <3>1 DEF BreadaMain, OneBufferPerBlock
    <3>2. CASE Strategy(bp[p], b_flags[bp[p]] \cup {"READ"})
      BY <2>3, <3>2, StrategyNoRevival, OneBufferKept DEF BreadaMain
    <3> QED BY <2>3, <3>1, <3>2 DEF BreadaMain
  <2>4. CASE BreadaCached(p)
    BY <2>4, BrelseNoRevival, OneBufferKept DEF BreadaCached
  <2> QED BY <1>2, <2>1, <2>2, <2>3, <2>4 DEF Bread
<1>3. ASSUME NEW p \in Procs, Caller(p) PROVE OneBufferPerBlock'
  <2>1. CASE FsreadDone(p) \/ FswriteError(p) \/ FswritePart(p) \/ BwriteDone(p)
    <3>1. PICK fl : Brelse(bp[p], fl) /\ b_flags[bp[p]] \subseteq fl
      BY <2>1 DEF FsreadDone, FswriteError, FswritePart, BwriteDone
    <3> QED BY <3>1, BrelseNoRevival, OneBufferKept
  <2>2. CASE FswriteDir(p) \/ FswriteFull(p)
    <3>1. PICK fl : /\ Strategy(bp[p], fl) /\ UNCHANGED b_blk
                    /\ BwriteFlags(b_flags[bp[p]]) \subseteq fl
      BY <2>2 DEF FswriteDir, FswriteFull
    <3> QED BY <3>1, StrategyNoRevival, OneBufferKept DEF BwriteFlags
  <2>3. CASE BflushOne(p)
    <3>1. PICK b \in Bufs : Strategy(b, BwriteFlags(b_flags[b]) \cup {"BUSY", "ASYNC", "AGE"})
      BY <2>3 DEF BflushOne, Flushable
    <3> QED BY <2>3, <3>1, StrategyNoRevival, OneBufferKept DEF BflushOne, BwriteFlags
  <2>4. CASE BawriteTail(p) \/ BflushDone(p)
    <3>1. UNCHANGED b_blk /\ \A c \in Bufs : b_flags[c] \subseteq b_flags'[c]
      BY <2>4 DEF BawriteTail, BflushDone, TypeOK
    <3> QED BY <3>1 DEF OneBufferPerBlock
  <2> QED BY <1>3, <2>1, <2>2, <2>3, <2>4 DEF Caller
<1>4. ASSUME NEW p \in Procs, NEW c \in CallsOf[p], Start(p, c) PROVE OneBufferPerBlock'
  BY <1>4 DEF Start, Enter, OneBufferPerBlock
<1>5. ASSUME NEW b \in Bufs, NEW err \in BOOLEAN, Iodone(b, err) PROVE OneBufferPerBlock'
  <2> DEFINE fl == b_flags[b] \cup {"DONE"} \cup (IF err THEN {"ERROR"} ELSE {})
  <2>1. CASE Brelse(b, fl)
    BY <2>1, BrelseNoRevival, OneBufferKept
  <2>2. CASE b_flags' = [b_flags EXCEPT ![b] = fl \ {"WANTED"}] /\ UNCHANGED b_blk
    <3>1. \A c \in Bufs : NoRevival(c)
      BY <2>2 DEF TypeOK, NoRevival
    <3> QED BY <3>1, OneBufferKept
  <2> QED BY <1>5, <2>1, <2>2 DEF Iodone
<1> QED BY <1>1, <1>2, <1>3, <1>4, <1>5 DEF Next, Proceed, Interrupt

(* Two valid buffers never stand for the same block: getblk looks in the   *)
(* hash chains again after each sleep, before it reassigns a buffer.       *)
THEOREM OneBuffer == Spec => []OneBufferPerBlock
<1>1. Init => OneBufferPerBlock
  BY DEF Init, OneBufferPerBlock
<1>2. TypeOK /\ OneBufferPerBlock /\ [Next]_vars => OneBufferPerBlock'
  BY OneBufferStep DEF OneBufferPerBlock, vars, bufVars
<1> QED BY <1>1, <1>2, TypeInvariant, PTL DEF Spec
-----------------------------------------------------------------------------
(***************************************************************************)
(* The order of the requests for one block                                 *)
(***************************************************************************)
(* Only a close makes a buffer invalid while the driver has it.  Where the *)
(* disk of a device that is closed has its controller to itself, the       *)
(* driver keeps the order; on the other devices a block has one valid      *)
(* buffer, so the driver has one request for it at a time.                 *)
ClosesInOrder ==
  \A p \in Procs : \A c \in CallsOf[p] : c.kind = "close" => DevOf(c.blk) \in Lone

InvalidFor(b) == "INVAL" \in b_flags[b] => b_blk[b] \in {NODEV} \cup (Lone \X Blknos)

ClosedInv ==
  /\ \A b \in Bufs : InvalidFor(b)
  /\ \A p \in Procs : call[p] # None => call[p] \in CallsOf[p]

(* With one buffer per block a request goes behind those for its block.    *)
LEMMA StrategyQueues ==
  ASSUME TypeOK, ClosedInv, OneBufferPerBlock, NEW b \in Bufs, b \notin active, NEW fl, Strategy(b, fl)
  PROVE  ahead' = [ahead EXCEPT ![b] = Queued(b)]
<1>1. PICK first \in Firsts(b) :
        ahead' = [c \in Bufs |-> IF c = b THEN first
                                 ELSE IF c \in Queued(b) \ first THEN ahead[c] \cup {b}
                                 ELSE ahead[c]]
  BY DEF Strategy
<1>2. first = Queued(b)
  <2>1. CASE b_blk[b] \in Lone \X Blknos
    BY <2>1 DEF Firsts
  <2>2. CASE b_blk[b] \notin Lone \X Blknos
    <3>1. b_blk[b] \in Blocks /\ NODEV \notin Blocks
      BY Zenon, NoneAssumption DEF Strategy, NODEV
    <3>2. ASSUME NEW c \in Queued(b) PROVE FALSE
      <4>1. c \in active /\ c \in Bufs /\ b_blk[c] = b_blk[b] /\ c # b
        BY <3>2 DEF Queued, TypeOK
      <4>2. "INVAL" \notin b_flags[b] \cup b_flags[c]
        BY <2>2, <3>1, <4>1 DEF ClosedInv, InvalidFor
      <4> QED BY <3>1, <4>1, <4>2 DEF OneBufferPerBlock
    <3>3. Queued(b) = {} /\ first \subseteq Queued(b)
      BY <2>2, <3>2 DEF Firsts
    <3> QED BY <3>3
  <2> QED BY <2>1, <2>2
<1> QED BY <1>1, <1>2 DEF TypeOK

(* Buffer c does not become invalid, and gets no block while it is.        *)
NotInvalidated(c) ==
  "INVAL" \in b_flags'[c] => "INVAL" \in b_flags[c] /\ b_blk'[c] \in {b_blk[c], NODEV}

(* The process that makes the step ends its call or goes on with it.       *)
CallsOn == \A q \in Procs : call'[q] \in {call[q], None}

(* A step that invalidates no buffer.                                      *)
LEMMA ClosedKept ==
  ASSUME ClosedInv, CallsOn, \A c \in Bufs : NotInvalidated(c)
  PROVE  ClosedInv'
BY DEF ClosedInv, InvalidFor, NotInvalidated, CallsOn

(* brelse invalidates no buffer.                                           *)
LEMMA BrelseNoInval ==
  ASSUME TypeOK, NEW b, NEW fl, Brelse(b, fl), "INVAL" \in fl => "INVAL" \in b_flags[b]
  PROVE  \A c \in Bufs : NotInvalidated(c)
<1>1. "INVAL" \in BrelseFlags(fl) => "INVAL" \in fl
  BY DEF BrelseFlags
<1> QED BY <1>1 DEF TypeOK, Brelse, NotInvalidated

(* The strategy routine invalidates no buffer.                             *)
LEMMA StrategyNoInval ==
  ASSUME TypeOK, NEW b, NEW fl, Strategy(b, fl), "INVAL" \in fl => "INVAL" \in b_flags[b],
         UNCHANGED b_blk
  PROVE  \A c \in Bufs : NotInvalidated(c)
BY DEF TypeOK, Strategy, NotInvalidated

(* Buffers are invalid without a block, from geteblk, or on a device that  *)
(* a close has gone over.                                                  *)
LEMMA ClosedStep ==
  ASSUME ClosesInOrder, TypeOK, PcInv, ClosedInv, Next
  PROVE  ClosedInv'
<1> USE DEF bufVars, diskVars, procVars
<1>1. ASSUME NEW p \in Procs, Getblk(p) PROVE ClosedInv'
  <2>0. CallsOn
    BY <1>1 DEF Getblk, GetblkHit, GetblkBusy, GetblkClaim, GetblkSleep, GetblkVictim, VictimTail,
      GetblkAssign, CallsOn
  <2>1. CASE GetblkAssign(p)
    <3>1. PICK b \in Bufs :
            /\ b_flags' = [b_flags EXCEPT ![b] =
                             IF Want(p) = NODEV THEN {"BUSY", "INVAL"} ELSE {"BUSY"}]
            /\ b_blk' = [b_blk EXCEPT ![b] = Want(p)]
      BY <2>1 DEF GetblkAssign, Reusable
    <3>2. ASSUME NEW c \in Bufs PROVE InvalidFor(c)'
      <4>1. CASE c = b
        BY <3>1, <4>1 DEF InvalidFor, TypeOK
      <4>2. CASE c # b
        BY <3>1, <4>2 DEF ClosedInv, InvalidFor, TypeOK
      <4> QED BY <4>1, <4>2
    <3> QED BY <2>0, <3>2 DEF ClosedInv, CallsOn
  <2>2. CASE GetblkVictim(p)
    <3>1. PICK b \in Bufs : Strategy(b, BwriteFlags(b_flags[b]) \cup {"BUSY", "ASYNC"})
      BY <2>2 DEF GetblkVictim, Reusable
    <3> QED BY <2>0, <2>2, <3>1, StrategyNoInval, ClosedKept DEF GetblkVictim, BwriteFlags
  <2>3. CASE GetblkHit(p) \/ GetblkBusy(p) \/ GetblkClaim(p) \/ GetblkSleep(p) \/ VictimTail(p)
    <3>1. \A c \in Bufs : NotInvalidated(c)
      BY <2>3 DEF TypeOK, GetblkHit, GetblkBusy, GetblkClaim, GetblkSleep, VictimTail, NotInvalidated
    <3> QED BY <2>0, <3>1, ClosedKept
  <2> QED BY <1>1, <2>1, <2>2, <2>3 DEF Getblk
<1>2. ASSUME NEW p \in Procs, Bread(p) PROVE ClosedInv'
  <2>0. CallsOn
    BY <1>2 DEF Bread, BreadCached, BreadStart, BreadaMain, BreadaCached, BreadaAhead, IowaitSleep,
      IowaitDone, BreadaFinish, CallsOn
  <2>1. CASE BreadCached(p) \/ IowaitSleep(p) \/ IowaitDone(p)
    <3>1. \A c \in Bufs : NotInvalidated(c)
      BY <2>1 DEF BreadCached, IowaitSleep, IowaitDone, NotInvalidated
    <3> QED BY <2>0, <3>1, ClosedKept
  <2>2. CASE BreadStart(p) \/ BreadaAhead(p)
    <3>1. /\ UNCHANGED b_blk
          /\ \E fl : Strategy(bp[p], fl) /\ ("INVAL" \in fl => "INVAL" \in b_flags[bp[p]])
      BY <2>2 DEF BreadStart, BreadaAhead
    <3> QED BY <2>0, <3>1, StrategyNoInval, ClosedKept
  <2>3. CASE BreadaMain(p)
    <3>1. CASE UNCHANGED b_flags
      <4>1. \A c \in Bufs : NotInvalidated(c)
        BY <2>3, <3>1 DEF BreadaMain, NotInvalidated
      <4> QED BY <2>0, <4>1, ClosedKept
    <3>2. CASE Strategy(bp[p], b_flags[bp[p]] \cup {"READ"})
      BY <2>0, <2>3, <3>2, StrategyNoInval, ClosedKept DEF BreadaMain
    <3> QED BY <2>3, <3>1, <3>2 DEF BreadaMain
  <2>4. CASE BreadaCached(p)
    BY <2>0, <2>4, BrelseNoInval, ClosedKept DEF BreadaCached
  <2> QED BY <1>2, <2>1, <2>2, <2>3, <2>4 DEF Bread
<1>3. ASSUME NEW p \in Procs, Caller(p) PROVE ClosedInv'
  <2>0. CallsOn
    BY <1>3 DEF Caller, FsreadDone, FswriteError, FswritePart, FswriteDir, BwriteDone, FswriteFull,
      BawriteTail, BflushOne, BflushDone, Return, CallsOn, TypeOK
  <2>1. CASE FsreadDone(p) \/ FswriteError(p) \/ FswritePart(p) \/ BwriteDone(p)
    <3>1. PICK fl : Brelse(bp[p], fl) /\ fl \subseteq b_flags[bp[p]] \cup {"AGE", "DELWRI", "DONE"}
      BY <2>1 DEF FsreadDone, FswriteError, FswritePart, BwriteDone
    <3> QED BY <2>0, <3>1, BrelseNoInval, ClosedKept
  <2>2. CASE FswriteDir(p) \/ FswriteFull(p)
    <3>1. PICK fl : /\ Strategy(bp[p], fl) /\ UNCHANGED b_blk
                    /\ fl \subseteq b_flags[bp[p]] \cup {"ASYNC"}
      BY <2>2 DEF FswriteDir, FswriteFull, BwriteFlags
    <3> QED BY <2>0, <3>1, StrategyNoInval, ClosedKept
  <2>3. CASE BflushOne(p)
    <3>1. PICK b \in Bufs : Strategy(b, BwriteFlags(b_flags[b]) \cup {"BUSY", "ASYNC", "AGE"})
      BY <2>3 DEF BflushOne, Flushable
    <3> QED BY <2>0, <2>3, <3>1, StrategyNoInval, ClosedKept DEF BflushOne, BwriteFlags
  <2>4. CASE BawriteTail(p)
    <3>1. \A c \in Bufs : NotInvalidated(c)
      BY <2>4 DEF BawriteTail, TypeOK, NotInvalidated
    <3> QED BY <2>0, <3>1, ClosedKept
  <2>5. CASE BflushDone(p)
    <3>1. /\ UNCHANGED b_blk
          /\ b_flags' = [b \in Bufs |->
               IF call[p].kind = "close" /\ b_blk[b] # NODEV /\ DevOf(b_blk[b]) = DevOf(call[p].blk)
               THEN b_flags[b] \cup {"INVAL"} ELSE b_flags[b]]
      BY <2>5 DEF BflushDone
    <3>2. call[p] \in CallsOf[p]
      <4>1. pc[p] = "bflush" /\ None \notin Call
        BY <2>5, NoneAssumption DEF BflushDone
      <4>2. call[p] \in Call
        BY <4>1 DEF PcInv, PcFor
      <4> QED BY <4>1, <4>2 DEF ClosedInv
    <3>3. call[p].kind = "close" => DevOf(call[p].blk) \in Lone
      BY <3>2 DEF ClosesInOrder
    <3>4. ASSUME NEW c \in Bufs PROVE InvalidFor(c)'
      <4>1. CASE call[p].kind = "close" /\ b_blk[c] # NODEV /\ DevOf(b_blk[c]) = DevOf(call[p].blk)
        <5>1. b_blk[c] \in Devs \X Blknos /\ b_blk[c][1] \in Lone
          BY <3>3, <4>1 DEF TypeOK, Blocks, DevOf
        <5>2. b_blk[c] \in Lone \X Blknos
          BY <5>1
        <5> QED BY <3>1, <5>2 DEF InvalidFor
      <4>2. CASE ~(call[p].kind = "close" /\ b_blk[c] # NODEV /\ DevOf(b_blk[c]) = DevOf(call[p].blk))
        <5>1. b_flags'[c] = b_flags[c] /\ b_blk'[c] = b_blk[c]
          BY <3>1, <4>2
        <5> QED BY <5>1 DEF ClosedInv, InvalidFor
      <4> QED BY <4>1, <4>2
    <3> QED BY <2>0, <3>4 DEF ClosedInv, CallsOn
  <2> QED BY <1>3, <2>1, <2>2, <2>3, <2>4, <2>5 DEF Caller
<1>4. ASSUME NEW p \in Procs, NEW c \in CallsOf[p], Start(p, c) PROVE ClosedInv'
  <2>1. UNCHANGED <<b_flags, b_blk>> /\ call' = [call EXCEPT ![p] = c]
    BY <1>4 DEF Start, Enter
  <2> QED BY <2>1 DEF ClosedInv, InvalidFor, TypeOK
<1>5. ASSUME NEW b \in Bufs, NEW err \in BOOLEAN, Iodone(b, err) PROVE ClosedInv'
  <2> DEFINE fl == b_flags[b] \cup {"DONE"} \cup (IF err THEN {"ERROR"} ELSE {})
  <2>0. CallsOn
    BY <1>5 DEF Iodone, CallsOn
  <2>1. CASE Brelse(b, fl)
    BY <2>0, <2>1, BrelseNoInval, ClosedKept
  <2>2. CASE b_flags' = [b_flags EXCEPT ![b] = fl \ {"WANTED"}] /\ UNCHANGED b_blk
    <3>1. \A c \in Bufs : NotInvalidated(c)
      BY <2>2 DEF TypeOK, NotInvalidated
    <3> QED BY <2>0, <3>1, ClosedKept
  <2> QED BY <1>5, <2>1, <2>2 DEF Iodone
<1> QED BY <1>1, <1>2, <1>3, <1>4, <1>5 DEF Next, Proceed, Interrupt

(* Every reachable state satisfies ClosedInv.                              *)
LEMMA ClosedInvariant == ASSUME ClosesInOrder PROVE Spec => []ClosedInv
<1>1. Init => ClosedInv
  BY DEF Init, ClosedInv, InvalidFor
<1>2. IInv /\ ClosedInv /\ [Next]_vars => ClosedInv'
  <2> SUFFICES ASSUME IInv, ClosedInv, [Next]_vars PROVE ClosedInv'
    OBVIOUS
  <2>1. CASE Next
    BY <2>1, ClosedStep DEF IInv
  <2>2. CASE UNCHANGED vars
    BY <2>2 DEF vars, bufVars, procVars, ClosedInv, InvalidFor
  <2> QED BY <2>1, <2>2
<1> QED BY <1>1, <1>2, Invariant, PTL DEF Spec

-----------------------------------------------------------------------------
(***************************************************************************)
(* What the cache promises the processes that wait in it.  WakeInv adds to *)
(* SleepersWillWake where a sleeper is in the code.  That a synchronous    *)
(* write is on the disk when bwrite returns rests on much more: nobody     *)
(* else may be writing the same block from another buffer, so the buffer   *)
(* must be valid, and binval must not have come in between.                *)
(***************************************************************************)
(* Who sleeps, where, and on what.                                         *)
WakeFor(p) ==
  /\ wchan[p] = bfreelist => flwanted /\ \A b \in Bufs : av[b] \notin {"AGE", "LRU"}
  /\ wchan[p] \in Bufs =>
       \/ pc[p] = "getblk" /\ {"BUSY", "WANTED"} \subseteq b_flags[wchan[p]]
       \/ pc[p] \in {"iowait", "wwait"} /\ wchan[p] = bp[p] /\ bp[p] \in active

WakeInv == \A p \in Procs : WakeFor(p)

(* A buffer that a process awaits, or has kept for later, has its transfer *)
(* before it or behind it.                                                 *)
Complete(b) == b \in active \/ "DONE" \in b_flags[b]

PendingFor(p) ==
  /\ pc[p] \in {"iowait", "wwait"} => Complete(bp[p])
  /\ kept[p] # None => Complete(kept[p])

PendingInv == \A p \in Procs : PendingFor(p)

(* Where a process keeps the CPU, and what its call and stage say.         *)
CpuPCs == {"claim", "victim", "got", "bflush"}

CallFor(p) ==
  /\ pc[p] \in CpuPCs => cur = p
  /\ stage[p] = "ra" => call[p].kind = "reada" /\ call[p].ra # NODEV
  /\ pc[p] \notin {"user", "bflush"} => call[p].kind \notin {"sync", "close"}
  /\ pc[p] = "bflush" /\ call[p].kind = "close" => LastClose(p, DevOf(call[p].blk))
  /\ pc[p] \in {"wwait", "wrote"} => call[p].kind = "dir"

CallInv == \A p \in Procs : CallFor(p)

(* The block whose buffer p has found.                                     *)
Finds(p) == IF pc[p] \in {"claim", "got"} THEN Want(p) ELSE call[p].blk

(* A buffer that p has found or owns is that of its block and valid, or    *)
(* has lost its block to an error.                                         *)
FoundFor(p) ==
  /\ pc[p] \in OwningPCs \cup {"claim"} =>
       /\ b_blk[bp[p]] \in {Finds(p), NODEV}
       /\ call[p].kind # "hole" => "INVAL" \notin b_flags[bp[p]]
  /\ kept[p] # None => b_blk[kept[p]] \in {call[p].blk, NODEV} /\ "INVAL" \notin b_flags[kept[p]]

FoundInv == \A p \in Procs : FoundFor(p)

(* Delayed writes are complete and valid.                                  *)
DelayedInv ==
  \A b \in Bufs : "DELWRI" \in b_flags[b] => "DONE" \in b_flags[b] /\ "INVAL" \notin b_flags[b]

(* Writes of p's block from other buffers are done before p's own.         *)
OthersFirst(p) ==
  \A c \in active \ {bp[p]} :
    b_blk[c] = b_blk[bp[p]] /\ "READ" \notin b_flags[c] => bp[p] \in active /\ c \in ahead[bp[p]]

DurableFor(p) ==
  /\ pc[p] \in {"wwait", "wrote"} => b_blk[bp[p]] \in Blocks /\ OthersFirst(p)
  /\ pc[p] = "wwait" => IF bp[p] \in active THEN "READ" \notin b_flags[bp[p]]
                        ELSE "ERROR" \in b_flags[bp[p]] \/ disk[b_blk[bp[p]]] = data[bp[p]]
  /\ pc[p] = "wrote" => uerror[p] \/ disk[b_blk[bp[p]]] = data[bp[p]]

DurableInv == \A p \in Procs : DurableFor(p)

ValidInv == CallInv /\ FoundInv /\ DelayedInv

-----------------------------------------------------------------------------
(***************************************************************************)
(* Sleepers                                                                *)
(***************************************************************************)
(* A step of process p leaves the local variables of the others alone.     *)
Alone(p) ==
  \A q \in Procs \ {p} : /\ pc'[q] = pc[q] /\ bp'[q] = bp[q] /\ kept'[q] = kept[q]
                         /\ call'[q] = call[q] /\ stage'[q] = stage[q]
                         /\ uerror'[q] = uerror[q]

(* Every step of a process is one of its own variables.                    *)
LEMMA ProceedsAlone == ASSUME IInv, NEW p \in Procs, Proceed(p) PROVE Alone(p)
<1> USE DEF IInv, TypeOK, Alone, procVars, Goto
<1>1. CASE Getblk(p)
  <2>1. CASE GetblkHit(p) \/ GetblkBusy(p) \/ GetblkClaim(p) \/ GetblkSleep(p)
    BY <2>1 DEF GetblkHit, GetblkBusy, GetblkClaim, GetblkSleep
  <2>2. CASE GetblkVictim(p)
    BY <2>2 DEF GetblkVictim
  <2>3. CASE VictimTail(p)
    BY <2>3 DEF VictimTail
  <2>4. CASE GetblkAssign(p)
    BY <2>4 DEF GetblkAssign
  <2> QED BY <1>1, <2>1, <2>2, <2>3, <2>4 DEF Getblk
<1>2. CASE Bread(p)
  <2>1. ASSUME BreadaFinish(p) PROVE Alone(p)
    BY <2>1 DEF BreadaFinish
  <2>2. CASE BreadaCached(p) \/ BreadaAhead(p)
    BY <2>1, <2>2 DEF BreadaCached, BreadaAhead
  <2>3. CASE BreadaMain(p)
    BY <2>3 DEF BreadaMain
  <2>4. CASE BreadCached(p) \/ BreadStart(p) \/ IowaitSleep(p) \/ IowaitDone(p)
    BY <2>4 DEF BreadCached, BreadStart, IowaitSleep, IowaitDone
  <2> QED BY <1>2, <2>2, <2>3, <2>4 DEF Bread
<1>3. CASE Caller(p)
  <2>1. ASSUME Return(p) PROVE Alone(p)
    BY <2>1 DEF Return
  <2>2. CASE FswriteDir(p) \/ FswriteFull(p) \/ BflushOne(p)
    BY <2>2 DEF FswriteDir, FswriteFull, BflushOne
  <2> QED BY <1>3, <2>1, <2>2 DEF Caller, FsreadDone, FswriteError, FswritePart, BwriteDone,
            BawriteTail, BflushDone
<1> QED BY <1>1, <1>2, <1>3 DEF Proceed

(* A system call starts among the caller's own variables.                  *)
LEMMA StartsAlone ==
  ASSUME IInv, NEW p \in Procs, NEW c, Start(p, c)
  PROVE  Alone(p) /\ UNCHANGED <<bufVars, diskVars, wchan, uerror, bp, kept>>
BY DEF IInv, TypeOK, Alone, Start, Enter, Goto, bufVars, diskVars

(* A step that frees no buffer, ends no transfer and takes B_BUSY and      *)
(* B_WANTED off no buffer leaves the sleepers with who will wake them.     *)
LEMMA QuietWake ==
  ASSUME WakeInv, NEW p \in Procs, wchan[p] \notin Bufs, Alone(p),
         UNCHANGED <<wchan, flwanted>>, active \subseteq active',
         \A b \in Bufs : {"BUSY", "WANTED"} \subseteq b_flags[b] =>
                          {"BUSY", "WANTED"} \subseteq b_flags'[b],
         \A b \in Bufs : av'[b] \in {av[b], "none"}
  PROVE  WakeInv'
<1> SUFFICES ASSUME NEW q \in Procs PROVE WakeFor(q)'
  BY DEF WakeInv
<1>1. WakeFor(q)
  BY DEF WakeInv
<1>2. wchan'[q] = bfreelist => flwanted' /\ \A b \in Bufs : av'[b] \notin {"AGE", "LRU"}
  BY <1>1 DEF WakeFor
<1>3. CASE q = p
  BY <1>2, <1>3 DEF WakeFor
<1>4. CASE q # p
  BY <1>1, <1>2, <1>4 DEF WakeFor, Alone
<1> QED BY <1>3, <1>4

(* brelse wakes who waits for the buffer, if its B_WANTED has come so far, *)
(* and who waits for any buffer.                                           *)
LEMMA BrelseWake ==
  ASSUME IInv, WakeInv, NEW b \in Bufs, NEW fl, Brelse(b, fl),
         "WANTED" \in b_flags[b] => "WANTED" \in fl,
         \A q \in Procs : wchan[q] = b => pc[q] \notin {"iowait", "wwait"},
         \A q \in Procs : wchan[q] \in Bufs => pc'[q] = pc[q] /\ bp'[q] = bp[q],
         active \ {b} \subseteq active'
  PROVE  WakeInv'
<1> SUFFICES ASSUME NEW q \in Procs PROVE WakeFor(q)'
  BY DEF WakeInv
<1>1. WakeFor(q) /\ wchan'[q] = IF wchan[q] \in BrelseWakes(b, fl) THEN None ELSE wchan[q]
  BY DEF WakeInv, Brelse, Wakeup
<1>2. CASE wchan[q] \in BrelseWakes(b, fl)
  BY <1>1, <1>2, NoneAssumption DEF WakeFor
<1>3. CASE wchan[q] \notin BrelseWakes(b, fl)
  <2>1. wchan[q] # bfreelist
    BY <1>1, <1>3 DEF BrelseWakes, WakeFor
  <2>2. ASSUME wchan[q] = b PROVE FALSE
    <3>1. pc[q] = "getblk" /\ "WANTED" \in b_flags[b]
      BY <1>1, <2>2 DEF WakeFor
    <3> QED BY <1>3, <2>2, <3>1 DEF BrelseWakes
  <2>3. \A c \in Bufs \ {b} : b_flags'[c] = b_flags[c]
    BY DEF Brelse, IInv, TypeOK
  <2> QED BY <1>1, <1>3, <2>1, <2>2, <2>3 DEF WakeFor
<1> QED BY <1>2, <1>3

(* Every step of getblk preserves WakeInv.                                 *)
LEMMA GetblkWake == ASSUME IInv, WakeInv, NEW p \in Procs, Getblk(p) PROVE WakeInv'
<1> USE DEF bufVars, diskVars, procVars
<1>0. TypeOK /\ PcFor(p) /\ WakeFor(p) /\ Alone(p)
  BY ProceedsAlone DEF IInv, PcInv, WakeInv, Proceed
<1>1. CASE GetblkHit(p)
  BY <1>0, <1>1, QuietWake, NoneAssumption DEF GetblkHit, Running
<1>2. CASE GetblkBusy(p)
  <2>1. /\ wchan[p] = None /\ bp[p] \in Bufs /\ "BUSY" \in b_flags[bp[p]]
        /\ b_flags' = [b_flags EXCEPT ![bp[p]] = @ \cup {"WANTED"}]
        /\ wchan' = [wchan EXCEPT ![p] = bp[p]] /\ pc' = [pc EXCEPT ![p] = "getblk"]
        /\ UNCHANGED <<av, flwanted, active>>
    BY <1>0, <1>2 DEF GetblkBusy, Running, PcFor, HoldingPCs, PCs, Goto
  <2>2. WakeFor(p)'
    BY <1>0, <2>1, NoneAssumption DEF WakeFor, TypeOK
  <2>3. ASSUME NEW q \in Procs \ {p} PROVE WakeFor(q)'
    <3>1. WakeFor(q) /\ wchan'[q] = wchan[q] /\ pc'[q] = pc[q] /\ bp'[q] = bp[q]
      BY <1>0, <2>1 DEF WakeInv, Alone, TypeOK
    <3> QED BY <1>0, <2>1, <3>1 DEF WakeFor, TypeOK
  <2> QED BY <2>2, <2>3 DEF WakeInv
<1>3. CASE GetblkClaim(p)
  <2>1. \A b \in Bufs : b_flags[b] \subseteq b_flags'[b] /\ av'[b] \in {av[b], "none"}
    BY <1>0, <1>3 DEF GetblkClaim, TypeOK
  <2> QED BY <1>0, <1>3, <2>1, QuietWake, NoneAssumption DEF GetblkClaim, Running
<1>4. CASE GetblkSleep(p)
  <2>1. /\ wchan[p] = None /\ Reusable = {} /\ flwanted' = TRUE
        /\ wchan' = [wchan EXCEPT ![p] = bfreelist]
        /\ UNCHANGED <<b_flags, av, active, pc, bp>>
    BY <1>4 DEF GetblkSleep, Running
  <2>2. \A b \in Bufs : av[b] \notin {"AGE", "LRU"}
    BY <2>1 DEF Reusable
  <2>3. ASSUME NEW q \in Procs PROVE WakeFor(q)'
    <3>1. WakeFor(q)
      BY DEF WakeInv
    <3> QED BY <1>0, <2>1, <2>2, <3>1, NoneAssumption DEF WakeFor, TypeOK
  <2> QED BY <2>3 DEF WakeInv
<1>5. CASE GetblkVictim(p)
  <2>1. PICK b \in Bufs : /\ Strategy(b, BwriteFlags(b_flags[b]) \cup {"BUSY", "ASYNC"})
                          /\ av' = [av EXCEPT ![b] = "none"]
    BY <1>5 DEF GetblkVictim, Reusable
  <2>2. /\ \A c \in Bufs : av'[c] \in {av[c], "none"}
        /\ \A c \in Bufs : {"BUSY", "WANTED"} \subseteq b_flags[c] =>
                             {"BUSY", "WANTED"} \subseteq b_flags'[c]
    BY <1>0, <2>1 DEF Strategy, BwriteFlags, TypeOK
  <2> QED BY <1>0, <1>5, <2>1, <2>2, QuietWake, NoneAssumption DEF GetblkVictim, Running, Strategy
<1>6. CASE VictimTail(p)
  <2>1. \A b \in Bufs : b_flags[b] \subseteq b_flags'[b]
    BY <1>0, <1>6 DEF VictimTail, TypeOK
  <2> QED BY <1>0, <1>6, <2>1, QuietWake, NoneAssumption DEF VictimTail, Running
<1>7. CASE GetblkAssign(p)
  <2>1. PICK b \in Bufs :
          /\ av[b] # "none" /\ av' = [av EXCEPT ![b] = "none"]
          /\ b_flags' = [b_flags EXCEPT ![b] =
                           IF Want(p) = NODEV THEN {"BUSY", "INVAL"} ELSE {"BUSY"}]
    BY <1>7 DEF GetblkAssign, Reusable
  <2>2. "BUSY" \notin b_flags[b]
    BY <2>1 DEF IInv, PlaceInv, Place
  <2>3. /\ \A c \in Bufs : av'[c] \in {av[c], "none"}
        /\ \A c \in Bufs : {"BUSY", "WANTED"} \subseteq b_flags[c] =>
                             {"BUSY", "WANTED"} \subseteq b_flags'[c]
    BY <1>0, <2>1, <2>2 DEF TypeOK
  <2> QED BY <1>0, <1>7, <2>3, QuietWake, NoneAssumption DEF GetblkAssign, Running
<1> QED BY <1>1, <1>2, <1>3, <1>4, <1>5, <1>6, <1>7 DEF Getblk

(* A buffer that a process at an owning place works on, or has kept, is    *)
(* not one that somebody else awaits the transfer of.                      *)
LEMMA NobodyElseAwaits ==
  ASSUME IInv, WakeInv, NEW b \in Bufs,
         b \notin active \/ "ASYNC" \in b_flags[b]
  PROVE  \A q \in Procs : wchan[q] = b => pc[q] \notin {"iowait", "wwait"}
<1> SUFFICES ASSUME NEW q \in Procs, wchan[q] = b, pc[q] \in {"iowait", "wwait"}
             PROVE  FALSE
  OBVIOUS
<1>1. bp[q] = b /\ b \in active
  BY DEF WakeInv, WakeFor
<1>2. "ASYNC" \notin b_flags[b]
  BY <1>1, Held DEF OwningPCs
<1> QED BY <1>1, <1>2

(* The release of the buffer a process works on preserves WakeInv.         *)
LEMMA ReleaseWake ==
  ASSUME IInv, WakeInv, NEW p \in Procs, Alone(p), pc[p] \in {"got", "iomove", "wrote"},
         wchan[p] = None, NEW fl, Brelse(bp[p], fl), b_flags[bp[p]] \subseteq fl,
         UNCHANGED active
  PROVE  WakeInv'
<1>1. bp[p] \in Bufs
  BY Held DEF OwningPCs
<1>2. bp[p] \notin active
  BY DEF IInv, UseInv, UseFor
<1>3. \A q \in Procs : wchan[q] \in Bufs => pc'[q] = pc[q] /\ bp'[q] = bp[q]
  BY NoneAssumption DEF Alone
<1> QED BY <1>1, <1>2, <1>3, NobodyElseAwaits, BrelseWake

(* Giving a busy buffer to the driver preserves WakeInv.                   *)
LEMMA StrategyWake ==
  ASSUME IInv, WakeInv, NEW p \in Procs, Alone(p), wchan[p] = None,
         NEW b \in Bufs, NEW fl, Strategy(b, fl), b_flags[b] \cap {"BUSY", "WANTED"} \subseteq fl,
         UNCHANGED <<wchan, flwanted, av>>
  PROVE  WakeInv'
<1>1. active \subseteq active'
  BY DEF Strategy
<1>2. \A c \in Bufs : {"BUSY", "WANTED"} \subseteq b_flags[c] =>
                       {"BUSY", "WANTED"} \subseteq b_flags'[c]
  BY DEF Strategy, IInv, TypeOK
<1> QED BY <1>1, <1>2, QuietWake, NoneAssumption

(* Every step of bread, breada and iowait preserves WakeInv.               *)
LEMMA BreadWake ==
  ASSUME IInv, WakeInv, PendingInv, NEW p \in Procs, Bread(p)
  PROVE  WakeInv'
<1> USE DEF bufVars, diskVars, procVars
<1>0. TypeOK /\ PcFor(p) /\ WakeFor(p) /\ Alone(p)
  BY ProceedsAlone DEF IInv, PcInv, WakeInv, Proceed
<1>a. pc[p] \in OwningPCs => bp[p] \in Bufs
  BY Held
<1>1. CASE BreadCached(p)
  BY <1>0, <1>1, QuietWake, NoneAssumption DEF BreadCached, Running
<1>2. CASE BreadStart(p)
  BY <1>0, <1>a, <1>2, StrategyWake DEF BreadStart, Running, OwningPCs
<1>3. CASE BreadaMain(p)
  <2>1. CASE "DONE" \in b_flags[bp[p]]
    BY <1>0, <1>3, <2>1, QuietWake, NoneAssumption DEF BreadaMain, Running
  <2>2. CASE "DONE" \notin b_flags[bp[p]]
    BY <1>0, <1>a, <1>3, <2>2, StrategyWake DEF BreadaMain, Running, OwningPCs
  <2> QED BY <2>1, <2>2
<1>4. CASE BreadaCached(p)
  BY <1>0, <1>4, ReleaseWake DEF BreadaCached, Running
<1>5. CASE BreadaAhead(p)
  BY <1>0, <1>a, <1>5, StrategyWake DEF BreadaAhead, Running, OwningPCs
<1>6. CASE IowaitSleep(p)
  <2>1. /\ pc[p] \in {"iowait", "wwait"} /\ wchan[p] = None /\ "DONE" \notin b_flags[bp[p]]
        /\ wchan' = [wchan EXCEPT ![p] = bp[p]]
        /\ UNCHANGED <<bufVars, active, pc, bp>>
    BY <1>6 DEF IowaitSleep, Running
  <2>2. ASSUME NEW q \in Procs PROVE WakeFor(q)'
    <3>1. WakeFor(q)
      BY DEF WakeInv
    <3>2. CASE q = p
      <4>1. bp[p] \in active
        BY <2>1 DEF PendingInv, PendingFor, Complete
      <4> QED BY <1>0, <1>a, <2>1, <3>2, <4>1, NoneAssumption DEF WakeFor, TypeOK, OwningPCs
    <3>3. CASE q # p
      BY <1>0, <2>1, <3>1, <3>3 DEF WakeFor, TypeOK
    <3> QED BY <3>2, <3>3
  <2> QED BY <2>2 DEF WakeInv
<1>7. CASE IowaitDone(p)
  BY <1>0, <1>7, QuietWake, NoneAssumption DEF IowaitDone, Running
<1> QED BY <1>1, <1>2, <1>3, <1>4, <1>5, <1>6, <1>7 DEF Bread

(* Every step of the callers of the cache preserves WakeInv.               *)
LEMMA CallerWake == ASSUME IInv, WakeInv, NEW p \in Procs, Caller(p) PROVE WakeInv'
<1> USE DEF bufVars, diskVars, procVars
<1>0. TypeOK /\ PcFor(p) /\ WakeFor(p) /\ Alone(p)
  BY ProceedsAlone DEF IInv, PcInv, WakeInv, Proceed
<1>a. pc[p] \in OwningPCs => bp[p] \in Bufs
  BY Held
<1>1. CASE FsreadDone(p) \/ FswriteError(p) \/ FswritePart(p) \/ BwriteDone(p)
  <2>1. PICK fl : Brelse(bp[p], fl) /\ b_flags[bp[p]] \subseteq fl
    BY <1>1 DEF FsreadDone, FswriteError, FswritePart, BwriteDone
  <2>2. pc[p] \in {"iomove", "wrote"} /\ wchan[p] = None /\ UNCHANGED active
    BY <1>1 DEF FsreadDone, FswriteError, FswritePart, BwriteDone, Running
  <2> QED BY <1>0, <2>1, <2>2, ReleaseWake
<1>2. CASE FswriteDir(p) \/ FswriteFull(p)
  <2>1. PICK fl : /\ Strategy(bp[p], fl)
                  /\ BwriteFlags(b_flags[bp[p]]) \subseteq fl
    BY <1>2 DEF FswriteDir, FswriteFull
  <2>2. pc[p] = "iomove" /\ wchan[p] = None /\ UNCHANGED <<wchan, flwanted, av>>
    BY <1>2 DEF FswriteDir, FswriteFull, Running
  <2>3. b_flags[bp[p]] \cap {"BUSY", "WANTED"} \subseteq fl
    BY <2>1 DEF BwriteFlags
  <2> QED BY <1>0, <1>a, <2>1, <2>2, <2>3, StrategyWake DEF OwningPCs
<1>3. CASE BflushOne(p)
  <2>1. PICK b \in Bufs : /\ Strategy(b, BwriteFlags(b_flags[b]) \cup {"BUSY", "ASYNC", "AGE"})
                          /\ av' = [av EXCEPT ![b] = "none"]
    BY <1>3 DEF BflushOne, Flushable
  <2>2. /\ \A c \in Bufs : av'[c] \in {av[c], "none"}
        /\ \A c \in Bufs : {"BUSY", "WANTED"} \subseteq b_flags[c] =>
                             {"BUSY", "WANTED"} \subseteq b_flags'[c]
    BY <1>0, <2>1 DEF Strategy, BwriteFlags, TypeOK
  <2> QED BY <1>0, <1>3, <2>1, <2>2, QuietWake, NoneAssumption DEF BflushOne, Running, Strategy
<1>4. CASE BawriteTail(p) \/ BflushDone(p)
  <2>1. /\ \A b \in Bufs : b_flags[b] \subseteq b_flags'[b]
        /\ UNCHANGED <<wchan, flwanted, active, av>> /\ wchan[p] = None
    BY <1>0, <1>4 DEF BawriteTail, BflushDone, TypeOK, Running
  <2> QED BY <1>0, <2>1, QuietWake, NoneAssumption
<1> QED BY <1>1, <1>2, <1>3, <1>4 DEF Caller

(* The disk interrupt preserves WakeInv: iodone itself wakes who waits for *)
(* a transfer, brelse who waits for the buffer.                            *)
LEMMA IodoneWake ==
  ASSUME IInv, WakeInv, NEW b \in Bufs, NEW err \in BOOLEAN, Iodone(b, err)
  PROVE  WakeInv'
<1> DEFINE fl == b_flags[b] \cup {"DONE"} \cup (IF err THEN {"ERROR"} ELSE {})
<1>1. UNCHANGED <<pc, bp>> /\ active' = active \ {b}
  BY DEF Iodone
<1>2. CASE "ASYNC" \in fl
  <2>1. Brelse(b, fl) /\ "ASYNC" \in b_flags[b]
    BY <1>2 DEF Iodone
  <2> QED BY <1>1, <2>1, NobodyElseAwaits, BrelseWake
<1>3. CASE "ASYNC" \notin fl
  <2>1. /\ b_flags' = [b_flags EXCEPT ![b] = fl \ {"WANTED"}]
        /\ Wakeup({b}) /\ UNCHANGED <<av, flwanted>>
    BY <1>3 DEF Iodone
  <2>2. ASSUME NEW q \in Procs PROVE WakeFor(q)'
    <3>1. WakeFor(q) /\ wchan'[q] = IF wchan[q] = b THEN None ELSE wchan[q]
      BY <2>1 DEF WakeInv, Wakeup
    <3>2. \A c \in Bufs \ {b} : b_flags'[c] = b_flags[c]
      BY <2>1 DEF IInv, TypeOK
    <3> QED BY <1>1, <2>1, <3>1, <3>2, NoneAssumption DEF WakeFor
  <2> QED BY <2>2 DEF WakeInv
<1> QED BY <1>2, <1>3

-----------------------------------------------------------------------------
(***************************************************************************)
(* Transfers awaited                                                       *)
(***************************************************************************)
(* A step of p that undoes the transfer of no buffer that is owned keeps   *)
(* PendingInv, as far as the others are concerned.                         *)
LEMMA OthersPending ==
  ASSUME IInv, PendingInv, NEW p \in Procs, Alone(p), PendingFor(p)',
         \A c \in Bufs : Complete(c) => Complete(c)' \/ av[c] # "none"
  PROVE  PendingInv'
<1> SUFFICES ASSUME NEW q \in Procs \ {p} PROVE PendingFor(q)'
  BY DEF PendingInv
<1>1. PendingFor(q)
  BY DEF PendingInv
<1>2. \A c \in Owns(q) : c \in Bufs /\ av[c] = "none"
  <2>1. Owns(q) \subseteq Bufs
    BY DEF IInv, TypeOK, PcInv, PcFor, Owns, OwningPCs, HoldingPCs, PCs
  <2> QED BY <2>1 DEF IInv, PlaceInv, Place, Owned
<1>3. /\ pc[q] \in {"iowait", "wwait"} => bp[q] \in Owns(q)
      /\ kept[q] # None => kept[q] \in Owns(q)
  BY DEF Owns, OwningPCs
<1> QED BY <1>1, <1>2, <1>3 DEF PendingFor, Alone, Complete

(* Giving a buffer to the driver, or releasing it with its flags, undoes   *)
(* no transfer.                                                            *)
LEMMA StrategyCompletes ==
  ASSUME TypeOK, NEW b \in Bufs, NEW fl, Strategy(b, fl)
  PROVE  Complete(b)' /\ \A c \in Bufs : Complete(c) => Complete(c)'
BY DEF TypeOK, Strategy, Complete

(* So does brelse.                                                         *)
LEMMA BrelseCompletes ==
  ASSUME TypeOK, NEW b \in Bufs, NEW fl, Brelse(b, fl),
         b_flags[b] \subseteq fl, UNCHANGED active
  PROVE  \A c \in Bufs : Complete(c) => Complete(c)'
BY DEF TypeOK, Brelse, BrelseFlags, Complete

(* Every step of a process preserves PendingInv.                           *)
LEMMA ProceedPending ==
  ASSUME IInv, PendingInv, NEW p \in Procs, Proceed(p)
  PROVE  PendingInv'
<1> USE DEF bufVars, diskVars, procVars
<1>0. TypeOK /\ PcFor(p) /\ PendingFor(p) /\ Alone(p)
  BY ProceedsAlone DEF IInv, PcInv, PendingInv
<1>a. pc[p] \in OwningPCs => bp[p] \in Bufs
  BY Held
<1>b. kept[p] # None => kept[p] \in Bufs /\ av[kept[p]] = "none" /\ Complete(kept[p])
  BY <1>0 DEF TypeOK, IInv, PlaceInv, Place, Owned, Owns, PendingFor
<1>1. CASE Getblk(p)
  <2>1. pc'[p] \in {"getblk", "claim", "victim", "got"} /\ UNCHANGED kept
    BY <1>0, <1>1 DEF Getblk, GetblkHit, GetblkBusy, GetblkClaim, GetblkSleep, GetblkVictim,
      VictimTail, GetblkAssign, TypeOK, Goto
  <2>2. \A c \in Bufs : Complete(c) => Complete(c)' \/ av[c] # "none"
    <3>1. CASE GetblkVictim(p)
      BY <1>0, <3>1, StrategyCompletes DEF GetblkVictim, Reusable
    <3>2. CASE GetblkAssign(p)
      <4>1. PICK b \in Bufs : /\ av[b] # "none" /\ UNCHANGED active
                              /\ \A c \in Bufs \ {b} : b_flags'[c] = b_flags[c]
        BY <1>0, <3>2 DEF GetblkAssign, Reusable, TypeOK
      <4> QED BY <4>1 DEF Complete
    <3>3. CASE GetblkHit(p) \/ GetblkBusy(p) \/ GetblkClaim(p) \/ GetblkSleep(p) \/ VictimTail(p)
      <4>1. UNCHANGED active /\ \A c \in Bufs : b_flags[c] \subseteq b_flags'[c]
        BY <1>0, <3>3 DEF GetblkHit, GetblkBusy, GetblkClaim, GetblkSleep, VictimTail, TypeOK
      <4> QED BY <4>1 DEF Complete
    <3> QED BY <1>1, <3>1, <3>2, <3>3 DEF Getblk
  <2>3. PendingFor(p)'
    BY <1>b, <2>1, <2>2 DEF PendingFor, Complete
  <2> QED BY <1>0, <2>2, <2>3, OthersPending
<1>2. CASE Bread(p)
  <2>1. CASE BreadCached(p) \/ IowaitSleep(p) \/ IowaitDone(p)
    <3>1. UNCHANGED <<b_flags, active, kept, bp>>
      BY <2>1 DEF BreadCached, IowaitSleep, IowaitDone
    <3>2. pc'[p] \in {"iowait", "wwait"} => pc'[p] = pc[p]
      BY <1>0, <2>1 DEF BreadCached, IowaitSleep, IowaitDone, TypeOK, Goto
    <3>3. PendingFor(p)' /\ \A c \in Bufs : Complete(c) => Complete(c)'
      BY <1>0, <3>1, <3>2 DEF PendingFor, Complete
    <3> QED BY <1>0, <3>3, OthersPending
  <2>2. CASE BreadStart(p)
    <3>1. Strategy(bp[p], b_flags[bp[p]] \cup {"READ"}) /\ bp[p] \in Bufs /\ UNCHANGED <<bp, kept>>
      BY <1>a, <2>2 DEF BreadStart, OwningPCs
    <3>2. Complete(bp[p])' /\ \A c \in Bufs : Complete(c) => Complete(c)'
      BY <1>0, <3>1, StrategyCompletes
    <3>3. PendingFor(p)'
      BY <1>b, <3>1, <3>2 DEF PendingFor, Complete
    <3> QED BY <1>0, <3>2, <3>3, OthersPending
  <2>3. CASE BreadaMain(p)
    <3>1. PICK b \in Bufs :
            /\ b = bp[p] /\ kept[p] = None
            /\ IF "DONE" \in b_flags[b] THEN UNCHANGED <<b_flags, active>>
               ELSE Strategy(b, b_flags[b] \cup {"READ"})
      BY <1>0, <1>a, <2>3 DEF BreadaMain, OwningPCs, PcFor
    <3>2. Complete(b)' /\ \A c \in Bufs : Complete(c) => Complete(c)'
      <4>1. CASE "DONE" \in b_flags[b]
        BY <3>1, <4>1 DEF Complete
      <4>2. CASE "DONE" \notin b_flags[b]
        BY <1>0, <3>1, <4>2, StrategyCompletes
      <4> QED BY <4>1, <4>2
    <3>3. \/ pc'[p] = "getblk" /\ kept'[p] = b
          \/ bp'[p] = b /\ kept'[p] = None
      BY <1>0, <2>3, <3>1 DEF BreadaMain, TypeOK, Goto
    <3>4. PendingFor(p)'
      BY <3>2, <3>3 DEF PendingFor, Complete
    <3> QED BY <1>0, <3>2, <3>4, OthersPending
  <2>4. CASE BreadaCached(p) \/ BreadaAhead(p)
    <3>1. bp[p] \in Bufs /\ BreadaFinish(p)
      BY <1>a, <2>4 DEF BreadaCached, BreadaAhead, OwningPCs
    <3>2. \A c \in Bufs : Complete(c) => Complete(c)'
      <4>1. CASE BreadaCached(p)
        BY <1>0, <3>1, <4>1, BrelseCompletes DEF BreadaCached
      <4>2. CASE BreadaAhead(p)
        BY <1>0, <3>1, <4>2, StrategyCompletes DEF BreadaAhead
      <4> QED BY <2>4, <4>1, <4>2
    <3>3. kept'[p] = None /\ (pc'[p] = "getblk" \/ (kept[p] # None /\ bp'[p] = kept[p]))
      BY <1>0, <3>1 DEF BreadaFinish, TypeOK, Goto
    <3>4. PendingFor(p)'
      BY <1>b, <3>2, <3>3 DEF PendingFor, Complete
    <3> QED BY <1>0, <3>2, <3>4, OthersPending
  <2> QED BY <1>2, <2>1, <2>2, <2>3, <2>4 DEF Bread
<1>3. CASE Caller(p)
  <2>0. kept[p] = None
    BY <1>0, <1>3 DEF PcFor, Caller, FsreadDone, FswriteError, FswritePart, FswriteDir, BwriteDone,
      FswriteFull, BawriteTail, BflushOne, BflushDone
  <2>1. CASE FsreadDone(p) \/ FswriteError(p) \/ FswritePart(p) \/ BwriteDone(p)
    <3>1. PICK fl : Brelse(bp[p], fl) /\ b_flags[bp[p]] \subseteq fl
      BY <2>1 DEF FsreadDone, FswriteError, FswritePart, BwriteDone
    <3>2. pc'[p] = "user" /\ kept'[p] = None /\ bp[p] \in Bufs /\ UNCHANGED active
      BY <1>0, <1>a, <2>0, <2>1 DEF FsreadDone, FswriteError, FswritePart, BwriteDone, Return, Goto,
        TypeOK, OwningPCs
    <3>3. \A c \in Bufs : Complete(c) => Complete(c)'
      BY <1>0, <3>1, <3>2, BrelseCompletes
    <3> QED BY <1>0, <3>2, <3>3, OthersPending DEF PendingFor
  <2>2. CASE FswriteDir(p) \/ FswriteFull(p)
    <3>1. PICK fl : Strategy(bp[p], fl)
      BY <2>2 DEF FswriteDir, FswriteFull
    <3>2. bp[p] \in Bufs /\ UNCHANGED <<bp, kept>>
      BY <1>a, <2>2 DEF FswriteDir, FswriteFull, OwningPCs
    <3>3. Complete(bp[p])' /\ \A c \in Bufs : Complete(c) => Complete(c)'
      BY <1>0, <3>1, <3>2, StrategyCompletes
    <3>4. PendingFor(p)'
      BY <2>0, <3>2, <3>3 DEF PendingFor, Complete
    <3> QED BY <1>0, <3>3, <3>4, OthersPending
  <2>3. CASE BflushOne(p)
    <3>1. PICK b \in Bufs : Strategy(b, BwriteFlags(b_flags[b]) \cup {"BUSY", "ASYNC", "AGE"})
      BY <2>3 DEF BflushOne, Flushable
    <3>2. \A c \in Bufs : Complete(c) => Complete(c)'
      BY <1>0, <3>1, StrategyCompletes
    <3>3. PendingFor(p)'
      BY <2>0, <2>3 DEF BflushOne, PendingFor
    <3> QED BY <1>0, <3>2, <3>3, OthersPending
  <2>4. CASE BawriteTail(p) \/ BflushDone(p)
    <3>1. /\ \A c \in Bufs : b_flags[c] \subseteq b_flags'[c]
          /\ UNCHANGED active /\ pc'[p] = "user" /\ kept'[p] = None
      BY <1>0, <2>0, <2>4 DEF BawriteTail, BflushDone, TypeOK, Return, Goto
    <3>2. PendingFor(p)' /\ \A c \in Bufs : Complete(c) => Complete(c)'
      BY <3>1 DEF PendingFor, Complete
    <3> QED BY <1>0, <3>2, OthersPending
  <2> QED BY <1>3, <2>1, <2>2, <2>3, <2>4 DEF Caller
<1> QED BY <1>1, <1>2, <1>3 DEF Proceed

(* The disk interrupt preserves PendingInv.                                *)
LEMMA IodonePending ==
  ASSUME IInv, PendingInv, NEW b \in Bufs, NEW err \in BOOLEAN, Iodone(b, err)
  PROVE  PendingInv'
<1> DEFINE fl == b_flags[b] \cup {"DONE"} \cup (IF err THEN {"ERROR"} ELSE {})
<1>1. UNCHANGED <<pc, bp, kept>> /\ active' = active \ {b}
  BY DEF Iodone
<1>2. "DONE" \in b_flags'[b] /\ \A c \in Bufs \ {b} : b_flags'[c] = b_flags[c]
  <2>1. CASE "ASYNC" \in fl
    <3>1. Brelse(b, fl)
      BY <2>1 DEF Iodone
    <3> QED BY <3>1 DEF Brelse, BrelseFlags, IInv, TypeOK
  <2>2. CASE "ASYNC" \notin fl
    <3>1. b_flags' = [b_flags EXCEPT ![b] = fl \ {"WANTED"}]
      BY <2>2 DEF Iodone
    <3> QED BY <3>1 DEF IInv, TypeOK
  <2> QED BY <2>1, <2>2
<1>3. \A c \in Bufs : Complete(c) => Complete(c)'
  BY <1>1, <1>2 DEF Complete
<1>4. \A q \in Procs : /\ pc[q] \in {"iowait", "wwait"} => bp[q] \in Bufs
                       /\ kept[q] # None => kept[q] \in Bufs
  BY DEF IInv, TypeOK, PcInv, PcFor, HoldingPCs, PCs
<1>5. ASSUME NEW q \in Procs PROVE PendingFor(q)'
  <2>1. /\ pc'[q] = pc[q] /\ bp'[q] = bp[q] /\ kept'[q] = kept[q] /\ PendingFor(q)
    BY <1>1, <1>5 DEF PendingInv
  <2> QED BY <1>3, <1>4, <1>5, <2>1 DEF PendingFor, Complete
<1> QED BY <1>5 DEF PendingInv

(* No lost wakeup in the cache.  Who sleeps in getblk sleeps on a busy     *)
(* buffer marked B_WANTED, or on the marked free list when nothing is      *)
(* free, though brelse, bwrite, bflush and iodone all rewrite those flags; *)
(* who sleeps in iowait sleeps on a transfer the driver still has.         *)
THEOREM SleepersWake == Spec => []SleepersWillWake
<1> DEFINE SInv == IInv /\ WakeInv /\ PendingInv
<1>1. Init => SInv
  <2>1. Init => WakeInv /\ PendingInv
    BY NoneAssumption DEF Init, WakeInv, WakeFor, PendingInv, PendingFor
  <2> QED BY <2>1, InitIInv
<1>2. SInv /\ [Next]_vars => SInv'
  <2> SUFFICES ASSUME SInv, [Next]_vars PROVE WakeInv' /\ PendingInv'
    BY NextIInv
  <2>1. ASSUME NEW p \in Procs, Proceed(p) PROVE WakeInv' /\ PendingInv'
    BY <2>1, GetblkWake, BreadWake, CallerWake, ProceedPending DEF Proceed
  <2>2. ASSUME NEW p \in Procs, NEW c \in CallsOf[p], Start(p, c) PROVE WakeInv' /\ PendingInv'
    <3>1. /\ Alone(p) /\ UNCHANGED <<bufVars, diskVars, wchan, bp, kept>>
          /\ pc[p] = "user" /\ pc'[p] \in {"bflush", "getblk"}
      BY <2>2, StartsAlone DEF Start, Enter, Goto, IInv, TypeOK
    <3>2. wchan[p] \notin Bufs
      BY <3>1 DEF WakeInv, WakeFor
    <3>3. WakeInv'
      BY <3>1, <3>2, QuietWake DEF bufVars, diskVars
    <3>4. PendingFor(p)'
      BY <3>1 DEF PendingInv, PendingFor, Complete, bufVars, diskVars
    <3>5. PendingInv'
      BY <3>1, <3>4, OthersPending DEF bufVars, diskVars, Complete
    <3> QED BY <3>3, <3>5
  <2>3. ASSUME NEW b \in Bufs, Interrupt(b) PROVE WakeInv' /\ PendingInv'
    BY <2>3, IodoneWake, IodonePending DEF Interrupt
  <2>4. CASE UNCHANGED vars
    BY <2>4 DEF vars, bufVars, diskVars, procVars, WakeInv, WakeFor, PendingInv, PendingFor, Complete
  <2> HIDE DEF SInv
  <2> QED BY <2>1, <2>2, <2>3, <2>4 DEF Next
<1>3. SInv => SleepersWillWake
  <2> SUFFICES ASSUME SInv, NEW p \in Procs
               PROVE  /\ wchan[p] = bfreelist => flwanted /\ Reusable = {}
                      /\ wchan[p] \in Bufs =>
                           IF pc[p] = "getblk" THEN {"BUSY", "WANTED"} \subseteq b_flags[wchan[p]]
                           ELSE wchan[p] \in active /\ "DONE" \notin b_flags[wchan[p]]
    BY DEF SleepersWillWake
  <2>1. WakeFor(p) /\ \A b \in active : "DONE" \notin b_flags[b]
    BY DEF WakeInv, IInv, TypeOK, PlaceInv, Place
  <2> QED BY <2>1 DEF WakeFor, Reusable
<1> QED BY <1>1, <1>2, <1>3, PTL DEF Spec

-----------------------------------------------------------------------------
(***************************************************************************)
(* The CPU, and what each process has found                                *)
(***************************************************************************)
(* While p runs, no other process is at a place where it keeps the CPU.    *)
LEMMA OneCpu ==
  ASSUME CallInv, NEW p \in Procs, cur \in {p, None}
  PROVE  \A q \in Procs \ {p} : pc[q] \notin CpuPCs
BY NoneAssumption DEF CallInv, CallFor

(* What a process owns is a busy buffer that nobody else owns.             *)
LEMMA OwnedIsBusy ==
  ASSUME IInv, NEW q \in Procs, NEW c \in Owns(q)
  PROVE  /\ c \in Bufs /\ av[c] = "none"
         /\ "BUSY" \in b_flags[c] /\ "ASYNC" \notin b_flags[c]
         /\ \A r \in Procs \ {q} : c \notin Owns(r)
<1>1. c \in Bufs
  BY DEF IInv, TypeOK, PcInv, PcFor, Owns, OwningPCs, HoldingPCs, PCs
<1> QED BY <1>1 DEF IInv, PlaceInv, Place, Owned

(* A process that takes a step has the CPU.                                *)
LEMMA Proceeds == ASSUME NEW p \in Procs, Proceed(p) PROVE Running(p)
<1>1. Getblk(p) => Running(p)
  BY DEF Getblk, GetblkHit, GetblkBusy, GetblkClaim, GetblkSleep, GetblkVictim, VictimTail,
    GetblkAssign
<1>2. Bread(p) => Running(p)
  BY DEF Bread, BreadCached, BreadStart, BreadaMain, BreadaCached, BreadaAhead, IowaitSleep,
    IowaitDone
<1>3. Caller(p) => Running(p)
  BY DEF Caller, FsreadDone, FswriteError, FswritePart, FswriteDir, BwriteDone, FswriteFull,
    BawriteTail, BflushOne, BflushDone
<1> QED BY <1>1, <1>2, <1>3 DEF Proceed

(* What a step of p must keep of its own for CallInv.                      *)
LEMMA OthersCall ==
  ASSUME CallInv, NEW p \in Procs, Alone(p), cur \in {p, None}, CallFor(p)'
  PROVE  CallInv'
<1> SUFFICES ASSUME NEW q \in Procs \ {p} PROVE CallFor(q)'
  BY DEF CallInv
<1>1. pc[q] \notin CpuPCs /\ CallFor(q)
  BY OneCpu DEF CallInv
<1>2. pc'[q] = pc[q] /\ call'[q] = call[q] /\ stage'[q] = stage[q]
  BY DEF Alone
<1> QED BY <1>1, <1>2 DEF CallFor, CpuPCs

(* Every step of a process preserves CallInv.                              *)
LEMMA ProceedCall == ASSUME IInv, CallInv, NEW p \in Procs, Proceed(p) PROVE CallInv'
<1> USE DEF procVars, Goto
<1>0. TypeOK /\ PcFor(p) /\ CallFor(p) /\ Alone(p) /\ cur \in {p, None}
  BY ProceedsAlone, Proceeds DEF IInv, PcInv, CallInv, Running
<1>1. CASE Getblk(p)
  <2>1. /\ pc[p] \in {"getblk", "claim", "victim"} /\ UNCHANGED <<call, stage>>
        /\ pc'[p] \in {"getblk", "claim", "victim", "got"}
        /\ pc'[p] # "getblk" => cur' = p
    BY <1>0, <1>1 DEF Getblk, GetblkHit, GetblkBusy, GetblkClaim, GetblkSleep, GetblkVictim,
      VictimTail, GetblkAssign, TypeOK
  <2>2. CallFor(p)'
    BY <1>0, <2>1 DEF CallFor, CpuPCs
  <2> QED BY <1>0, <2>2, OthersCall
<1>2. CASE Bread(p)
  <2>1. CASE BreadCached(p) \/ BreadStart(p) \/ IowaitSleep(p) \/ IowaitDone(p)
    <3>1. /\ pc[p] \in {"got", "iowait", "wwait"} /\ UNCHANGED <<call, stage>>
          /\ pc'[p] \in {"iomove", "iowait", "wwait", "wrote"}
          /\ pc'[p] \in {"wwait", "wrote"} => pc[p] = "wwait"
      BY <1>0, <2>1 DEF BreadCached, BreadStart, IowaitSleep, IowaitDone, TypeOK
    <3>2. CallFor(p)'
      BY <1>0, <3>1 DEF CallFor, CpuPCs
    <3> QED BY <1>0, <3>2, OthersCall
  <2>2. CASE BreadaMain(p)
    <3>1. /\ pc[p] = "got" /\ UNCHANGED call
          /\ pc'[p] \in {"getblk", "iowait"}
          /\ stage'[p] = "ra" => stage[p] = "ra" \/ (call[p].kind = "reada" /\ call[p].ra # NODEV)
      BY <1>0, <2>2 DEF BreadaMain, InBreada, WantsAhead, TypeOK
    <3>2. CallFor(p)'
      BY <1>0, <3>1 DEF CallFor, CpuPCs
    <3> QED BY <1>0, <3>2, OthersCall
  <2>3. CASE BreadaCached(p) \/ BreadaAhead(p)
    <3>1. pc[p] = "got" /\ BreadaFinish(p)
      BY <2>3 DEF BreadaCached, BreadaAhead
    <3>2. /\ UNCHANGED call /\ pc'[p] \in {"getblk", "iowait"}
          /\ stage'[p] = "ra" => stage[p] = "ra"
      BY <1>0, <3>1 DEF BreadaFinish, TypeOK
    <3>3. CallFor(p)'
      BY <1>0, <3>1, <3>2 DEF CallFor, CpuPCs
    <3> QED BY <1>0, <3>3, OthersCall
  <2> QED BY <1>2, <2>1, <2>2, <2>3 DEF Bread
<1>3. CASE Caller(p)
  <2>1. CASE Return(p)
    <3>1. pc'[p] = "user" /\ stage'[p] = "bread"
      BY <1>0, <2>1 DEF Return, TypeOK
    <3>2. CallFor(p)'
      BY <3>1 DEF CallFor, CpuPCs
    <3> QED BY <1>0, <3>2, OthersCall
  <2>2. CASE FswriteDir(p) \/ FswriteFull(p)
    <3>1. /\ pc[p] = "iomove" /\ UNCHANGED <<call, stage>>
          /\ pc'[p] \in {"wwait", "bawrote", "bawrote_delayed"}
          /\ pc'[p] = "wwait" => call[p].kind = "dir"
      BY <1>0, <2>2 DEF FswriteDir, FswriteFull, TypeOK
    <3>2. CallFor(p)'
      BY <1>0, <3>1 DEF CallFor, CpuPCs
    <3> QED BY <1>0, <3>2, OthersCall
  <2>3. CASE BflushOne(p)
    BY <2>3 DEF BflushOne, CallInv, CallFor, LastClose
  <2> QED BY <1>3, <2>1, <2>2, <2>3 DEF Caller, FsreadDone, FswriteError, FswritePart, BwriteDone,
            BawriteTail, BflushDone
<1> QED BY <1>1, <1>2, <1>3 DEF Proceed

(* A system call starts with CallInv.                                      *)
LEMMA StartCall ==
  ASSUME IInv, CallInv, NEW p \in Procs, NEW c \in CallsOf[p], Start(p, c)
  PROVE  CallInv'
<1>0. Alone(p) /\ cur = None /\ TypeOK /\ c \in Call
  BY StartsAlone, CallsAssumption DEF Start, Enter, IInv
<1>1. /\ pc'[p] = IF c.kind \in {"sync", "close", "umount"} THEN "bflush" ELSE "getblk"
      /\ cur' = p /\ call' = [call EXCEPT ![p] = c] /\ stage'[p] = FirstStage(c)
      /\ c.kind = "close" => LastClose(p, DevOf(c.blk))
  BY <1>0 DEF Start, Enter, TypeOK, Goto
<1>2. call'[p] = c /\ \A q \in Procs \ {p} : call'[q] = call[q]
  BY <1>0, <1>1 DEF TypeOK
<1>3. stage'[p] = "ra" => c.kind = "reada" /\ c.ra # NODEV
  BY <1>1 DEF FirstStage, WantsAhead
<1>4. c.kind = "close" => LastClose(p, DevOf(c.blk))'
  BY <1>1, <1>2 DEF LastClose
<1>5. CallFor(p)'
  BY <1>1, <1>2, <1>3, <1>4 DEF CallFor, CpuPCs, LastClose
<1> QED BY <1>0, <1>5, OthersCall

(* Buffer c neither changes its block, except to lose it, nor is it        *)
(* invalidated.                                                            *)
Keeps(c) ==
  /\ b_blk'[c] \in {b_blk[c], NODEV}
  /\ "INVAL" \in b_flags'[c] => "INVAL" \in b_flags[c]

(* What the others have found stays found if the buffers they own keep     *)
(* their blocks.                                                           *)
LEMMA OthersFound ==
  ASSUME IInv, CallInv, FoundInv, NEW p \in Procs, Alone(p), cur \in {p, None}, FoundFor(p)',
         \A q \in Procs \ {p} : \A c \in Owns(q) : Keeps(c)
  PROVE  FoundInv'
<1> SUFFICES ASSUME NEW q \in Procs \ {p} PROVE FoundFor(q)'
  BY DEF FoundInv
<1>1. pc[q] \notin CpuPCs /\ FoundFor(q)
  BY OneCpu DEF FoundInv
<1>2. /\ pc'[q] = pc[q] /\ bp'[q] = bp[q] /\ kept'[q] = kept[q]
      /\ call'[q] = call[q] /\ stage'[q] = stage[q]
  BY DEF Alone
<1>3. pc[q] \in OwningPCs => Keeps(bp[q])
  BY DEF Owns
<1>4. kept[q] # None => Keeps(kept[q])
  BY DEF Owns
<1>5. Finds(q) = call[q].blk /\ Finds(q)' = call[q].blk
  BY <1>1, <1>2 DEF Finds, CpuPCs
<1>6. pc'[q] \in OwningPCs \cup {"claim"} =>
        /\ b_blk'[bp'[q]] \in {Finds(q)', NODEV}
        /\ call'[q].kind # "hole" => "INVAL" \notin b_flags'[bp'[q]]
  BY <1>1, <1>2, <1>3, <1>5 DEF FoundFor, Keeps, CpuPCs
<1>7. kept'[q] # None =>
        b_blk'[kept'[q]] \in {call'[q].blk, NODEV} /\ "INVAL" \notin b_flags'[kept'[q]]
  BY <1>1, <1>2, <1>4 DEF FoundFor, Keeps
<1> QED BY <1>6, <1>7 DEF FoundFor

(* The strategy routine, or brelse, given a buffer with no new B_INVAL,    *)
(* lets every buffer keep its block.                                       *)
LEMMA StrategyKeeps ==
  ASSUME TypeOK, NEW b, NEW fl, Strategy(b, fl), UNCHANGED b_blk,
         "INVAL" \in fl => "INVAL" \in b_flags[b]
  PROVE  \A c \in Bufs : Keeps(c)
BY DEF TypeOK, Strategy, Keeps

(* brelse likewise.                                                        *)
LEMMA BrelseKeeps ==
  ASSUME TypeOK, NEW b, NEW fl, Brelse(b, fl), "INVAL" \in fl => "INVAL" \in b_flags[b]
  PROVE  \A c \in Bufs : Keeps(c)
BY DEF TypeOK, Brelse, BrelseFlags, Keeps

(* What getblk finds in a hash chain, or makes of a buffer it reuses, is   *)
(* the buffer of its block.                                                *)
LEMMA GetblkFound ==
  ASSUME IInv, CallInv, FoundInv, NEW p \in Procs, Getblk(p)
  PROVE  FoundInv'
<1> USE DEF bufVars, diskVars, procVars, Goto
<1>0. /\ TypeOK /\ PcFor(p) /\ CallFor(p) /\ FoundFor(p) /\ Alone(p) /\ cur \in {p, None}
      /\ UNCHANGED <<call, stage, kept>>
  <2>1. UNCHANGED <<call, stage, kept>>
    BY DEF Getblk, GetblkHit, GetblkBusy, GetblkClaim, GetblkSleep, GetblkVictim,
      VictimTail, GetblkAssign
  <2> QED BY <2>1, ProceedsAlone, Proceeds DEF IInv, PcInv, CallInv, FoundInv, Proceed, Running
<1>a. kept[p] # None => kept[p] \in Owns(p) /\ kept[p] \in Bufs
  BY <1>0 DEF Owns, TypeOK
<1>b. \A q \in Procs : \A c \in Owns(q) : c \in Bufs
  BY OwnedIsBusy
<1>c. ASSUME \A c \in Bufs : Keeps(c), pc'[p] \notin OwningPCs \cup {"claim"} PROVE FoundInv'
  <2>1. FoundFor(p)'
    BY <1>0, <1>a, <1>c DEF FoundFor, Keeps
  <2> QED BY <1>0, <1>b, <1>c, <2>1, OthersFound
<1>1. CASE GetblkHit(p)
  <2>1. PICK b \in Bufs : Match(b, Want(p)) /\ bp' = [bp EXCEPT ![p] = b]
    BY <1>1 DEF GetblkHit
  <2>2. UNCHANGED <<b_blk, b_flags>> /\ pc'[p] = "claim" /\ bp'[p] = b
    BY <1>0, <1>1, <2>1 DEF GetblkHit, TypeOK
  <2>3. Finds(p)' = Want(p)
    BY <1>0, <2>2 DEF Finds, Want
  <2>4. FoundFor(p)'
    BY <1>0, <2>1, <2>2, <2>3 DEF FoundFor, Match
  <2>5. \A c \in Bufs : Keeps(c)
    BY <2>2 DEF Keeps
  <2> QED BY <1>0, <1>b, <2>4, <2>5, OthersFound
<1>2. CASE GetblkBusy(p) \/ VictimTail(p) \/ GetblkSleep(p)
  <2>1. \A c \in Bufs : Keeps(c)
    BY <1>0, <1>2 DEF GetblkBusy, VictimTail, GetblkSleep, TypeOK, Keeps
  <2>2. pc'[p] = "getblk"
    BY <1>0, <1>2 DEF GetblkBusy, VictimTail, GetblkSleep, TypeOK
  <2> QED BY <1>c, <2>1, <2>2 DEF OwningPCs
<1>3. CASE GetblkClaim(p)
  <2>1. /\ UNCHANGED <<b_blk, bp>> /\ pc[p] = "claim" /\ pc'[p] = "got"
        /\ bp[p] \in Bufs /\ b_flags' = [b_flags EXCEPT ![bp[p]] = @ \cup {"BUSY"}]
    BY <1>0, <1>3 DEF GetblkClaim, TypeOK, PcFor, HoldingPCs, PCs
  <2>2. \A c \in Bufs : Keeps(c)
    BY <1>0, <2>1 DEF TypeOK, Keeps
  <2>3. Finds(p) = Want(p) /\ Finds(p)' = Want(p)
    BY <1>0, <2>1 DEF Finds, Want
  <2>4. FoundFor(p)'
    BY <1>0, <1>a, <2>1, <2>2, <2>3 DEF FoundFor, Keeps
  <2> QED BY <1>0, <1>b, <2>2, <2>4, OthersFound
<1>4. CASE GetblkVictim(p)
  <2>1. PICK b \in Bufs : Strategy(b, BwriteFlags(b_flags[b]) \cup {"BUSY", "ASYNC"})
    BY <1>4 DEF GetblkVictim, Reusable
  <2>2. \A c \in Bufs : Keeps(c)
    BY <1>0, <1>4, <2>1, StrategyKeeps DEF GetblkVictim, BwriteFlags
  <2>3. pc'[p] = "victim"
    BY <1>0, <1>4 DEF GetblkVictim, TypeOK
  <2> QED BY <1>c, <2>2, <2>3 DEF OwningPCs
<1>5. CASE GetblkAssign(p)
  <2>1. PICK b \in Bufs :
          /\ av[b] # "none"
          /\ b_flags' = [b_flags EXCEPT ![b] =
                           IF Want(p) = NODEV THEN {"BUSY", "INVAL"} ELSE {"BUSY"}]
          /\ b_blk' = [b_blk EXCEPT ![b] = Want(p)]
          /\ bp' = [bp EXCEPT ![p] = b]
    BY <1>5 DEF GetblkAssign, Reusable
  <2>2. pc'[p] = "got" /\ bp'[p] = b /\ call[p] \in Call
    BY <1>0, <1>5, <2>1 DEF GetblkAssign, TypeOK, PcFor
  <2>3. Finds(p)' = Want(p)
    BY <1>0, <2>2 DEF Finds, Want
  <2>4. \A q \in Procs : \A c \in Owns(q) : c # b /\ Keeps(c)
    BY <1>0, <2>1, OwnedIsBusy DEF TypeOK, Keeps
  <2>5. call[p].kind # "hole" => Want(p) # NODEV
    <3>1. NODEV \notin Blocks
      BY Zenon, NoneAssumption DEF NODEV
    <3>2. call[p].blk \in Blocks
      BY <2>2 DEF Call
    <3> QED BY <1>0, <3>1, <3>2 DEF CallFor, Want
  <2>6. b_blk'[b] = Want(p) /\ (call[p].kind # "hole" => "INVAL" \notin b_flags'[b])
    BY <1>0, <2>1, <2>5 DEF TypeOK
  <2>7. kept[p] # None =>
          b_blk'[kept[p]] \in {call[p].blk, NODEV} /\ "INVAL" \notin b_flags'[kept[p]]
    BY <1>0, <1>a, <2>4 DEF FoundFor, Keeps
  <2>8. FoundFor(p)'
    BY <1>0, <2>2, <2>3, <2>6, <2>7 DEF FoundFor
  <2> QED BY <1>0, <2>4, <2>8, OthersFound
<1> QED BY <1>1, <1>2, <1>3, <1>4, <1>5 DEF Getblk

(* What breada and bread keep, wait for and copy is the block of the call. *)
LEMMA BreadFound ==
  ASSUME IInv, CallInv, FoundInv, NEW p \in Procs, Bread(p)
  PROVE  FoundInv'
<1> USE DEF bufVars, diskVars, procVars, Goto
<1>0. /\ TypeOK /\ PcFor(p) /\ CallFor(p) /\ FoundFor(p) /\ Alone(p) /\ cur \in {p, None}
  BY ProceedsAlone, Proceeds DEF IInv, PcInv, CallInv, FoundInv, Proceed, Running
<1>a. /\ kept[p] # None => kept[p] \in Owns(p) /\ kept[p] \in Bufs
      /\ pc[p] \in OwningPCs => bp[p] \in Bufs /\ bp[p] # kept[p]
  BY <1>0, Held DEF Owns, TypeOK
<1>b. \A q \in Procs : \A c \in Owns(q) : c \in Bufs
  BY OwnedIsBusy
<1>1. CASE BreadCached(p) \/ BreadStart(p)
  <2>1. /\ UNCHANGED <<b_blk, bp, kept, call, stage>> /\ pc[p] = "got"
        /\ pc'[p] \in {"iomove", "iowait"} /\ ~InBreada(p)
    BY <1>0, <1>1 DEF BreadCached, BreadStart, TypeOK
  <2>2. \A c \in Bufs : Keeps(c)
    <3>1. CASE BreadCached(p)
      BY <3>1 DEF BreadCached, Keeps
    <3>2. CASE BreadStart(p)
      BY <1>0, <3>2, StrategyKeeps DEF BreadStart
    <3> QED BY <1>1, <3>1, <3>2
  <2>3. Finds(p) \in {call[p].blk, NODEV} /\ Finds(p)' = call[p].blk
    BY <1>0, <2>1 DEF Finds, Want, InBreada, CallFor
  <2>4. FoundFor(p)'
    BY <1>0, <1>a, <2>1, <2>2, <2>3 DEF FoundFor, Keeps, OwningPCs
  <2> QED BY <1>0, <1>b, <2>2, <2>4, OthersFound
<1>2. CASE BreadaMain(p)
  <2>1. /\ UNCHANGED <<b_blk, call>> /\ pc[p] = "got" /\ stage[p] = "main"
        /\ call[p].kind = "reada"
        /\ \/ pc'[p] = "getblk" /\ kept'[p] = bp[p]
           \/ pc'[p] = "iowait" /\ bp'[p] = bp[p] /\ kept'[p] = kept[p]
    BY <1>0, <1>2 DEF BreadaMain, InBreada, TypeOK
  <2>2. \A c \in Bufs : Keeps(c)
    <3>1. CASE UNCHANGED b_flags
      BY <2>1, <3>1 DEF Keeps
    <3>2. CASE Strategy(bp[p], b_flags[bp[p]] \cup {"READ"})
      BY <1>0, <2>1, <3>2, StrategyKeeps
    <3> QED BY <1>2, <3>1, <3>2 DEF BreadaMain
  <2>3. /\ kept[p] = None
        /\ b_blk[bp[p]] \in {call[p].blk, NODEV} /\ "INVAL" \notin b_flags[bp[p]]
    BY <1>0, <2>1 DEF FoundFor, Finds, Want, PcFor, OwningPCs
  <2>4. \A b \in Bufs : b = bp[p] => b_blk'[b] \in {call[p].blk, NODEV} /\ "INVAL" \notin b_flags'[b]
    BY <2>2, <2>3 DEF Keeps
  <2>5. FoundFor(p)'
    BY <1>a, <2>1, <2>3, <2>4 DEF FoundFor, Finds, OwningPCs
  <2> QED BY <1>0, <1>b, <2>2, <2>5, OthersFound
<1>3. CASE BreadaCached(p) \/ BreadaAhead(p)
  <2>1. BreadaFinish(p) /\ pc[p] = "got"
    BY <1>3 DEF BreadaCached, BreadaAhead
  <2>2. \A c \in Bufs : Keeps(c)
    <3>1. CASE BreadaCached(p)
      BY <1>0, <3>1, BrelseKeeps DEF BreadaCached
    <3>2. CASE BreadaAhead(p)
      BY <1>0, <3>2, StrategyKeeps DEF BreadaAhead
    <3> QED BY <1>3, <3>1, <3>2
  <2>3. /\ UNCHANGED call /\ kept'[p] = None
        /\ \/ pc'[p] = "getblk"
           \/ kept[p] # None /\ pc'[p] = "iowait" /\ bp'[p] = kept[p]
    BY <1>0, <2>1 DEF BreadaFinish, TypeOK
  <2>4. FoundFor(p)'
    BY <1>0, <1>a, <2>2, <2>3 DEF FoundFor, Finds, Keeps, OwningPCs
  <2> QED BY <1>0, <1>b, <2>2, <2>4, OthersFound
<1>4. CASE IowaitSleep(p) \/ IowaitDone(p)
  <2>1. /\ UNCHANGED <<b_blk, b_flags, bp, kept, call>> /\ pc[p] \in {"iowait", "wwait"}
        /\ pc'[p] \in {"iowait", "wwait", "iomove", "wrote"}
    BY <1>0, <1>4 DEF IowaitSleep, IowaitDone, TypeOK
  <2>2. FoundFor(p)' /\ \A c \in Bufs : Keeps(c)
    BY <1>0, <2>1 DEF FoundFor, Finds, Keeps, OwningPCs
  <2> QED BY <1>0, <1>b, <2>2, OthersFound
<1> QED BY <1>1, <1>2, <1>3, <1>4 DEF Bread

(* While p closes a device for the last time, no other process has found a *)
(* buffer of the device.                                                   *)
LEMMA NobodyOnDevice ==
  ASSUME IInv, CallInv, FoundInv, NEW p \in Procs, pc[p] = "bflush", call[p].kind = "close",
         cur \in {p, None}, NEW q \in Procs \ {p}, NEW c \in Owns(q), b_blk[c] # NODEV
  PROVE  DevOf(b_blk[c]) # DevOf(call[p].blk)
<1>1. pc[q] \notin CpuPCs /\ FoundFor(q) /\ CallFor(q) /\ CallFor(p) /\ PcFor(q)
  BY OneCpu DEF FoundInv, CallInv, IInv, PcInv
<1>2. pc[q] \in OwningPCs \/ kept[q] # None
  BY DEF Owns
<1>3. pc[q] \notin {"user", "bflush"} /\ call[q] \in Call /\ call[q] # None
  BY <1>1, <1>2, NoneAssumption DEF PcFor, OwningPCs
<1>4. call[q].kind \notin {"sync", "close"} /\ DevOf(call[q].blk) # DevOf(call[p].blk)
  BY <1>1, <1>3 DEF CallFor, LastClose
<1>5. Finds(q) = call[q].blk
  BY <1>1 DEF Finds, CpuPCs
<1>6. b_blk[c] = call[q].blk
  BY <1>1, <1>2, <1>5 DEF FoundFor, Owns
<1> QED BY <1>4, <1>6

(* The end of a call leaves nothing found; binval invalidates only buffers *)
(* that no process has found.                                              *)
LEMMA CallerFound ==
  ASSUME IInv, CallInv, FoundInv, NEW p \in Procs, Caller(p)
  PROVE  FoundInv'
<1> USE DEF bufVars, diskVars, procVars, Goto
<1>0. /\ TypeOK /\ PcFor(p) /\ CallFor(p) /\ FoundFor(p) /\ Alone(p) /\ cur \in {p, None}
  BY ProceedsAlone, Proceeds DEF IInv, PcInv, CallInv, FoundInv, Proceed, Running
<1>a. kept[p] = None
  BY <1>0 DEF PcFor, Caller, FsreadDone, FswriteError, FswritePart, FswriteDir, BwriteDone,
    FswriteFull, BawriteTail, BflushOne, BflushDone
<1>b. \A q \in Procs : \A c \in Owns(q) : c \in Bufs
  BY OwnedIsBusy
<1>c. ASSUME Return(p) PROVE FoundFor(p)'
  <2>1. pc'[p] = "user" /\ kept'[p] = None
    BY <1>0, <1>a, <1>c DEF Return, TypeOK
  <2> QED BY <2>1 DEF FoundFor, OwningPCs
<1>1. CASE FsreadDone(p) \/ FswriteError(p) \/ FswritePart(p) \/ BwriteDone(p)
  <2>1. PICK fl : Brelse(bp[p], fl) /\ ("INVAL" \in fl => "INVAL" \in b_flags[bp[p]])
    BY <1>1 DEF FsreadDone, FswriteError, FswritePart, BwriteDone
  <2>2. Return(p)
    BY <1>1 DEF FsreadDone, FswriteError, FswritePart, BwriteDone
  <2>3. \A c \in Bufs : Keeps(c)
    BY <1>0, <2>1, BrelseKeeps
  <2> QED BY <1>0, <1>b, <1>c, <2>2, <2>3, OthersFound
<1>2. CASE FswriteDir(p) \/ FswriteFull(p)
  <2>1. PICK fl : Strategy(bp[p], fl) /\ ("INVAL" \in fl => "INVAL" \in b_flags[bp[p]])
    BY <1>2 DEF FswriteDir, FswriteFull, BwriteFlags
  <2>2. /\ UNCHANGED <<b_blk, bp, kept, call>> /\ pc[p] = "iomove"
        /\ pc'[p] \in {"wwait", "bawrote", "bawrote_delayed"}
    BY <1>0, <1>2 DEF FswriteDir, FswriteFull, TypeOK
  <2>3. \A c \in Bufs : Keeps(c)
    BY <1>0, <2>1, <2>2, StrategyKeeps
  <2>4. bp[p] \in Bufs
    BY <2>2, Held DEF OwningPCs
  <2>5. FoundFor(p)'
    BY <1>0, <1>a, <2>2, <2>3, <2>4 DEF FoundFor, Finds, Keeps, OwningPCs
  <2> QED BY <1>0, <1>b, <2>3, <2>5, OthersFound
<1>3. CASE BflushOne(p)
  <2>1. PICK b \in Bufs : Strategy(b, BwriteFlags(b_flags[b]) \cup {"BUSY", "ASYNC", "AGE"})
    BY <1>3 DEF BflushOne, Flushable
  <2>2. UNCHANGED <<b_blk, kept, pc>> /\ pc[p] = "bflush"
    BY <1>3 DEF BflushOne
  <2>3. \A c \in Bufs : Keeps(c)
    BY <1>0, <2>1, <2>2, StrategyKeeps DEF BwriteFlags
  <2>4. FoundFor(p)'
    BY <1>a, <2>2 DEF FoundFor, OwningPCs
  <2> QED BY <1>0, <1>b, <2>3, <2>4, OthersFound
<1>4. CASE BawriteTail(p)
  <2>1. Return(p) /\ \A c \in Bufs : Keeps(c)
    BY <1>0, <1>4 DEF BawriteTail, Keeps, TypeOK
  <2> QED BY <1>0, <1>b, <1>c, <2>1, OthersFound
<1>5. CASE BflushDone(p)
  <2>1. /\ Return(p) /\ UNCHANGED b_blk /\ pc[p] = "bflush"
        /\ b_flags' = [b \in Bufs |->
             IF call[p].kind = "close" /\ b_blk[b] # NODEV /\ DevOf(b_blk[b]) = DevOf(call[p].blk)
             THEN b_flags[b] \cup {"INVAL"} ELSE b_flags[b]]
    BY <1>5 DEF BflushDone
  <2>2. ASSUME NEW q \in Procs \ {p}, NEW c \in Owns(q) PROVE Keeps(c)
    <3>1. ~(call[p].kind = "close" /\ b_blk[c] # NODEV /\ DevOf(b_blk[c]) = DevOf(call[p].blk))
      BY <1>0, <2>1, <2>2, NobodyOnDevice
    <3> QED BY <1>b, <2>1, <2>2, <3>1 DEF Keeps
  <2> QED BY <1>0, <1>c, <2>1, <2>2, OthersFound
<1> QED BY <1>1, <1>2, <1>3, <1>4, <1>5 DEF Caller

(* The disk interrupt takes the block from a buffer at an error and        *)
(* invalidates none.                                                       *)
LEMMA IodoneKeeps ==
  ASSUME IInv, NEW b \in Bufs, NEW err \in BOOLEAN, Iodone(b, err)
  PROVE  \A c \in Bufs : Keeps(c)
<1> DEFINE fl == b_flags[b] \cup {"DONE"} \cup (IF err THEN {"ERROR"} ELSE {})
<1>1. CASE "ASYNC" \in fl
  <2>1. Brelse(b, fl) /\ ("INVAL" \in fl => "INVAL" \in b_flags[b])
    BY <1>1 DEF Iodone
  <2> QED BY <2>1, BrelseKeeps DEF IInv
<1>2. CASE "ASYNC" \notin fl
  <2>1. UNCHANGED b_blk /\ b_flags' = [b_flags EXCEPT ![b] = fl \ {"WANTED"}]
    BY <1>2 DEF Iodone
  <2> QED BY <2>1 DEF Keeps, IInv, TypeOK
<1> QED BY <1>1, <1>2

(* The disk interrupt preserves FoundInv.                                  *)
LEMMA IodoneFound ==
  ASSUME IInv, FoundInv, NEW b \in Bufs, NEW err \in BOOLEAN, Iodone(b, err)
  PROVE  FoundInv'
<1>1. UNCHANGED <<pc, call, stage, bp, kept>>
  BY DEF Iodone
<1>2. \A c \in Bufs : Keeps(c)
  BY IodoneKeeps
<1>3. ASSUME NEW q \in Procs PROVE FoundFor(q)'
  <2>1. /\ FoundFor(q) /\ (kept[q] # None => kept[q] \in Bufs)
        /\ pc[q] \in OwningPCs \cup {"claim"} => bp[q] \in Bufs
    BY <1>3 DEF FoundInv, IInv, TypeOK, PcInv, PcFor, HoldingPCs, PCs, OwningPCs
  <2>2. Finds(q)' = Finds(q)
    BY <1>1 DEF Finds, Want
  <2>3. /\ pc'[q] = pc[q] /\ bp'[q] = bp[q] /\ kept'[q] = kept[q] /\ call'[q] = call[q]
    BY <1>1
  <2> QED BY <1>2, <2>1, <2>2, <2>3 DEF FoundFor, Keeps
<1> QED BY <1>3 DEF FoundInv

-----------------------------------------------------------------------------
(***************************************************************************)
(* Delayed writes                                                          *)
(***************************************************************************)
(* brelse keeps B_DONE, B_DELWRI and B_INVAL.                              *)
LEMMA BrelseDelayed ==
  ASSUME TypeOK, DelayedInv, NEW b \in Bufs, NEW fl, Brelse(b, fl),
         "DELWRI" \in fl => "DONE" \in fl /\ "INVAL" \notin fl
  PROVE  DelayedInv'
BY DEF TypeOK, DelayedInv, Brelse, BrelseFlags

(* bwrite clears B_DELWRI with B_DONE.                                     *)
LEMMA StrategyDelayed ==
  ASSUME TypeOK, DelayedInv, NEW b \in Bufs, NEW fl, Strategy(b, fl),
         "DELWRI" \in fl => "DONE" \in fl /\ "INVAL" \notin fl
  PROVE  DelayedInv'
BY DEF TypeOK, DelayedInv, Strategy

(* Every step of a process preserves DelayedInv; at the last close of a    *)
(* device it has no delayed write left when binval comes.                  *)
LEMMA ProceedDelayed ==
  ASSUME IInv, CallInv, FoundInv, DelayedInv, NEW p \in Procs, Proceed(p)
  PROVE  DelayedInv'
<1> USE DEF bufVars, diskVars, procVars
<1>0. /\ TypeOK /\ PcFor(p) /\ CallFor(p) /\ FoundFor(p) /\ cur \in {p, None}
  BY Proceeds DEF IInv, PcInv, CallInv, FoundInv, Running
<1>a. pc[p] \in OwningPCs => bp[p] \in Bufs
  BY Held
<1>b. \A b \in Bufs : "DELWRI" \in b_flags[b] => "DONE" \in b_flags[b] /\ "INVAL" \notin b_flags[b]
  BY DEF DelayedInv
<1>1. CASE Getblk(p)
  <2>1. CASE GetblkVictim(p)
    <3>1. PICK b \in Bufs : Strategy(b, BwriteFlags(b_flags[b]) \cup {"BUSY", "ASYNC"})
      BY <2>1 DEF GetblkVictim, Reusable
    <3> QED BY <1>0, <3>1, StrategyDelayed DEF BwriteFlags
  <2>2. CASE GetblkAssign(p)
    <3>1. PICK b \in Bufs :
            b_flags' = [b_flags EXCEPT ![b] =
                          IF Want(p) = NODEV THEN {"BUSY", "INVAL"} ELSE {"BUSY"}]
      BY <2>2 DEF GetblkAssign, Reusable
    <3> QED BY <1>0, <3>1 DEF DelayedInv, TypeOK
  <2>3. CASE GetblkHit(p) \/ GetblkSleep(p)
    BY <2>3 DEF GetblkHit, GetblkSleep, DelayedInv
  <2>4. CASE GetblkBusy(p) \/ GetblkClaim(p) \/ VictimTail(p)
    <3>1. PICK f \in {"WANTED", "BUSY", "AGE"} : b_flags' = [b_flags EXCEPT ![bp[p]] = @ \cup {f}]
      BY <2>4 DEF GetblkBusy, GetblkClaim, VictimTail
    <3> QED BY <1>0, <3>1 DEF DelayedInv, TypeOK
  <2> QED BY <1>1, <2>1, <2>2, <2>3, <2>4 DEF Getblk
<1>2. CASE Bread(p)
  <2>1. CASE BreadCached(p) \/ IowaitSleep(p) \/ IowaitDone(p)
    BY <2>1 DEF BreadCached, IowaitSleep, IowaitDone, DelayedInv
  <2>2. CASE BreadStart(p) \/ BreadaAhead(p)
    <3>1. PICK fl \in {{"READ"}, {"READ", "ASYNC"}} : Strategy(bp[p], b_flags[bp[p]] \cup fl)
      BY <2>2 DEF BreadStart, BreadaAhead
    <3>2. bp[p] \in Bufs
      BY <1>a, <2>2 DEF BreadStart, BreadaAhead, OwningPCs
    <3> QED BY <1>0, <1>b, <3>1, <3>2, StrategyDelayed
  <2>3. CASE BreadaMain(p)
    <3>1. bp[p] \in Bufs
      BY <1>a, <2>3 DEF BreadaMain, OwningPCs
    <3>2. CASE UNCHANGED b_flags
      BY <3>2 DEF DelayedInv
    <3>3. CASE Strategy(bp[p], b_flags[bp[p]] \cup {"READ"})
      BY <1>0, <1>b, <3>1, <3>3, StrategyDelayed
    <3> QED BY <2>3, <3>2, <3>3 DEF BreadaMain
  <2>4. CASE BreadaCached(p)
    <3>1. bp[p] \in Bufs
      BY <1>a, <2>4 DEF BreadaCached, OwningPCs
    <3> QED BY <1>0, <1>b, <2>4, <3>1, BrelseDelayed DEF BreadaCached
  <2> QED BY <1>2, <2>1, <2>2, <2>3, <2>4 DEF Bread
<1>3. CASE Caller(p)
  <2>1. CASE FsreadDone(p) \/ FswriteError(p) \/ BwriteDone(p)
    <3>1. PICK old \in {{}, {"AGE"}} : Brelse(bp[p], b_flags[bp[p]] \cup old)
      BY <2>1 DEF FsreadDone, FswriteError, BwriteDone
    <3>2. bp[p] \in Bufs
      BY <1>a, <2>1 DEF FsreadDone, FswriteError, BwriteDone, OwningPCs
    <3> QED BY <1>0, <1>b, <3>1, <3>2, BrelseDelayed
  <2>2. CASE FswritePart(p)
    <3>1. /\ Brelse(bp[p], b_flags[bp[p]] \cup {"DELWRI", "DONE"}) /\ bp[p] \in Bufs
          /\ call[p].kind = "part" /\ pc[p] = "iomove"
      BY <1>a, <2>2 DEF FswritePart, OwningPCs
    <3>2. "INVAL" \notin b_flags[bp[p]]
      BY <1>0, <3>1 DEF FoundFor, OwningPCs
    <3> QED BY <1>0, <3>1, <3>2, BrelseDelayed
  <2>3. CASE FswriteDir(p) \/ FswriteFull(p)
    <3>1. PICK fl : Strategy(bp[p], fl) /\ "DELWRI" \notin fl
      BY <2>3 DEF FswriteDir, FswriteFull, BwriteFlags
    <3>2. bp[p] \in Bufs
      BY <1>a, <2>3 DEF FswriteDir, FswriteFull, OwningPCs
    <3> QED BY <1>0, <3>1, <3>2, StrategyDelayed
  <2>4. CASE BflushOne(p)
    <3>1. PICK b \in Bufs : Strategy(b, BwriteFlags(b_flags[b]) \cup {"BUSY", "ASYNC", "AGE"})
      BY <2>4 DEF BflushOne, Flushable
    <3> QED BY <1>0, <3>1, StrategyDelayed DEF BwriteFlags
  <2>5. CASE BawriteTail(p)
    <3>1. \A b \in Bufs : b_flags'[b] \in {b_flags[b], b_flags[b] \cup {"AGE"}}
      BY <1>0, <2>5 DEF BawriteTail, TypeOK
    <3> QED BY <1>b, <3>1 DEF DelayedInv
  <2>6. CASE BflushDone(p)
    <3>1. /\ pc[p] = "bflush" /\ Flushable(call[p]) = {} /\ kept[p] = None
          /\ b_flags' = [b \in Bufs |->
               IF call[p].kind = "close" /\ b_blk[b] # NODEV /\ DevOf(b_blk[b]) = DevOf(call[p].blk)
               THEN b_flags[b] \cup {"INVAL"} ELSE b_flags[b]]
      BY <1>0, <2>6 DEF BflushDone, PcFor
    <3>2. ASSUME NEW b \in Bufs, "DELWRI" \in b_flags[b], call[p].kind = "close",
                 b_blk[b] # NODEV, DevOf(b_blk[b]) = DevOf(call[p].blk)
          PROVE  FALSE
      <4>1. av[b] = "none"
        BY <3>1, <3>2 DEF Flushable
      <4>2. "DONE" \in b_flags[b] /\ Place(b)
        BY <1>b, <3>2 DEF IInv, PlaceInv
      <4>3. PICK q \in Procs : b \in Owns(q)
        BY <4>1, <4>2 DEF Place, Owned
      <4>4. q # p
        BY <3>1, <4>3 DEF Owns, OwningPCs
      <4> QED BY <1>0, <3>1, <3>2, <4>3, <4>4, NobodyOnDevice
    <3> QED BY <1>b, <3>1, <3>2 DEF DelayedInv
  <2> QED BY <1>3, <2>1, <2>2, <2>3, <2>4, <2>5, <2>6 DEF Caller
<1> QED BY <1>1, <1>2, <1>3 DEF Proceed

(* The disk interrupt preserves DelayedInv.                                *)
LEMMA IodoneDelayed ==
  ASSUME IInv, DelayedInv, NEW b \in Bufs, NEW err \in BOOLEAN, Iodone(b, err)
  PROVE  DelayedInv'
<1> DEFINE fl == b_flags[b] \cup {"DONE"} \cup (IF err THEN {"ERROR"} ELSE {})
<1>1. TypeOK /\ ("DELWRI" \in fl => "DONE" \in fl /\ "INVAL" \notin fl)
  BY DEF DelayedInv, IInv
<1>2. CASE "ASYNC" \in fl
  <2>1. Brelse(b, fl)
    BY <1>2 DEF Iodone
  <2> QED BY <1>1, <2>1, BrelseDelayed
<1>3. CASE "ASYNC" \notin fl
  <2>1. b_flags' = [b_flags EXCEPT ![b] = fl \ {"WANTED"}]
    BY <1>3 DEF Iodone
  <2> QED BY <1>1, <2>1 DEF DelayedInv, TypeOK
<1> QED BY <1>2, <1>3

-----------------------------------------------------------------------------
(***************************************************************************)
(* Durability                                                              *)
(***************************************************************************)
(* Nothing happens to buffer c that DurableFor could notice; requests may  *)
(* get ahead of it.                                                        *)
Fixed(c) ==
  /\ b_blk'[c] = b_blk[c] /\ data'[c] = data[c] /\ ahead[c] \subseteq ahead'[c]
  /\ \A f \in {"READ", "ERROR"} : f \in b_flags'[c] <=> f \in b_flags[c]
  /\ c \in active' <=> c \in active

(* A step of p that touches one buffer, its own or a free one, leaves the  *)
(* synchronous writes of the others as they were: if it starts a write of  *)
(* that buffer the buffer is valid, hence not one of their blocks.         *)
LEMMA OthersDurable ==
  ASSUME IInv, CallInv, FoundInv, DurableInv, OneBufferPerBlock,
         NEW p \in Procs, Alone(p), UNCHANGED disk, DurableFor(p)', active' \subseteq Bufs,
         NEW b, b \in Bufs => b \notin active /\ (b \in Owns(p) \/ av[b] # "none"),
         \A c \in Bufs \ {b} : Fixed(c),
         b \in active' /\ "READ" \notin b_flags'[b] =>
           b_blk'[b] = b_blk[b] /\ "INVAL" \notin b_flags[b]
  PROVE  DurableInv'
<1> SUFFICES ASSUME NEW q \in Procs \ {p} PROVE DurableFor(q)'
  BY DEF DurableInv
<1>1. /\ pc'[q] = pc[q] /\ bp'[q] = bp[q] /\ uerror'[q] = uerror[q]
      /\ DurableFor(q) /\ FoundFor(q) /\ CallFor(q)
  BY DEF Alone, DurableInv, FoundInv, CallInv
<1>2. CASE pc[q] \notin {"wwait", "wrote"}
  BY <1>1, <1>2 DEF DurableFor
<1>3. CASE pc[q] \in {"wwait", "wrote"}
  <2>1. bp[q] \in Owns(q) /\ bp[q] \in Bufs
    BY <1>3, Held DEF OwningPCs
  <2>2. bp[q] # b /\ Fixed(bp[q])
    BY <2>1, OwnedIsBusy
  <2>3. "INVAL" \notin b_flags[bp[q]] /\ b_blk[bp[q]] \in Blocks /\ NODEV \notin Blocks
    <3>1. NODEV \notin Blocks
      BY Zenon, NoneAssumption DEF NODEV
    <3>2. call[q].kind = "dir" /\ b_blk[bp[q]] \in Blocks
      BY <1>1, <1>3 DEF CallFor, DurableFor
    <3> QED BY <1>1, <1>3, <3>1, <3>2 DEF FoundFor, OwningPCs
  <2>4. OthersFirst(q)'
    <3>1. SUFFICES ASSUME NEW c \in active' \ {bp[q]}, b_blk'[c] = b_blk'[bp[q]],
                          "READ" \notin b_flags'[c]
                   PROVE  bp[q] \in active' /\ c \in ahead'[bp[q]]
      BY <1>1 DEF OthersFirst
    <3>2. CASE c = b
      <4>1. b \in Bufs /\ b_blk[b] = b_blk[bp[q]] /\ "INVAL" \notin b_flags[b]
        BY <2>2, <3>1, <3>2 DEF Fixed
      <4> QED BY <2>1, <2>2, <2>3, <4>1 DEF OneBufferPerBlock
    <3>3. CASE c # b
      <4>1. Fixed(c)
        BY <3>3
      <4>2. c \in active /\ b_blk[c] = b_blk[bp[q]] /\ "READ" \notin b_flags[c]
        BY <2>2, <3>1, <4>1 DEF Fixed
      <4>3. bp[q] \in active /\ c \in ahead[bp[q]]
        BY <1>1, <1>3, <4>2 DEF DurableFor, OthersFirst
      <4> QED BY <2>2, <4>3 DEF Fixed
    <3> QED BY <3>2, <3>3
  <2>5. b_blk'[bp'[q]] \in Blocks
    BY <1>1, <2>2, <2>3 DEF Fixed
  <2>6. CASE pc[q] = "wwait"
    <3>1. IF bp[q] \in active THEN "READ" \notin b_flags[bp[q]]
          ELSE "ERROR" \in b_flags[bp[q]] \/ disk[b_blk[bp[q]]] = data[bp[q]]
      BY <1>1, <2>6 DEF DurableFor
    <3>2. IF bp'[q] \in active' THEN "READ" \notin b_flags'[bp'[q]]
          ELSE "ERROR" \in b_flags'[bp'[q]] \/ disk'[b_blk'[bp'[q]]] = data'[bp'[q]]
      BY <1>1, <2>2, <3>1 DEF Fixed
    <3> QED BY <1>1, <2>4, <2>5, <2>6, <3>2 DEF DurableFor
  <2>7. CASE pc[q] = "wrote"
    <3>1. uerror'[q] \/ disk'[b_blk'[bp'[q]]] = data'[bp'[q]]
      BY <1>1, <2>2, <2>7 DEF Fixed, DurableFor
    <3> QED BY <1>1, <2>4, <2>5, <2>7, <3>1 DEF DurableFor
  <2> QED BY <1>3, <2>6, <2>7
<1> QED BY <1>2, <1>3

(* A step that lets all buffers be.                                        *)
LEMMA FixedDurable ==
  ASSUME IInv, CallInv, FoundInv, DurableInv, OneBufferPerBlock,
         NEW p \in Procs, Alone(p), UNCHANGED disk, DurableFor(p)', active' \subseteq Bufs,
         \A c \in Bufs : Fixed(c)
  PROVE  DurableInv'
<1>1. None \notin Bufs
  BY NoneAssumption
<1>2. None \notin active'
  BY <1>1
<1> QED BY <1>1, <1>2, OthersDurable

(* The strategy routine touches one buffer.                                *)
LEMMA StrategyFixes ==
  ASSUME TypeOK, NEW b \in Bufs, NEW fl, Strategy(b, fl), UNCHANGED b_blk,
         \A c \in Bufs \ {b} : data'[c] = data[c]
  PROVE  /\ UNCHANGED disk /\ active' \subseteq Bufs /\ b_flags'[b] = fl
         /\ \A c \in Bufs \ {b} : Fixed(c)
<1>1. \A c \in Bufs \ {b} : ahead[c] \subseteq ahead'[c]
  BY DEF Strategy
<1> QED BY <1>1 DEF TypeOK, Strategy, Fixed

(* So does brelse.                                                         *)
LEMMA BrelseFixes ==
  ASSUME TypeOK, NEW b \in Bufs, NEW fl, Brelse(b, fl), UNCHANGED diskVars,
         \A c \in Bufs \ {b} : data'[c] = data[c]
  PROVE  /\ UNCHANGED disk /\ active' = active /\ active \subseteq Bufs
         /\ \A c \in Bufs \ {b} : Fixed(c)
BY DEF TypeOK, Brelse, Fixed, diskVars

(* Every step of getblk preserves DurableInv: a victim is a delayed write, *)
(* hence valid.                                                            *)
LEMMA GetblkDurable ==
  ASSUME IInv, CallInv, FoundInv, DelayedInv, DurableInv, OneBufferPerBlock,
         NEW p \in Procs, Getblk(p)
  PROVE  DurableInv'
<1> USE DEF bufVars, diskVars, procVars, Goto
<1>0. TypeOK /\ PcFor(p) /\ Alone(p)
  BY ProceedsAlone DEF IInv, PcInv, Proceed
<1>a. DurableFor(p)'
  <2>1. pc'[p] \notin {"wwait", "wrote"}
    BY <1>0 DEF Getblk, GetblkHit, GetblkBusy, GetblkClaim, GetblkSleep, GetblkVictim,
      VictimTail, GetblkAssign, TypeOK
  <2> QED BY <2>1 DEF DurableFor
<1>1. CASE GetblkHit(p) \/ GetblkSleep(p)
  <2>1. UNCHANGED <<disk, active>> /\ \A c \in Bufs : Fixed(c)
    BY <1>1 DEF GetblkHit, GetblkSleep, Fixed
  <2> QED BY <1>0, <1>a, <2>1, FixedDurable DEF TypeOK
<1>2. CASE GetblkBusy(p) \/ VictimTail(p) \/ GetblkClaim(p)
  <2>1. PICK f \in {"WANTED", "AGE", "BUSY"} : b_flags' = [b_flags EXCEPT ![bp[p]] = @ \cup {f}]
    BY <1>2 DEF GetblkBusy, VictimTail, GetblkClaim
  <2>2. UNCHANGED <<b_blk, data, diskVars>>
    BY <1>2 DEF GetblkBusy, VictimTail, GetblkClaim
  <2>3. \A c \in Bufs : Fixed(c)
    BY <1>0, <2>1, <2>2 DEF TypeOK, Fixed
  <2> QED BY <1>0, <1>a, <2>2, <2>3, FixedDurable DEF TypeOK
<1>3. CASE GetblkVictim(p)
  <2>1. PICK b \in Bufs : /\ Strategy(b, BwriteFlags(b_flags[b]) \cup {"BUSY", "ASYNC"})
                         /\ av[b] # "none" /\ "DELWRI" \in b_flags[b]
    BY <1>3 DEF GetblkVictim, Reusable
  <2>2. "INVAL" \notin b_flags[b] /\ b \notin active
    BY <2>1 DEF DelayedInv, IInv, PlaceInv, Place
  <2>3. UNCHANGED <<b_blk, data>>
    BY <1>3 DEF GetblkVictim
  <2>4. UNCHANGED disk /\ active' \subseteq Bufs /\ \A c \in Bufs \ {b} : Fixed(c)
    BY <1>0, <2>1, <2>3, StrategyFixes
  <2> QED BY <1>0, <1>a, <2>1, <2>2, <2>3, <2>4, OthersDurable
<1>4. CASE GetblkAssign(p)
  <2>1. PICK b \in Bufs :
          /\ av[b] # "none"
          /\ b_flags' = [b_flags EXCEPT ![b] =
                           IF Want(p) = NODEV THEN {"BUSY", "INVAL"} ELSE {"BUSY"}]
          /\ b_blk' = [b_blk EXCEPT ![b] = Want(p)]
    BY <1>4 DEF GetblkAssign, Reusable
  <2>2. UNCHANGED <<data, diskVars>> /\ b \notin active
    BY <1>4, <2>1 DEF GetblkAssign, IInv, PlaceInv, Place
  <2>3. \A c \in Bufs \ {b} : Fixed(c)
    BY <1>0, <2>1, <2>2 DEF TypeOK, Fixed
  <2> QED BY <1>0, <1>a, <2>1, <2>2, <2>3, OthersDurable DEF TypeOK
<1> QED BY <1>1, <1>2, <1>3, <1>4 DEF Getblk

(* Every step of bread, breada and iowait preserves DurableInv.            *)
LEMMA BreadDurable ==
  ASSUME IInv, CallInv, FoundInv, DurableInv, OneBufferPerBlock, NEW p \in Procs, Bread(p)
  PROVE  DurableInv'
<1> USE DEF bufVars, diskVars, procVars, Goto
<1>0. TypeOK /\ PcFor(p) /\ Alone(p) /\ DurableFor(p) /\ Place(bp[p])
  BY ProceedsAlone DEF IInv, PcInv, Proceed, DurableInv, PlaceInv, Bread, BreadCached, BreadStart,
    BreadaMain, BreadaCached, BreadaAhead, IowaitSleep, IowaitDone, PcFor, HoldingPCs, PCs
<1>a. pc[p] \in OwningPCs => bp[p] \in Bufs /\ bp[p] \in Owns(p)
  BY Held
<1>b. pc[p] = "got" => bp[p] \notin active
  BY DEF IInv, UseInv, UseFor
<1>c. pc'[p] \notin {"wwait", "wrote"} => DurableFor(p)'
  BY DEF DurableFor
<1>1. CASE BreadCached(p) \/ IowaitSleep(p) \/ IowaitDone(p)
  <2>1. /\ UNCHANGED <<b_blk, b_flags, data, active, ahead, disk, bp>>
        /\ \A c \in Bufs : Fixed(c)
    BY <1>1 DEF BreadCached, IowaitSleep, IowaitDone, Fixed
  <2>2. DurableFor(p)'
    <3>1. CASE BreadCached(p)
      <4>1. pc'[p] = "iomove"
        BY <1>0, <3>1 DEF BreadCached, TypeOK
      <4> QED BY <1>c, <4>1
    <3>2. CASE IowaitSleep(p)
      BY <1>0, <2>1, <3>2 DEF IowaitSleep, DurableFor, OthersFirst
    <3>3. CASE IowaitDone(p)
      <4>1. CASE pc[p] = "iowait"
        <5>1. pc'[p] = "iomove"
          BY <1>0, <3>3, <4>1 DEF IowaitDone, TypeOK
        <5> QED BY <1>c, <5>1
      <4>2. CASE pc[p] = "wwait"
        <5>1. bp[p] \notin active
          BY <1>0, <3>3 DEF IowaitDone, Place
        <5>2. pc'[p] = "wrote" /\ uerror'[p] = (uerror[p] \/ "ERROR" \in b_flags[bp[p]])
          BY <1>0, <3>3, <4>2 DEF IowaitDone, TypeOK
        <5> QED BY <1>0, <2>1, <4>2, <5>1, <5>2 DEF DurableFor, OthersFirst
      <4> QED BY <3>3, <4>1, <4>2 DEF IowaitDone
    <3> QED BY <1>1, <3>1, <3>2, <3>3
  <2> QED BY <1>0, <2>1, <2>2, FixedDurable DEF TypeOK
<1>2. CASE BreadStart(p) \/ BreadaAhead(p)
  <2>1. PICK fl : Strategy(bp[p], fl) /\ "READ" \in fl
    BY <1>2 DEF BreadStart, BreadaAhead
  <2>2. UNCHANGED <<b_blk, data>> /\ pc[p] = "got" /\ pc'[p] \in {"iowait", "getblk"}
    BY <1>0, <1>2 DEF BreadStart, BreadaAhead, BreadaFinish, TypeOK
  <2>3. bp[p] \in Bufs /\ bp[p] \in Owns(p) /\ bp[p] \notin active
    BY <1>a, <1>b, <2>2 DEF OwningPCs
  <2>4. /\ UNCHANGED disk /\ active' \subseteq Bufs /\ b_flags'[bp[p]] = fl
        /\ \A c \in Bufs \ {bp[p]} : Fixed(c)
    BY <1>0, <2>1, <2>2, <2>3, StrategyFixes
  <2> QED BY <1>0, <1>c, <2>1, <2>2, <2>3, <2>4, OthersDurable
<1>3. CASE BreadaMain(p)
  <2>1. UNCHANGED <<b_blk, data>> /\ pc[p] = "got" /\ pc'[p] \in {"iowait", "getblk"}
    BY <1>0, <1>3 DEF BreadaMain, TypeOK
  <2>2. bp[p] \in Bufs /\ bp[p] \in Owns(p) /\ bp[p] \notin active
    BY <1>a, <1>b, <2>1 DEF OwningPCs
  <2>3. CASE UNCHANGED <<b_flags, diskVars>>
    <3>1. \A c \in Bufs : Fixed(c)
      BY <2>1, <2>3 DEF Fixed
    <3> QED BY <1>0, <1>c, <2>1, <2>3, <3>1, FixedDurable DEF TypeOK
  <2>4. CASE Strategy(bp[p], b_flags[bp[p]] \cup {"READ"})
    <3>1. /\ UNCHANGED disk /\ active' \subseteq Bufs /\ "READ" \in b_flags'[bp[p]]
          /\ \A c \in Bufs \ {bp[p]} : Fixed(c)
      BY <1>0, <2>1, <2>2, <2>4, StrategyFixes
    <3> QED BY <1>0, <1>c, <2>1, <2>2, <3>1, OthersDurable
  <2> QED BY <1>3, <2>3, <2>4 DEF BreadaMain
<1>4. CASE BreadaCached(p)
  <2>1. /\ Brelse(bp[p], b_flags[bp[p]]) /\ UNCHANGED <<data, diskVars>> /\ pc[p] = "got"
        /\ pc'[p] \in {"iowait", "getblk"}
    BY <1>0, <1>4 DEF BreadaCached, BreadaFinish, TypeOK
  <2>2. bp[p] \in Bufs /\ bp[p] \in Owns(p) /\ bp[p] \notin active
    BY <1>a, <1>b, <2>1 DEF OwningPCs
  <2>3. /\ UNCHANGED disk /\ active' = active /\ active \subseteq Bufs
        /\ \A c \in Bufs \ {bp[p]} : Fixed(c)
    BY <1>0, <2>1, <2>2, BrelseFixes
  <2> QED BY <1>0, <1>c, <2>1, <2>2, <2>3, OthersDurable
<1> QED BY <1>1, <1>2, <1>3, <1>4 DEF Bread

(* Every step of the callers of the cache preserves DurableInv: what they  *)
(* write is valid, so it is not the block of somebody else's write; the    *)
(* driver does p's own write after those that it has of the block.         *)
LEMMA CallerDurable ==
  ASSUME IInv, CallInv, FoundInv, DelayedInv, DurableInv, OneBufferPerBlock, ClosedInv,
         NEW p \in Procs, Caller(p)
  PROVE  DurableInv'
<1> USE DEF bufVars, diskVars, procVars, Goto
<1>0. TypeOK /\ PcFor(p) /\ Alone(p) /\ DurableFor(p) /\ FoundFor(p)
  BY ProceedsAlone DEF IInv, PcInv, Proceed, DurableInv, FoundInv
<1>a. pc[p] \in OwningPCs => bp[p] \in Bufs /\ bp[p] \in Owns(p)
  BY Held
<1>b. pc[p] \in {"iomove", "wrote"} => bp[p] \notin active
  BY DEF IInv, UseInv, UseFor
<1>c. pc'[p] \notin {"wwait", "wrote"} => DurableFor(p)'
  BY DEF DurableFor
<1>d. Return(p) => DurableFor(p)'
  <2>1. Return(p) => pc'[p] = "user"
    BY <1>0 DEF Return, TypeOK
  <2> QED BY <1>c, <2>1
<1>1. CASE FsreadDone(p) \/ FswriteError(p) \/ FswritePart(p) \/ BwriteDone(p)
  <2>1. PICK fl : Brelse(bp[p], fl)
    BY <1>1 DEF FsreadDone, FswriteError, FswritePart, BwriteDone
  <2>2. /\ Return(p) /\ UNCHANGED diskVars /\ pc[p] \in {"iomove", "wrote"}
        /\ \A c \in Bufs \ {bp[p]} : data'[c] = data[c]
    BY <1>0, <1>1 DEF FsreadDone, FswriteError, FswritePart, BwriteDone, TypeOK
  <2>3. bp[p] \in Bufs /\ bp[p] \in Owns(p) /\ bp[p] \notin active
    BY <1>a, <1>b, <2>2 DEF OwningPCs
  <2>4. /\ UNCHANGED disk /\ active' = active /\ active \subseteq Bufs
        /\ \A c \in Bufs \ {bp[p]} : Fixed(c)
    BY <1>0, <2>1, <2>2, <2>3, BrelseFixes
  <2> QED BY <1>0, <1>d, <2>2, <2>3, <2>4, OthersDurable
<1>2. CASE FswriteDir(p) \/ FswriteFull(p)
  <2>0. PICK b \in Bufs : b = bp[p]
    BY <1>a, <1>2 DEF FswriteDir, FswriteFull, OwningPCs
  <2>1. PICK fl : /\ Strategy(b, fl) /\ b = bp[p]
                  /\ fl \in {BwriteFlags(b_flags[b]), BwriteFlags(b_flags[b]) \cup {"ASYNC"}}
    BY <1>2, <2>0 DEF FswriteDir, FswriteFull
  <2>2. /\ UNCHANGED <<b_blk, bp>> /\ pc[p] = "iomove" /\ call[p].kind \in {"dir", "full"}
        /\ \A c \in Bufs \ {b} : data'[c] = data[c]
    BY <1>0, <1>2, <2>1 DEF FswriteDir, FswriteFull, TypeOK
  <2>3. b \in Owns(p) /\ b \notin active /\ "INVAL" \notin b_flags[b]
    BY <1>0, <1>a, <1>b, <2>1, <2>2 DEF OwningPCs, FoundFor
  <2>4. /\ UNCHANGED disk /\ active' \subseteq Bufs /\ b_flags'[b] = fl
        /\ \A c \in Bufs \ {b} : Fixed(c)
    BY <1>0, <2>1, <2>2, StrategyFixes
  <2>5. DurableFor(p)'
    <3>1. b_blk[b] \in Blocks /\ b \in active' /\ active' = active \cup {b}
          /\ ahead'[b] = {c \in active : b_blk[c] = b_blk[b]}
      <4>1. Strategy(b, fl) /\ b \notin active
        BY <2>1, <2>3
      <4>2. ahead' = [ahead EXCEPT ![b] = Queued(b)]
        BY <1>0, <4>1, StrategyQueues
      <4>3. b_blk[b] \in Blocks /\ active' = active \cup {b}
        BY <4>1 DEF Strategy
      <4> QED BY <1>0, <4>2, <4>3 DEF TypeOK, Queued
    <3>2. "READ" \notin b_flags'[b]
      BY <2>1, <2>4 DEF BwriteFlags
    <3>3. OthersFirst(p)'
      BY <2>1, <2>2, <3>1 DEF OthersFirst
    <3>4. pc'[p] # "wrote"
      BY <1>0, <1>2 DEF FswriteDir, FswriteFull, TypeOK
    <3> QED BY <2>1, <2>2, <3>1, <3>2, <3>3, <3>4 DEF DurableFor
  <2> QED BY <1>0, <2>2, <2>3, <2>4, <2>5, OthersDurable
<1>3. CASE BflushOne(p)
  <2>1. PICK b \in Bufs : /\ Strategy(b, BwriteFlags(b_flags[b]) \cup {"BUSY", "ASYNC", "AGE"})
                         /\ av[b] # "none" /\ "DELWRI" \in b_flags[b]
    BY <1>3 DEF BflushOne, Flushable
  <2>2. "INVAL" \notin b_flags[b] /\ b \notin active
    BY <2>1 DEF DelayedInv, IInv, PlaceInv, Place
  <2>3. UNCHANGED <<b_blk, data, pc>> /\ pc[p] = "bflush"
    BY <1>3 DEF BflushOne
  <2>4. UNCHANGED disk /\ active' \subseteq Bufs /\ \A c \in Bufs \ {b} : Fixed(c)
    BY <1>0, <2>1, <2>3, StrategyFixes
  <2> QED BY <1>0, <1>c, <2>1, <2>2, <2>3, <2>4, OthersDurable
<1>4. CASE BawriteTail(p) \/ BflushDone(p)
  <2>1. /\ Return(p) /\ UNCHANGED <<b_blk, data, diskVars>>
        /\ \A c \in Bufs : b_flags'[c] \in
              {b_flags[c], b_flags[c] \cup {"AGE"}, b_flags[c] \cup {"INVAL"}}
    BY <1>0, <1>4 DEF BawriteTail, BflushDone, TypeOK
  <2>2. \A c \in Bufs : Fixed(c)
    BY <2>1 DEF Fixed
  <2> QED BY <1>0, <1>d, <2>1, <2>2, FixedDurable DEF TypeOK
<1> QED BY <1>1, <1>2, <1>3, <1>4 DEF Caller

(* The end of a transfer.  A write that ends puts what the process wrote   *)
(* on the disk, and no earlier write of the block can follow it.           *)
LEMMA IodoneDurable ==
  ASSUME IInv, DurableInv, NEW b \in Bufs, NEW err \in BOOLEAN, Iodone(b, err)
  PROVE  DurableInv'
<1> DEFINE fl == b_flags[b] \cup {"DONE"} \cup (IF err THEN {"ERROR"} ELSE {})
<1>0. TypeOK /\ b_blk[b] \in Blocks /\ b \in active /\ ahead[b] = {}
  BY DEF IInv, PlaceInv, Place, Iodone
<1>1. /\ UNCHANGED <<pc, bp, uerror>> /\ active' = active \ {b}
      /\ \A c \in Bufs : ahead'[c] = ahead[c] \ {b}
      /\ \A c \in Bufs \ {b} : data'[c] = data[c]
      /\ "READ" \notin b_flags[b] => UNCHANGED data
      /\ disk' \in {disk, [disk EXCEPT ![b_blk[b]] = data[b]]}
      /\ "READ" \in b_flags[b] => disk' = disk
      /\ "READ" \notin b_flags[b] /\ ~err => disk' = [disk EXCEPT ![b_blk[b]] = data[b]]
  BY <1>0 DEF Iodone, TypeOK
<1>2. \A c \in Bufs \ {b} : b_flags'[c] = b_flags[c] /\ b_blk'[c] = b_blk[c]
  <2>1. CASE "ASYNC" \in fl
    <3>1. Brelse(b, fl)
      BY <2>1 DEF Iodone
    <3> QED BY <1>0, <3>1 DEF Brelse, TypeOK
  <2>2. CASE "ASYNC" \notin fl
    BY <1>0, <2>2 DEF Iodone, TypeOK
  <2> QED BY <2>1, <2>2
<1> SUFFICES ASSUME NEW q \in Procs, pc[q] \in {"wwait", "wrote"} PROVE DurableFor(q)'
  BY <1>1 DEF DurableInv, DurableFor
<1> DEFINE B == bp[q]
<1>3. /\ B \in Bufs /\ "ASYNC" \notin b_flags[B] /\ DurableFor(q)
      /\ pc[q] = "wrote" => B \notin active
      /\ pc'[q] = pc[q] /\ bp'[q] = B /\ uerror'[q] = uerror[q]
  BY <1>1, Held DEF OwningPCs, DurableInv, IInv, UseInv, UseFor
<1>4. b_blk[B] \in Blocks /\ OthersFirst(q)
  BY <1>3 DEF DurableFor
<1>5. CASE B = b
  <2>1. pc[q] = "wwait" /\ "READ" \notin b_flags[b]
    BY <1>0, <1>3, <1>5 DEF DurableFor
  <2>2. b_flags' = [b_flags EXCEPT ![b] = fl \ {"WANTED"}] /\ UNCHANGED b_blk
    BY <1>3, <1>5 DEF Iodone
  <2>3. "ERROR" \in b_flags'[b] \/ disk'[b_blk'[b]] = data'[b]
    <3>1. CASE err
      BY <1>0, <2>2, <3>1 DEF TypeOK
    <3>2. CASE ~err
      BY <1>0, <1>1, <2>1, <2>2, <3>2 DEF TypeOK
    <3> QED BY <3>1, <3>2
  <2>4. OthersFirst(q)'
    <3>1. SUFFICES ASSUME NEW c \in active' \ {b}, b_blk'[c] = b_blk'[b], "READ" \notin b_flags'[c]
                   PROVE  FALSE
      BY <1>3, <1>5 DEF OthersFirst
    <3>2. c \in active \ {b} /\ c \in Bufs
      BY <1>0, <1>1 DEF TypeOK
    <3>3. c \in ahead[b]
      BY <1>2, <1>4, <1>5, <2>2, <3>1, <3>2 DEF OthersFirst
    <3> QED BY <1>0, <3>3
  <2> QED BY <1>1, <1>3, <1>4, <1>5, <2>1, <2>2, <2>3, <2>4 DEF DurableFor
<1>6. CASE B # b
  <2>1. /\ b_flags'[B] = b_flags[B] /\ b_blk'[B] = b_blk[B] /\ data'[B] = data[B]
        /\ B \in active' <=> B \in active
    BY <1>1, <1>2, <1>3, <1>6
  <2>2. OthersFirst(q)'
    <3>1. SUFFICES ASSUME NEW c \in active' \ {B}, b_blk'[c] = b_blk'[B], "READ" \notin b_flags'[c]
                   PROVE  B \in active' /\ c \in ahead'[B]
      BY <1>3 DEF OthersFirst
    <3>2. c \in active \ {B} /\ c \in Bufs /\ c # b
      BY <1>0, <1>1 DEF TypeOK
    <3>3. B \in active /\ c \in ahead[B]
      BY <1>2, <1>4, <2>1, <3>1, <3>2 DEF OthersFirst
    <3> QED BY <1>1, <1>3, <2>1, <3>2, <3>3
  <2>3. B \notin active => disk'[b_blk[B]] = disk[b_blk[B]]
    <3>1. CASE "READ" \in b_flags[b]
      BY <1>1, <3>1
    <3>2. CASE "READ" \notin b_flags[b]
      <4>1. B \notin active => b_blk[b] # b_blk[B]
        BY <1>0, <1>4, <1>6, <3>2 DEF OthersFirst
      <4> QED BY <1>0, <1>1, <1>4, <4>1 DEF TypeOK
    <3> QED BY <3>1, <3>2
  <2>4. pc[q] = "wwait" =>
          IF B \in active THEN "READ" \notin b_flags[B]
          ELSE "ERROR" \in b_flags[B] \/ disk[b_blk[B]] = data[B]
    BY <1>3 DEF DurableFor
  <2>5. pc[q] = "wrote" => uerror[q] \/ disk[b_blk[B]] = data[B]
    BY <1>3 DEF DurableFor
  <2> QED BY <1>3, <1>4, <2>1, <2>2, <2>3, <2>4, <2>5 DEF DurableFor
<1> QED BY <1>5, <1>6

(* What every process has found and every delayed write stay valid.        *)
LEMMA InitValid == Init => ValidInv
BY DEF Init, ValidInv, CallInv, CallFor, CpuPCs, FoundInv, FoundFor, OwningPCs, DelayedInv

(* The same after any step.                                                *)
LEMMA NextValid == ASSUME IInv, ValidInv, [Next]_vars PROVE ValidInv'
<1>0. CallInv /\ FoundInv /\ DelayedInv
  BY DEF ValidInv
<1>1. ASSUME NEW p \in Procs, Proceed(p) PROVE ValidInv'
  <2>1. CallInv' /\ DelayedInv'
    BY <1>0, <1>1, ProceedCall, ProceedDelayed
  <2>2. FoundInv'
    BY <1>0, <1>1, GetblkFound, BreadFound, CallerFound DEF Proceed
  <2> QED BY <2>1, <2>2 DEF ValidInv
<1>2. ASSUME NEW p \in Procs, NEW c \in CallsOf[p], Start(p, c) PROVE ValidInv'
  <2>1. CallInv'
    BY <1>0, <1>2, StartCall
  <2>2. /\ Alone(p) /\ UNCHANGED <<bufVars, kept>> /\ TypeOK /\ PcFor(p)
        /\ pc[p] = "user" /\ cur = None /\ pc'[p] \in {"bflush", "getblk"}
    BY <1>2, StartsAlone DEF Start, Enter, Goto, IInv, TypeOK, PcInv
  <2>3. FoundFor(p)'
    BY <2>2 DEF FoundFor, OwningPCs, PcFor
  <2>4. \A q \in Procs \ {p} : \A b \in Owns(q) : Keeps(b)
    BY <2>2 DEF Keeps, bufVars
  <2>5. FoundInv'
    BY <1>0, <2>2, <2>3, <2>4, OthersFound
  <2>6. DelayedInv'
    BY <1>0, <2>2 DEF DelayedInv, bufVars
  <2> QED BY <2>1, <2>5, <2>6 DEF ValidInv
<1>3. ASSUME NEW b \in Bufs, NEW err \in BOOLEAN, Iodone(b, err) PROVE ValidInv'
  <2>1. CallInv'
    BY <1>0, <1>3 DEF Iodone, CallInv, CallFor, LastClose
  <2> QED BY <1>0, <1>3, <2>1, IodoneFound, IodoneDelayed DEF ValidInv
<1>4. CASE UNCHANGED vars
  BY <1>4 DEF vars, bufVars, diskVars, procVars, ValidInv, CallInv, CallFor, LastClose, FoundInv,
    FoundFor, Finds, Want, DelayedInv
<1> QED BY <1>1, <1>2, <1>3, <1>4 DEF Next, Interrupt

(* The synchronous writes under way stay so.                               *)
LEMMA NextDurable ==
  ASSUME IInv, OneBufferPerBlock, ClosedInv, ValidInv, DurableInv, [Next]_vars
  PROVE  DurableInv'
<1>0. CallInv /\ FoundInv /\ DelayedInv
  BY DEF ValidInv
<1>1. ASSUME NEW p \in Procs, Proceed(p) PROVE DurableInv'
  BY <1>0, <1>1, GetblkDurable, BreadDurable, CallerDurable DEF Proceed
<1>2. ASSUME NEW p \in Procs, NEW c \in CallsOf[p], Start(p, c) PROVE DurableInv'
  <2>1. /\ Alone(p) /\ UNCHANGED <<bufVars, diskVars>> /\ TypeOK
        /\ pc'[p] \in {"bflush", "getblk"}
    BY <1>2, StartsAlone DEF Start, Enter, Goto, IInv, TypeOK
  <2>2. DurableFor(p)'
    BY <2>1 DEF DurableFor
  <2>3. /\ \A b \in Bufs : Fixed(b)
        /\ UNCHANGED disk /\ active' \subseteq Bufs
    BY <2>1 DEF Fixed, bufVars, diskVars, TypeOK
  <2> QED BY <1>0, <2>1, <2>2, <2>3, FixedDurable
<1>3. ASSUME NEW b \in Bufs, NEW err \in BOOLEAN, Iodone(b, err) PROVE DurableInv'
  BY <1>3, IodoneDurable
<1>4. CASE UNCHANGED vars
  BY <1>4 DEF vars, bufVars, diskVars, procVars, DurableInv, DurableFor, OthersFirst
<1> QED BY <1>1, <1>2, <1>3, <1>4 DEF Next, Interrupt

(* Every reachable state satisfies ValidInv.                               *)
THEOREM BuffersAreValid == Spec => []ValidInv
BY InitValid, NextValid, Invariant, PTL DEF Spec

(* bwrite's promise.  When its wait is over the disk has what the process  *)
(* wrote, or the process has u.u_error, whatever the others did meanwhile  *)
(* to the block, the device, the cache or the flags of the buffer: where a *)
(* device that is closed has a disk alone on its controller.  Otherwise    *)
(* disksort may let a write of another process that the close has made     *)
(* invalid follow it (CleanIsOnDisk).                                      *)
THEOREM SyncWritesDurable == ASSUME ClosesInOrder PROVE Spec => []SyncWriteDurable
<1>1. Init => DurableInv
  BY DEF Init, DurableInv, DurableFor
<1>2. IInv /\ OneBufferPerBlock /\ ClosedInv /\ ValidInv /\ DurableInv /\ [Next]_vars
        => DurableInv'
  BY NextDurable
<1>3. DurableInv => SyncWriteDurable
  BY DEF DurableInv, DurableFor, SyncWriteDurable
<1> QED BY <1>1, <1>2, <1>3, Invariant, OneBuffer, ClosedInvariant, BuffersAreValid, PTL DEF Spec
=============================================================================
