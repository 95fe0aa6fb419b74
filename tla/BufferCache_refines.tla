-------------------------- MODULE BufferCache_refines --------------------------
(***************************************************************************)
(* The cache implements the block store, for any processes, buffers,       *)
(* devices, blocks, values and calls, as long as no transfer and no copy   *)
(* from user space fails, and a device that is closed has a disk alone on  *)
(* its controller (ClosesInOrder).  A block contains what its delayed      *)
(* write holds in memory or, if it has none, what the last write of it     *)
(* that the driver has yet to do will leave on the disk or, if there is    *)
(* none either, what the disk has.  StoreInv adds to the invariants of the *)
(* cache that the clean buffers agree with that and that the driver's      *)
(* queue is in order.                                                      *)
(***************************************************************************)
EXTENDS BufferCache_proofs

(***************************************************************************)
(* The inductive invariant                                                 *)
(***************************************************************************)
(* No transfer fails, and no copy from user space.                         *)
NoFailures == Errors = {} /\ ~Faults

NoErrors ==
  /\ \A b \in Bufs : /\ "ERROR" \notin b_flags[b]
                     /\ b_blk[b] = NODEV => "INVAL" \in b_flags[b]
  /\ \A p \in Procs : ~uerror[p]

(* The driver does write b of block k after every other write of k.        *)
IsLast(b, k) ==
  /\ b \in Writes(k)
  /\ \A c \in Writes(k) : b \notin ahead[c] /\ (c # b => c \in ahead[b])

(* A transfer for a valid buffer comes after the writes of its block.      *)
OrderInv ==
  /\ \A b \in Bufs : ahead[b] \subseteq active
  /\ \A k \in Blocks : Writes(k) = {} \/ \E b \in Bufs : IsLast(b, k)
  /\ \A b \in active : "INVAL" \notin b_flags[b] => Writes(b_blk[b]) \ {b} \subseteq ahead[b]

(* What the disk will contain of block k when the driver is done.          *)
Beneath(k, v) ==
  \/ Writes(k) = {} /\ v = disk[k]
  \/ \E b \in Bufs : IsLast(b, k) /\ v = data[b]

(* A valid buffer whose transfer is over is a delayed write, or has what   *)
(* the disk will contain.                                                  *)
CleanInv ==
  \A b \in Bufs :
    /\ "DONE" \in b_flags[b] /\ {"INVAL", "DELWRI"} \cap b_flags[b] = {}
    /\ b_blk[b] \in Blocks
    => Beneath(b_blk[b], data[b])

StoreInv == NoErrors /\ OrderInv /\ CleanInv

SInv == IInv /\ OneBufferPerBlock /\ ClosedInv /\ ValidInv /\ StoreInv

-----------------------------------------------------------------------------
(***************************************************************************)
(* What a block contains, without CHOOSE                                   *)
(***************************************************************************)
Delayed(b, k) == b_blk[b] = k /\ "DELWRI" \in b_flags[b]

Contains(k, v) ==
  \/ \E b \in Bufs : Delayed(b, k) /\ v = data[b]
  \/ (\A b \in Bufs : ~Delayed(b, k)) /\ Beneath(k, v)

(* There is at most one last write of a block.                             *)
LEMMA LastIs ==
  ASSUME NEW k, NEW b, IsLast(b, k)
  PROVE  LastWrite(k) = b
<1> DEFINE Later(c) == c \in Writes(k) /\ \A w \in Writes(k) : c \notin ahead[w]
<1>1. Later(b)
  BY DEF IsLast
<1>2. \A c : Later(c) => c = b
  BY DEF IsLast
<1>3. LastWrite(k) = CHOOSE c : Later(c)
  BY Zenon DEF LastWrite
<1> HIDE DEF Later
<1> QED BY <1>1, <1>2, <1>3

(* What will be on the disk is one value.                                  *)
LEMMA BeneathIs ==
  ASSUME NEW k \in Blocks, NEW v, Beneath(k, v)
  PROVE  v = IF Writes(k) # {} THEN data[LastWrite(k)] ELSE disk[k]
<1>1. CASE Writes(k) = {}
  BY <1>1 DEF Beneath, IsLast
<1>2. CASE Writes(k) # {}
  <2>1. PICK b \in Bufs : IsLast(b, k) /\ v = data[b]
    BY <1>2 DEF Beneath
  <2> QED BY <1>2, <2>1, LastIs
<1> QED BY <1>1, <1>2

(* A buffer in a write for its owner is valid or not; if it is valid, what *)
(* it holds is what will be on the disk.                                   *)
LEMMA WriteBeneath ==
  ASSUME SInv, NEW b \in active, "READ" \notin b_flags[b], "INVAL" \notin b_flags[b]
  PROVE  Beneath(b_blk[b], data[b])
<1>1. b \in Bufs /\ b_blk[b] \in Blocks /\ b \in Writes(b_blk[b])
  BY DEF SInv, IInv, TypeOK, PlaceInv, Place, Writes
<1>2. PICK c \in Bufs : IsLast(c, b_blk[b])
  BY <1>1 DEF SInv, StoreInv, OrderInv
<1>3. Writes(b_blk[b]) \ {b} \subseteq ahead[b]
  BY DEF SInv, StoreInv, OrderInv
<1>4. c = b
  BY <1>1, <1>2, <1>3 DEF IsLast
<1> QED BY <1>1, <1>2, <1>4 DEF Beneath

(* The value that the refinement mapping gives a block is the one that it  *)
(* contains.                                                               *)
LEMMA StoreIs ==
  ASSUME SInv, NEW k \in Blocks, NEW v, Contains(k, v)
  PROVE  Store[k] = v
<1> DEFINE Valid(b) == b_blk[b] = k /\ Authoritative(b)
           Low == IF Writes(k) # {} THEN data[LastWrite(k)] ELSE disk[k]
<1>0. Store[k] = IF \E b \in Bufs : Valid(b) THEN data[CHOOSE b \in Bufs : Valid(b)] ELSE Low
  BY Zenon DEF Store
<1>1. \A b, c \in Bufs : Valid(b) /\ Valid(c) => b = c
  <2>1. k # NODEV
    BY Zenon, NoneAssumption DEF NODEV
  <2> QED BY <2>1 DEF SInv, OneBufferPerBlock, Authoritative
<1>2. ASSUME NEW b \in Bufs, Valid(b) PROVE Store[k] = data[b]
  <2>1. (CHOOSE c \in Bufs : Valid(c)) = b
    <3>1. \A c \in Bufs : Valid(c) => c = b
      BY <1>1, <1>2
    <3> HIDE DEF Valid
    <3> QED BY <1>2, <3>1
  <2> HIDE DEF Valid
  <2> QED BY <1>0, <1>2, <2>1
<1>3. CASE \E b \in Bufs : Delayed(b, k) /\ v = data[b]
  <2>1. PICK b \in Bufs : Delayed(b, k) /\ v = data[b]
    BY <1>3
  <2>2. Valid(b)
    BY <2>1 DEF Delayed, Authoritative, SInv, ValidInv, DelayedInv
  <2> QED BY <1>2, <2>1, <2>2
<1>4. CASE (\A b \in Bufs : ~Delayed(b, k)) /\ Beneath(k, v)
  <2>1. v = Low
    BY <1>4, BeneathIs
  <2>2. ASSUME NEW b \in Bufs, Valid(b) PROVE data[b] = Low
    <3>1. Beneath(k, data[b])
      <4>1. CASE "DONE" \in b_flags[b]
        BY <1>4, <2>2, <4>1 DEF Delayed, Authoritative, SInv, StoreInv, CleanInv
      <4>2. CASE "DONE" \notin b_flags[b]
        <5>1. b \in active /\ "READ" \notin b_flags[b] /\ "INVAL" \notin b_flags[b]
          BY <1>4, <2>2, <4>2 DEF Delayed, Authoritative
        <5> QED BY <2>2, <5>1, WriteBeneath
      <4> QED BY <4>1, <4>2
    <3> QED BY <3>1, BeneathIs
  <2> HIDE DEF Valid, Low
  <2>3. CASE \E b \in Bufs : Valid(b)
    BY <1>2, <2>1, <2>2, <2>3
  <2>4. CASE ~\E b \in Bufs : Valid(b)
    BY <1>0, <2>1, <2>4
  <2> QED BY <2>3, <2>4
<1> QED BY <1>3, <1>4 DEF Contains

(* A block always contains something.                                      *)
LEMMA ContainsSome ==
  ASSUME SInv, NEW k \in Blocks
  PROVE  \E v \in Values : Contains(k, v)
<1>0. TypeOK
  BY DEF SInv, IInv
<1>1. CASE \E b \in Bufs : Delayed(b, k)
  BY <1>0, <1>1 DEF Contains, TypeOK
<1>2. CASE ~\E b \in Bufs : Delayed(b, k)
  <2>1. \E v \in Values : Beneath(k, v)
    BY <1>0 DEF Beneath, TypeOK, SInv, StoreInv, OrderInv
  <2> QED BY <1>2, <2>1 DEF Contains
<1> QED BY <1>1, <1>2

(* The mapping is right in every state that satisfies the invariant, hence *)
(* after a step.                                                           *)
StoreFits == \A k \in Blocks : \A v : SInv /\ Contains(k, v) => Store[k] = v

LEMMA StoreAlwaysFits == StoreFits
BY StoreIs DEF StoreFits

LEMMA StoreFitsNext == StoreFits'
BY StoreAlwaysFits, PTL

(* The same after a step.                                                  *)
LEMMA StoreIsNext ==
  ASSUME SInv', NEW k \in Blocks, NEW v, Contains(k, v)'
  PROVE  Store'[k] = v
BY StoreFitsNext DEF StoreFits

(* A step that leaves what every block contains leaves the store.          *)
LEMMA SameStore ==
  ASSUME SInv, SInv', \A k \in Blocks : \A v : Contains(k, v) => Contains(k, v)'
  PROVE  Store' = Store
<1>1. ASSUME NEW k \in Blocks PROVE Store'[k] = Store[k]
  <2>1. PICK v \in Values : Contains(k, v)
    BY ContainsSome
  <2> QED BY <2>1, StoreIs, StoreIsNext
<1>2. Store = [k \in Blocks |-> Store[k]] /\ Store' = [k \in Blocks |-> Store'[k]]
  BY DEF Store
<1> QED BY <1>1, <1>2

(* A step that leaves what every block but one contains stores in that one.*)
LEMMA OneStored ==
  ASSUME SInv, SInv', NEW k \in Blocks, NEW v, Contains(k, v)',
         \A j \in Blocks \ {k} : \A w : Contains(j, w) => Contains(j, w)'
  PROVE  Store' = [Store EXCEPT ![k] = v]
<1>1. ASSUME NEW j \in Blocks PROVE Store'[j] = IF j = k THEN v ELSE Store[j]
  <2>1. CASE j = k
    BY <2>1, StoreIsNext
  <2>2. CASE j # k
    <3>1. PICK w \in Values : Contains(j, w)
      BY ContainsSome
    <3> QED BY <2>2, <3>1, StoreIs, StoreIsNext
  <2> QED BY <2>1, <2>2
<1>2. Store = [j \in Blocks |-> Store[j]] /\ Store' = [j \in Blocks |-> Store'[j]]
  BY DEF Store
<1> QED BY <1>1, <1>2

-----------------------------------------------------------------------------
(***************************************************************************)
(* The ways in which a step touches what the blocks contain                *)
(***************************************************************************)
(* Buffer c keeps its block and contents; at most it becomes invalid, and  *)
(* then it is no delayed write.                                            *)
Kept(c) ==
  /\ b_blk'[c] = b_blk[c] /\ data'[c] = data[c]
  /\ \A f \in {"READ", "DONE", "DELWRI"} : f \in b_flags'[c] <=> f \in b_flags[c]
  /\ "INVAL" \in b_flags[c] => "INVAL" \in b_flags'[c]

Same == \A k \in Blocks : \A v : Contains(k, v) => Contains(k, v)'

(* What will be on the disk depends on the driver's writes alone.          *)
LEMMA BeneathKept ==
  ASSUME NEW k, Writes(k)' = Writes(k), disk'[k] = disk[k],
         \A c \in Writes(k) : ahead'[c] = ahead[c] /\ data'[c] = data[c]
  PROVE  /\ \A b : IsLast(b, k) => IsLast(b, k)'
         /\ \A v : Beneath(k, v) => Beneath(k, v)'
<1>1. ASSUME NEW b, IsLast(b, k) PROVE IsLast(b, k)' /\ data'[b] = data[b]
  BY <1>1 DEF IsLast
<1> QED BY <1>1 DEF Beneath

(* A step that gives the driver no write and touches the contents of no    *)
(* buffer but b, which the driver does not have.                           *)
LEMMA IdleBeneath ==
  ASSUME SInv, NEW b, b \in Bufs => b \notin active, \A c \in Bufs \ {b} : Kept(c),
         UNCHANGED disk, active \subseteq active', active' \subseteq active \cup {b},
         \A c \in active : ahead'[c] = ahead[c],
         b \in active' => "READ" \in b_flags'[b]
  PROVE  \A k : /\ Writes(k)' = Writes(k)
                /\ \A c : IsLast(c, k) => IsLast(c, k)'
                /\ \A v : Beneath(k, v) => Beneath(k, v)'
<1> SUFFICES ASSUME NEW k
             PROVE  /\ Writes(k)' = Writes(k)
                    /\ \A c : IsLast(c, k) => IsLast(c, k)'
                    /\ \A v : Beneath(k, v) => Beneath(k, v)'
  OBVIOUS
<1>1. active \subseteq Bufs
  BY DEF SInv, IInv, TypeOK
<1>2. Writes(k)' = Writes(k)
  BY <1>1 DEF Writes, Kept
<1>3. \A c \in Writes(k) : ahead'[c] = ahead[c] /\ data'[c] = data[c]
  BY <1>1 DEF Writes, Kept
<1> QED BY <1>2, <1>3, BeneathKept

(* The same when b is given no transfer: the queue stays in order.         *)
LEMMA IdleOrder ==
  ASSUME SInv, NEW b, b \in Bufs => b \notin active, \A c \in Bufs \ {b} : Kept(c),
         UNCHANGED diskVars
  PROVE  /\ OrderInv'
         /\ \A k : \A v : Beneath(k, v) => Beneath(k, v)'
<1> USE DEF diskVars
<1>1. \A k : /\ Writes(k)' = Writes(k)
             /\ \A c : IsLast(c, k) => IsLast(c, k)'
             /\ \A v : Beneath(k, v) => Beneath(k, v)'
  <2>1. b \in Bufs \/ b \notin active
    BY DEF SInv, IInv, TypeOK
  <2> QED BY <2>1, IdleBeneath
<1>2. ASSUME NEW c \in active, "INVAL" \notin b_flags'[c]
      PROVE  Writes(b_blk[c])' \ {c} \subseteq ahead'[c]
  <2>1. c \in Bufs \ {b}
    BY DEF SInv, IInv, TypeOK
  <2>2. b_blk'[c] = b_blk[c] /\ "INVAL" \notin b_flags[c]
    BY <1>2, <2>1 DEF Kept
  <2>3. Writes(b_blk[c]) \ {c} \subseteq ahead[c]
    BY <2>2 DEF SInv, StoreInv, OrderInv
  <2> QED BY <1>1, <2>2, <2>3
<1> QED BY <1>1, <1>2 DEF SInv, StoreInv, OrderInv

(* Nothing happens to the contents of any buffer.                          *)
LEMMA KeptStore ==
  ASSUME SInv, \A c \in Bufs : Kept(c), UNCHANGED diskVars,
         \A c \in Bufs : "DELWRI" \in b_flags[c] => "INVAL" \notin b_flags'[c]
  PROVE  OrderInv' /\ CleanInv' /\ Same
<1> USE DEF diskVars
<1>1. PICK n : n \notin Bufs
  BY NoneAssumption
<1>2. OrderInv' /\ \A k : \A v : Beneath(k, v) => Beneath(k, v)'
  BY <1>1, IdleOrder
<1>3. CleanInv'
  BY <1>2 DEF SInv, StoreInv, CleanInv, Kept
<1>4. Same
  BY <1>2 DEF Same, Contains, Delayed, Kept
<1> QED BY <1>2, <1>3, <1>4

(* A clean buffer is given another block, which it has yet to read.        *)
LEMMA AssignStore ==
  ASSUME SInv, NEW b \in Bufs, b \notin active, "DELWRI" \notin b_flags[b],
         {"DONE", "DELWRI"} \cap b_flags'[b] = {},
         \A c \in Bufs \ {b} : Kept(c), UNCHANGED diskVars
  PROVE  OrderInv' /\ CleanInv' /\ Same
<1>1. OrderInv' /\ \A k : \A v : Beneath(k, v) => Beneath(k, v)'
  BY IdleOrder
<1>2. CleanInv'
  <2>1. SUFFICES ASSUME NEW c \in Bufs, "DONE" \in b_flags'[c], b_blk'[c] \in Blocks,
                        {"INVAL", "DELWRI"} \cap b_flags'[c] = {}
                 PROVE  Beneath(b_blk[c], data[c])'
    BY DEF CleanInv
  <2>2. c # b /\ Kept(c)
    BY <2>1
  <2>3. Beneath(b_blk[c], data[c])
    BY <2>1, <2>2 DEF Kept, SInv, StoreInv, CleanInv
  <2> QED BY <1>1, <2>2, <2>3 DEF Kept
<1>3. Same
  <2>1. \A k : \A c \in Bufs : Delayed(c, k) <=> Delayed(c, k)'
    BY DEF Delayed, Kept
  <2>2. \A k : \A c \in Bufs : Delayed(c, k) => data'[c] = data[c]
    BY DEF Delayed, Kept
  <2> QED BY <1>1, <2>1, <2>2 DEF Same, Contains
<1> QED BY <1>1, <1>2, <1>3

(* A buffer becomes a delayed write of its block.                          *)
LEMMA DelayStore ==
  ASSUME SInv, NEW b \in Bufs, b \notin active, b_blk[b] \in Blocks, b_blk'[b] = b_blk[b],
         "DELWRI" \in b_flags'[b], NEW v, data'[b] = v,
         \A c \in Bufs \ {b} : Kept(c), UNCHANGED diskVars
  PROVE  /\ OrderInv' /\ CleanInv'
         /\ Contains(b_blk[b], v)'
         /\ \A j \in Blocks \ {b_blk[b]} : \A w : Contains(j, w) => Contains(j, w)'
<1>1. OrderInv' /\ \A k : \A w : Beneath(k, w) => Beneath(k, w)'
  BY IdleOrder
<1>2. CleanInv'
  <2>1. SUFFICES ASSUME NEW c \in Bufs, "DONE" \in b_flags'[c], b_blk'[c] \in Blocks,
                        {"INVAL", "DELWRI"} \cap b_flags'[c] = {}
                 PROVE  Beneath(b_blk[c], data[c])'
    BY DEF CleanInv
  <2>2. c # b /\ Kept(c)
    BY <2>1
  <2>3. Beneath(b_blk[c], data[c])
    BY <2>1, <2>2 DEF Kept, SInv, StoreInv, CleanInv
  <2> QED BY <1>1, <2>2, <2>3 DEF Kept
<1>3. Contains(b_blk[b], v)'
  BY DEF Contains, Delayed
<1>4. ASSUME NEW j \in Blocks \ {b_blk[b]}, NEW w, Contains(j, w) PROVE Contains(j, w)'
  <2>1. \A c \in Bufs : Delayed(c, j) <=> Delayed(c, j)'
    BY DEF Delayed, Kept
  <2>2. \A c \in Bufs : Delayed(c, j) => data'[c] = data[c]
    BY DEF Delayed, Kept
  <2> QED BY <1>1, <1>4, <2>1, <2>2 DEF Contains
<1> QED BY <1>1, <1>2, <1>3, <1>4 DEF Contains

(* The driver is given a read: it comes after the writes of the block.     *)
LEMMA ReadStore ==
  ASSUME SInv, NEW b \in Bufs, b \notin active, "DONE" \notin b_flags[b],
         NEW fl, Strategy(b, fl), "READ" \in fl, "DONE" \notin fl, "DELWRI" \notin fl,
         UNCHANGED <<b_blk, data>>
  PROVE  OrderInv' /\ CleanInv' /\ Same
<1>0. /\ b_flags' = [b_flags EXCEPT ![b] = fl] /\ active' = active \cup {b}
      /\ ahead' = [ahead EXCEPT ![b] = {c \in active : b_blk[c] = b_blk[b]}]
      /\ UNCHANGED disk /\ TypeOK
  <2>1. ahead' = [ahead EXCEPT ![b] = Queued(b)]
    BY StrategyQueues DEF SInv, IInv
  <2> QED BY <2>1 DEF Strategy, Queued, SInv, IInv
<1>1. \A c \in Bufs \ {b} : Kept(c) /\ b_flags'[c] = b_flags[c]
  BY <1>0 DEF Kept, TypeOK
<1>2. b_flags'[b] = fl /\ \A c \in active : ahead'[c] = ahead[c]
  BY <1>0 DEF TypeOK
<1>3. \A k : /\ Writes(k)' = Writes(k)
             /\ \A c : IsLast(c, k) => IsLast(c, k)'
             /\ \A v : Beneath(k, v) => Beneath(k, v)'
  BY <1>0, <1>1, <1>2, IdleBeneath
<1>4. OrderInv'
  <2>1. \A c \in Bufs : ahead'[c] \subseteq active'
    BY <1>0 DEF TypeOK, SInv, StoreInv, OrderInv
  <2>2. ASSUME NEW c \in active', "INVAL" \notin b_flags'[c]
        PROVE  Writes(b_blk[c])' \ {c} \subseteq ahead'[c]
    <3>1. CASE c = b
      <4>1. ahead'[b] = {d \in active : b_blk[d] = b_blk[b]}
        BY <1>0 DEF TypeOK
      <4> QED BY <1>3, <3>1, <4>1 DEF Writes
    <3>2. CASE c # b
      <4>1. c \in active /\ "INVAL" \notin b_flags[c]
        BY <1>0, <1>1, <2>2, <3>2 DEF TypeOK
      <4> QED BY <1>2, <1>3, <4>1 DEF SInv, StoreInv, OrderInv
    <3> QED BY <3>1, <3>2
  <2>3. \A k \in Blocks : Writes(k)' = {} \/ \E c \in Bufs : IsLast(c, k)'
    BY <1>3 DEF SInv, StoreInv, OrderInv
  <2> QED BY <2>1, <2>2, <2>3 DEF OrderInv
<1>5. CleanInv'
  <2>1. SUFFICES ASSUME NEW c \in Bufs, "DONE" \in b_flags'[c], b_blk'[c] \in Blocks,
                        {"INVAL", "DELWRI"} \cap b_flags'[c] = {}
                 PROVE  Beneath(b_blk[c], data[c])'
    BY DEF CleanInv
  <2>2. c # b /\ Kept(c) /\ b_flags'[c] = b_flags[c]
    BY <1>1, <1>2, <2>1
  <2>3. Beneath(b_blk[c], data[c])
    BY <2>1, <2>2 DEF Kept, SInv, StoreInv, CleanInv
  <2> QED BY <1>3, <2>2, <2>3 DEF Kept
<1>6. Same
  <2>1. "DELWRI" \notin b_flags[b]
    BY DEF SInv, ValidInv, DelayedInv
  <2>2. \A k : \A c \in Bufs : Delayed(c, k) <=> Delayed(c, k)'
    BY <1>1, <1>2, <2>1 DEF Delayed, Kept
  <2> QED BY <1>3, <2>2 DEF Same, Contains
<1> QED BY <1>4, <1>5, <1>6

(* The driver is given a write of a valid buffer: it is the last of the    *)
(* block, which has no other valid buffer.                                 *)
LEMMA WriteStore ==
  ASSUME SInv, NEW b \in Bufs, b \notin active, "INVAL" \notin b_flags[b],
         NEW fl, Strategy(b, fl), fl \cap {"READ", "DONE", "DELWRI"} = {},
         UNCHANGED b_blk, \A c \in Bufs \ {b} : data'[c] = data[c], NEW v, data'[b] = v
  PROVE  /\ OrderInv' /\ CleanInv'
         /\ Contains(b_blk[b], v)'
         /\ \A j \in Blocks \ {b_blk[b]} : \A w : Contains(j, w) => Contains(j, w)'
<1>0. /\ b_flags' = [b_flags EXCEPT ![b] = fl] /\ active' = active \cup {b}
      /\ ahead' = [ahead EXCEPT ![b] = {c \in active : b_blk[c] = b_blk[b]}]
      /\ UNCHANGED disk /\ TypeOK
  <2>1. ahead' = [ahead EXCEPT ![b] = Queued(b)]
    BY StrategyQueues DEF SInv, IInv
  <2> QED BY <2>1 DEF Strategy, Queued, SInv, IInv
<1> DEFINE k == b_blk[b]
<1>1. \A c \in Bufs \ {b} : Kept(c) /\ b_flags'[c] = b_flags[c]
  BY <1>0 DEF Kept, TypeOK
<1>2. /\ b_flags'[b] = fl /\ \A c \in active : ahead'[c] = ahead[c]
      /\ ahead'[b] = {c \in active : b_blk[c] = b_blk[b]}
      /\ active \subseteq Bufs
  BY <1>0 DEF TypeOK
<1>3. k \in Blocks /\ k # NODEV
  <2>1. k \in Blocks
    BY DEF Strategy
  <2> QED BY <2>1, Zenon, NoneAssumption DEF NODEV
<1>4. /\ \A j : j # k => Writes(j)' = Writes(j)
      /\ Writes(k)' = Writes(k) \cup {b}
  BY <1>0, <1>1, <1>2 DEF Writes
<1>5. \A j : j # k => /\ \A c : IsLast(c, j) => IsLast(c, j)'
                      /\ \A w : Beneath(j, w) => Beneath(j, w)'
  <2> SUFFICES ASSUME NEW j, j # k
               PROVE  /\ \A c : IsLast(c, j) => IsLast(c, j)'
                      /\ \A w : Beneath(j, w) => Beneath(j, w)'
    OBVIOUS
  <2>1. \A c \in Writes(j) : ahead'[c] = ahead[c] /\ data'[c] = data[c]
    BY <1>2 DEF Writes
  <2> QED BY <1>0, <1>4, <2>1, BeneathKept
<1>6. IsLast(b, k)'
  <2>1. \A c \in Bufs : ahead[c] \subseteq active
    BY DEF SInv, StoreInv, OrderInv
  <2>2. \A c \in Writes(k)' : b \notin ahead'[c]
    BY <1>2, <1>4, <2>1 DEF Writes
  <2>3. \A c \in Writes(k) : c \in ahead'[b]
    BY <1>2 DEF Writes
  <2>4. b_blk'[b] = k
    BY <1>0
  <2> HIDE DEF k
  <2>5. b \in Writes(k)' /\ \A c \in Writes(k)' : b \notin ahead'[c] /\ (c # b => c \in ahead'[b])
    BY <1>4, <2>2, <2>3
  <2> QED BY <2>5 DEF IsLast, k
<1>7. \A c \in Bufs \ {b} : b_blk[c] = k => "INVAL" \in b_flags[c]
  BY <1>3 DEF SInv, OneBufferPerBlock
<1>8. OrderInv'
  <2>1. \A c \in Bufs : ahead'[c] \subseteq active'
    BY <1>0, <1>2 DEF TypeOK, SInv, StoreInv, OrderInv
  <2>2. ASSUME NEW c \in active', "INVAL" \notin b_flags'[c]
        PROVE  Writes(b_blk[c])' \ {c} \subseteq ahead'[c]
    <3>1. CASE c = b
      BY <1>2, <1>4, <3>1 DEF Writes
    <3>2. CASE c # b
      <4>1. c \in active /\ "INVAL" \notin b_flags[c] /\ b_blk[c] # k
        BY <1>0, <1>1, <1>2, <1>7, <2>2, <3>2
      <4>2. Writes(b_blk[c])' = Writes(b_blk[c])
        BY <1>4, <4>1
      <4> QED BY <1>2, <4>1, <4>2 DEF SInv, StoreInv, OrderInv
    <3> QED BY <3>1, <3>2
  <2>3. \A j \in Blocks : Writes(j)' = {} \/ \E c \in Bufs : IsLast(c, j)'
    BY <1>4, <1>5, <1>6 DEF SInv, StoreInv, OrderInv
  <2> QED BY <2>1, <2>2, <2>3 DEF OrderInv
<1>9. CleanInv'
  <2>1. SUFFICES ASSUME NEW c \in Bufs, "DONE" \in b_flags'[c], b_blk'[c] \in Blocks,
                        {"INVAL", "DELWRI"} \cap b_flags'[c] = {}
                 PROVE  Beneath(b_blk[c], data[c])'
    BY DEF CleanInv
  <2>2. c # b /\ Kept(c) /\ b_flags'[c] = b_flags[c]
    BY <1>1, <1>2, <2>1
  <2>3. Beneath(b_blk[c], data[c]) /\ b_blk[c] # k
    BY <1>7, <2>1, <2>2 DEF Kept, SInv, StoreInv, CleanInv
  <2> QED BY <1>5, <2>2, <2>3 DEF Kept
<1>10. Contains(k, v)'
  <2>1. \A c \in Bufs : ~Delayed(c, k)'
    BY <1>1, <1>2, <1>7 DEF Delayed, SInv, ValidInv, DelayedInv
  <2>2. Beneath(k, v)'
    BY <1>6 DEF Beneath
  <2> QED BY <2>1, <2>2 DEF Contains
<1>11. ASSUME NEW j \in Blocks \ {k}, NEW w, Contains(j, w) PROVE Contains(j, w)'
  <2>1. \A c \in Bufs : Delayed(c, j) <=> Delayed(c, j)'
    BY <1>1 DEF Delayed, Kept
  <2>2. \A c \in Bufs : Delayed(c, j) => data'[c] = data[c]
    BY DEF Delayed
  <2> QED BY <1>5, <1>11, <2>1, <2>2 DEF Contains
<1> QED BY <1>8, <1>9, <1>10, <1>11

(* What the end of a transfer without error does to the headers.           *)
LEMMA IodoneHeaders ==
  ASSUME SInv, NEW b \in Bufs, Iodone(b, FALSE)
  PROVE  /\ UNCHANGED b_blk
         /\ \A c \in Bufs \ {b} : b_flags'[c] = b_flags[c]
         /\ \A f \in {"READ", "DELWRI", "INVAL", "ERROR"} : f \in b_flags'[b] <=> f \in b_flags[b]
         /\ "ERROR" \notin b_flags'[b]
<1> DEFINE fl == b_flags[b] \cup {"DONE"}
<1>1. TypeOK /\ "ERROR" \notin fl
  BY DEF SInv, IInv, StoreInv, NoErrors
<1>2. CASE "ASYNC" \in fl
  <2>1. Brelse(b, fl)
    BY <1>2 DEF Iodone
  <2> QED BY <1>1, <2>1 DEF Brelse, BrelseFlags, TypeOK
<1>3. CASE "ASYNC" \notin fl
  <2>1. b_flags' = [b_flags EXCEPT ![b] = fl \ {"WANTED"}] /\ UNCHANGED b_blk
    BY <1>3 DEF Iodone
  <2> QED BY <1>1, <2>1 DEF TypeOK
<1> QED BY <1>2, <1>3

(* The end of a transfer without error.  A read finds on the disk what the *)
(* block contains, for the writes of the block came first; a write is the  *)
(* first of its block, and what the last will leave does not change.       *)
LEMMA IodoneStore ==
  ASSUME SInv, NEW b \in Bufs, Iodone(b, FALSE)
  PROVE  OrderInv' /\ CleanInv' /\ Same
<1> DEFINE k == b_blk[b]
<1>0. TypeOK /\ k \in Blocks /\ b \in active /\ ahead[b] = {} /\ "DELWRI" \notin b_flags[b]
  BY DEF SInv, IInv, PlaceInv, Place, Iodone, ValidInv, DelayedInv
<1>1. /\ UNCHANGED b_blk /\ active' = active \ {b}
      /\ \A c \in Bufs : ahead'[c] = ahead[c] \ {b}
      /\ \A c \in Bufs \ {b} : b_flags'[c] = b_flags[c] /\ data'[c] = data[c]
      /\ "READ" \in b_flags[b] => UNCHANGED disk /\ data'[b] = disk[k]
      /\ "READ" \notin b_flags[b] => UNCHANGED data /\ disk' = [disk EXCEPT ![k] = data[b]]
      /\ \A f \in {"READ", "DELWRI", "INVAL"} : f \in b_flags'[b] <=> f \in b_flags[b]
  <2>1. /\ UNCHANGED b_blk /\ \A c \in Bufs \ {b} : b_flags'[c] = b_flags[c]
        /\ \A f \in {"READ", "DELWRI", "INVAL"} : f \in b_flags'[b] <=> f \in b_flags[b]
    BY IodoneHeaders
  <2>2. /\ active' = active \ {b} /\ ahead' = [c \in Bufs |-> ahead[c] \ {b}]
        /\ "READ" \in b_flags[b] => UNCHANGED disk /\ data' = [data EXCEPT ![b] = disk[k]]
        /\ "READ" \notin b_flags[b] => UNCHANGED data /\ disk' = [disk EXCEPT ![k] = data[b]]
    BY DEF Iodone
  <2>3. \A c \in Bufs \ {b} : data'[c] = data[c]
    BY <1>0, <2>2 DEF TypeOK
  <2> QED BY <1>0, <2>1, <2>2, <2>3 DEF TypeOK
<1>2. \A j : Writes(j)' = Writes(j) \ {b}
  BY <1>0, <1>1 DEF Writes, TypeOK
<1>3. \A j : \A c \in Bufs \ {b} : IsLast(c, j) => IsLast(c, j)'
  <2> SUFFICES ASSUME NEW j, NEW c \in Bufs \ {b}, IsLast(c, j) PROVE IsLast(c, j)'
    OBVIOUS
  <2>1. Writes(j) \subseteq Bufs
    BY <1>0 DEF Writes, TypeOK
  <2> QED BY <1>1, <1>2, <2>1 DEF IsLast
<1>4. \A j \in Blocks : IsLast(b, j) => j = k /\ Writes(j) = {b} /\ "READ" \notin b_flags[b]
  BY <1>0 DEF IsLast, Writes
<1>5. \A j \in Blocks : \A w : Beneath(j, w) => Beneath(j, w)'
  <2> SUFFICES ASSUME NEW j \in Blocks, NEW w, Beneath(j, w) PROVE Beneath(j, w)'
    OBVIOUS
  <2>1. CASE Writes(j) = {} /\ w = disk[j]
    <3>1. disk'[j] = disk[j]
      <4>1. CASE "READ" \in b_flags[b]
        BY <1>1, <4>1
      <4>2. CASE "READ" \notin b_flags[b]
        <5>1. j # k
          BY <1>0, <2>1, <4>2 DEF Writes
        <5> QED BY <1>0, <1>1, <4>2, <5>1 DEF TypeOK
      <4> QED BY <4>1, <4>2
    <3> QED BY <1>2, <2>1, <3>1 DEF Beneath
  <2>2. CASE \E c \in Bufs : IsLast(c, j) /\ w = data[c]
    <3>1. PICK c \in Bufs : IsLast(c, j) /\ w = data[c]
      BY <2>2
    <3>2. CASE c # b
      BY <1>1, <1>3, <3>1, <3>2 DEF Beneath
    <3>3. CASE c = b
      <4>1. Writes(j)' = {} /\ j = k /\ "READ" \notin b_flags[b]
        BY <1>2, <1>4, <3>1, <3>3
      <4>2. disk'[j] = data[b]
        BY <1>0, <1>1, <4>1 DEF TypeOK
      <4> QED BY <3>1, <3>3, <4>1, <4>2 DEF Beneath
    <3> QED BY <3>2, <3>3
  <2> QED BY <2>1, <2>2 DEF Beneath
<1>6. OrderInv'
  <2>1. \A c \in Bufs : ahead'[c] \subseteq active'
    BY <1>1 DEF SInv, StoreInv, OrderInv
  <2>2. ASSUME NEW c \in active', "INVAL" \notin b_flags'[c]
        PROVE  Writes(b_blk[c])' \ {c} \subseteq ahead'[c]
    <3>1. c \in active \ {b} /\ c \in Bufs /\ "INVAL" \notin b_flags[c] /\ b_blk'[c] = b_blk[c]
      BY <1>0, <1>1, <2>2 DEF TypeOK
    <3>2. Writes(b_blk[c]) \ {c} \subseteq ahead[c]
      BY <3>1 DEF SInv, StoreInv, OrderInv
    <3> QED BY <1>1, <1>2, <3>1, <3>2
  <2>3. ASSUME NEW j \in Blocks PROVE Writes(j)' = {} \/ \E c \in Bufs : IsLast(c, j)'
    <3>1. CASE Writes(j) = {}
      BY <1>2, <3>1
    <3>2. CASE Writes(j) # {}
      <4>1. PICK c \in Bufs : IsLast(c, j)
        BY <3>2 DEF SInv, StoreInv, OrderInv
      <4> QED BY <1>2, <1>3, <1>4, <4>1
    <3> QED BY <3>1, <3>2
  <2> QED BY <2>1, <2>2, <2>3 DEF OrderInv
<1>7. CleanInv'
  <2>1. SUFFICES ASSUME NEW c \in Bufs, "DONE" \in b_flags'[c], b_blk'[c] \in Blocks,
                        {"INVAL", "DELWRI"} \cap b_flags'[c] = {}
                 PROVE  Beneath(b_blk[c], data[c])'
    BY DEF CleanInv
  <2>2. b_blk'[c] = b_blk[c] /\ b_blk[c] \in Blocks
    BY <1>1, <2>1
  <2>3. CASE c # b
    <3>1. Beneath(b_blk[c], data[c])
      BY <1>1, <2>1, <2>2, <2>3 DEF SInv, StoreInv, CleanInv
    <3> QED BY <1>1, <1>5, <2>2, <2>3, <3>1
  <2>4. CASE c = b /\ "READ" \notin b_flags[b]
    <3>1. Beneath(b_blk[b], data[b])
      BY <1>0, <1>1, <2>1, <2>4, WriteBeneath
    <3> QED BY <1>1, <1>5, <2>2, <2>4, <3>1
  <2>5. CASE c = b /\ "READ" \in b_flags[b]
    <3>1. Writes(k) \ {b} \subseteq ahead[b]
      BY <1>0, <1>1, <2>1, <2>5 DEF SInv, StoreInv, OrderInv
    <3>2. Writes(k)' = {} /\ disk' = disk /\ data'[b] = disk[k]
      BY <1>0, <1>1, <1>2, <2>5, <3>1
    <3> QED BY <2>2, <2>5, <3>2 DEF Beneath
  <2> QED BY <2>3, <2>4, <2>5
<1>8. Same
  <2>1. \A j : \A c \in Bufs : Delayed(c, j) <=> Delayed(c, j)'
    BY <1>0, <1>1 DEF Delayed
  <2>2. \A j : \A c \in Bufs : Delayed(c, j) => data'[c] = data[c]
    BY <1>0, <1>1 DEF Delayed
  <2> QED BY <1>5, <2>1, <2>2 DEF Same, Contains
<1> QED BY <1>6, <1>7, <1>8

-----------------------------------------------------------------------------
(***************************************************************************)
(* Who holds a block                                                       *)
(***************************************************************************)
Holds(p, k) == \E b \in Owns(p) : Match(b, k)

HolderFits ==
  \A k \in Blocks :
    /\ \A p \in Procs : SInv /\ Holds(p, k) => Holder[k] = p
    /\ (\A p \in Procs : ~Holds(p, k)) => Holder[k] = None

(* A block has at most one holder: it has one valid buffer, and that one   *)
(* has one owner.                                                          *)
LEMMA HolderAlwaysFits == HolderFits
<1>1. ASSUME NEW k \in Blocks, NEW p \in Procs, SInv, Holds(p, k) PROVE Holder[k] = p
  <2>1. ASSUME NEW q \in Procs, Holds(q, k) PROVE q = p
    <3>1. PICK b \in Owns(p), c \in Owns(q) : Match(b, k) /\ Match(c, k)
      BY <1>1, <2>1 DEF Holds
    <3>2. b \in Bufs /\ c \in Bufs
      BY <1>1, OwnedIsBusy DEF SInv
    <3>3. b = c
      BY <1>1, <3>1, <3>2 DEF Match, SInv, OneBufferPerBlock
    <3> QED BY <1>1, <3>2, <3>3 DEF SInv, IInv, PlaceInv, Place
  <2>2. Holder[k] = IF \E q \in Procs : Holds(q, k) THEN CHOOSE q \in Procs : Holds(q, k) ELSE None
    BY Zenon DEF Holder, Holds
  <2> HIDE DEF Holds
  <2> QED BY <1>1, <2>1, <2>2
<1>2. ASSUME NEW k \in Blocks, \A p \in Procs : ~Holds(p, k) PROVE Holder[k] = None
  BY <1>2 DEF Holder, Holds
<1> QED BY <1>1, <1>2 DEF HolderFits

(* The same after a step.                                                  *)
LEMMA HolderFitsNext == HolderFits'
BY HolderAlwaysFits, PTL

(* A step that changes the holds on one block at most.                     *)
LEMMA HolderMoves ==
  ASSUME SInv, SInv', NEW k,
         \A j \in Blocks \ {k} : \A q \in Procs : Holds(q, j)' <=> Holds(q, j)
  PROVE  Holder' = [Holder EXCEPT ![k] = Holder'[k]]
<1>1. ASSUME NEW j \in Blocks, j # k PROVE Holder'[j] = Holder[j]
  <2>1. CASE \E q \in Procs : Holds(q, j)
    BY <1>1, <2>1, HolderAlwaysFits, HolderFitsNext DEF HolderFits
  <2>2. CASE \A q \in Procs : ~Holds(q, j)
    BY <1>1, <2>2, HolderAlwaysFits, HolderFitsNext DEF HolderFits
  <2> QED BY <2>1, <2>2
<1>2. Holder = [j \in Blocks |-> Holder[j]] /\ Holder' = [j \in Blocks |-> Holder'[j]]
  BY DEF Holder
<1> QED BY <1>1, <1>2

(* Buffer c stands for what it stood for.                                  *)
SameBlock(c) == b_blk'[c] = b_blk[c] /\ ("INVAL" \in b_flags'[c] <=> "INVAL" \in b_flags[c])

Others(p) == \A q \in Procs \ {p} : Owns(q)' = Owns(q)

(* What a step of p does to the buffers that the processes own.            *)
Quiet == \A q \in Procs : Owns(q)' = Owns(q) /\ \A c \in Owns(q) : SameBlock(c)

Gains(p, b) ==
  /\ Others(p) /\ Owns(p)' = Owns(p) \cup {b}
  /\ \A q \in Procs : b \notin Owns(q) /\ \A c \in Owns(q) : SameBlock(c)

Loses(p, b) ==
  /\ Others(p) /\ b \in Owns(p) /\ Owns(p)' = Owns(p) \ {b}
  /\ \A q \in Procs : \A c \in Owns(q) \ {b} : SameBlock(c)

(* Nobody's hold changes.                                                  *)
LEMMA QuietHolder == ASSUME SInv, SInv', Quiet PROVE Holder' = Holder
<1>1. \A j \in Blocks : \A q \in Procs : Holds(q, j)' <=> Holds(q, j)
  BY DEF Holds, Quiet, SameBlock, Match
<1>2. PICK k : k \notin Blocks
  BY NoneAssumption
<1>3. Holder' = [Holder EXCEPT ![k] = Holder'[k]]
  BY <1>1, HolderMoves
<1> QED BY <1>2, <1>3 DEF Holder

(* A process that gains a buffer takes the block that the buffer stands    *)
(* for, if any, which nobody held.                                         *)
LEMMA GainHolder ==
  ASSUME SInv, SInv', NEW p \in Procs, NEW b \in Bufs, Gains(p, b)
  PROVE  \/ Holder' = Holder
         \/ \E k \in Blocks : Holder[k] = None /\ Holder' = [Holder EXCEPT ![k] = p]
<1>0. PICK k : k = b_blk'[b]
  OBVIOUS
<1>1. \A j : \A q \in Procs : Holds(q, j)' <=> Holds(q, j) \/ (q = p /\ Match(b, j)')
  <2>1. ASSUME NEW j, NEW q \in Procs
        PROVE  Holds(q, j)' <=> Holds(q, j) \/ (q = p /\ Match(b, j)')
    <3>1. \A c \in Owns(q) : Match(c, j)' <=> Match(c, j)
      BY DEF Gains, SameBlock, Match
    <3>2. CASE q = p
      <4>1. Owns(q)' = Owns(q) \cup {b}
        BY <3>2 DEF Gains
      <4> QED BY <3>1, <3>2, <4>1 DEF Holds
    <3>3. CASE q # p
      <4>1. Owns(q)' = Owns(q)
        BY <3>3 DEF Gains, Others
      <4> QED BY <3>1, <3>3, <4>1 DEF Holds
    <3> QED BY <3>2, <3>3
  <2> QED BY <2>1
<1>2. \A j : Match(b, j)' => j = k
  BY <1>0 DEF Match
<1>3. Holder' = [Holder EXCEPT ![k] = Holder'[k]]
  BY <1>1, <1>2, HolderMoves
<1>4. CASE k \in Blocks /\ Match(b, k)'
  <2>1. Holds(p, k)'
    BY <1>1, <1>4
  <2>2. Holder'[k] = p
    BY <1>4, <2>1, HolderFitsNext DEF HolderFits
  <2>3. ASSUME NEW q \in Procs, Holds(q, k) PROVE FALSE
    <3>1. PICK c \in Owns(q) : Match(c, k)
      BY <2>3 DEF Holds
    <3>2. c \in Bufs /\ c # b /\ Match(c, k)'
      BY <3>1, OwnedIsBusy DEF SInv, Gains, SameBlock, Match
    <3>3. OneBufferPerBlock'
      BY DEF SInv
    <3> QED BY <1>4, <3>2, <3>3 DEF OneBufferPerBlock, Match
  <2>4. Holder[k] = None
    BY <1>4, <2>3, HolderAlwaysFits DEF HolderFits
  <2> QED BY <1>3, <1>4, <2>2, <2>4
<1>5. CASE ~(k \in Blocks /\ Match(b, k)')
  <2>1. \A j \in Blocks : \A q \in Procs : Holds(q, j)' <=> Holds(q, j)
    BY <1>1, <1>2, <1>5
  <2>2. PICK n : n \notin Blocks
    BY NoneAssumption
  <2>3. Holder' = [Holder EXCEPT ![n] = Holder'[n]]
    BY <2>1, HolderMoves
  <2> QED BY <2>2, <2>3 DEF Holder
<1> QED BY <1>4, <1>5

(* A process that loses a buffer gives back the block that the buffer      *)
(* stood for, if any.                                                      *)
LEMMA LoseHolder ==
  ASSUME SInv, SInv', NEW p \in Procs, NEW b \in Bufs, Loses(p, b)
  PROVE  IF b_blk[b] \in Blocks /\ "INVAL" \notin b_flags[b]
         THEN Holder[b_blk[b]] = p /\ Holder' = [Holder EXCEPT ![b_blk[b]] = None]
         ELSE Holder' = Holder
<1>0. PICK k : k = b_blk[b]
  OBVIOUS
<1>1. \A j : \A q \in Procs : Holds(q, j) <=> Holds(q, j)' \/ (q = p /\ Match(b, j))
  <2>1. ASSUME NEW j, NEW q \in Procs
        PROVE  Holds(q, j) <=> Holds(q, j)' \/ (q = p /\ Match(b, j))
    <3>1. \A c \in Owns(q) \ {b} : Match(c, j)' <=> Match(c, j)
      BY DEF Loses, SameBlock, Match
    <3>2. CASE q = p
      <4>1. Owns(q)' = Owns(q) \ {b} /\ b \in Owns(q)
        BY <3>2 DEF Loses
      <4> QED BY <3>1, <3>2, <4>1 DEF Holds
    <3>3. CASE q # p
      <4>1. Owns(q)' = Owns(q)
        BY <3>3 DEF Loses, Others
      <4>2. b \notin Owns(q)
        BY <3>3, OwnedIsBusy DEF SInv, Loses
      <4> QED BY <3>1, <3>3, <4>1, <4>2 DEF Holds
    <3> QED BY <3>2, <3>3
  <2> QED BY <2>1
<1>2. \A j : Match(b, j) => j = k
  BY <1>0 DEF Match
<1>3. CASE k \in Blocks /\ "INVAL" \notin b_flags[b]
  <2>0. Match(b, k)
    <3>1. k # NODEV
      BY <1>3, Zenon, NoneAssumption DEF NODEV
    <3> QED BY <1>0, <1>3, <3>1 DEF Match
  <2>1. Holder' = [Holder EXCEPT ![k] = Holder'[k]]
    BY <1>1, <1>2, HolderMoves
  <2>2. Holder[k] = p
    BY <1>1, <1>3, <2>0, HolderAlwaysFits DEF HolderFits
  <2>3. ASSUME NEW q \in Procs, Holds(q, k)' PROVE FALSE
    <3>1. Holds(q, k)
      BY <1>1, <2>3
    <3>2. q = p
      BY <1>3, <2>2, <3>1, HolderAlwaysFits DEF HolderFits
    <3>3. PICK c \in Owns(p) \ {b} : Match(c, k)'
      BY <2>3, <3>2 DEF Holds, Loses
    <3>4. Match(c, k) /\ c \in Bufs
      BY <3>3, OwnedIsBusy DEF SInv, Loses, SameBlock, Match
    <3> QED BY <2>0, <3>3, <3>4 DEF Match, SInv, OneBufferPerBlock
  <2>4. Holder'[k] = None
    BY <1>3, <2>3, HolderFitsNext DEF HolderFits
  <2> QED BY <1>0, <1>3, <2>1, <2>2, <2>4
<1>4. CASE ~(k \in Blocks /\ "INVAL" \notin b_flags[b])
  <2>1. \A j \in Blocks : \A q \in Procs : Holds(q, j)' <=> Holds(q, j)
    BY <1>0, <1>1, <1>2, <1>4 DEF Match
  <2>2. PICK n : n \notin Blocks
    BY NoneAssumption
  <2>3. Holder' = [Holder EXCEPT ![n] = Holder'[n]]
    BY <2>1, HolderMoves
  <2>4. Holder' = Holder
    BY <2>2, <2>3 DEF Holder
  <2> QED BY <1>0, <1>4, <2>4
<1> QED BY <1>3, <1>4

-----------------------------------------------------------------------------
(***************************************************************************)
(* What every step does                                                    *)
(***************************************************************************)
StoreKeeps == OrderInv' /\ CleanInv' /\ Same

(* Value v is stored in the block of buffer b.                             *)
Stores(b, v) ==
  /\ OrderInv' /\ CleanInv' /\ b_blk[b] \in Blocks /\ b_blk'[b] = b_blk[b]
  /\ Contains(b_blk[b], v)'
  /\ \A j \in Blocks \ {b_blk[b]} : \A w : Contains(j, w) => Contains(j, w)'

FiveFlags == {"READ", "DONE", "DELWRI", "INVAL", "ERROR"}

(* A step of p leaves what the others own.                                 *)
LEMMA AloneOthers == ASSUME NEW p \in Procs, Alone(p) PROVE Others(p)
BY DEF Alone, Others, Owns

(* A step that changes B_BUSY, B_WANTED, B_AGE, B_ASYNC and B_LOCKED only. *)
LEMMA Untouched ==
  ASSUME SInv, UNCHANGED <<b_blk, data, diskVars>>,
         \A c \in Bufs : \A f \in FiveFlags : f \in b_flags'[c] <=> f \in b_flags[c]
  PROVE  /\ StoreKeeps
         /\ \A c \in Bufs : SameBlock(c) /\ "ERROR" \notin b_flags'[c]
<1>1. \A c \in Bufs : Kept(c)
  BY DEF Kept, FiveFlags
<1>2. \A c \in Bufs : SameBlock(c) /\ "ERROR" \notin b_flags'[c]
  BY DEF SameBlock, FiveFlags, SInv, StoreInv, NoErrors
<1>3. \A c \in Bufs : "DELWRI" \in b_flags[c] => "INVAL" \notin b_flags'[c]
  BY DEF FiveFlags, SInv, ValidInv, DelayedInv
<1> QED BY <1>1, <1>2, <1>3, KeptStore DEF StoreKeeps

(* brelse of a buffer without B_ERROR changes none of the five flags.      *)
LEMMA BrelseHeaders ==
  ASSUME TypeOK, NEW b \in Bufs, NEW fl, "ERROR" \notin fl, Brelse(b, fl)
  PROVE  /\ UNCHANGED b_blk
         /\ \A c \in Bufs \ {b} : b_flags'[c] = b_flags[c]
         /\ \A f \in FiveFlags : f \in b_flags'[b] <=> f \in fl
BY DEF TypeOK, Brelse, BrelseFlags, FiveFlags

(* The strategy routine changes the flags of one buffer.                   *)
LEMMA StrategyHeaders ==
  ASSUME TypeOK, NEW b \in Bufs, NEW fl, "ERROR" \notin fl, Strategy(b, fl), NoErrors
  PROVE  /\ \A c \in Bufs \ {b} : b_flags'[c] = b_flags[c]
         /\ b_flags'[b] = fl
         /\ \A c \in Bufs : "ERROR" \notin b_flags'[c]
BY DEF TypeOK, Strategy, NoErrors

(* Starting the write of a free delayed write changes no contents.         *)
LEMMA FlushStore ==
  ASSUME SInv, NEW b \in Bufs, av[b] # "none", "DELWRI" \in b_flags[b],
         NEW fl, Strategy(b, fl), fl \in {BwriteFlags(b_flags[b]) \cup {"BUSY", "ASYNC"},
                                          BwriteFlags(b_flags[b]) \cup {"BUSY", "ASYNC", "AGE"}},
         UNCHANGED <<b_blk, data>>
  PROVE  /\ StoreKeeps
         /\ \A c \in Bufs : SameBlock(c) /\ "ERROR" \notin b_flags'[c]
<1>1. "INVAL" \notin b_flags[b] /\ b \notin active /\ TypeOK /\ b_blk[b] \in Blocks
  BY DEF SInv, ValidInv, DelayedInv, IInv, PlaceInv, Place, Strategy
<1>2. fl \cap {"READ", "DONE", "DELWRI"} = {} /\ "ERROR" \notin fl
  BY DEF BwriteFlags
<1>3. /\ OrderInv' /\ CleanInv' /\ Contains(b_blk[b], data[b])'
      /\ \A j \in Blocks \ {b_blk[b]} : \A w : Contains(j, w) => Contains(j, w)'
  BY <1>1, <1>2, WriteStore
<1>4. ASSUME NEW w, Contains(b_blk[b], w) PROVE w = data[b]
  <2>1. Contains(b_blk[b], data[b])
    BY DEF Contains, Delayed
  <2>2. Store[b_blk[b]] = w /\ Store[b_blk[b]] = data[b]
    BY <1>1, <1>4, <2>1, StoreIs
  <2> QED BY <2>2
<1>5. UNCHANGED <<b_blk, data>>
  OBVIOUS
<1>6. Same
  <2> SUFFICES ASSUME NEW k \in Blocks, NEW w, Contains(k, w) PROVE Contains(k, w)'
    BY DEF Same
  <2>1. PICK v : v = data[b]
    OBVIOUS
  <2>2. PICK m : m = b_blk[b]
    OBVIOUS
  <2>3. Contains(m, v)'
    BY <1>3, <1>5, <2>1, <2>2
  <2> QED BY <1>3, <1>4, <2>1, <2>2, <2>3
<1>7. \A c \in Bufs : SameBlock(c) /\ "ERROR" \notin b_flags'[c]
  <2>1. "INVAL" \notin fl
    BY <1>1 DEF BwriteFlags
  <2> QED BY <1>1, <1>2, <2>1, StrategyHeaders DEF SameBlock, SInv, StoreInv
<1> QED BY <1>3, <1>6, <1>7 DEF StoreKeeps

(* A step of getblk changes what no block contains; it gives p a buffer or *)
(* moves none.                                                             *)
LEMMA GetblkOutcome ==
  ASSUME SInv, NEW p \in Procs, Getblk(p)
  PROVE  StoreKeeps /\ NoErrors' /\ (Quiet \/ \E b \in Bufs : Gains(p, b))
<1> USE DEF bufVars, diskVars, procVars, Goto
<1>0. TypeOK /\ PcFor(p) /\ NoErrors /\ Others(p) /\ UNCHANGED uerror
  <2>1. Others(p)
    BY ProceedsAlone, AloneOthers DEF SInv, Proceed
  <2>2. UNCHANGED uerror
    BY DEF Getblk, GetblkHit, GetblkBusy, GetblkClaim, GetblkSleep, GetblkVictim, VictimTail,
      GetblkAssign
  <2> QED BY <2>1, <2>2 DEF SInv, IInv, PcInv, StoreInv
<1>a. \A q \in Procs : \A c \in Owns(q) : c \in Bufs /\ av[c] = "none"
  BY OwnedIsBusy DEF SInv
<1>b. ASSUME Owns(p)' = Owns(p), \A c \in Bufs : SameBlock(c) PROVE Quiet
  BY <1>0, <1>a, <1>b DEF Quiet, Others
<1>c. ASSUME \A c \in Bufs : SameBlock(c) /\ "ERROR" \notin b_flags'[c] PROVE NoErrors'
  BY <1>0, <1>c DEF NoErrors, SameBlock
<1>1. CASE GetblkHit(p) \/ GetblkBusy(p) \/ GetblkSleep(p) \/ VictimTail(p)
  <2>1. /\ UNCHANGED <<b_blk, data, diskVars>>
        /\ \A c \in Bufs : \A f \in FiveFlags : f \in b_flags'[c] <=> f \in b_flags[c]
    BY <1>0, <1>1 DEF GetblkHit, GetblkBusy, GetblkSleep, VictimTail, FiveFlags, TypeOK
  <2>2. Owns(p)' = Owns(p)
    BY <1>0, <1>1 DEF GetblkHit, GetblkBusy, GetblkSleep, VictimTail, TypeOK, Owns, OwningPCs
  <2> QED BY <1>b, <1>c, <2>1, <2>2, Untouched
<1>2. CASE GetblkClaim(p)
  <2>1. /\ UNCHANGED <<b_blk, data, diskVars>>
        /\ \A c \in Bufs : \A f \in FiveFlags : f \in b_flags'[c] <=> f \in b_flags[c]
    BY <1>0, <1>2 DEF GetblkClaim, FiveFlags, TypeOK
  <2>2. StoreKeeps /\ NoErrors' /\ \A c \in Bufs : SameBlock(c)
    BY <1>c, <2>1, Untouched
  <2>3. PICK b \in Bufs : b = bp[p] /\ "BUSY" \notin b_flags[b]
    BY <1>0, <1>2 DEF GetblkClaim, PcFor, HoldingPCs, PCs
  <2>4. \A q \in Procs : b \notin Owns(q)
    BY <2>3, OwnedIsBusy DEF SInv
  <2>5. Owns(p)' = Owns(p) \cup {b}
    BY <1>0, <1>2, <2>3 DEF GetblkClaim, TypeOK, Owns, OwningPCs
  <2> QED BY <1>0, <1>a, <2>2, <2>4, <2>5 DEF Gains
<1>3. CASE GetblkVictim(p)
  <2>1. PICK b \in Reusable : /\ "DELWRI" \in b_flags[b]
                             /\ Strategy(b, BwriteFlags(b_flags[b]) \cup {"BUSY", "ASYNC"})
    BY <1>3 DEF GetblkVictim
  <2>2. b \in Bufs /\ av[b] # "none" /\ UNCHANGED <<b_blk, data>>
    BY <1>3 DEF Reusable, GetblkVictim
  <2>3. Owns(p)' = Owns(p)
    BY <1>0, <1>3 DEF GetblkVictim, TypeOK, Owns, OwningPCs
  <2>4. StoreKeeps /\ \A c \in Bufs : SameBlock(c) /\ "ERROR" \notin b_flags'[c]
    BY <2>1, <2>2, FlushStore
  <2> QED BY <1>b, <1>c, <2>3, <2>4
<1>4. CASE GetblkAssign(p)
  <2>1. PICK b \in Reusable :
          /\ "DELWRI" \notin b_flags[b]
          /\ b_flags' = [b_flags EXCEPT ![b] =
                           IF Want(p) = NODEV THEN {"BUSY", "INVAL"} ELSE {"BUSY"}]
          /\ b_blk' = [b_blk EXCEPT ![b] = Want(p)]
          /\ bp' = [bp EXCEPT ![p] = b]
    BY <1>4 DEF GetblkAssign
  <2>2. b \in Bufs /\ av[b] # "none" /\ UNCHANGED <<data, diskVars>>
    BY <1>4 DEF Reusable, GetblkAssign
  <2>3. b \notin active /\ \A q \in Procs : b \notin Owns(q)
    BY <1>a, <2>2 DEF SInv, IInv, PlaceInv, Place
  <2>4. /\ \A c \in Bufs \ {b} : b_flags'[c] = b_flags[c] /\ b_blk'[c] = b_blk[c]
        /\ b_flags'[b] \subseteq {"BUSY", "INVAL"}
    BY <1>0, <2>1, <2>2 DEF TypeOK
  <2>5. StoreKeeps
    <3>1. \A c \in Bufs \ {b} : Kept(c)
      BY <2>2, <2>4 DEF Kept
    <3> QED BY <2>1, <2>2, <2>3, <2>4, <3>1, AssignStore DEF StoreKeeps
  <2>6. NoErrors'
    <3>1. b_blk'[b] = NODEV => "INVAL" \in b_flags'[b]
      BY <1>0, <2>1, <2>2 DEF TypeOK
    <3> QED BY <1>0, <2>4, <3>1 DEF NoErrors
  <2>7. Owns(p)' = Owns(p) \cup {b}
    BY <1>0, <1>4, <2>1, <2>2 DEF GetblkAssign, TypeOK, Owns, OwningPCs
  <2>8. Gains(p, b)
    BY <1>0, <1>a, <2>3, <2>4, <2>7 DEF Gains, SameBlock
  <2> QED BY <2>2, <2>5, <2>6, <2>8
<1> QED BY <1>1, <1>2, <1>3, <1>4 DEF Getblk

(* Starting a read that bread and breada ask for changes no contents.      *)
LEMMA StartRead ==
  ASSUME SInv, NEW b \in Bufs, b \notin active, "DONE" \notin b_flags[b], NEW fl, Strategy(b, fl),
         fl \in {b_flags[b] \cup {"READ"}, b_flags[b] \cup {"READ", "ASYNC"}},
         UNCHANGED <<b_blk, data>>
  PROVE  /\ StoreKeeps
         /\ \A c \in Bufs : SameBlock(c) /\ "ERROR" \notin b_flags'[c]
<1>1. /\ "DELWRI" \notin fl /\ "DONE" \notin fl /\ "ERROR" \notin fl /\ TypeOK /\ NoErrors
      /\ "INVAL" \in fl <=> "INVAL" \in b_flags[b]
  BY DEF SInv, ValidInv, DelayedInv, IInv, StoreInv, NoErrors
<1>2. "READ" \in fl
  OBVIOUS
<1>3. StoreKeeps
  BY <1>1, <1>2, ReadStore DEF StoreKeeps
<1> QED BY <1>1, <1>3, StrategyHeaders DEF SameBlock

(* A step of bread changes what no block contains; p gives back one buffer *)
(* or none.                                                                *)
LEMMA BreadOutcome ==
  ASSUME SInv, NEW p \in Procs, Bread(p)
  PROVE  StoreKeeps /\ NoErrors' /\ (Quiet \/ \E b \in Bufs : Loses(p, b))
<1> USE DEF bufVars, diskVars, procVars, Goto
<1>0. TypeOK /\ PcFor(p) /\ NoErrors /\ Others(p) /\ UseFor(p)
  <2>1. Others(p)
    BY ProceedsAlone, AloneOthers DEF SInv, Proceed
  <2> QED BY <2>1 DEF SInv, IInv, PcInv, StoreInv, UseInv
<1>a. pc[p] \in OwningPCs =>
        /\ bp[p] \in Bufs /\ bp[p] \in Owns(p)
        /\ Owns(p) \ {bp[p]} = (IF kept[p] # None THEN {kept[p]} ELSE {})
  BY Held DEF SInv
<1>b. \A q \in Procs : \A c \in Owns(q) : c \in Bufs
  BY OwnedIsBusy DEF SInv
<1>c. ASSUME Owns(p)' = Owns(p), \A c \in Bufs : SameBlock(c) PROVE Quiet
  BY <1>0, <1>b, <1>c DEF Quiet, Others
<1>d. ASSUME \A c \in Bufs : SameBlock(c) /\ "ERROR" \notin b_flags'[c], UNCHANGED uerror
      PROVE  NoErrors'
  BY <1>0, <1>d DEF NoErrors, SameBlock
<1>1. CASE BreadCached(p) \/ IowaitSleep(p) \/ IowaitDone(p)
  <2>1. /\ UNCHANGED <<b_blk, b_flags, data, diskVars>>
        /\ \A c \in Bufs : \A f \in FiveFlags : f \in b_flags'[c] <=> f \in b_flags[c]
    BY <1>1 DEF BreadCached, IowaitSleep, IowaitDone
  <2>2. Owns(p)' = Owns(p)
    BY <1>0, <1>1 DEF BreadCached, IowaitSleep, IowaitDone, TypeOK, Owns, OwningPCs
  <2>3. StoreKeeps /\ \A c \in Bufs : SameBlock(c)
    BY <2>1, Untouched
  <2>4. \A q \in Procs : ~uerror'[q]
    <3>1. CASE IowaitDone(p)
      <4>1. "ERROR" \notin b_flags[bp[p]]
        BY <1>0, <1>a, <3>1 DEF IowaitDone, OwningPCs, NoErrors
      <4> QED BY <1>0, <3>1, <4>1 DEF IowaitDone, NoErrors, TypeOK
    <3>2. CASE BreadCached(p) \/ IowaitSleep(p)
      BY <1>0, <3>2 DEF BreadCached, IowaitSleep, NoErrors
    <3> QED BY <1>1, <3>1, <3>2
  <2>5. NoErrors'
    BY <1>0, <2>1, <2>4 DEF NoErrors
  <2> QED BY <1>c, <2>2, <2>3, <2>5
<1>2. CASE BreadStart(p)
  <2>1. PICK b \in Bufs : b = bp[p]
    BY <1>a, <1>2 DEF BreadStart, OwningPCs
  <2>2. /\ b \notin active /\ "DONE" \notin b_flags[b] /\ Strategy(b, b_flags[b] \cup {"READ"})
        /\ UNCHANGED <<b_blk, data, uerror>>
    BY <1>0, <1>2, <2>1 DEF BreadStart, UseFor
  <2>3. Owns(p)' = Owns(p)
    BY <1>0, <1>2 DEF BreadStart, TypeOK, Owns, OwningPCs
  <2>4. StoreKeeps /\ \A c \in Bufs : SameBlock(c) /\ "ERROR" \notin b_flags'[c]
    BY <2>2, StartRead
  <2> QED BY <1>c, <1>d, <2>2, <2>3, <2>4
<1>3. CASE BreadaMain(p)
  <2>1. pc[p] = "got" /\ kept[p] = None /\ bp[p] \in Bufs /\ bp[p] \notin active
    BY <1>0, <1>a, <1>3 DEF BreadaMain, PcFor, UseFor, OwningPCs
  <2>2. Owns(p)' = Owns(p) /\ UNCHANGED <<b_blk, data, uerror>>
    <3>1. CASE WantsAhead(call[p])
      BY <1>0, <1>3, <2>1, <3>1, NoneAssumption DEF BreadaMain, TypeOK, Owns, OwningPCs
    <3>2. CASE ~WantsAhead(call[p])
      BY <1>0, <1>3, <2>1, <3>2 DEF BreadaMain, TypeOK, Owns, OwningPCs
    <3> QED BY <3>1, <3>2
  <2>3. StoreKeeps /\ \A c \in Bufs : SameBlock(c) /\ "ERROR" \notin b_flags'[c]
    <3>1. CASE "DONE" \in b_flags[bp[p]]
      BY <1>3, <2>2, <3>1, Untouched DEF BreadaMain
    <3>2. CASE "DONE" \notin b_flags[bp[p]]
      <4>1. Strategy(bp[p], b_flags[bp[p]] \cup {"READ"})
        BY <1>3, <3>2 DEF BreadaMain
      <4> QED BY <2>1, <2>2, <3>2, <4>1, StartRead
    <3> QED BY <3>1, <3>2
  <2> QED BY <1>c, <1>d, <2>2, <2>3
<1>4. CASE BreadaCached(p) \/ BreadaAhead(p)
  <2>1. PICK b \in Bufs : b = bp[p]
    BY <1>a, <1>4 DEF BreadaCached, BreadaAhead, OwningPCs
  <2>2. /\ pc[p] = "got" /\ b \notin active /\ BreadaFinish(p) /\ UNCHANGED <<data, uerror>>
        /\ b \in Owns(p) /\ Owns(p) \ {b} = (IF kept[p] # None THEN {kept[p]} ELSE {})
    BY <1>0, <1>a, <1>4, <2>1 DEF BreadaCached, BreadaAhead, BreadaFinish, UseFor, OwningPCs
  <2>3. Owns(p)' = Owns(p) \ {b}
    <3>1. CASE kept[p] # None
      BY <1>0, <2>2, <3>1 DEF BreadaFinish, TypeOK, Owns, OwningPCs
    <3>2. CASE kept[p] = None
      BY <1>0, <2>2, <3>2 DEF BreadaFinish, TypeOK, Owns, OwningPCs
    <3> QED BY <3>1, <3>2
  <2>4. StoreKeeps /\ \A c \in Bufs : SameBlock(c) /\ "ERROR" \notin b_flags'[c]
    <3>1. CASE BreadaCached(p)
      <4>1. Brelse(b, b_flags[b]) /\ UNCHANGED diskVars /\ "ERROR" \notin b_flags[b]
        BY <1>0, <2>1, <3>1 DEF BreadaCached, NoErrors
      <4>2. /\ UNCHANGED b_blk
            /\ \A c \in Bufs : \A f \in FiveFlags : f \in b_flags'[c] <=> f \in b_flags[c]
        BY <1>0, <4>1, BrelseHeaders
      <4> QED BY <2>2, <4>1, <4>2, Untouched
    <3>2. CASE BreadaAhead(p)
      <4>1. /\ Strategy(b, b_flags[b] \cup {"READ", "ASYNC"}) /\ UNCHANGED b_blk
            /\ "DONE" \notin b_flags[b]
        BY <2>1, <3>2 DEF BreadaAhead
      <4> QED BY <2>2, <4>1, StartRead
    <3> QED BY <1>4, <3>1, <3>2
  <2>5. Loses(p, b)
    BY <1>0, <1>b, <2>2, <2>3, <2>4 DEF Loses
  <2> QED BY <1>d, <2>2, <2>4, <2>5
<1> QED BY <1>1, <1>2, <1>3, <1>4 DEF Bread

(* p stores a value in the block it holds, and keeps the block or not.     *)
StoresOne(p) ==
  \E b \in Bufs, v \in Values :
    Stores(b, v) /\ b \in Owns(p) /\ "INVAL" \notin b_flags[b] /\ (Quiet \/ Loses(p, b))

(* The release of a buffer changes no contents.                            *)
LEMMA ReleaseOutcome ==
  ASSUME SInv, NEW p \in Procs, Others(p), NEW b \in Owns(p), Owns(p)' = Owns(p) \ {b},
         NEW fl, Brelse(b, fl), fl \in {b_flags[b], b_flags[b] \cup {"AGE"}},
         UNCHANGED <<data, diskVars>>, \A q \in Procs : ~uerror'[q]
  PROVE  StoreKeeps /\ NoErrors' /\ Loses(p, b)
<1>1. TypeOK /\ NoErrors /\ "ERROR" \notin fl /\ b \in Bufs
  BY OwnedIsBusy DEF SInv, IInv, StoreInv, NoErrors
<1>2. /\ UNCHANGED b_blk
      /\ \A c \in Bufs : \A f \in FiveFlags : f \in b_flags'[c] <=> f \in b_flags[c]
  BY <1>1, BrelseHeaders DEF FiveFlags
<1>3. StoreKeeps /\ \A c \in Bufs : SameBlock(c) /\ "ERROR" \notin b_flags'[c]
  BY <1>2, Untouched
<1>4. NoErrors'
  BY <1>1, <1>3 DEF NoErrors, SameBlock
<1>5. \A q \in Procs : \A c \in Owns(q) : c \in Bufs
  BY OwnedIsBusy DEF SInv
<1> QED BY <1>3, <1>4, <1>5 DEF Loses

(* A write that p gives to the driver stores what it wrote.                *)
LEMMA WriteOutcome ==
  ASSUME SInv, NEW p \in Procs, Others(p), NEW b \in Owns(p), b \notin active,
         "INVAL" \notin b_flags[b], NEW fl, Strategy(b, fl),
         fl \in {BwriteFlags(b_flags[b]), BwriteFlags(b_flags[b]) \cup {"ASYNC"}},
         NEW v \in Values, data' = [data EXCEPT ![b] = v],
         UNCHANGED b_blk, \A q \in Procs : ~uerror'[q],
         Owns(p)' = Owns(p) \/ Owns(p)' = Owns(p) \ {b}
  PROVE  NoErrors' /\ StoresOne(p)
<1>1. TypeOK /\ NoErrors /\ b \in Bufs
  BY OwnedIsBusy DEF SInv, IInv, StoreInv
<1>2. /\ fl \cap {"READ", "DONE", "DELWRI"} = {} /\ "ERROR" \notin fl /\ "INVAL" \notin fl
  BY DEF BwriteFlags
<1>3. \A c \in Bufs : SameBlock(c) /\ "ERROR" \notin b_flags'[c]
  BY <1>1, <1>2, StrategyHeaders DEF SameBlock
<1>4. NoErrors'
  BY <1>1, <1>3 DEF NoErrors, SameBlock
<1>5. data'[b] = v /\ \A c \in Bufs \ {b} : data'[c] = data[c]
  BY <1>1 DEF TypeOK
<1>6. Stores(b, v)
  <2>1. b_blk[b] \in Blocks
    BY DEF Strategy
  <2> QED BY <1>1, <1>2, <1>5, <2>1, WriteStore DEF Stores
<1>7. \A q \in Procs : \A c \in Owns(q) : c \in Bufs
  BY OwnedIsBusy DEF SInv
<1>8. Quiet \/ Loses(p, b)
  BY <1>3, <1>7 DEF Quiet, Loses, Others
<1> QED BY <1>1, <1>4, <1>6, <1>8 DEF StoresOne

(* A step of fsread, fswrite, update or closef stores what p writes in the *)
(* block p holds, or changes what no block contains.                       *)
LEMMA CallerOutcome ==
  ASSUME NoFailures, SInv, NEW p \in Procs, Caller(p)
  PROVE  NoErrors' /\ (\/ StoreKeeps /\ (Quiet \/ \E b \in Bufs : Loses(p, b))
                       \/ StoresOne(p))
<1> USE DEF bufVars, diskVars, procVars, Goto
<1>0. /\ TypeOK /\ PcFor(p) /\ NoErrors /\ Others(p) /\ UseFor(p) /\ FoundFor(p)
      /\ IInv /\ CallInv /\ FoundInv /\ DelayedInv
  <2>1. Others(p)
    BY ProceedsAlone, AloneOthers DEF SInv, Proceed
  <2> QED BY <2>1 DEF SInv, IInv, PcInv, StoreInv, UseInv, ValidInv, FoundInv
<1>a. pc[p] \in OwningPCs => bp[p] \in Bufs /\ bp[p] \in Owns(p)
  BY Held DEF SInv
<1>b. \A q \in Procs : \A c \in Owns(q) : c \in Bufs /\ av[c] = "none"
  BY OwnedIsBusy DEF SInv
<1>c. ASSUME Owns(p)' = Owns(p), \A q \in Procs : \A c \in Owns(q) : SameBlock(c) PROVE Quiet
  BY <1>0, <1>c DEF Quiet, Others
<1>d. ASSUME \A c \in Bufs : SameBlock(c) /\ "ERROR" \notin b_flags'[c],
             \A q \in Procs : ~uerror'[q]
      PROVE  NoErrors'
  BY <1>0, <1>d DEF NoErrors, SameBlock
<1>e. \A q \in Procs : ~uerror'[q]
  <2>1. UNCHANGED uerror \/ Return(p)
    BY DEF Caller, FsreadDone, FswriteError, FswritePart, FswriteDir, BwriteDone, FswriteFull,
      BawriteTail, BflushOne, BflushDone
  <2> QED BY <1>0, <2>1 DEF Return, NoErrors, TypeOK
<1>f. ASSUME Return(p), pc[p] \in {"iomove", "wrote", "bawrote", "bawrote_delayed", "bflush"}
      PROVE  /\ kept[p] = None /\ Owns(p)' = {}
             /\ Owns(p) = IF pc[p] \in {"iomove", "wrote"} THEN {bp[p]} ELSE {}
  BY <1>0, <1>f DEF Return, PcFor, TypeOK, Owns, OwningPCs
<1>1. CASE FsreadDone(p) \/ BwriteDone(p)
  <2>1. PICK b \in Bufs : b = bp[p] /\ b \in Owns(p)
    BY <1>a, <1>1 DEF FsreadDone, BwriteDone, OwningPCs
  <2>2. PICK fl \in {b_flags[b], b_flags[b] \cup {"AGE"}} : Brelse(b, fl)
    BY <1>1, <2>1 DEF FsreadDone, BwriteDone
  <2>3. Return(p) /\ pc[p] \in {"iomove", "wrote"} /\ UNCHANGED <<data, diskVars>>
    BY <1>1 DEF FsreadDone, BwriteDone
  <2>4. Owns(p)' = Owns(p) \ {b}
    BY <1>f, <2>1, <2>3
  <2> QED BY <1>0, <1>e, <2>1, <2>2, <2>3, <2>4, ReleaseOutcome
<1>2. CASE FswriteError(p)
  BY <1>0, <1>2 DEF FswriteError, NoErrors, NoFailures
<1>3. CASE FswritePart(p)
  <2>1. PICK b \in Bufs : b = bp[p] /\ b \in Owns(p)
    BY <1>a, <1>3 DEF FswritePart, OwningPCs
  <2>2. PICK v \in Values : data' = [data EXCEPT ![b] = v]
    BY <1>3, <2>1 DEF FswritePart
  <2>3. /\ Brelse(b, b_flags[b] \cup {"DELWRI", "DONE"}) /\ Return(p) /\ pc[p] = "iomove"
        /\ b \notin active /\ "INVAL" \notin b_flags[b] /\ UNCHANGED diskVars
    BY <1>0, <1>3, <2>1 DEF FswritePart, UseFor, FoundFor, OwningPCs
  <2>4. /\ UNCHANGED b_blk /\ \A c \in Bufs \ {b} : b_flags'[c] = b_flags[c]
        /\ \A f \in FiveFlags : f \in b_flags'[b] <=> f \in b_flags[b] \cup {"DELWRI", "DONE"}
    BY <1>0, <2>3, BrelseHeaders DEF NoErrors
  <2>5. \A c \in Bufs : SameBlock(c) /\ "ERROR" \notin b_flags'[c]
    BY <1>0, <2>4 DEF SameBlock, NoErrors, FiveFlags
  <2>6. Stores(b, v)
    <3>1. data'[b] = v /\ \A c \in Bufs \ {b} : Kept(c)
      BY <1>0, <2>2, <2>4 DEF Kept, TypeOK
    <3>2. b_blk[b] \in Blocks /\ b_blk'[b] = b_blk[b] /\ "DELWRI" \in b_flags'[b]
      BY <1>0, <2>3, <2>4 DEF TypeOK, NoErrors, FiveFlags
    <3> QED BY <2>3, <3>1, <3>2, DelayStore DEF Stores
  <2>7. Owns(p)' = Owns(p) \ {b}
    BY <1>f, <2>1, <2>3
  <2>8. Loses(p, b)
    BY <1>0, <1>b, <2>1, <2>5, <2>7 DEF Loses
  <2> QED BY <1>d, <1>e, <2>1, <2>3, <2>5, <2>6, <2>8 DEF StoresOne
<1>4. CASE FswriteDir(p) \/ FswriteFull(p)
  <2>1. PICK b \in Bufs : b = bp[p] /\ b \in Owns(p)
    BY <1>a, <1>4 DEF FswriteDir, FswriteFull, OwningPCs
  <2>2. PICK v \in Values : data' = [data EXCEPT ![b] = v]
    BY <1>4, <2>1 DEF FswriteDir, FswriteFull
  <2>3. PICK fl \in {BwriteFlags(b_flags[b]), BwriteFlags(b_flags[b]) \cup {"ASYNC"}} :
          Strategy(b, fl)
    BY <1>4, <2>1 DEF FswriteDir, FswriteFull
  <2>4. b \notin active /\ "INVAL" \notin b_flags[b] /\ UNCHANGED b_blk
    BY <1>0, <1>4, <2>1 DEF FswriteDir, FswriteFull, UseFor, FoundFor, OwningPCs
  <2>5. Owns(p)' = Owns(p) \/ Owns(p)' = Owns(p) \ {b}
    <3>1. CASE FswriteDir(p)
      BY <1>0, <3>1 DEF FswriteDir, TypeOK, Owns, OwningPCs
    <3>2. CASE FswriteFull(p)
      BY <1>0, <2>1, <3>2 DEF FswriteFull, TypeOK, PcFor, Owns, OwningPCs
    <3> QED BY <1>4, <3>1, <3>2
  <2> QED BY <1>0, <1>e, <2>1, <2>2, <2>3, <2>4, <2>5, WriteOutcome
<1>5. CASE BawriteTail(p)
  <2>1. /\ Return(p) /\ UNCHANGED <<b_blk, data, diskVars>>
        /\ pc[p] \in {"bawrote", "bawrote_delayed"}
        /\ \A c \in Bufs : \A f \in FiveFlags : f \in b_flags'[c] <=> f \in b_flags[c]
    BY <1>0, <1>5 DEF BawriteTail, FiveFlags, TypeOK
  <2>2. StoreKeeps /\ \A c \in Bufs : SameBlock(c) /\ "ERROR" \notin b_flags'[c]
    BY <2>1, Untouched
  <2>3. Owns(p)' = Owns(p)
    BY <1>f, <2>1
  <2> QED BY <1>b, <1>c, <1>d, <1>e, <2>2, <2>3
<1>6. CASE BflushOne(p)
  <2>1. PICK b \in Bufs : /\ Strategy(b, BwriteFlags(b_flags[b]) \cup {"BUSY", "ASYNC", "AGE"})
                         /\ av[b] # "none" /\ "DELWRI" \in b_flags[b]
    BY <1>6 DEF BflushOne, Flushable
  <2>2. UNCHANGED <<b_blk, data, procVars>>
    BY <1>6 DEF BflushOne
  <2>3. StoreKeeps /\ \A c \in Bufs : SameBlock(c) /\ "ERROR" \notin b_flags'[c]
    BY <2>1, <2>2, FlushStore
  <2>4. Owns(p)' = Owns(p)
    BY <2>2 DEF Owns
  <2> QED BY <1>b, <1>c, <1>d, <1>e, <2>3, <2>4
<1>7. CASE BflushDone(p)
  <2> DEFINE Hit(c) == /\ call[p].kind = "close" /\ b_blk[c] # NODEV
                       /\ DevOf(b_blk[c]) = DevOf(call[p].blk)
  <2>1. /\ Return(p) /\ UNCHANGED <<b_blk, data, diskVars>> /\ pc[p] = "bflush"
        /\ cur \in {p, None} /\ Flushable(call[p]) = {}
        /\ \A c \in Bufs : b_flags'[c] = IF Hit(c) THEN b_flags[c] \cup {"INVAL"} ELSE b_flags[c]
    BY <1>7 DEF BflushDone, Running
  <2>2. Owns(p) = {} /\ Owns(p)' = {}
    BY <1>f, <2>1
  <2>3. ASSUME NEW q \in Procs, NEW c \in Owns(q) PROVE c \in Bufs /\ ~Hit(c)
    BY <1>0, <1>b, <2>1, <2>2, <2>3, NobodyOnDevice
  <2>4. ASSUME NEW c \in Bufs, "DELWRI" \in b_flags[c], Hit(c) PROVE FALSE
    <3>1. av[c] = "none"
      BY <2>1, <2>4 DEF Flushable
    <3>2. "DONE" \in b_flags[c]
      BY <1>0, <2>4 DEF DelayedInv
    <3>3. Owned(c)
      BY <1>0, <3>1, <3>2 DEF IInv, PlaceInv, Place
    <3> QED BY <2>3, <2>4, <3>3 DEF Owned
  <2>5. StoreKeeps
    <3>1. \A c \in Bufs : Kept(c)
      BY <2>1 DEF Kept
    <3>2. \A c \in Bufs : "DELWRI" \in b_flags[c] => "INVAL" \notin b_flags'[c]
      BY <1>0, <2>1, <2>4 DEF DelayedInv
    <3> QED BY <2>1, <3>1, <3>2, KeptStore DEF StoreKeeps
  <2>6. Quiet
    <3>1. \A q \in Procs : \A c \in Owns(q) : SameBlock(c)
      BY <2>1, <2>3 DEF SameBlock
    <3> QED BY <1>c, <2>2, <3>1
  <2>7. NoErrors'
    <3>1. \A c \in Bufs : b_flags[c] \subseteq b_flags'[c] /\ b_flags'[c] \subseteq b_flags[c] \cup {"INVAL"}
      BY <2>1
    <3> QED BY <1>0, <1>e, <2>1, <3>1 DEF NoErrors
  <2> QED BY <2>5, <2>6, <2>7
<1> QED BY <1>1, <1>2, <1>3, <1>4, <1>5, <1>6, <1>7 DEF Caller

(* The start of a call changes neither what a block contains nor who holds *)
(* it.                                                                     *)
LEMMA StartOutcome ==
  ASSUME SInv, NEW p \in Procs, NEW c \in CallsOf[p], Start(p, c)
  PROVE  StoreKeeps /\ NoErrors' /\ Quiet
<1>1. /\ Alone(p) /\ UNCHANGED <<bufVars, diskVars, uerror, bp, kept>> /\ TypeOK
      /\ pc[p] = "user" /\ pc'[p] \in {"getblk", "bflush"} /\ NoErrors
  BY StartsAlone DEF Start, Enter, Goto, SInv, IInv, TypeOK, StoreInv
<1>2. StoreKeeps /\ \A b \in Bufs : SameBlock(b)
  BY <1>1, Untouched DEF bufVars
<1>3. Owns(p)' = Owns(p) /\ Others(p)
  BY <1>1, AloneOthers DEF Owns, OwningPCs
<1>4. \A q \in Procs : \A b \in Owns(q) : b \in Bufs
  BY OwnedIsBusy DEF SInv
<1>5. NoErrors'
  BY <1>1 DEF NoErrors, bufVars
<1> QED BY <1>2, <1>3, <1>4, <1>5 DEF Quiet, Others

(* The end of a transfer likewise.                                         *)
LEMMA IodoneOutcome ==
  ASSUME NoFailures, SInv, NEW b \in Bufs, NEW err \in BOOLEAN, Iodone(b, err)
  PROVE  StoreKeeps /\ NoErrors' /\ Quiet
<1>1. Iodone(b, FALSE)
  <2>1. err = FALSE
    BY DEF Iodone, NoFailures
  <2> QED BY <2>1
<1>2. /\ UNCHANGED b_blk
      /\ \A c \in Bufs \ {b} : b_flags'[c] = b_flags[c]
      /\ \A f \in {"READ", "DELWRI", "INVAL", "ERROR"} : f \in b_flags'[b] <=> f \in b_flags[b]
  BY <1>1, IodoneHeaders
<1>3. \A c \in Bufs : SameBlock(c)
  BY <1>2 DEF SameBlock
<1>4. NoErrors'
  <2>1. UNCHANGED uerror
    BY DEF Iodone
  <2> QED BY <1>2, <2>1 DEF NoErrors, SInv, StoreInv
<1>5. \A q \in Procs : Owns(q)' = Owns(q) /\ \A c \in Owns(q) : c \in Bufs
  <2>1. UNCHANGED <<pc, bp, kept>>
    BY DEF Iodone
  <2> QED BY <2>1, OwnedIsBusy DEF SInv, Owns
<1> QED BY <1>1, <1>3, <1>4, <1>5, IodoneStore DEF StoreKeeps, Quiet

-----------------------------------------------------------------------------
(***************************************************************************)
(* The refinement                                                          *)
(***************************************************************************)
(* The initial states satisfy the invariant.                               *)
LEMMA InitStore == Init => StoreInv
BY NoneAssumption DEF Init, StoreInv, NoErrors, OrderInv, Writes, CleanInv

(* Every step satisfies it again.                                          *)
LEMMA NextStore == ASSUME NoFailures, SInv, [Next]_vars PROVE StoreInv'
<1>1. ASSUME NEW p \in Procs, Proceed(p) PROVE StoreInv'
  BY <1>1, GetblkOutcome, BreadOutcome, CallerOutcome
     DEF Proceed, StoreInv, StoreKeeps, StoresOne, Stores
<1>2. ASSUME NEW p \in Procs, NEW c \in CallsOf[p], Start(p, c) PROVE StoreInv'
  BY <1>2, StartOutcome DEF StoreInv, StoreKeeps
<1>3. ASSUME NEW b \in Bufs, NEW err \in BOOLEAN, Iodone(b, err) PROVE StoreInv'
  BY <1>3, IodoneOutcome DEF StoreInv, StoreKeeps
<1>4. CASE UNCHANGED vars
  BY <1>4 DEF vars, bufVars, diskVars, procVars, SInv, StoreInv, NoErrors, OrderInv, Writes, IsLast,
    CleanInv, Beneath
<1> QED BY <1>1, <1>2, <1>3, <1>4 DEF Next, Interrupt

(* An initial state of the cache is one of the block store.                *)
LEMMA InitRefines == Init => BS!Init
<1> SUFFICES ASSUME Init PROVE BS!Init
  OBVIOUS
<1>1. Store \in [Blocks -> Values]
  <2>1. Store = [k \in Blocks |-> disk[k]]
    BY DEF Init, Store, Authoritative, Writes
  <2> QED BY <2>1 DEF Init
<1>2. Holder = [k \in Blocks |-> None]
  BY DEF Init, Holder, Owns, OwningPCs
<1> QED BY <1>1, <1>2 DEF BS!Init

(* Every step of the cache is one of the block store, or changes neither   *)
(* what a block contains nor who holds it.                                 *)
LEMMA NextRefines ==
  ASSUME NoFailures, SInv, SInv', [Next]_vars
  PROVE  [BS!Next]_(BS!vars)
<1>0. Store = [k \in Blocks |-> Store[k]] /\ Holder = [k \in Blocks |-> Holder[k]]
  BY DEF Store, Holder
<1>1. ASSUME StoreKeeps, Quiet PROVE UNCHANGED <<Store, Holder>>
  BY <1>1, SameStore, QuietHolder DEF StoreKeeps, Same
<1>2. ASSUME NEW p \in Procs, NEW b \in Bufs, StoreKeeps, Gains(p, b)
      PROVE  [BS!Next]_(BS!vars)
  <2>1. Store' = Store
    BY <1>2, SameStore DEF StoreKeeps, Same
  <2>2. CASE Holder' = Holder
    BY <2>1, <2>2 DEF BS!vars
  <2>3. CASE \E k \in Blocks : Holder[k] = None /\ Holder' = [Holder EXCEPT ![k] = p]
    BY <2>1, <2>3 DEF BS!Next, BS!Take
  <2> QED BY <1>2, <2>2, <2>3, GainHolder
<1>3. ASSUME NEW p \in Procs, NEW b \in Bufs, StoreKeeps, Loses(p, b)
      PROVE  [BS!Next]_(BS!vars)
  <2>1. Store' = Store
    BY <1>3, SameStore DEF StoreKeeps, Same
  <2>2. CASE Holder' = Holder
    BY <2>1, <2>2 DEF BS!vars
  <2>3. CASE \E k \in Blocks : Holder[k] = p /\ Holder' = [Holder EXCEPT ![k] = None]
    BY <2>1, <2>3 DEF BS!Next, BS!Drop
  <2> QED BY <1>3, <2>2, <2>3, LoseHolder
<1>4. ASSUME NEW p \in Procs, StoresOne(p)
      PROVE  [BS!Next]_(BS!vars)
  <2>1. PICK b \in Bufs, v \in Values :
          Stores(b, v) /\ b \in Owns(p) /\ "INVAL" \notin b_flags[b] /\ (Quiet \/ Loses(p, b))
    BY <1>4 DEF StoresOne
  <2>2. PICK k \in Blocks : k = b_blk[b]
    BY <2>1 DEF Stores
  <2>3. Store' = [Store EXCEPT ![k] = v]
    <3>1. Contains(k, v)' /\ \A j \in Blocks \ {k} : \A w : Contains(j, w) => Contains(j, w)'
      BY <2>1, <2>2 DEF Stores
    <3> QED BY <3>1, OneStored
  <2>4. Holder[k] = p
    <3>1. k # NODEV
      BY Zenon, NoneAssumption DEF NODEV
    <3>2. Holds(p, k)
      BY <2>1, <2>2, <3>1 DEF Holds, Match
    <3> QED BY <3>2, HolderAlwaysFits DEF HolderFits
  <2>5. Holder' \in {Holder, [Holder EXCEPT ![k] = None]}
    BY <2>1, <2>2, QuietHolder, LoseHolder
  <2> QED BY <2>3, <2>4, <2>5 DEF BS!Next, BS!Put
<1>5. ASSUME NEW p \in Procs, Proceed(p) PROVE [BS!Next]_(BS!vars)
  <2>1. CASE Getblk(p)
    BY <1>1, <1>2, <2>1, GetblkOutcome DEF BS!vars
  <2>2. CASE Bread(p)
    BY <1>1, <1>3, <2>2, BreadOutcome DEF BS!vars
  <2>3. CASE Caller(p)
    BY <1>1, <1>3, <1>4, <2>3, CallerOutcome DEF BS!vars
  <2> QED BY <1>5, <2>1, <2>2, <2>3 DEF Proceed
<1>6. ASSUME NEW p \in Procs, NEW c \in CallsOf[p], Start(p, c) PROVE [BS!Next]_(BS!vars)
  BY <1>1, <1>6, StartOutcome DEF BS!vars
<1>7. ASSUME NEW b \in Bufs, NEW err \in BOOLEAN, Iodone(b, err) PROVE [BS!Next]_(BS!vars)
  BY <1>1, <1>7, IodoneOutcome DEF BS!vars
<1>8. CASE UNCHANGED vars
  BY <1>8 DEF vars, bufVars, diskVars, procVars, BS!vars, Store, Authoritative, Writes, LastWrite,
    Holder, Owns, Match
<1> QED BY <1>5, <1>6, <1>7, <1>8 DEF Next, Interrupt

(* As long as nothing fails, the cache implements the block store: a block *)
(* has one holder at a time, only its holder changes what it contains, and *)
(* no eviction, delayed or asynchronous write, read-ahead, flush or        *)
(* invalidation loses or resurrects anything.  A close puts the writes it  *)
(* makes invalid in front of those of buffers got later, which only a disk *)
(* alone on its controller is sure to keep.                                *)
THEOREM CacheImplementsStore == ASSUME NoFailures, ClosesInOrder PROVE Spec => CacheIsBlockStore
<1>1. IInv /\ OneBufferPerBlock /\ ClosedInv /\ ValidInv /\ StoreInv /\ [Next]_vars => StoreInv'
  BY NextStore DEF SInv
<1>2. IInv /\ OneBufferPerBlock /\ ClosedInv /\ ValidInv /\ StoreInv <=> SInv
  BY DEF SInv
<1>3. SInv /\ SInv' /\ [Next]_vars => [BS!Next]_(BS!vars)
  BY NextRefines
<1>4. Spec => []SInv
  BY <1>1, <1>2, InitStore, Invariant, OneBuffer, ClosedInvariant, BuffersAreValid, PTL DEF Spec
<1> QED BY <1>3, <1>4, InitRefines, PTL DEF Spec, CacheIsBlockStore, BS!Spec
=============================================================================
