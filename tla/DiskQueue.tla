------------------------------ MODULE DiskQueue ------------------------------
(***************************************************************************)
(* The queues of a disk controller: disksort of dev/dsort.c with the SCSI  *)
(* disk driver that calls it (sundev/sd.c, sundev/sc.c).  A disk has a     *)
(* queue of requests, of which the first is the one being transferred or   *)
(* next in turn; the controller has a queue of the disks that have         *)
(* requests, and transfers one request at a time.  Everything runs at the  *)
(* controller's priority.                                                  *)
(*                                                                         *)
(* b_cylin, by which disksort sorts, is another name for b_resid, and      *)
(* sdstart stores there what the transfer will leave over: zero.           *)
(***************************************************************************)
EXTENDS Naturals, Sequences, SequencesExt

CONSTANTS
  DiskReqs,    \* the request headers
  Disks,       \* the disks on the controller
  Cylinders    \* the cylinders used

ASSUME DiskConstants == Cylinders \subseteq Nat \ {0} /\ DiskReqs # {}

VARIABLES
  actf,        \* actf[d]: the requests of disk d, first one first
  actl,        \* actl[d]: the last of them, as long as there are any
  dactive,     \* dactive[d]: d is in the controller's queue
  mcq,         \* the controller's queue of disks
  mcactive,    \* a transfer is under way
  b_cylin,     \* b_cylin[r]: the sort key of r
  cyl,         \* cyl[r]: where r really is
  turnedback   \* a disk has turned back before the end of its sweep

queueVars == <<actf, actl, dactive, mcq, mcactive, b_cylin, cyl, turnedback>>

(* disksort: the list of requests ahead of the first one, then, behind an  *)
(* inversion, those whose cylinder was passed when they came.  A request   *)
(* goes into its list before the first larger one, or at the end.          *)
Inversions(q, key) == {i \in 1 .. Len(q) - 1 : key[q[i + 1]] < key[q[i]]}

NextIsLarger(q, key, i, r) == i < Len(q) => key[r] < key[q[i + 1]]
FirstListDown(q, key, i, r) ==                           \* mutant: the comparison swapped
  i \in Inversions(q, key) \/ (i < Len(q) => key[r] > key[q[i + 1]])
FirstListNotLess(q, key, i, r) ==                        \* mutant: before equal keys
  i \in Inversions(q, key) \/ (i < Len(q) => key[r] <= key[q[i + 1]])
FirstList(q, key, i, r) == i \in Inversions(q, key) \/ NextIsLarger(q, key, i, r)
SecondList(q, key, i, r) ==
  /\ NextIsLarger(q, key, i, r)
  /\ i = Len(q) \/ \E j \in Inversions(q, key) : j <= i

Place(q, key, r) ==
  {i \in DOMAIN q : IF key[r] < key[q[1]] THEN SecondList(q, key, i, r) ELSE FirstList(q, key, i, r)}

Disksort(q, key, r) ==
  IF q = <<>> THEN <<r>>
  ELSE LET i == CHOOSE i \in Place(q, key, r) : \A j \in Place(q, key, r) : i <= j
       IN SubSeq(q, 1, i) \o <<r>> \o SubSeq(q, i + 1, Len(q))

(* scstart: the first request of the first disk is started, if there is    *)
(* one; sdstart overwrites its key.                                        *)
Scstart(order, queues, key) ==
  /\ mcactive' = (order # <<>>)
  /\ b_cylin' = IF order = <<>> THEN key ELSE [key EXCEPT ![Head(queues[Head(order)])] = 0]

(* disksort moves the tail pointer when r went behind the request it       *)
(* points to.                                                              *)
NewTailKept(d, q, r) == IF actf[d] = <<>> THEN r ELSE actl[d]               \* mutant: the update dropped
NewTail(d, q, r) == IF actf[d] = <<>> \/ q[Len(q) - 1] = actl[d] THEN r ELSE actl[d]

Waiting == UNION {{actf[d][i] : i \in DOMAIN actf[d]} : d \in Disks}

Sdstrategy(r, d, c) ==
  LET key == [b_cylin EXCEPT ![r] = c]
  IN /\ r \notin Waiting
     /\ actf' = [actf EXCEPT ![d] = Disksort(@, key, r)]
     /\ actl' = [actl EXCEPT ![d] = NewTail(d, actf'[d], r)]
     /\ cyl' = [cyl EXCEPT ![r] = c]
     /\ dactive' = [dactive EXCEPT ![d] = TRUE]
     /\ mcq' = IF dactive[d] THEN mcq ELSE Append(mcq, d)
     /\ IF ~dactive[d] /\ ~mcactive THEN Scstart(mcq', actf', key)
        ELSE b_cylin' = key /\ UNCHANGED mcactive
     /\ UNCHANGED turnedback

RequeueTwo(order, d, rest) == IF Len(rest) > 1 THEN Append(order, d) ELSE order   \* mutant
Requeue(order, d, rest) == IF rest # <<>> THEN Append(order, d) ELSE order

(* scdone, once the transfer is over: the request is done, and the disk    *)
(* queues up for the controller again if it has another.                   *)
Scdone ==
  LET d == Head(mcq)
      r == Head(actf[d])
      rest == Tail(actf[d])
      behind == {i \in DOMAIN rest : cyl[rest[i]] < cyl[r]}
  IN /\ mcactive
     /\ actf' = [actf EXCEPT ![d] = rest]
     /\ mcq' = Requeue(Tail(mcq), d, rest)
     /\ dactive' = [dactive EXCEPT ![d] = Requeue(<<>>, d, rest) # <<>>]
     /\ Scstart(mcq', actf', b_cylin)
     /\ turnedback' = (1 \in behind /\ behind # DOMAIN rest)
     /\ UNCHANGED <<actl, cyl>>

DiskInit ==
  /\ actf = [d \in Disks |-> <<>>]
  /\ actl = [d \in Disks |-> CHOOSE r \in DiskReqs : TRUE]      \* means nothing yet
  /\ dactive = [d \in Disks |-> FALSE]
  /\ mcq = <<>> /\ mcactive = FALSE
  /\ b_cylin = [r \in DiskReqs |-> 0]
  /\ cyl = [r \in DiskReqs |-> 0]
  /\ turnedback = FALSE

DiskNext == Scdone \/ \E r \in DiskReqs, d \in Disks, c \in Cylinders : Sdstrategy(r, d, c)

DiskSpec == DiskInit /\ [][DiskNext]_queueVars

-----------------------------------------------------------------------------
DiskTypeOK ==
  /\ actf \in [Disks -> Seq(DiskReqs)] /\ actl \in [Disks -> DiskReqs]
  /\ dactive \in [Disks -> BOOLEAN] /\ mcq \in Seq(Disks) /\ mcactive \in BOOLEAN
  /\ b_cylin \in [DiskReqs -> Cylinders \cup {0}] /\ cyl \in [DiskReqs -> Cylinders \cup {0}]
  /\ turnedback \in BOOLEAN

(* No request waits while nothing happens: a disk with requests stands in  *)
(* the controller's queue, once, a disk without does not, and as long as   *)
(* that queue is not empty a transfer is under way, whose end goes on with *)
(* the next.                                                               *)
NoStall ==
  /\ \A d \in Disks :
       /\ dactive[d] <=> actf[d] # <<>>
       /\ dactive[d] <=> \E i \in DOMAIN mcq : mcq[i] = d
  /\ \A i, j \in DOMAIN mcq : mcq[i] = mcq[j] => i = j
  /\ mcactive <=> mcq # <<>>

(* A queue never falls into more than the two ascending lists disksort     *)
(* looks for, although the driver changes keys under it, holds every       *)
(* request once, and ends where its tail pointer says.                     *)
TwoLists ==
  \A d \in Disks :
    /\ \A i, j \in Inversions(actf[d], b_cylin) : i = j
    /\ \A i, j \in DOMAIN actf[d] : actf[d][i] = actf[d][j] => i = j
    /\ actf[d] # <<>> => actl[d] = Last(actf[d])

(* A request that comes goes behind those of its cylinder that wait, so    *)
(* that requests for one block are done in the order in which they came,   *)
(* unless the disk has a second list.  Then, once sdstart has overwritten  *)
(* the first request's key, what waits in the second list is overtaken.  A *)
(* disk that has its controller to itself never has a second list.         *)
Ascends(q, key) == \A i, j \in 1 .. Len(q) : i <= j => key[q[i]] <= key[q[j]]

NoneOvertaken(d) ==
  \A i, j \in DOMAIN actf'[d] :
    /\ actf'[d][i] \notin ToSet(actf[d]) /\ actf'[d][j] \in ToSet(actf[d])
    /\ cyl'[actf'[d][i]] = cyl'[actf'[d][j]]
    => j < i

SameCylinderInOrder ==
  [][\A d \in Disks : Ascends(actf[d], b_cylin) => NoneOvertaken(d)]_queueVars

(* What disksort is taken to do for all queues: see Disk_overtaken.cfg.    *)
AlwaysInOrder == [][\A e \in Disks : NoneOvertaken(e)]_queueVars

(* dsort.c: "Thus we implement a one way scan, retracting after reaching   *)
(* the end of the drive": a disk does not turn back while a request at or  *)
(* beyond the one just done is waiting.                                    *)
OneWayScan == ~turnedback
=============================================================================
