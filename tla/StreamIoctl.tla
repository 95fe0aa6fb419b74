----------------------------- MODULE StreamIoctl -----------------------------
(***************************************************************************)
(* One ioctl at a time on a stream: stioctl of sys/streamio.c, from the    *)
(* test of HUNGUP on, with the acknowledgments that strput takes from      *)
(* below.  A request goes down the stream and is answered, in order and in *)
(* its own time, by a driver, or by a server process behind the message    *)
(* module: with M_IOCACK or M_IOCNAK, perhaps after some M_IOCWAIT that    *)
(* asks for patience.  Nothing in an answer says which request it is for;  *)
(* here every request has a number, which the code does not look at.       *)
(*                                                                         *)
(* All sleepers use the same channel, the stream; a sleep ends with TS_OK, *)
(* with TS_TIME if it was timed, or with TS_SIG, also when the process has *)
(* been woken and not run yet.                                             *)
(***************************************************************************)
EXTENDS Naturals, Sequences, FiniteSets

CONSTANTS
  Ioctlers,      \* the processes
  MaxRequests,   \* bound on the requests of a run
  MaxPatience    \* bound on the M_IOCWAITs of a run

ASSUME IoctlConstants == MaxRequests \in Nat /\ MaxPatience \in Nat

VARIABLES
  IOCWAIT,    \* a request is under way
  HUNGUP,
  iocblk,     \* the answer that has come in, or NoBlk
  iopc,       \* what each process does
  onstq,      \* the processes asleep on the stream
  ioctime,    \* ioctime[p]: p's sleep has a timeout
  down, up,   \* requests on their way down, answers on their way up
  requests,   \* requests sent so far
  own,        \* own[p]: the number of p's request
  late,       \* late[p]: the requests without an answer when p sent its own
  taken,      \* taken[p]: the request whose answer p took, or 0
  gaveup,     \* the last request to end was given up by its process
  patience    \* M_IOCWAITs sent so far

ioctlVars == <<IOCWAIT, HUNGUP, iocblk, iopc, onstq, ioctime, down, up, requests, own, late,
               taken, gaveup, patience>>

NoBlk == [type |-> "none", of |-> 0]
Final == {"ACK"}      \* M_IOCACK or M_IOCNAK, which differ only in what the caller gets
Unanswered == {down[i] : i \in DOMAIN down} \cup {up[i].of : i \in DOMAIN up}

OnCpu(p) == p \notin onstq

(* The head of stioctl: ENXIO if the stream is hung up.                    *)
Ioctl(p) ==
  /\ iopc[p] = "idle" /\ ~HUNGUP
  /\ iopc' = [iopc EXCEPT ![p] = "claim"]
  /\ taken' = [taken EXCEPT ![p] = 0]
  /\ UNCHANGED <<IOCWAIT, HUNGUP, iocblk, onstq, ioctime, down, up, requests, own, late, gaveup, patience>>

(* Somebody else's request is under way: sleep without a timeout.          *)
ClaimSleep(p) ==
  /\ iopc[p] = "claim" /\ IOCWAIT
  /\ iopc' = [iopc EXCEPT ![p] = "claimsleep"]
  /\ onstq' = onstq \cup {p}
  /\ UNCHANGED <<IOCWAIT, HUNGUP, iocblk, ioctime, down, up, requests, own, late, taken, gaveup, patience>>

(* The request is sent down.                                               *)
Claim(p) ==
  /\ requests < MaxRequests
  /\ iopc[p] = "claim" /\ ~IOCWAIT
  /\ IOCWAIT' = TRUE
  /\ requests' = requests + 1
  /\ own' = [own EXCEPT ![p] = requests']
  /\ late' = [late EXCEPT ![p] = Unanswered]
  /\ down' = Append(down, requests')
  /\ iopc' = [iopc EXCEPT ![p] = "wait"]
  /\ ioctime' = [ioctime EXCEPT ![p] = TRUE]
  /\ UNCHANGED <<HUNGUP, iocblk, onstq, up, taken, gaveup, patience>>

(* No final answer yet: sleep, for 15 seconds, or for as long as it takes  *)
(* once M_IOCWAIT has come.                                                *)
AwaitAnswer(p) ==
  /\ iopc[p] = "wait" /\ iocblk.type \notin Final
  /\ iopc' = [iopc EXCEPT ![p] = "waitsleep"]
  /\ ioctime' = [ioctime EXCEPT ![p] = @ /\ iocblk = NoBlk]
  /\ onstq' = onstq \cup {p}
  /\ UNCHANGED <<IOCWAIT, HUNGUP, iocblk, down, up, requests, own, late, taken, gaveup, patience>>

TakeAnswer(p) ==
  /\ iopc[p] = "wait" /\ iocblk.type \in Final
  /\ taken' = [taken EXCEPT ![p] = iocblk.of]
  /\ iocblk' = NoBlk
  /\ IOCWAIT' = FALSE
  /\ iopc' = [iopc EXCEPT ![p] = "copyout"]
  /\ UNCHANGED <<HUNGUP, onstq, ioctime, down, up, requests, own, late, gaveup, patience>>

(* Mutant: the others are not told.                                        *)
FinishQuietly(p) ==
  /\ iopc[p] = "copyout"
  /\ gaveup' = FALSE
  /\ iopc' = [iopc EXCEPT ![p] = "idle"]
  /\ UNCHANGED <<IOCWAIT, HUNGUP, iocblk, onstq, ioctime, down, up, requests, own, late, taken, patience>>

(* After copyout, which may sleep, the other processes are woken.          *)
Finish(p) ==
  /\ iopc[p] = "copyout"
  /\ onstq' = {}
  /\ gaveup' = FALSE
  /\ iopc' = [iopc EXCEPT ![p] = "idle"]
  /\ UNCHANGED <<IOCWAIT, HUNGUP, iocblk, ioctime, down, up, requests, own, late, taken, patience>>

(* tsleep has returned TS_OK and the stream is not hung up: look again.    *)
WokenUp(p) ==
  /\ iopc[p] \in {"claimsleep", "waitsleep"} /\ OnCpu(p) /\ ~HUNGUP
  /\ iopc' = [iopc EXCEPT ![p] = IF @ = "claimsleep" THEN "claim" ELSE "wait"]
  /\ UNCHANGED <<IOCWAIT, HUNGUP, iocblk, onstq, ioctime, down, up, requests, own, late, taken, gaveup, patience>>

(* A signal, a timeout or a hangup: EIO.  The process whose request is     *)
(* under way takes it back, and wakes nobody.                              *)
GiveUp(p) ==
  /\ \/ iopc[p] = "claimsleep" /\ UNCHANGED <<IOCWAIT, iocblk, gaveup>>
     \/ iopc[p] = "waitsleep" /\ IOCWAIT' = FALSE /\ iocblk' = NoBlk /\ gaveup' = TRUE
  /\ onstq' = onstq \ {p}
  /\ iopc' = [iopc EXCEPT ![p] = "idle"]
  /\ UNCHANGED <<HUNGUP, ioctime, down, up, requests, own, late, taken, patience>>

IntrSignal(p) == GiveUp(p)
TimedOut(p) == iopc[p] = "waitsleep" /\ ioctime[p] /\ GiveUp(p)
HungUp(p) == HUNGUP /\ OnCpu(p) /\ GiveUp(p)

-----------------------------------------------------------------------------
(* Below the stream head.                                                  *)

Answer ==
  /\ down # <<>>
  /\ \E t \in Final : up' = Append(up, [type |-> t, of |-> Head(down)])
  /\ down' = Tail(down)
  /\ UNCHANGED <<IOCWAIT, HUNGUP, iocblk, iopc, onstq, ioctime, requests, own, late, taken, gaveup, patience>>

AskPatience ==
  /\ down # <<>> /\ patience < MaxPatience
  /\ up' = Append(up, [type |-> "WAIT", of |-> Head(down)])
  /\ patience' = patience + 1
  /\ UNCHANGED <<IOCWAIT, HUNGUP, iocblk, iopc, onstq, ioctime, down, requests, own, late, taken, gaveup>>

(* strput: an answer replaces an M_IOCWAIT, and is thrown away if nobody   *)
(* waits for it or if there is one already.                                *)
KeepsUnwanted(b) == b.type \notin Final     \* mutant: somebody waits or not
Keeps(b) == IOCWAIT /\ b.type \notin Final

StrputAnswer ==
  /\ up # <<>>
  /\ up' = Tail(up)
  /\ IF Keeps(iocblk) THEN iocblk' = Head(up) /\ onstq' = {}
     ELSE iocblk' = (IF iocblk.type = "WAIT" THEN NoBlk ELSE iocblk) /\ UNCHANGED onstq
  /\ UNCHANGED <<IOCWAIT, HUNGUP, iopc, ioctime, down, requests, own, late, taken, gaveup, patience>>

StrputHangup ==
  /\ ~HUNGUP
  /\ HUNGUP' = TRUE
  /\ onstq' = {}
  /\ UNCHANGED <<IOCWAIT, iocblk, iopc, ioctime, down, up, requests, own, late, taken, gaveup, patience>>

IoctlStep(p) ==
  \/ Ioctl(p) \/ ClaimSleep(p) \/ Claim(p) \/ AwaitAnswer(p) \/ TakeAnswer(p) \/ Finish(p)
  \/ WokenUp(p) \/ TimedOut(p) \/ HungUp(p)

IoctlInit ==
  /\ IOCWAIT = FALSE /\ HUNGUP = FALSE /\ iocblk = NoBlk
  /\ iopc = [p \in Ioctlers |-> "idle"]
  /\ onstq = {}
  /\ ioctime = [p \in Ioctlers |-> FALSE]
  /\ down = <<>> /\ up = <<>> /\ requests = 0
  /\ own = [p \in Ioctlers |-> 0]
  /\ late = [p \in Ioctlers |-> {}]
  /\ taken = [p \in Ioctlers |-> 0]
  /\ gaveup = FALSE /\ patience = 0

IoctlNext ==
  \/ \E p \in Ioctlers : IoctlStep(p) \/ IntrSignal(p)
  \/ Answer \/ AskPatience \/ StrputAnswer \/ StrputHangup

IoctlSpec == IoctlInit /\ [][IoctlNext]_ioctlVars

-----------------------------------------------------------------------------
(* Types; the stream head holds an answer only for a process that waits.   *)
IoctlTypeOK ==
  /\ IOCWAIT \in BOOLEAN /\ HUNGUP \in BOOLEAN /\ gaveup \in BOOLEAN
  /\ requests \in 0 .. MaxRequests /\ patience \in 0 .. MaxPatience
  /\ iocblk \in {NoBlk} \cup IF IOCWAIT THEN [type : Final \cup {"WAIT"}, of : 1 .. requests] ELSE {}
  /\ iopc \in [Ioctlers -> {"idle", "claim", "claimsleep", "wait", "waitsleep", "copyout"}]
  /\ onstq \subseteq Ioctlers
  /\ ioctime \in [Ioctlers -> BOOLEAN]
  /\ down \in Seq(1 .. requests)
  /\ up \in Seq([type : Final \cup {"WAIT"}, of : 1 .. requests])
  /\ own \in [Ioctlers -> 0 .. requests]
  /\ late \in [Ioctlers -> SUBSET (1 .. requests)]
  /\ taken \in [Ioctlers -> 0 .. requests]

(* IOCWAIT is on exactly when a process waits for an answer, and there is  *)
(* never a second.                                                         *)
Waiters == {p \in Ioctlers : iopc[p] \in {"wait", "waitsleep"}}

OneRequest ==
  /\ \A p, q \in Waiters : p = q
  /\ IOCWAIT <=> Waiters # {}

(* One process at a time awaits an answer, and the one that stioctl takes  *)
(* is to its own request, or to one that was given up and had no answer    *)
(* yet when stioctl sent its own: no answer lies about in the stream head  *)
(* for the next request to find.                                           *)
AnswerIsOwn ==
  /\ OneRequest
  /\ \A p \in Ioctlers : iopc[p] = "copyout" => taken[p] \in {own[p]} \cup late[p]

(* Nobody sleeps on with nothing to come: whoever awaits an answer has not *)
(* got it and it is on its way, also after M_IOCWAIT took the timeout      *)
(* away; and whoever awaits its turn has a request before it to end.       *)
(* (When that request is given up it sleeps on: see the README.)           *)
NobodyStranded ==
  \A p \in onstq :
    /\ iopc[p] = "waitsleep" => iocblk.type \notin Final /\ own[p] \in Unanswered
    /\ iopc[p] = "claimsleep" => IOCWAIT \/ gaveup \/ \E q \in Ioctlers : iopc[q] = "copyout"
=============================================================================
