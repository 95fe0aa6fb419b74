-------------------------- MODULE StreamIoctl_proofs --------------------------
(***************************************************************************)
(* Theorems about the ioctls of a stream, for any processes and any bounds *)
(* on their requests.  Nothing in an answer says whose it is, so the proof *)
(* follows the request numbers: what is below the stream head, or has come *)
(* in and not been taken, belongs to the process that waits or was late    *)
(* when that process sent its request; and the request of a process that   *)
(* waits stays below until a final answer to some request lies in iocblk.  *)
(***************************************************************************)
EXTENDS StreamIoctl, SequencesExt, SequenceTheorems, TLAPS

(* The requests that will still get a final answer; an M_IOCWAIT on its    *)
(* way up is none.                                                         *)
Pending == ToSet(down) \cup {b.of : b \in {c \in ToSet(up) : c.type \in Final}}

(* What p may take for the answer to its request.                          *)
Accepts(p) == {own[p]} \cup late[p]

(* No answer that p may not take can reach the stream head while p waits.  *)
OnlyAccepted ==
  \A p \in Waiters : Unanswered \subseteq Accepts(p) /\ (iocblk # NoBlk => iocblk.of \in Accepts(p))

TakenAccepted == \A p \in Ioctlers : iopc[p] = "copyout" => taken[p] \in Accepts(p)

(* p's request has a final answer coming, or one to some request is there. *)
AnswerComes == \A p \in Waiters : own[p] \in Pending \/ iocblk.type \in Final

(* Why p may sleep.                                                        *)
SleepFor(p) ==
  /\ iopc[p] = "waitsleep" => iocblk.type \notin Final
  /\ iopc[p] = "claimsleep" => IOCWAIT \/ gaveup \/ \E q \in Ioctlers : iopc[q] = "copyout"

SleepInv == \A p \in onstq : SleepFor(p)

IInv == IoctlTypeOK /\ OneRequest /\ OnlyAccepted /\ TakenAccepted /\ AnswerComes /\ SleepInv

-----------------------------------------------------------------------------
(* What a queue holds after a message has been put to its end, or its head *)
(* has been taken.                                                         *)
LEMMA AppendElements ==
  ASSUME NEW S, NEW s \in Seq(S), NEW x \in S
  PROVE  Append(s, x) \in Seq(S) /\ ToSet(Append(s, x)) = ToSet(s) \cup {x}
<1>1. /\ Append(s, x) \in Seq(S) /\ Len(Append(s, x)) = Len(s) + 1
      /\ \A i \in 1 .. Len(s) : Append(s, x)[i] = s[i]
      /\ Append(s, x)[Len(s) + 1] = x
  BY AppendProperties
<1>2. DOMAIN s = 1 .. Len(s) /\ DOMAIN Append(s, x) = 1 .. Len(s) + 1 /\ Len(s) \in Nat
  BY <1>1, LenProperties
<1> QED BY <1>1, <1>2 DEF ToSet

LEMMA TailElements ==
  ASSUME NEW S, NEW s \in Seq(S), s # <<>>
  PROVE  /\ Tail(s) \in Seq(S) /\ Head(s) \in S
         /\ ToSet(s) = {Head(s)} \cup ToSet(Tail(s))
<1>1. /\ Head(s) \in S /\ Tail(s) \in Seq(S)
      /\ Len(Tail(s)) = Len(s) - 1 /\ \A i \in 1 .. Len(Tail(s)) : Tail(s)[i] = s[i + 1]
      /\ Head(s) = s[1] /\ Len(s) >= 1 /\ Len(s) \in Nat
  BY HeadTailProperties, EmptySeq, LenProperties
<1>2. DOMAIN s = 1 .. Len(s) /\ DOMAIN Tail(s) = 1 .. Len(s) - 1
  BY <1>1, LenProperties
<1>3. \A i \in 1 .. Len(s) : i = 1 \/ (i - 1 \in 1 .. Len(s) - 1 /\ Tail(s)[i - 1] = s[i])
  BY <1>1
<1>4. ToSet(s) \subseteq {Head(s)} \cup ToSet(Tail(s))
  <2> SUFFICES ASSUME NEW i \in 1 .. Len(s) PROVE s[i] \in {Head(s)} \cup ToSet(Tail(s))
    BY <1>2 DEF ToSet
  <2>1. CASE i = 1
    BY <1>1, <2>1
  <2>2. CASE i # 1
    BY <1>2, <1>3, <2>2 DEF ToSet
  <2> QED BY <2>1, <2>2
<1>5. ASSUME NEW x \in ToSet(Tail(s)) PROVE x \in ToSet(s)
  <2>1. PICK i \in 1 .. Len(s) - 1 : x = Tail(s)[i]
    BY <1>2 DEF ToSet
  <2>2. x = s[i + 1] /\ i + 1 \in DOMAIN s
    BY <1>1, <1>2, <2>1
  <2> QED BY <2>2 DEF ToSet
<1>6. Head(s) \in ToSet(s)
  BY <1>1, <1>2 DEF ToSet
<1> QED BY <1>1, <1>4, <1>5, <1>6

(* Every element of a queue of requests or answers has its type.           *)
LEMMA ElementsType ==
  ASSUME NEW S, NEW s \in Seq(S)
  PROVE  ToSet(s) \subseteq S
BY ElementOfSeq, LenProperties DEF ToSet

(* The requests without a final answer, by the messages that are under way *)
(* before and after a step.                                                *)
LEMMA UnansweredIs ==
  /\ Unanswered = ToSet(down) \cup {b.of : b \in ToSet(up)}
  /\ Unanswered' = ToSet(down') \cup {b.of : b \in ToSet(up')}
BY DEF Unanswered, ToSet

-----------------------------------------------------------------------------
(* The initial states satisfy the invariant.                               *)
LEMMA InitIInv == IoctlInit => IInv
<1> SUFFICES ASSUME IoctlInit PROVE IInv
  OBVIOUS
<1>1. IoctlTypeOK
  <2>1. \A S : <<>> \in Seq(S)
    BY EmptySeq
  <2>2. down \in Seq(1 .. requests) /\ up \in Seq([type : Final \cup {"WAIT"}, of : 1 .. requests])
    BY <2>1 DEF IoctlInit
  <2>3. requests \in 0 .. MaxRequests /\ patience \in 0 .. MaxPatience
    BY IoctlConstants DEF IoctlInit
  <2>4. /\ iopc \in [Ioctlers -> {"idle", "claim", "claimsleep", "wait", "waitsleep", "copyout"}]
        /\ onstq \subseteq Ioctlers /\ ioctime \in [Ioctlers -> BOOLEAN]
    BY DEF IoctlInit
  <2>5. own \in [Ioctlers -> 0 .. requests] /\ taken \in [Ioctlers -> 0 .. requests]
    BY DEF IoctlInit
  <2>6. late \in [Ioctlers -> SUBSET (1 .. requests)]
    BY DEF IoctlInit
  <2>7. IOCWAIT \in BOOLEAN /\ HUNGUP \in BOOLEAN /\ gaveup \in BOOLEAN /\ iocblk = NoBlk
    BY DEF IoctlInit
  <2> QED BY <2>2, <2>3, <2>4, <2>5, <2>6, <2>7 DEF IoctlTypeOK
<1> QED BY <1>1 DEF IoctlInit, IInv, OneRequest, OnlyAccepted, TakenAccepted, AnswerComes,
                    SleepInv, Waiters

(* Every step preserves the types.                                         *)
LEMMA TypeStep == ASSUME IoctlTypeOK, IoctlNext PROVE IoctlTypeOK'
<1> USE IoctlConstants DEF IoctlTypeOK
<1> DEFINE Msg == [type : Final \cup {"WAIT"}, of : 1 .. requests]
<1>1. ASSUME NEW p \in Ioctlers, IoctlStep(p) \/ IntrSignal(p) PROVE IoctlTypeOK'
  <2>1. CASE Ioctl(p)
    BY <2>1 DEF Ioctl
  <2>2. CASE ClaimSleep(p)
    BY <2>2 DEF ClaimSleep
  <2>3. CASE Claim(p)
    <3>1. requests' = requests + 1 /\ requests' \in 0 .. MaxRequests
      BY <2>3 DEF Claim
    <3>2. down \in Seq(1 .. requests') /\ up' \in Seq([type : Final \cup {"WAIT"}, of : 1 .. requests'])
      <4>1. 1 .. requests \subseteq 1 .. requests'
        BY <3>1
      <4>2. Msg \subseteq [type : Final \cup {"WAIT"}, of : 1 .. requests']
        BY <4>1
      <4>3. down \in Seq(1 .. requests')
        BY <4>1, SeqMonotonic, Zenon
      <4>4. up \in Seq([type : Final \cup {"WAIT"}, of : 1 .. requests'])
        BY <4>2, SeqMonotonic, Zenon
      <4> QED BY <2>3, <4>3, <4>4 DEF Claim
    <3>3. down' \in Seq(1 .. requests')
      BY <2>3, <3>1, <3>2, AppendElements DEF Claim
    <3>4. Unanswered \subseteq 1 .. requests
      <4>1. ToSet(down) \subseteq 1 .. requests /\ ToSet(up) \subseteq Msg
        BY ElementsType
      <4>2. \A b \in Msg : b.of \in 1 .. requests
        OBVIOUS
      <4> QED BY <4>1, <4>2, UnansweredIs
    <3>5. iocblk' = NoBlk
      BY <2>3 DEF Claim
    <3> QED BY <2>3, <3>1, <3>2, <3>3, <3>4, <3>5 DEF Claim
  <2>4. CASE AwaitAnswer(p)
    BY <2>4 DEF AwaitAnswer
  <2>5. CASE TakeAnswer(p)
      <3>1. iocblk \in [type : Final \cup {"WAIT"}, of : 1 .. requests] /\ iocblk.of \in 0 .. requests
      <4>1. iocblk # NoBlk /\ iocblk \in {NoBlk} \cup [type : Final \cup {"WAIT"}, of : 1 .. requests]
        BY <2>5 DEF TakeAnswer, NoBlk, Final
      <4>2. iocblk \in [type : Final \cup {"WAIT"}, of : 1 .. requests]
        BY <4>1
      <4> QED BY <4>2
    <3> QED BY <2>5, <3>1 DEF TakeAnswer
  <2>6. CASE Finish(p)
    BY <2>6 DEF Finish
  <2>7. CASE WokenUp(p)
    BY <2>7 DEF WokenUp
  <2>8. CASE GiveUp(p)
    BY <2>8 DEF GiveUp, NoBlk
  <2> QED BY <1>1, <2>1, <2>2, <2>3, <2>4, <2>5, <2>6, <2>7, <2>8
          DEF IoctlStep, TimedOut, HungUp, IntrSignal
<1>2. CASE Answer
  <2>1. PICK t \in Final : up' = Append(up, [type |-> t, of |-> Head(down)])
    BY <1>2 DEF Answer
  <2>2. Head(down) \in 1 .. requests /\ down' \in Seq(1 .. requests)
    BY <1>2, TailElements DEF Answer
  <2>3. up' \in Seq(Msg)
    BY <2>1, <2>2, AppendElements
  <2> QED BY <1>2, <2>2, <2>3 DEF Answer
<1>3. CASE AskPatience
  <2>1. Head(down) \in 1 .. requests
    BY <1>3, TailElements DEF AskPatience
  <2>2. up' \in Seq(Msg)
    BY <1>3, <2>1, AppendElements DEF AskPatience
  <2> QED BY <1>3, <2>2 DEF AskPatience
<1>4. CASE StrputAnswer
  <2>1. Head(up) \in Msg /\ up' \in Seq(Msg)
    BY <1>4, TailElements DEF StrputAnswer
  <2> QED BY <1>4, <2>1 DEF StrputAnswer, Keeps
<1>5. CASE StrputHangup
  BY <1>5 DEF StrputHangup
<1> QED BY <1>1, <1>2, <1>3, <1>4, <1>5 DEF IoctlNext

(* Every step keeps at most one process waiting for an answer, with        *)
(* IOCWAIT on.                                                             *)
LEMMA OneRequestStep == ASSUME IoctlTypeOK, OneRequest, IoctlNext PROVE OneRequest'
<1> USE DEF IoctlTypeOK, OneRequest, Waiters
<1>1. ASSUME NEW p \in Ioctlers, IoctlStep(p) \/ IntrSignal(p) PROVE OneRequest'
  <2>1. CASE Ioctl(p)
    BY <2>1 DEF Ioctl
  <2>2. CASE ClaimSleep(p)
    BY <2>2 DEF ClaimSleep
  <2>3. CASE Claim(p)
    BY <2>3 DEF Claim
  <2>4. CASE AwaitAnswer(p)
    BY <2>4 DEF AwaitAnswer
  <2>5. CASE TakeAnswer(p)
    BY <2>5 DEF TakeAnswer
  <2>6. CASE Finish(p)
    BY <2>6 DEF Finish
  <2>7. CASE WokenUp(p)
    BY <2>7 DEF WokenUp
  <2>8. CASE GiveUp(p)
    BY <2>8 DEF GiveUp
  <2> QED BY <1>1, <2>1, <2>2, <2>3, <2>4, <2>5, <2>6, <2>7, <2>8
          DEF IoctlStep, TimedOut, HungUp, IntrSignal
<1> QED BY <1>1 DEF IoctlNext, Answer, AskPatience, StrputAnswer, StrputHangup

-----------------------------------------------------------------------------
(* Sending a request adds it to the unanswered ones and to the pending     *)
(* ones; below the stream head no request appears, and a pending one stays *)
(* until a final answer to it reaches the stream head.                     *)
LEMMA ClaimSends ==
  ASSUME IoctlTypeOK, NEW p \in Ioctlers, Claim(p)
  PROVE  Unanswered' = Unanswered \cup {requests'} /\ Pending' = Pending \cup {requests'}
<1>1. requests' = requests + 1 /\ down' = Append(down, requests') /\ up' = up
  BY DEF Claim
<1>2. down \in Seq(1 .. requests')
  <2>1. 1 .. requests \subseteq 1 .. requests'
    BY <1>1 DEF IoctlTypeOK
  <2> QED BY <2>1, SeqMonotonic, Zenon DEF IoctlTypeOK
<1>3. ToSet(down)' = ToSet(down) \cup {requests'}
  <2>1. requests' \in 1 .. requests'
    BY <1>1 DEF IoctlTypeOK
  <2> QED BY <1>1, <1>2, <2>1, AppendElements
<1>4. ToSet(up)' = ToSet(up)
  BY <1>1
<1> QED BY <1>3, <1>4, UnansweredIs DEF Pending

LEMMA BelowKeeps ==
  ASSUME IoctlTypeOK, Answer \/ AskPatience
  PROVE  Unanswered' \subseteq Unanswered /\ Pending \subseteq Pending'
<1> DEFINE Msg == [type : Final \cup {"WAIT"}, of : 1 .. requests]
<1>1. down \in Seq(1 .. requests) /\ up \in Seq(Msg)
  BY DEF IoctlTypeOK
<1>2. Head(down) \in 1 .. requests /\ ToSet(down) = {Head(down)} \cup ToSet(Tail(down))
  BY <1>1, TailElements DEF Answer, AskPatience
<1>3. CASE Answer
  <2>1. PICK t \in Final : up' = Append(up, [type |-> t, of |-> Head(down)])
    BY <1>3 DEF Answer
  <2> DEFINE m == [type |-> t, of |-> Head(down)]
  <2>2. ToSet(up)' = ToSet(up) \cup {m}
    <3>1. m \in Msg
      BY <1>2
    <3>2. up' = Append(up, m)
      BY <2>1
    <3> HIDE DEF m, Msg
    <3>3. ToSet(Append(up, m)) = ToSet(up) \cup {m}
      BY <1>1, <3>1, AppendElements
    <3> QED BY <3>2, <3>3
  <2>3. down' = Tail(down)
    BY <1>3 DEF Answer
  <2>4. m.type \in Final /\ m.of = Head(down)
    OBVIOUS
  <2> HIDE DEF m
  <2> QED BY <1>2, <2>2, <2>3, <2>4, UnansweredIs DEF Pending
<1>4. CASE AskPatience
  <2> DEFINE m == [type |-> "WAIT", of |-> Head(down)]
  <2>1. ToSet(up)' = ToSet(up) \cup {m} /\ down' = down
    <3>1. m \in Msg
      BY <1>2
    <3>2. up' = Append(up, m) /\ down' = down
      BY <1>4 DEF AskPatience
    <3> HIDE DEF m, Msg
    <3>3. ToSet(Append(up, m)) = ToSet(up) \cup {m}
      BY <1>1, <3>1, AppendElements
    <3> QED BY <3>2, <3>3
  <2>2. m.of = Head(down)
    OBVIOUS
  <2> HIDE DEF m
  <2> QED BY <1>2, <2>1, <2>2, UnansweredIs DEF Pending
<1> QED BY <1>3, <1>4

LEMMA StrputTakes ==
  ASSUME IoctlTypeOK, StrputAnswer
  PROVE  /\ Unanswered' \subseteq Unanswered /\ Head(up).of \in Unanswered
         /\ Head(up).type \in Final \cup {"WAIT"}
         /\ Pending \subseteq Pending' \cup IF Head(up).type \in Final THEN {Head(up).of} ELSE {}
<1>1. down' = down /\ up' = Tail(up)
  BY DEF StrputAnswer
<1>2. /\ Head(up) \in [type : Final \cup {"WAIT"}, of : 1 .. requests]
      /\ ToSet(up) = {Head(up)} \cup ToSet(Tail(up))
  BY TailElements DEF StrputAnswer, IoctlTypeOK
<1> QED BY <1>1, <1>2, UnansweredIs DEF Pending

-----------------------------------------------------------------------------
(* Every step preserves OnlyAccepted: a request sent takes all that is     *)
(* unanswered for late, and nothing is unanswered that was not sent.       *)
LEMMA OnlyAcceptedStep == ASSUME IInv, IoctlNext PROVE OnlyAccepted'
<1> USE DEF IInv, IoctlTypeOK, OneRequest, OnlyAccepted, Waiters, Accepts
<1>1. ASSUME NEW p \in Ioctlers, IoctlStep(p) \/ IntrSignal(p) PROVE OnlyAccepted'
  <2>1. CASE Claim(p)
    <3>1. Unanswered' = Unanswered \cup {requests'}
      BY <2>1, ClaimSends
    <3>2. iocblk' = NoBlk /\ Waiters' = {p}
      BY <2>1 DEF Claim
    <3>3. Accepts(p)' = {requests'} \cup Unanswered
      BY <2>1 DEF Claim
    <3> QED BY <3>1, <3>2, <3>3
  <2>2. CASE ~Claim(p)
    <3>1. down' = down /\ up' = up /\ own' = own /\ late' = late
          /\ (iocblk' = iocblk \/ iocblk' = NoBlk) /\ Waiters' \subseteq Waiters
      BY <1>1, <2>2 DEF IoctlStep, Ioctl, ClaimSleep, AwaitAnswer, TakeAnswer, Finish, WokenUp,
                        TimedOut, HungUp, IntrSignal, GiveUp
    <3>2. Unanswered' = Unanswered
      BY <3>1 DEF Unanswered
    <3> QED BY <3>1, <3>2
  <2> QED BY <2>1, <2>2
<1>2. CASE Answer \/ AskPatience
  <2>1. UNCHANGED <<iopc, iocblk, own, late>>
    BY <1>2 DEF Answer, AskPatience
  <2> QED BY <1>2, <2>1, BelowKeeps
<1>3. CASE StrputAnswer
  <2>1. /\ UNCHANGED <<iopc, own, late>>
        /\ iocblk' \in {iocblk, Head(up), NoBlk}
    BY <1>3 DEF StrputAnswer
  <2>2. Unanswered' \subseteq Unanswered /\ Head(up).of \in Unanswered
    BY <1>3, StrputTakes
  <2> QED BY <2>1, <2>2
<1>4. CASE StrputHangup
  <2>1. UNCHANGED <<iopc, own, late, iocblk, down, up>>
    BY <1>4 DEF StrputHangup
  <2>2. Unanswered' = Unanswered
    BY <2>1 DEF Unanswered
  <2> QED BY <2>1, <2>2
<1> QED BY <1>1, <1>2, <1>3, <1>4 DEF IoctlNext

(* Every step preserves TakenAccepted.                                     *)
LEMMA TakenAcceptedStep == ASSUME IInv, IoctlNext PROVE TakenAccepted'
<1> USE DEF IInv, IoctlTypeOK, TakenAccepted, OnlyAccepted, Waiters, Accepts
<1>1. ASSUME NEW p \in Ioctlers, IoctlStep(p) \/ IntrSignal(p) PROVE TakenAccepted'
  <2>1. CASE TakeAnswer(p)
    <3>1. iocblk # NoBlk /\ p \in Waiters
      BY <2>1 DEF TakeAnswer, NoBlk, Final
    <3> QED BY <2>1, <3>1 DEF TakeAnswer
  <2>2. CASE Claim(p)
    BY <2>2 DEF Claim
  <2>3. CASE Ioctl(p)
    BY <2>3 DEF Ioctl
  <2>4. CASE ~TakeAnswer(p) /\ ~Claim(p) /\ ~Ioctl(p)
    <3>1. /\ own' = own /\ late' = late /\ taken' = taken
          /\ \A q \in Ioctlers : iopc'[q] = "copyout" => iopc[q] = "copyout"
      BY <1>1, <2>4 DEF IoctlStep, ClaimSleep, AwaitAnswer, Finish, WokenUp,
                        TimedOut, HungUp, IntrSignal, GiveUp
    <3> QED BY <3>1
  <2> QED BY <2>1, <2>2, <2>3, <2>4
<1> QED BY <1>1 DEF IoctlNext, Answer, AskPatience, StrputAnswer, StrputHangup

(* Every step preserves AnswerComes: a final answer that strput takes from *)
(* the queue is kept, or thrown away because there is one.                 *)
LEMMA AnswerComesStep == ASSUME IInv, IoctlNext PROVE AnswerComes'
<1> USE DEF IInv, IoctlTypeOK, OneRequest, AnswerComes, Waiters
<1>1. ASSUME NEW p \in Ioctlers, IoctlStep(p) \/ IntrSignal(p) PROVE AnswerComes'
  <2>1. CASE Claim(p)
    <3>1. requests' \in Pending'
      BY <2>1, ClaimSends
    <3>2. Waiters' = {p} /\ own'[p] = requests'
      BY <2>1 DEF Claim
    <3> QED BY <3>1, <3>2
  <2>2. CASE TakeAnswer(p)
    BY <2>2 DEF TakeAnswer
  <2>3. CASE GiveUp(p)
    <3>1. UNCHANGED <<down, up, own>> /\ Waiters' \subseteq Waiters
          /\ (iocblk' = iocblk \/ Waiters' = {})
      BY <2>3 DEF GiveUp
    <3>2. Pending' = Pending
      BY <3>1 DEF Pending
    <3> QED BY <3>1, <3>2
  <2>4. CASE ~Claim(p) /\ ~TakeAnswer(p) /\ ~GiveUp(p)
    <3>1. UNCHANGED <<down, up, own, iocblk>> /\ Waiters' \subseteq Waiters
      BY <1>1, <2>4 DEF IoctlStep, Ioctl, ClaimSleep, AwaitAnswer, Finish, WokenUp,
                        TimedOut, HungUp, IntrSignal
    <3>2. Pending' = Pending
      BY <3>1 DEF Pending
    <3> QED BY <3>1, <3>2
  <2> QED BY <2>1, <2>2, <2>3, <2>4
<1>2. CASE Answer \/ AskPatience
  <2>1. UNCHANGED <<iopc, iocblk, own>>
    BY <1>2 DEF Answer, AskPatience
  <2> QED BY <1>2, <2>1, BelowKeeps
<1>3. CASE StrputAnswer
  <2> SUFFICES ASSUME NEW p \in Waiters PROVE own[p] \in Pending' \/ iocblk'.type \in Final
    BY <1>3 DEF StrputAnswer
  <2>1. IOCWAIT
    OBVIOUS
  <2>2. CASE iocblk.type \in Final
    <3>1. iocblk' = iocblk
      BY <1>3, <2>2 DEF StrputAnswer, Keeps, Final
    <3> QED BY <2>2, <3>1
  <2>3. CASE iocblk.type \notin Final
    <3>1. iocblk' = Head(up)
      BY <1>3, <2>1, <2>3 DEF StrputAnswer, Keeps
    <3>2. own[p] \in Pending
      BY <2>3
    <3> QED BY <1>3, <3>1, <3>2, StrputTakes
  <2> QED BY <2>2, <2>3
<1>4. CASE StrputHangup
  <2>1. UNCHANGED <<iopc, own, iocblk, down, up>>
    BY <1>4 DEF StrputHangup
  <2>2. Pending' = Pending
    BY <2>1 DEF Pending
  <2> QED BY <2>1, <2>2
<1> QED BY <1>1, <1>2, <1>3, <1>4 DEF IoctlNext

(* Every step preserves SleepInv: who falls asleep has found the stream    *)
(* busy, or no answer; who ends another request wakes the sleepers or is   *)
(* still in copyout, except when it gives the request up.                  *)
LEMMA SleepStep == ASSUME IInv, IoctlNext PROVE SleepInv'
<1> USE DEF IInv, IoctlTypeOK, SleepInv, SleepFor
<1>1. ASSUME NEW p \in Ioctlers, IoctlStep(p) \/ IntrSignal(p) PROVE SleepInv'
  <2> USE DEF OneRequest, Waiters
  <2>1. CASE Ioctl(p)
    BY <2>1 DEF Ioctl
  <2>2. CASE ClaimSleep(p)
    BY <2>2 DEF ClaimSleep
  <2>3. CASE Claim(p)
    BY <2>3 DEF Claim
  <2>4. CASE AwaitAnswer(p)
    BY <2>4 DEF AwaitAnswer
  <2>5. CASE TakeAnswer(p)
    BY <2>5 DEF TakeAnswer
  <2>6. CASE Finish(p)
    BY <2>6 DEF Finish
  <2>7. CASE WokenUp(p)
    BY <2>7 DEF WokenUp, OnCpu
  <2>8. CASE GiveUp(p)
    <3>1. CASE iopc[p] = "claimsleep"
      BY <2>8, <3>1 DEF GiveUp
    <3>2. CASE iopc[p] = "waitsleep"
      <4>1. gaveup' = TRUE /\ Waiters' = {} /\ onstq' \subseteq onstq
        BY <2>8, <3>2 DEF GiveUp
      <4> QED BY <4>1
    <3> QED BY <2>8, <3>1, <3>2 DEF GiveUp
  <2> QED BY <1>1, <2>1, <2>2, <2>3, <2>4, <2>5, <2>6, <2>7, <2>8
          DEF IoctlStep, TimedOut, HungUp, IntrSignal
<1>2. CASE Answer \/ AskPatience \/ StrputAnswer
  <2>1. UNCHANGED <<IOCWAIT, iopc, gaveup>>
    BY <1>2 DEF Answer, AskPatience, StrputAnswer
  <2>2. onstq' = {} \/ (onstq' = onstq /\ (iocblk.type \notin Final => iocblk'.type \notin Final))
    BY <1>2 DEF Answer, AskPatience, StrputAnswer, NoBlk, Final
  <2> QED BY <2>1, <2>2
<1>3. CASE StrputHangup
  BY <1>3 DEF StrputHangup
<1> QED BY <1>1, <1>2, <1>3 DEF IoctlNext

(* IInv is an invariant of the ioctls of a stream.                         *)
THEOREM IoctlInvariant == IoctlSpec => []IInv
<1>1. IInv /\ [IoctlNext]_ioctlVars => IInv'
  <2> SUFFICES ASSUME IInv, [IoctlNext]_ioctlVars PROVE IInv'
    OBVIOUS
  <2>1. CASE IoctlNext
    BY <2>1, TypeStep, OneRequestStep, OnlyAcceptedStep, TakenAcceptedStep, AnswerComesStep,
       SleepStep DEF IInv
  <2>2. CASE UNCHANGED ioctlVars
    <3>1. UNCHANGED <<IOCWAIT, HUNGUP, iocblk, iopc, onstq, ioctime, down, up, requests, own,
                      late, taken, gaveup, patience>>
      BY <2>2 DEF ioctlVars
    <3>2. Unanswered' = Unanswered /\ Pending' = Pending
      BY <3>1 DEF Unanswered, Pending
    <3> QED BY <3>1, <3>2 DEF IInv, IoctlTypeOK, OneRequest, OnlyAccepted, TakenAccepted,
                              AnswerComes, SleepInv, SleepFor, Waiters, Accepts
  <2> QED BY <2>1, <2>2
<1> QED BY <1>1, InitIInv, PTL DEF IoctlSpec

(* The variables keep their types.                                         *)
THEOREM IoctlTypes == IoctlSpec => []IoctlTypeOK
BY IoctlInvariant, PTL DEF IInv

(* At most one process awaits an answer, and the answer that a process     *)
(* takes is to its own request or to one given up before.                  *)
THEOREM AnswerToOwnRequest == IoctlSpec => []AnswerIsOwn
<1>1. IInv => AnswerIsOwn
  BY DEF IInv, AnswerIsOwn, TakenAccepted, Accepts
<1> QED BY <1>1, IoctlInvariant, PTL

(* Who sleeps on the stream has an answer or another's request to wait for.*)
THEOREM NobodyIsStranded == IoctlSpec => []NobodyStranded
<1>1. IInv => NobodyStranded
  <2> SUFFICES ASSUME IInv, NEW p \in onstq
               PROVE  /\ iopc[p] = "waitsleep" => iocblk.type \notin Final /\ own[p] \in Unanswered
                      /\ iopc[p] = "claimsleep" =>
                           IOCWAIT \/ gaveup \/ \E q \in Ioctlers : iopc[q] = "copyout"
    BY DEF NobodyStranded
  <2>1. Pending \subseteq Unanswered
    BY UnansweredIs DEF Pending
  <2> QED BY <2>1 DEF IInv, SleepInv, SleepFor, AnswerComes, Waiters, IoctlTypeOK
<1> QED BY <1>1, IoctlInvariant, PTL
=============================================================================
