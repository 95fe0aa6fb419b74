---------------------------- MODULE Sleep_proofs ----------------------------
(***************************************************************************)
(* What is proved about sleep, wakeup and signals.  The invariant is one   *)
(* about each process's own entry of the process table (EntryInv), kept by *)
(* every operation on an entry, two that relate entries to the events and  *)
(* to each other (EventInv, HearInv), and one about softclock (ClockInv).  *)
(***************************************************************************)
EXTENDS Sleep, TLAPS

Alive(r) == r.stat \in {"SRUN", "SSLEEP", "SSTOP"}
Waiting == {"await", "wait", "drain"}
WaitChan(p, at) == IF at = "wait" THEN p ELSE ChanOf[p]

(* Who is on the sleep queue is asleep or stopped inside sleep, on the     *)
(* channel of its call; a process stops in an interruptible sleep or on    *)
(* its way to user mode.                                                   *)
QueueOK(p, r) ==
  /\ r.wchan # NOCHAN =>
       r.stat \in {"SSLEEP", "SSTOP"} /\ r.at \in Waiting /\ r.wchan = WaitChan(p, r.at)
  /\ r.stat = "SSLEEP" => r.wchan # NOCHAN
  /\ r.stat = "SSTOP" => r.at = "issig" \/ (r.at \in Waiting /\ r.intr)

(* What psignal sees of an action agrees with what issig and psig see.     *)
AgreesWith(a) ==
  CASE a = "DFL" -> {"DFL", "CATCH"}
    [] a \in {"CATCH", "DEFER"} -> {"CATCH"}
    [] OTHER -> {a}

ActionsOK(r) ==
  /\ \A s \in Sigs : r.siga[s] \in AgreesWith(r.usig[s])
  /\ \A s \in {"KILL", "STOP"} : r.usig[s] = "DFL" /\ r.siga[s] = "DFL"

(* The signal in p_cursig is one that psig has an action for.              *)
CursigOK(r) ==
  /\ r.at = "user" => r.cursig = NOSIG
  /\ r.cursig # NOSIG => r.usig[r.cursig] \notin {"IGN", "HOLD"}
  /\ r.cursig \in {"CONT", "CHLD"} => r.usig[r.cursig] # "DFL"

(* A stop signal left in p_cursig will be replaced: the process is stopped *)
(* or still where issig is called, which a pending signal makes sure of.   *)
StopPasses(r) ==
  r.cursig \in Stops /\ r.usig[r.cursig] = "DFL" =>
    \/ r.stat = "SSTOP"
    \/ r.at = "issig"
    \/ r.stat = "SSLEEP" /\ r.at \in Waiting /\ r.intr /\ r.sig \cap (Stops \cup {"CONT"}) # {}
    \/ r.stat = "SRUN" /\ r.at \in Waiting /\ r.intr /\ r.sig # {}

(* SIGKILL keeps a process running until it is taken.                      *)
KillRuns(r) ==
  /\ r.at \notin {"drain", "drained"}
  /\ "KILL" \in r.sig => r.stat = "SRUN" \/ (r.stat = "SSLEEP" /\ ~r.intr)
  /\ r.cursig = "KILL" => r.stat = "SRUN" /\ r.at = "exit"

(* Only the end of a timed sleep makes setrun panic.                       *)
Timers(p, r) ==
  /\ r.tsleep > 0 => TimedSleeper(p)
  /\ r.stat = "panic" => TimedSleeper(p)

(* The parent of the process lives, and softclock does not start it after  *)
(* the terminal has stopped it in a timed sleep.                           *)
Raced(p) == TimedSleeper(p) /\ "TSTP" \in Senders[p]
Heir(p, r) == r.pptr = PParent[p] /\ ~Raced(p)

(* A process that is gone ignores all signals, and ended by another one.   *)
Gone(p, r) ==
  /\ r.siga = [s \in Sigs |-> "IGN"] /\ r.sig = {} /\ r.at = "user"
  /\ Heir(p, r) => r.cursig \notin Stops \cup {"CONT", "CHLD"}

Unstopped(p, r) ==
  Senders[p] \cap Stops = {} => r.sig \cap Stops = {} /\ r.stat # "SSTOP"

EntryInv(p, r) ==
  /\ r \in ProcRecords
  /\ QueueOK(p, r)
  /\ Alive(r) => ActionsOK(r) /\ CursigOK(r)
  /\ Alive(r) /\ Heir(p, r) => StopPasses(r)
  /\ Alive(r) /\ "drain" \notin SysCalls[p] => KillRuns(r)
  /\ r.stat \in {"SZOMB", "NULL"} => Gone(p, r)
  /\ Timers(p, r)
  /\ Unstopped(p, r)

(* A table in order; a process keeps its parent until init takes it over.  *)
TableOK(P) ==
  /\ P \in [Sleepers -> ProcRecords]
  /\ \A p \in Sleepers : EntryInv(p, P[p]) /\ P[p].pptr \in {PParent[p], init}

EntriesInv == TableOK(proc) /\ event \in [EventChans -> BOOLEAN]

(* The event of a process on the sleep queue has not happened.             *)
EventInv ==
  \A p \in Sleepers : proc[p].wchan # NOCHAN /\ proc[p].at = "await" => ~event[ChanOf[p]]

(* A process that handles SIGCHLD, and that nobody stops, has no child to  *)
(* report while it sleeps in wait, nor between the scan and the sleep      *)
(* unless SIGCHLD is pending.                                              *)
Handles(r) == r.usig["CHLD"] \in {"CATCH", "DEFER"}

Deaf(r) ==
  \/ r.stat = "SSLEEP" /\ r.at = "wait"
  \/ r.stat = "SRUN" /\ r.at = "scanned" /\ "CHLD" \notin r.sig

Listens(p, r) == Senders[p] \cap Stops = {} /\ Handles(r) /\ Deaf(r)

HearInv ==
  \A p \in Sleepers : Listens(p, proc[p]) => \A q \in Sleepers : ~Reportable(q, p)

SleepInv == EntriesInv /\ EventInv /\ HearInv

-----------------------------------------------------------------------------
(* The signals, one by one.                                                *)
LEMMA TheSignals == Sigs = {"HUP", "INT", "KILL", "ALRM", "STOP", "TSTP", "CONT", "CHLD"}
BY DEF Sigs, SigNo

(* What psignal leaves of an entry r of the table.                         *)
Kept(r, q) ==
  /\ q \in ProcRecords
  /\ q.at = r.at /\ q.intr = r.intr /\ q.siga = r.siga /\ q.usig = r.usig /\ q.pptr = r.pptr
  /\ q.tsleep = r.tsleep /\ q.clktim = r.clktim /\ q.stimo = r.stimo

(* A signal that is posted or forgotten changes p_sig and nothing else.    *)
LEMMA PostedIs ==
  ASSUME NEW r \in ProcRecords, NEW s \in Sigs
  PROVE  /\ Kept(r, Posted(r, s))
         /\ Posted(r, s).stat = r.stat /\ Posted(r, s).wchan = r.wchan
         /\ Posted(r, s).cursig = r.cursig /\ Posted(r, s).swted = r.swted
         /\ Posted(r, s).sig = (r.sig \cup {s}) \ (IF s = "CONT" THEN Stops
                                                   ELSE IF s \in Stops THEN {"CONT"} ELSE {})
BY TheSignals DEF Posted, ProcRecords, Stops, Kept

LEMMA ForgetIs ==
  ASSUME NEW r \in ProcRecords, NEW s \in Sigs
  PROVE  /\ Kept(r, Forget(r, s))
         /\ Forget(r, s).stat = r.stat /\ Forget(r, s).wchan = r.wchan
         /\ Forget(r, s).cursig = r.cursig /\ Forget(r, s).swted = r.swted
         /\ Forget(r, s).sig = r.sig \ {s}
BY DEF Forget, ProcRecords, Kept

(* Off the sleep queue, and in another state.                              *)
LEMMA UnsleepIs ==
  ASSUME NEW r \in ProcRecords
  PROVE  /\ Kept(r, Unsleep(r))
         /\ Unsleep(r).stat = r.stat /\ Unsleep(r).wchan = NOCHAN
         /\ Unsleep(r).cursig = r.cursig /\ Unsleep(r).swted = r.swted /\ Unsleep(r).sig = r.sig
BY DEF Unsleep, ProcRecords, Kept

LEMMA StatIs ==
  ASSUME NEW r \in ProcRecords, NEW x \in {"SRUN", "SSLEEP", "SSTOP", "SZOMB", "NULL", "panic"}
  PROVE  LET q == [r EXCEPT !.stat = x] IN
         /\ Kept(r, q)
         /\ q.stat = x /\ q.wchan = r.wchan
         /\ q.cursig = r.cursig /\ q.swted = r.swted /\ q.sig = r.sig
BY DEF ProcRecords, Kept

(* Setrun takes a process that is asleep or stopped off the sleep queue.   *)
LEMMA SetrunIs ==
  ASSUME NEW r \in ProcRecords, r.stat \in {"SSLEEP", "SSTOP"}
  PROVE  /\ Kept(r, Setrun(r))
         /\ Setrun(r).stat = "SRUN" /\ Setrun(r).wchan = NOCHAN
         /\ Setrun(r).cursig = r.cursig /\ Setrun(r).swted = r.swted /\ Setrun(r).sig = r.sig
<1> DEFINE u == Unsleep(r)
<1>1. /\ Kept(r, u) /\ u \in ProcRecords /\ u.wchan = NOCHAN
      /\ u.cursig = r.cursig /\ u.swted = r.swted /\ u.sig = r.sig
  BY UnsleepIs DEF Kept
<1>2. Setrun(r) = [u EXCEPT !.stat = "SRUN"]
  BY DEF Setrun
<1> HIDE DEF u
<1> DEFINE q == [u EXCEPT !.stat = "SRUN"]
<1>3. /\ Kept(u, q) /\ q.stat = "SRUN" /\ q.wchan = NOCHAN
      /\ q.cursig = r.cursig /\ q.swted = r.swted /\ q.sig = r.sig
  BY <1>1, StatIs
<1> HIDE DEF q
<1>4. Setrun(r) = q
  BY <1>2 DEF q
<1> QED
  BY <1>1, <1>3, <1>4 DEF Kept

(* psignal stops a sleeper.                                                *)
LEMMA StoppedIs ==
  ASSUME NEW r \in ProcRecords, NEW s \in Sigs
  PROVE  LET q == [Forget(r, s) EXCEPT !.cursig = s, !.stat = "SSTOP", !.swted = FALSE] IN
         /\ Kept(r, q)
         /\ q.stat = "SSTOP" /\ q.wchan = r.wchan /\ q.cursig = s /\ q.swted = FALSE
         /\ q.sig = r.sig \ {s}
BY DEF Forget, ProcRecords, Kept

(* psignal to a process in an interruptible sleep: it is stopped, or runs, *)
(* or the signal is forgotten.                                             *)
Same(r, q) == Kept(r, q) /\ q.swted = r.swted /\ q.cursig = r.cursig

LEMMA SleeperSignalled ==
  ASSUME NEW r \in ProcRecords, NEW s \in Sigs, r.stat = "SSLEEP"
  PROVE  LET q == SignalSleeper(r, s) IN
         \/ /\ Same(r, q) /\ q.stat = "SRUN" /\ q.wchan = NOCHAN
            /\ \/ /\ s = "TSTP" /\ r.siga[s] = "DFL" /\ r.pptr = init
                  /\ q.sig = (r.sig \cup {"KILL"}) \ {s}
               \/ /\ s \in Stops => r.siga[s] # "DFL"
                  /\ q.sig = r.sig
         \/ /\ Kept(r, q) /\ q.stat = "SSTOP" /\ q.wchan = r.wchan /\ q.cursig = s /\ ~q.swted
            /\ q.sig = r.sig \ {s} /\ s \in Stops /\ r.siga[s] = "DFL"
         \/ /\ Same(r, q) /\ q.stat = "SSLEEP" /\ q.wchan = r.wchan
            /\ q.sig = r.sig \ {"CHLD"} /\ s = "CHLD" /\ r.siga[s] = "DFL"
<1> "KILL" \in Sigs /\ "KILL" \notin Stops
  BY TheSignals DEF Stops
<1>1. CASE s \in Stops /\ r.siga[s] = "DFL" /\ s # "STOP" /\ r.pptr = init
  <2> DEFINE k == Posted(r, "KILL")
  <2>1. Same(r, k) /\ k \in ProcRecords /\ k.stat = "SSLEEP" /\ k.sig = r.sig \cup {"KILL"}
    BY <1>1, PostedIs DEF Same, Kept
  <2> HIDE DEF k
  <2>2. /\ Same(k, Setrun(k)) /\ Setrun(k).stat = "SRUN" /\ Setrun(k).wchan = NOCHAN
        /\ Setrun(k).sig = k.sig /\ Setrun(k) \in ProcRecords
    BY <2>1, SetrunIs DEF Same, Kept
  <2>3. Same(r, Setrun(k))
    BY <2>1, <2>2 DEF Same, Kept
  <2>4. /\ Same(Setrun(k), Forget(Setrun(k), s)) /\ Forget(Setrun(k), s).stat = "SRUN"
        /\ Forget(Setrun(k), s).wchan = NOCHAN
        /\ Forget(Setrun(k), s).sig = (r.sig \cup {"KILL"}) \ {s}
    BY <2>1, <2>2, ForgetIs DEF Same, Kept
  <2>5. Same(r, Forget(Setrun(k), s))
    BY <2>3, <2>4 DEF Same, Kept
  <2>6. SignalSleeper(r, s) = Forget(Setrun(k), s)
    BY <1>1 DEF SignalSleeper, k
  <2>7. s = "TSTP"
    BY <1>1 DEF Stops
  <2> QED
    BY <1>1, <2>4, <2>5, <2>6, <2>7
<1>2. CASE s \in Stops /\ r.siga[s] = "DFL" /\ ~(s # "STOP" /\ r.pptr = init)
  BY <1>2, StoppedIs DEF SignalSleeper
<1>3. CASE s = "CHLD" /\ r.siga[s] = "DFL"
  <2>1. s \notin Stops
    BY <1>3 DEF Stops
  <2> QED
    BY <1>3, <2>1, ForgetIs DEF SignalSleeper, Same
<1>4. CASE ~(s \in Stops /\ r.siga[s] = "DFL") /\ ~(s = "CHLD" /\ r.siga[s] = "DFL")
  BY <1>4, SetrunIs DEF SignalSleeper, Same
<1> QED
  BY <1>1, <1>2, <1>3, <1>4

(* psignal to a stopped process: only SIGKILL and SIGCONT start it.        *)
LEMMA StoppedSignalled ==
  ASSUME NEW r \in ProcRecords, NEW s \in Sigs, r.stat = "SSTOP"
  PROVE  LET q == SignalStopped(r, s) IN
         /\ Same(r, q)
         /\ \/ /\ q.stat = "SRUN" /\ q.wchan = NOCHAN /\ q.sig = r.sig /\ s \in {"KILL", "CONT"}
            \/ /\ q.stat = "SSLEEP" /\ q.wchan = r.wchan /\ r.wchan # NOCHAN
               /\ q.sig = r.sig /\ s = "CONT"
            \/ /\ q.stat = "SSTOP" /\ q.wchan = r.wchan /\ q.sig = r.sig \ {s} /\ s \in Stops
            \/ /\ q.stat = "SSTOP" /\ q.wchan \in {r.wchan, NOCHAN} /\ q.sig = r.sig
               /\ s \notin Stops \cup {"KILL", "CONT"}
<1> "KILL" \notin Stops /\ "CONT" \notin Stops
  BY DEF Stops
<1> DEFINE asleep == [r EXCEPT !.stat = "SSLEEP"]
<1>0. /\ Same(r, asleep) /\ asleep.stat = "SSLEEP" /\ asleep.wchan = r.wchan /\ asleep.sig = r.sig
  BY StatIs DEF Same
<1>1. CASE s = "KILL"
  BY <1>1, SetrunIs DEF SignalStopped, Same
<1>2. CASE s = "CONT" /\ (r.siga[s] # "DFL" \/ r.wchan = NOCHAN)
  BY <1>2, SetrunIs DEF SignalStopped, Same
<1>3. CASE s = "CONT" /\ ~(r.siga[s] # "DFL" \/ r.wchan = NOCHAN)
  <2> SignalStopped(r, s) = asleep
    BY <1>3 DEF SignalStopped
  <2> HIDE DEF asleep
  <2> QED
    BY <1>0, <1>3
<1>4. CASE s \in Stops
  BY <1>4, ForgetIs DEF SignalStopped, Same
<1>5. CASE s \notin Stops \cup {"KILL", "CONT"} /\ r.wchan # NOCHAN /\ r.intr
  BY <1>5, UnsleepIs DEF SignalStopped, Same
<1>6. CASE s \notin Stops \cup {"KILL", "CONT"} /\ ~(r.wchan # NOCHAN /\ r.intr)
  BY <1>6 DEF SignalStopped, Same, Kept
<1> QED
  BY <1>1, <1>2, <1>3, <1>4, <1>5, <1>6

(* p_sig with the signal posted.                                           *)
WithSig(sig, s) ==
  (sig \cup {s}) \ (IF s = "CONT" THEN Stops ELSE IF s \in Stops THEN {"CONT"} ELSE {})

(* What becomes of a process that is sent a signal it does not ignore: it  *)
(* stays where it is with the signal pending (Pends), a sleeper runs, is   *)
(* stopped, or forgets SIGCHLD, a stopped process runs, goes back to sleep *)
(* or stays stopped.                                                       *)
Pends(r, s, q) ==
  /\ Same(r, q) /\ q.stat = r.stat /\ q.wchan = r.wchan /\ q.sig = WithSig(r.sig, s)
  /\ r.siga[s] = "HOLD" \/ (r.stat # "SSTOP" /\ ~(r.stat = "SSLEEP" /\ r.intr))

SleeperRuns(r, s, q) ==
  /\ Same(r, q) /\ r.stat = "SSLEEP" /\ r.intr /\ q.stat = "SRUN" /\ q.wchan = NOCHAN
  /\ \/ /\ s = "TSTP" /\ r.siga[s] = "DFL" /\ r.pptr = init
        /\ q.sig = (WithSig(r.sig, s) \cup {"KILL"}) \ {s}
     \/ /\ s \in Stops => r.siga[s] # "DFL"
        /\ q.sig = WithSig(r.sig, s)

SleeperStops(r, s, q) ==
  /\ Kept(r, q) /\ r.stat = "SSLEEP" /\ r.intr /\ q.stat = "SSTOP" /\ q.wchan = r.wchan
  /\ q.cursig = s /\ ~q.swted /\ q.sig = WithSig(r.sig, s) \ {s} /\ s \in Stops /\ r.siga[s] = "DFL"

SleeperForgets(r, s, q) ==
  /\ Same(r, q) /\ r.stat = "SSLEEP" /\ q.stat = "SSLEEP" /\ q.wchan = r.wchan
  /\ q.sig = WithSig(r.sig, s) \ {"CHLD"} /\ s = "CHLD" /\ r.siga[s] = "DFL"

StoppedGoesOn(r, s, q) ==
  /\ Same(r, q) /\ r.stat = "SSTOP"
  /\ \/ /\ q.stat = "SRUN" /\ q.wchan = NOCHAN /\ q.sig = WithSig(r.sig, s) /\ s \in {"KILL", "CONT"}
     \/ /\ q.stat = "SSLEEP" /\ q.wchan = r.wchan /\ r.wchan # NOCHAN
        /\ q.sig = WithSig(r.sig, s) /\ s = "CONT"

StoppedStays(r, s, q) ==
  /\ Same(r, q) /\ r.stat = "SSTOP" /\ q.stat = "SSTOP" /\ s \notin {"KILL", "CONT"}
  /\ \/ q.wchan = r.wchan /\ q.sig = WithSig(r.sig, s) \ {s} /\ s \in Stops
     \/ q.wchan \in {r.wchan, NOCHAN} /\ q.sig = WithSig(r.sig, s) /\ s \notin Stops

PsignalCases(r, s, q) ==
  \/ q = r
  \/ /\ r.siga[s] # "IGN"
     /\ \/ Pends(r, s, q) \/ SleeperRuns(r, s, q) \/ SleeperStops(r, s, q) \/ SleeperForgets(r, s, q)
        \/ StoppedGoesOn(r, s, q) \/ StoppedStays(r, s, q)

(* psignal, case by case.                                                  *)
LEMMA PsignalIs ==
  ASSUME NEW r \in ProcRecords, NEW s \in Sigs
  PROVE  PsignalCases(r, s, Psignal(r, s))
<1> DEFINE k == Posted(r, s)
<1> DEFINE q == Psignal(r, s)
<1>0. /\ Same(r, k) /\ k \in ProcRecords /\ k.stat = r.stat /\ k.wchan = r.wchan
      /\ k.sig = WithSig(r.sig, s)
  BY PostedIs DEF Same, Kept, WithSig
<1>1. CASE r.siga[s] = "IGN"
  BY <1>1 DEF Psignal, PsignalCases
<1>2. CASE r.siga[s] = "HOLD"
  <2>1. q = k
    BY <1>2 DEF Psignal
  <2> HIDE DEF k, q
  <2> QED
    BY <1>0, <1>2, <2>1 DEF PsignalCases, Pends, q
<1>3. CASE r.siga[s] \notin {"IGN", "HOLD"} /\ r.stat = "SSLEEP" /\ r.intr
  <2>1. k.stat = "SSLEEP" /\ k.intr
    BY <1>0, <1>3 DEF Same, Kept
  <2>2. q = SignalSleeper(k, s)
    BY <1>3, <2>1 DEF Psignal
  <2> HIDE DEF k, q
  <2>3. \/ /\ Same(k, q) /\ q.stat = "SRUN" /\ q.wchan = NOCHAN
           /\ \/ /\ s = "TSTP" /\ k.siga[s] = "DFL" /\ k.pptr = init
                 /\ q.sig = (k.sig \cup {"KILL"}) \ {s}
              \/ /\ s \in Stops => k.siga[s] # "DFL"
                 /\ q.sig = k.sig
        \/ /\ Kept(k, q) /\ q.stat = "SSTOP" /\ q.wchan = k.wchan /\ q.cursig = s /\ ~q.swted
           /\ q.sig = k.sig \ {s} /\ s \in Stops /\ k.siga[s] = "DFL"
        \/ /\ Same(k, q) /\ q.stat = "SSLEEP" /\ q.wchan = k.wchan
           /\ q.sig = k.sig \ {"CHLD"} /\ s = "CHLD" /\ k.siga[s] = "DFL"
    BY <1>0, <2>1, <2>2, SleeperSignalled
  <2>4. SleeperRuns(r, s, q) \/ SleeperStops(r, s, q) \/ SleeperForgets(r, s, q)
    BY <1>0, <1>3, <2>3 DEF SleeperRuns, SleeperStops, SleeperForgets, Same, Kept
  <2> QED
    BY <1>3, <2>4 DEF PsignalCases, q
<1>4. CASE r.siga[s] \notin {"IGN", "HOLD"} /\ r.stat = "SSTOP"
  <2>1. k.stat = "SSTOP"
    BY <1>0, <1>4
  <2>2. q = SignalStopped(k, s)
    BY <1>4, <2>1 DEF Psignal
  <2> HIDE DEF k, q
  <2>3. /\ Same(k, q)
        /\ \/ /\ q.stat = "SRUN" /\ q.wchan = NOCHAN /\ q.sig = k.sig /\ s \in {"KILL", "CONT"}
           \/ /\ q.stat = "SSLEEP" /\ q.wchan = k.wchan /\ k.wchan # NOCHAN
              /\ q.sig = k.sig /\ s = "CONT"
           \/ /\ q.stat = "SSTOP" /\ q.wchan = k.wchan /\ q.sig = k.sig \ {s} /\ s \in Stops
           \/ /\ q.stat = "SSTOP" /\ q.wchan \in {k.wchan, NOCHAN} /\ q.sig = k.sig
              /\ s \notin Stops \cup {"KILL", "CONT"}
    BY <1>0, <2>1, <2>2, StoppedSignalled
  <2>4. StoppedGoesOn(r, s, q) \/ StoppedStays(r, s, q)
    BY <1>0, <1>4, <2>3 DEF StoppedGoesOn, StoppedStays, Same, Kept, Stops
  <2> QED
    BY <1>4, <2>4 DEF PsignalCases, q
<1>5. CASE r.siga[s] \notin {"IGN", "HOLD"} /\ r.stat # "SSTOP" /\ ~(r.stat = "SSLEEP" /\ r.intr)
  <2>1. k.stat # "SSTOP" /\ ~(k.stat = "SSLEEP" /\ k.intr)
    BY <1>0, <1>5 DEF Same, Kept
  <2>2. q = k
    BY <1>5, <2>1 DEF Psignal
  <2> HIDE DEF k, q
  <2> QED
    BY <1>0, <1>5, <2>2 DEF PsignalCases, Pends, q
<1> QED
  BY <1>1, <1>2, <1>3, <1>4, <1>5

(* What a signal leaves of an entry, and when it stops, sets asleep or     *)
(* loses a pending signal.                                                 *)
LEMMA PsignalFrame ==
  ASSUME NEW r \in ProcRecords, NEW s \in Sigs
  PROVE  LET q == Psignal(r, s) IN
         /\ Kept(r, q)
         /\ q.stat # r.stat => r.stat \in {"SSLEEP", "SSTOP"} /\ q.stat \in {"SRUN", "SSLEEP", "SSTOP"}
         /\ q.stat = "SSTOP" => r.stat = "SSTOP" \/ s \in Stops
         /\ q.stat = "SSTOP" /\ r.stat = "SSTOP" => q.swted = r.swted
         /\ q.wchan \in {r.wchan, NOCHAN}
<1> DEFINE q == Psignal(r, s)
<1>1. PsignalCases(r, s, q)
  BY PsignalIs
<1> HIDE DEF q
<1>2. /\ Kept(r, q)
      /\ q.stat # r.stat => r.stat \in {"SSLEEP", "SSTOP"} /\ q.stat \in {"SRUN", "SSLEEP", "SSTOP"}
      /\ q.stat = "SSTOP" => r.stat = "SSTOP" \/ s \in Stops
      /\ q.stat = "SSTOP" /\ r.stat = "SSTOP" => q.swted = r.swted
      /\ q.wchan \in {r.wchan, NOCHAN}
  BY <1>1 DEF PsignalCases, Pends, SleeperRuns, SleeperStops, SleeperForgets,
     StoppedGoesOn, StoppedStays, Same, Kept
<1> QED
  BY <1>2 DEF q

(* A signal that another process may send, or that stops nobody, leaves an *)
(* entry in order.                                                         *)
MaySend(p, s) == s \in Sigs /\ (s \in Stops => s \in Senders[p])

LEMMA PsignalEntry ==
  ASSUME NEW p \in Sleepers, NEW r, EntryInv(p, r), NEW s, MaySend(p, s)
  PROVE  EntryInv(p, Psignal(r, s))
<1> DEFINE q == Psignal(r, s)
<1>0. r \in ProcRecords /\ s \in Sigs
  BY DEF EntryInv, MaySend
<1>1. PsignalCases(r, s, q)
  BY <1>0, PsignalIs
<1> HIDE DEF q
<1>2. q \in ProcRecords
  BY <1>0, <1>1 DEF PsignalCases, Pends, SleeperRuns, SleeperStops, SleeperForgets,
     StoppedGoesOn, StoppedStays, Same, Kept
<1>3. QueueOK(p, q)
  BY <1>0, <1>1 DEF PsignalCases, Pends, SleeperRuns, SleeperStops, SleeperForgets,
     StoppedGoesOn, StoppedStays, Same, Kept, EntryInv, QueueOK
<1>4. Alive(q) <=> Alive(r)
  BY <1>0, <1>1 DEF PsignalCases, Pends, SleeperRuns, SleeperStops, SleeperForgets,
     StoppedGoesOn, StoppedStays, Same, Kept, Alive
<1>5. Kept(r, q)
  BY <1>0, <1>1 DEF PsignalCases, Pends, SleeperRuns, SleeperStops, SleeperForgets,
     StoppedGoesOn, StoppedStays, Same, Kept
<1>6. Alive(q) => ActionsOK(q)
  BY <1>4, <1>5 DEF Kept, EntryInv, ActionsOK
<1>7. Alive(q) => CursigOK(q)
  <2> SUFFICES ASSUME Alive(q) PROVE CursigOK(q)
    OBVIOUS
  <2>1. CursigOK(r) /\ ActionsOK(r)
    BY <1>4 DEF EntryInv
  <2>2. CASE q.cursig = r.cursig
    BY <1>5, <2>1, <2>2 DEF Kept, CursigOK
  <2>3. CASE SleeperStops(r, s, q)
    <3>1. r.usig[s] \notin {"IGN", "HOLD"}
      BY <1>0, <2>1, <2>3 DEF SleeperStops, ActionsOK, AgreesWith
    <3>2. r.at # "user" /\ q.cursig = s /\ s \notin {"CONT", "CHLD"} /\ q.usig = r.usig /\ q.at = r.at
      BY <2>3 DEF SleeperStops, EntryInv, QueueOK, Waiting, Stops, Kept
    <3> QED
      BY <3>1, <3>2 DEF CursigOK
  <2> QED
    BY <1>1, <2>2, <2>3 DEF PsignalCases, Pends, SleeperRuns, SleeperForgets, StoppedGoesOn, StoppedStays, Same
<1>8. Alive(q) /\ Heir(p, q) => StopPasses(q)
  <2> SUFFICES ASSUME Alive(q), Heir(p, q) PROVE StopPasses(q)
    OBVIOUS
  <2>1. StopPasses(r) /\ QueueOK(p, r)
    BY <1>4, <1>5 DEF EntryInv, Kept, Heir
  <2>2. CASE q = r
    BY <2>1, <2>2
  <2>3. CASE Pends(r, s, q)
    BY <1>0, <2>1, <2>3 DEF StopPasses, Heir, Pends, Same, Kept, WithSig, Stops, QueueOK
  <2>4. CASE SleeperRuns(r, s, q)
    BY <1>0, <2>1, <2>4 DEF StopPasses, Heir, SleeperRuns, Same, Kept, WithSig, Stops, QueueOK
  <2>5. CASE SleeperStops(r, s, q)
    BY <2>5 DEF StopPasses, Heir, SleeperStops
  <2>6. CASE SleeperForgets(r, s, q)
    BY <2>1, <2>6 DEF StopPasses, Heir, SleeperForgets, Same, Kept, WithSig, Stops, QueueOK
  <2>7. CASE StoppedGoesOn(r, s, q)
    <3>1. s \in q.sig /\ s \in {"KILL", "CONT"}
      BY <2>7 DEF StoppedGoesOn, WithSig, Stops
    <3> QED
      BY <2>1, <2>7, <3>1 DEF StopPasses, Heir, StoppedGoesOn, Same, Kept, QueueOK, Stops
  <2>8. CASE StoppedStays(r, s, q)
    BY <2>8 DEF StopPasses, Heir, StoppedStays
  <2> QED
    BY <1>1, <2>2, <2>3, <2>4, <2>5, <2>6, <2>7, <2>8 DEF PsignalCases
<1>9. Alive(q) /\ "drain" \notin SysCalls[p] => KillRuns(q)
  <2> SUFFICES ASSUME Alive(q), "drain" \notin SysCalls[p] PROVE KillRuns(q)
    OBVIOUS
  <2>1. KillRuns(r) /\ QueueOK(p, r) /\ ActionsOK(r)
    BY <1>4 DEF EntryInv
  <2>2. CASE q = r
    BY <2>1, <2>2
  <2>3. CASE Pends(r, s, q)
    BY <1>0, <1>4, <2>1, <2>3 DEF KillRuns, Pends, Same, Kept, WithSig, Stops, ActionsOK, Alive
  <2>4. CASE SleeperRuns(r, s, q)
    BY <2>1, <2>4 DEF KillRuns, SleeperRuns, Same, Kept, WithSig, Stops
  <2>5. CASE SleeperStops(r, s, q)
    BY <2>1, <2>5 DEF KillRuns, SleeperStops, Kept, WithSig, Stops
  <2>6. CASE SleeperForgets(r, s, q)
    BY <2>1, <2>6 DEF KillRuns, SleeperForgets, Same, Kept, WithSig, Stops
  <2>7. CASE StoppedGoesOn(r, s, q)
    BY <2>1, <2>7 DEF KillRuns, StoppedGoesOn, Same, Kept, WithSig, Stops
  <2>8. CASE StoppedStays(r, s, q)
    BY <2>1, <2>8 DEF KillRuns, StoppedStays, Same, Kept, WithSig, Stops
  <2> QED
    BY <1>1, <2>2, <2>3, <2>4, <2>5, <2>6, <2>7, <2>8 DEF PsignalCases
<1>10. q.stat \in {"SZOMB", "NULL"} => Gone(p, q)
  <2> SUFFICES ASSUME q.stat \in {"SZOMB", "NULL"} PROVE Gone(p, q)
    OBVIOUS
  <2>1. r.stat = q.stat
    BY <1>1 DEF PsignalCases, Pends, SleeperRuns, SleeperStops, SleeperForgets, StoppedGoesOn, StoppedStays
  <2>2. Gone(p, r)
    BY <2>1 DEF EntryInv
  <2>3. r.siga[s] = "IGN"
    BY <1>0, <2>2 DEF Gone, Heir
  <2> QED
    BY <1>1, <2>2, <2>3 DEF PsignalCases
<1>11. Timers(p, q)
  <2>1. q.stat = "panic" => r.stat = "panic"
    BY <1>1 DEF PsignalCases, Pends, SleeperRuns, SleeperStops, SleeperForgets, StoppedGoesOn, StoppedStays
  <2> QED
    BY <1>5, <2>1 DEF Timers, EntryInv, Kept
<1>12. Unstopped(p, q)
  <2> SUFFICES ASSUME Senders[p] \cap Stops = {} PROVE q.sig \cap Stops = {} /\ q.stat # "SSTOP"
    BY DEF Unstopped
  <2>1. r.sig \cap Stops = {} /\ r.stat # "SSTOP" /\ s \notin Stops
    BY DEF Unstopped, EntryInv, MaySend
  <2> QED
    BY <1>1, <2>1 DEF PsignalCases, Pends, SleeperRuns, SleeperStops, SleeperForgets,
       StoppedGoesOn, StoppedStays, Same, WithSig, Stops
<1> QED
  BY <1>2, <1>3, <1>6, <1>7, <1>8, <1>9, <1>10, <1>11, <1>12 DEF EntryInv, q

-----------------------------------------------------------------------------
(* Of some signals one comes first, and it is SIGKILL if that is there.    *)
LEMMA FirstSignal ==
  ASSUME NEW S \in SUBSET Sigs, S # {}
  PROVE  /\ \E x \in S : \A y \in S : Before(x, y)
         /\ "KILL" \in S => \A x \in S : (\A y \in S : Before(x, y)) => x = "KILL"
<1>1. /\ SigNo["HUP"] = 1 /\ SigNo["INT"] = 2 /\ SigNo["ALRM"] = 14 /\ SigNo["STOP"] = 17
      /\ SigNo["TSTP"] = 18 /\ SigNo["CONT"] = 19 /\ SigNo["CHLD"] = 20
  BY DEF SigNo
<1>2. \E x \in S : \A y \in S : Before(x, y)
  <2>1. CASE "KILL" \in S
    BY <2>1 DEF Before
  <2>2. CASE "KILL" \notin S /\ "HUP" \in S
    BY <1>1, <2>2, TheSignals DEF Before
  <2>3. CASE S \cap {"KILL", "HUP"} = {} /\ "INT" \in S
    BY <1>1, <2>3, TheSignals DEF Before
  <2>4. CASE S \cap {"KILL", "HUP", "INT"} = {} /\ "ALRM" \in S
    BY <1>1, <2>4, TheSignals DEF Before
  <2>5. CASE S \cap {"KILL", "HUP", "INT", "ALRM"} = {} /\ "STOP" \in S
    BY <1>1, <2>5, TheSignals DEF Before
  <2>6. CASE S \cap {"KILL", "HUP", "INT", "ALRM", "STOP"} = {} /\ "TSTP" \in S
    BY <1>1, <2>6, TheSignals DEF Before
  <2>7. CASE S \cap {"KILL", "HUP", "INT", "ALRM", "STOP", "TSTP"} = {} /\ "CONT" \in S
    BY <1>1, <2>7, TheSignals DEF Before
  <2>8. CASE S = {"CHLD"}
    BY <1>1, <2>8 DEF Before
  <2>9. S \cap {"KILL", "HUP", "INT", "ALRM", "STOP", "TSTP", "CONT"} = {} => S = {"CHLD"}
    BY TheSignals
  <2> QED
    BY <2>1, <2>2, <2>3, <2>4, <2>5, <2>6, <2>7, <2>8, <2>9
<1>3. "KILL" \in S => \A x \in S : (\A y \in S : Before(x, y)) => x = "KILL"
  BY DEF Before
<1> QED
  BY <1>2, <1>3

(* What issig does: it finds nothing to take, takes a signal, turns a stop *)
(* from the keyboard of a child of init into SIGKILL, or stops.            *)
Rest(r) == Pending(r) \ Noise(r)

IssigNone(r, q) ==
  /\ Kept(r, q) /\ q.stat = r.stat /\ q.wchan = r.wchan /\ q.swted = r.swted
  /\ Rest(r) = {} /\ q.cursig = NOSIG /\ q.sig = r.sig \ Pending(r)

IssigTakes(r, q, s) ==
  /\ Kept(r, q) /\ q.stat = r.stat /\ q.wchan = r.wchan /\ q.swted = r.swted
  /\ ~(s \in Stops /\ r.usig[s] = "DFL") /\ q.cursig = s /\ q.sig \subseteq r.sig \ {s}

IssigKills(r, q, s) ==
  /\ Kept(r, q) /\ q.stat = r.stat /\ q.wchan = r.wchan /\ q.swted = r.swted
  /\ s = "TSTP" /\ r.usig[s] = "DFL" /\ r.pptr = init /\ q.cursig = "KILL" /\ q.sig \subseteq r.sig \ {s}

IssigStops(r, q, s) ==
  /\ Kept(r, q) /\ q.stat = "SSTOP" /\ q.wchan = r.wchan /\ ~q.swted
  /\ s \in Stops /\ r.usig[s] = "DFL" /\ q.cursig = s /\ q.sig \subseteq r.sig \ {s}

IssigCases(r, q) ==
  \/ IssigNone(r, q)
  \/ \E s \in Rest(r) :
       /\ "KILL" \in Rest(r) => s = "KILL"
       /\ IssigTakes(r, q, s) \/ IssigKills(r, q, s) \/ IssigStops(r, q, s)

LEMMA IssigIs ==
  ASSUME NEW r \in ProcRecords
  PROVE  IssigCases(r, Issig(r))
<1>0. Rest(r) \subseteq Sigs /\ Pending(r) \subseteq Sigs /\ "KILL" \in Sigs
  BY TheSignals DEF Rest, Pending, ProcRecords
<1>1. CASE Rest(r) = {}
  <2> DEFINE q == [r EXCEPT !.sig = @ \ Pending(r), !.cursig = NOSIG]
  <2>1. Issig(r) = q
    BY <1>1 DEF Issig, Rest
  <2>2. IssigNone(r, q)
    BY <1>0, <1>1 DEF IssigNone, Kept, ProcRecords
  <2> HIDE DEF q
  <2> QED
    BY <2>1, <2>2 DEF IssigCases
<1>2. CASE Rest(r) # {}
  <2> DEFINE s == CHOOSE x \in Rest(r) : \A y \in Rest(r) : Before(x, y)
  <2> DEFINE q == [r EXCEPT !.sig = (@ \ {s}) \ {t \in Noise(r) : Before(t, s)}, !.cursig = s]
  <2> DEFINE k == [q EXCEPT !.cursig = "KILL"]
  <2> DEFINE z == [q EXCEPT !.stat = "SSTOP", !.swted = FALSE]
  <2>1. s \in Rest(r) /\ ("KILL" \in Rest(r) => s = "KILL")
    <3> DEFINE P(x) == x \in Rest(r) /\ \A y \in Rest(r) : Before(x, y)
    <3>1. \E x \in Rest(r) : \A y \in Rest(r) : Before(x, y)
      BY <1>0, <1>2, FirstSignal
    <3>2. s \in Rest(r) /\ \A y \in Rest(r) : Before(s, y)
      BY <3>1, Zenon
    <3> HIDE DEF s
    <3> QED
      BY <1>0, <1>2, <3>2, FirstSignal
  <2>2. Issig(r) = IF s \in Stops /\ r.usig[s] = "DFL"
                   THEN IF s # "STOP" /\ r.pptr = init THEN k ELSE z
                   ELSE q
    BY <1>2, Zenon DEF Issig, Rest
  <2> HIDE DEF s
  <2>3. s \in Sigs
    BY <1>0, <2>1
  <2>4. /\ Kept(r, q) /\ q \in ProcRecords /\ q.stat = r.stat /\ q.wchan = r.wchan
        /\ q.swted = r.swted /\ q.cursig = s /\ q.sig \subseteq r.sig \ {s}
    <3> DEFINE heard == {t \in Noise(r) : Before(t, s)}
    <3>1. q = [r EXCEPT !.sig = (@ \ {s}) \ heard, !.cursig = s]
      OBVIOUS
    <3> HIDE DEF heard
    <3> QED
      BY <2>3, <3>1 DEF Kept, ProcRecords
  <2> HIDE DEF q
  <2>5. /\ Kept(r, k) /\ k.stat = r.stat /\ k.wchan = r.wchan
        /\ k.swted = r.swted /\ k.cursig = "KILL" /\ k.sig \subseteq r.sig \ {s}
    BY <1>0, <2>4 DEF Kept, ProcRecords
  <2>6. /\ Kept(r, z) /\ z.stat = "SSTOP" /\ z.wchan = r.wchan
        /\ ~z.swted /\ z.cursig = s /\ z.sig \subseteq r.sig \ {s}
    BY <2>4 DEF Kept, ProcRecords
  <2> HIDE DEF k, z
  <2>7. CASE ~(s \in Stops /\ r.usig[s] = "DFL")
    <3>1. IssigTakes(r, Issig(r), s)
      BY <2>2, <2>4, <2>7 DEF IssigTakes
    <3> QED
      BY <2>1, <3>1 DEF IssigCases
  <2>8. CASE s \in Stops /\ r.usig[s] = "DFL" /\ s # "STOP" /\ r.pptr = init
    <3>1. s = "TSTP"
      BY <2>8 DEF Stops
    <3>2. IssigKills(r, Issig(r), s)
      BY <2>2, <2>5, <2>8, <3>1 DEF IssigKills
    <3> QED
      BY <2>1, <3>2 DEF IssigCases
  <2>9. CASE s \in Stops /\ r.usig[s] = "DFL" /\ ~(s # "STOP" /\ r.pptr = init)
    <3>1. IssigStops(r, Issig(r), s)
      BY <2>2, <2>6, <2>9 DEF IssigStops
    <3> QED
      BY <2>1, <3>1 DEF IssigCases
  <2> QED
    BY <2>7, <2>8, <2>9
<1> QED
  BY <1>1, <1>2

(* What a process that calls issig can rely on: the signal it takes has an *)
(* action for psig, a stop signal is not left for it, SIGKILL is taken     *)
(* before any other, and SIGCHLD is not passed over if it is handled.      *)
IssigGives(r, q) ==
  /\ Kept(r, q) /\ q.wchan = r.wchan /\ q.sig \subseteq r.sig
  /\ \/ q.stat = r.stat /\ q.swted = r.swted
     \/ q.stat = "SSTOP" /\ ~q.swted /\ r.sig \cap Stops # {}
  /\ q.cursig # NOSIG => r.usig[q.cursig] \notin {"IGN", "HOLD"}
  /\ q.cursig \in {"CONT", "CHLD"} => r.usig[q.cursig] # "DFL"
  /\ q.cursig \in Stops /\ r.usig[q.cursig] = "DFL" => q.stat = "SSTOP"
  /\ "KILL" \notin q.sig
  /\ "KILL" \in r.sig => q.cursig = "KILL"
  /\ q.cursig = "KILL" => q.stat = r.stat
  /\ "CHLD" \in r.sig /\ Handles(r) => q.cursig # NOSIG

LEMMA IssigSound ==
  ASSUME NEW r \in ProcRecords, ActionsOK(r)
  PROVE  IssigGives(r, Issig(r))
<1> DEFINE q == Issig(r)
<1>1. IssigCases(r, q)
  BY IssigIs
<1> HIDE DEF q
<1>2. "KILL" \in Sigs /\ "CHLD" \in Sigs /\ NOSIG \notin Sigs /\ r.sig \subseteq Sigs
      /\ "KILL" \notin Stops /\ "CONT" \notin Stops /\ "CHLD" \notin Stops
  BY TheSignals DEF NOSIG, ProcRecords, Stops
<1>3. "KILL" \in r.sig => "KILL" \in Rest(r)
  BY <1>2 DEF ActionsOK, Rest, Pending, Noise
<1>4. "CHLD" \in r.sig /\ Handles(r) => "CHLD" \in Rest(r)
  BY <1>2 DEF ActionsOK, AgreesWith, Rest, Pending, Noise, Handles
<1>5. ASSUME NEW s \in Rest(r)
      PROVE  /\ s \in r.sig /\ s \in Sigs /\ r.usig[s] \notin {"IGN", "HOLD"}
             /\ s \in {"CONT", "CHLD"} => r.usig[s] # "DFL"
  <2>1. s \in Sigs /\ s \in r.sig /\ r.siga[s] \notin {"IGN", "HOLD"}
    BY <1>2 DEF Rest, Pending
  <2>2. r.siga[s] \in AgreesWith(r.usig[s])
    BY <2>1 DEF ActionsOK
  <2> QED
    BY <2>1, <2>2 DEF Rest, Noise, AgreesWith
<1>6. CASE IssigNone(r, q)
  <2>1. "KILL" \notin r.sig /\ ~("CHLD" \in r.sig /\ Handles(r))
    BY <1>3, <1>4, <1>6 DEF IssigNone
  <2>2. q.cursig = NOSIG /\ NOSIG \notin {"CONT", "CHLD", "KILL"} /\ NOSIG \notin Stops
    BY <1>6 DEF IssigNone, NOSIG, Stops
  <2>3. q.sig \subseteq r.sig /\ Kept(r, q) /\ q.stat = r.stat /\ q.wchan = r.wchan /\ q.swted = r.swted
    BY <1>6 DEF IssigNone
  <2> QED
    BY <2>1, <2>2, <2>3 DEF IssigGives, Handles, q
<1>7. ASSUME NEW s \in Rest(r), "KILL" \in Rest(r) => s = "KILL", IssigTakes(r, q, s)
      PROVE  IssigGives(r, q)
  <2>1. "KILL" \notin q.sig
    BY <1>3, <1>7 DEF IssigTakes
  <2>2. s # NOSIG
    BY <1>2, <1>5
  <2> QED
    BY <1>3, <1>5, <1>7, <2>1, <2>2 DEF IssigTakes, IssigGives
<1>8. ASSUME NEW s \in Rest(r), "KILL" \in Rest(r) => s = "KILL", IssigKills(r, q, s)
      PROVE  IssigGives(r, q)
  <2>1. "KILL" \notin r.sig
    BY <1>3, <1>8 DEF IssigKills
  <2>2. r.usig["KILL"] = "DFL" /\ "KILL" # NOSIG
    BY DEF ActionsOK, NOSIG
  <2> QED
    BY <1>2, <1>8, <2>1, <2>2 DEF IssigKills, IssigGives
<1>9. ASSUME NEW s \in Rest(r), "KILL" \in Rest(r) => s = "KILL", IssigStops(r, q, s)
      PROVE  IssigGives(r, q)
  <2>1. "KILL" \notin r.sig /\ s # "KILL"
    BY <1>2, <1>3, <1>9 DEF IssigStops
  <2>2. s # NOSIG /\ s \in r.sig
    BY <1>2, <1>5
  <2> QED
    BY <1>2, <1>5, <1>9, <2>1, <2>2 DEF IssigStops, IssigGives
<1> QED
  BY <1>1, <1>6, <1>7, <1>8, <1>9 DEF IssigCases, q

-----------------------------------------------------------------------------
(* A process that leaves sleep by the longjmp, or by a return.             *)
LEMMA InterruptedIs ==
  ASSUME NEW r \in ProcRecords
  PROVE  LET q == Interrupted(r) IN
         /\ q \in ProcRecords /\ q.stat = "SRUN" /\ q.wchan = NOCHAN /\ q.tsleep = 0
         /\ q.at = (IF r.at = "drain" THEN "drained" ELSE "exit")
         /\ q.sig = r.sig /\ q.cursig = r.cursig /\ q.siga = r.siga /\ q.usig = r.usig
         /\ q.pptr = r.pptr /\ q.clktim = r.clktim /\ q.swted = r.swted
<1> DEFINE u == Unsleep(r)
<1>1. /\ Kept(r, u) /\ u \in ProcRecords /\ u.wchan = NOCHAN
      /\ u.cursig = r.cursig /\ u.swted = r.swted /\ u.sig = r.sig
  BY UnsleepIs DEF Kept
<1> DEFINE to == IF u.at = "drain" THEN "drained" ELSE "exit"
<1> DEFINE q == [u EXCEPT !.stat = "SRUN", !.tsleep = 0, !.stimo = FALSE, !.at = to]
<1>2. Interrupted(r) = q
  BY DEF Interrupted
<1> HIDE DEF u
<1>3. to \in {"drained", "exit"} /\ 0 \in 0 .. MaxSecs /\ "SRUN" \in {"SRUN", "SSLEEP", "SSTOP"}
  BY SleepConstants
<1>4. to = (IF r.at = "drain" THEN "drained" ELSE "exit")
  BY <1>1 DEF Kept
<1> HIDE DEF to
<1>5. q \in ProcRecords
  BY <1>1, <1>3 DEF ProcRecords
<1>6. /\ q.stat = "SRUN" /\ q.wchan = u.wchan /\ q.tsleep = 0 /\ q.at = to
      /\ q.sig = u.sig /\ q.cursig = u.cursig /\ q.siga = u.siga /\ q.usig = u.usig
      /\ q.pptr = u.pptr /\ q.clktim = u.clktim /\ q.swted = u.swted
  BY <1>1 DEF ProcRecords
<1> HIDE DEF q
<1> QED
  BY <1>1, <1>2, <1>4, <1>5, <1>6 DEF Kept

LEMMA ReturnedIs ==
  ASSUME NEW r \in ProcRecords, r.at \in Waiting
  PROVE  LET q == Returned(r) IN
         /\ q \in ProcRecords /\ q.stat = r.stat /\ q.wchan = r.wchan /\ q.tsleep = 0
         /\ q.at \in {"exit", "test", "scan", "drained"}
         /\ q.at = "drained" => r.at = "drain"
         /\ q.sig = r.sig /\ q.cursig = r.cursig /\ q.siga = r.siga /\ q.usig = r.usig
         /\ q.pptr = r.pptr /\ q.clktim = r.clktim /\ q.swted = r.swted
<1> DEFINE to == CASE r.at = "await" -> IF r.stimo THEN "exit" ELSE "test"
                   [] r.at = "wait" -> "scan"
                   [] r.at = "drain" -> "drained"
<1>1. to \in {"exit", "test", "scan", "drained"} /\ (to = "drained" => r.at = "drain")
  BY DEF Waiting
<1> DEFINE q == [r EXCEPT !.tsleep = 0, !.stimo = FALSE, !.at = to]
<1>2. Returned(r) = q
  BY DEF Returned
<1> HIDE DEF to
<1>3. 0 \in 0 .. MaxSecs
  BY SleepConstants
<1>4. q \in ProcRecords
  BY <1>1, <1>3 DEF ProcRecords
<1>5. /\ q.stat = r.stat /\ q.wchan = r.wchan /\ q.tsleep = 0 /\ q.at = to
      /\ q.sig = r.sig /\ q.cursig = r.cursig /\ q.siga = r.siga /\ q.usig = r.usig
      /\ q.pptr = r.pptr /\ q.clktim = r.clktim /\ q.swted = r.swted
  BY DEF ProcRecords
<1> HIDE DEF q
<1> QED
  BY <1>1, <1>2, <1>4, <1>5

(* A process that has an entry in order and is on the processor where a    *)
(* call goes to sleep, and what it asks for.                               *)
GoesToSleep(p, r, c, interruptible, secs, at) ==
  /\ EntryInv(p, r) /\ r.stat = "SRUN" /\ r.at \in {"test", "scanned", "drained"}
  /\ at \in Waiting /\ c = WaitChan(p, at) /\ interruptible \in BOOLEAN /\ secs \in 0 .. MaxSecs
  /\ secs > 0 => TimedSleeper(p)
  /\ at = "drain" => "drain" \in SysCalls[p]

LEMMA FallAsleepEntry ==
  ASSUME NEW p \in Sleepers, NEW r, NEW c, NEW interruptible, NEW secs, NEW at,
         GoesToSleep(p, r, c, interruptible, secs, at)
  PROVE  LET q == FallAsleep(r, c, interruptible, secs, at) IN
         /\ EntryInv(p, q) /\ q.usig = r.usig /\ q.pptr = r.pptr
         /\ q.stat \in {"SRUN", "SSLEEP", "SSTOP"}
         /\ q.at \in {"exit", "drained", at} /\ (q.at = at => q.wchan = c \/ q.stat = "SRUN")
         /\ q.stat = "SRUN" => q.at # "scanned"
         /\ q.stat = "SSLEEP" /\ Handles(r) /\ "CHLD" \in r.sig => ~interruptible
         /\ "drain" \notin SysCalls[p] /\ KillDue(r) => KillDue(q)
<1> DEFINE k == [r EXCEPT !.wchan = c, !.intr = interruptible, !.tsleep = secs, !.at = at]
<1> DEFINE q == FallAsleep(r, c, interruptible, secs, at)
<1> DEFINE i == Issig(k)
<1>0. /\ r \in ProcRecords /\ ActionsOK(r) /\ CursigOK(r) /\ Timers(p, r) /\ Unstopped(p, r)
      /\ Heir(p, r) => StopPasses(r)
      /\ "drain" \notin SysCalls[p] => KillRuns(r)
  BY DEF GoesToSleep, EntryInv, Alive
<1>1. c \in Chans /\ c # NOCHAN /\ at \in Waiting /\ r.stat = "SRUN" /\ MaxSecs \in Nat
  BY SleepConstants DEF GoesToSleep, WaitChan, Chans
<1>2. /\ k \in ProcRecords /\ k.wchan = c /\ k.intr = interruptible /\ k.tsleep = secs /\ k.at = at
      /\ k.stat = r.stat /\ k.sig = r.sig /\ k.cursig = r.cursig /\ k.siga = r.siga /\ k.usig = r.usig
      /\ k.pptr = r.pptr /\ k.clktim = r.clktim /\ k.swted = r.swted
  BY <1>0, <1>1 DEF GoesToSleep, ProcRecords, Waiting
<1>3. q = IF interruptible /\ k.sig # {} THEN
            IF i.stat = "SSTOP" THEN i
            ELSE IF i.cursig # NOSIG THEN Interrupted(i)
            ELSE [i EXCEPT !.stat = "SSLEEP"]
          ELSE [k EXCEPT !.stat = "SSLEEP"]
  BY DEF FallAsleep
<1> HIDE DEF k
<1>4. ActionsOK(k)
  BY <1>0, <1>2 DEF ActionsOK
<1>5. IssigGives(k, i)
  BY <1>2, <1>4, IssigSound
<1> HIDE DEF i, q
<1>6. i \in ProcRecords
  BY <1>5 DEF IssigGives, Kept
<1>7. secs > 0 => TimedSleeper(p)
  BY DEF GoesToSleep
<1>8. c = WaitChan(p, at) /\ (at = "drain" => "drain" \in SysCalls[p])
  BY DEF GoesToSleep
<1>9. r.at \notin Waiting \cup {"issig", "user", "exit"}
  BY DEF GoesToSleep, Waiting
<1>10. r.cursig # "KILL" \/ "drain" \in SysCalls[p]
  BY <1>0, <1>9 DEF KillRuns
<1>11. Heir(p, r) => ~(r.cursig \in Stops /\ r.usig[r.cursig] = "DFL")
  BY <1>0, <1>1, <1>9 DEF StopPasses, Heir
<1>12. CASE ~(interruptible /\ k.sig # {})
  <2>1. /\ Kept(k, q) /\ q.stat = "SSLEEP" /\ q.wchan = c
        /\ q.cursig = r.cursig /\ q.swted = r.swted /\ q.sig = r.sig
    BY <1>2, <1>3, <1>12, StatIs
  <2>2. q \in ProcRecords /\ q.at = at /\ q.intr = interruptible /\ q.siga = r.siga /\ q.usig = r.usig
        /\ q.pptr = r.pptr /\ q.tsleep = secs /\ q.clktim = r.clktim
    BY <1>2, <2>1 DEF Kept
  <2>3. QueueOK(p, q) /\ Alive(q)
    BY <1>1, <1>8, <2>1, <2>2 DEF QueueOK, Alive
  <2>4. ActionsOK(q) /\ CursigOK(q)
    BY <1>0, <1>1, <2>1, <2>2 DEF ActionsOK, CursigOK, Waiting
  <2>5. Heir(p, q) => StopPasses(q)
    BY <1>11, <2>1, <2>2 DEF StopPasses, Heir
  <2>6. "drain" \notin SysCalls[p] => KillRuns(q)
    BY <1>0, <1>1, <1>2, <1>8, <1>10, <1>12, <2>1, <2>2 DEF KillRuns, Waiting
  <2>7. Timers(p, q) /\ Unstopped(p, q)
    BY <1>0, <1>7, <2>1, <2>2 DEF Timers, Unstopped
  <2>8. EntryInv(p, q)
    BY <2>1, <2>2, <2>3, <2>4, <2>5, <2>6, <2>7 DEF EntryInv
  <2>9. "CHLD" \in r.sig => ~interruptible
    BY <1>2, <1>12
  <2> QED
    BY <2>1, <2>2, <2>8, <2>9 DEF q, KillDue
<1>13. CASE interruptible /\ k.sig # {} /\ i.stat = "SSTOP"
  <2>1. q = i
    BY <1>3, <1>13
  <2>2. /\ q \in ProcRecords /\ q.at = at /\ q.intr = interruptible /\ q.siga = r.siga /\ q.usig = r.usig
        /\ q.pptr = r.pptr /\ q.tsleep = secs /\ q.clktim = r.clktim /\ q.wchan = c
        /\ q.stat = "SSTOP"
    BY <1>2, <1>5, <1>13, <2>1 DEF IssigGives, Kept
  <2>3. QueueOK(p, q) /\ Alive(q)
    BY <1>1, <1>8, <1>13, <2>2 DEF QueueOK, Alive
  <2>4. ActionsOK(q) /\ CursigOK(q)
    BY <1>0, <1>1, <1>2, <1>5, <2>1, <2>2 DEF ActionsOK, CursigOK, Waiting, IssigGives
  <2>5. Heir(p, q) => StopPasses(q)
    BY <2>2 DEF StopPasses, Heir
  <2>6. "drain" \notin SysCalls[p] => KillRuns(q)
    <3>1. "KILL" \notin q.sig /\ q.cursig # "KILL"
      BY <1>1, <1>2, <1>5, <1>13, <2>1 DEF IssigGives
    <3> QED
      BY <1>1, <1>8, <2>2, <3>1 DEF KillRuns, Waiting
  <2>7. Timers(p, q) /\ Unstopped(p, q)
    BY <1>0, <1>1, <1>2, <1>5, <1>7, <1>13, <2>1, <2>2 DEF Timers, Unstopped, IssigGives
  <2>8. EntryInv(p, q)
    BY <2>2, <2>3, <2>4, <2>5, <2>6, <2>7 DEF EntryInv
  <2> QED
    BY <1>2, <1>5, <1>10, <2>1, <2>2, <2>8 DEF q, KillDue, IssigGives
<1>14. CASE interruptible /\ k.sig # {} /\ i.stat # "SSTOP" /\ i.cursig # NOSIG
  <2>1. q = Interrupted(i)
    BY <1>3, <1>14
  <2>2. /\ i.siga = r.siga /\ i.usig = r.usig /\ i.pptr = r.pptr /\ i.clktim = r.clktim /\ i.at = at
    BY <1>2, <1>5 DEF IssigGives, Kept
  <2>3. /\ q \in ProcRecords /\ q.stat = "SRUN" /\ q.wchan = NOCHAN /\ q.tsleep = 0
        /\ q.at = (IF at = "drain" THEN "drained" ELSE "exit")
        /\ q.sig = i.sig /\ q.cursig = i.cursig /\ q.siga = r.siga /\ q.usig = r.usig
        /\ q.pptr = r.pptr /\ q.clktim = r.clktim /\ q.swted = i.swted
    BY <1>6, <2>1, <2>2, InterruptedIs
  <2>4. QueueOK(p, q) /\ Alive(q)
    BY <2>3 DEF QueueOK, Alive
  <2>5. ActionsOK(q) /\ CursigOK(q)
    BY <1>0, <1>2, <1>5, <2>3 DEF ActionsOK, CursigOK, IssigGives
  <2>6. Heir(p, q) => StopPasses(q)
    BY <1>2, <1>5, <1>14, <2>3 DEF StopPasses, Heir, IssigGives
  <2>7. "drain" \notin SysCalls[p] => KillRuns(q)
    BY <1>5, <1>8, <2>3 DEF KillRuns, IssigGives
  <2>8. Timers(p, q) /\ Unstopped(p, q)
    BY <1>0, <1>2, <1>5, <2>3 DEF Timers, Unstopped, IssigGives
  <2>9. EntryInv(p, q)
    BY <2>3, <2>4, <2>5, <2>6, <2>7, <2>8 DEF EntryInv
  <2> QED
    BY <1>1, <1>2, <1>5, <1>10, <2>3, <2>9 DEF q, Waiting, KillDue, IssigGives
<1>15. CASE interruptible /\ k.sig # {} /\ i.stat # "SSTOP" /\ i.cursig = NOSIG
  <2>1. q = [i EXCEPT !.stat = "SSLEEP"]
    BY <1>3, <1>15
  <2>2. /\ Kept(i, q) /\ q.stat = "SSLEEP" /\ q.wchan = i.wchan
        /\ q.cursig = i.cursig /\ q.swted = i.swted /\ q.sig = i.sig
    BY <1>6, <2>1, StatIs
  <2>3. /\ q \in ProcRecords /\ q.at = at /\ q.intr = interruptible /\ q.siga = r.siga /\ q.usig = r.usig
        /\ q.pptr = r.pptr /\ q.tsleep = secs /\ q.clktim = r.clktim /\ q.wchan = c
    BY <1>2, <1>5, <2>2 DEF IssigGives, Kept
  <2>4. QueueOK(p, q) /\ Alive(q)
    BY <1>1, <1>8, <2>2, <2>3 DEF QueueOK, Alive
  <2>5. ActionsOK(q) /\ CursigOK(q)
    BY <1>0, <1>1, <1>15, <2>2, <2>3 DEF ActionsOK, CursigOK, Waiting, NOSIG
  <2>6. StopPasses(q)
    BY <1>15, <2>2 DEF StopPasses, Heir, NOSIG, Stops
  <2>7. "drain" \notin SysCalls[p] => KillRuns(q)
    BY <1>1, <1>5, <1>8, <1>15, <2>2, <2>3 DEF KillRuns, IssigGives, Waiting, NOSIG
  <2>8. Timers(p, q) /\ Unstopped(p, q)
    BY <1>0, <1>2, <1>5, <1>7, <2>2, <2>3 DEF Timers, Unstopped, IssigGives
  <2>9. EntryInv(p, q)
    BY <2>3, <2>4, <2>5, <2>6, <2>7, <2>8, <2>2 DEF EntryInv
  <2>10. ~("CHLD" \in r.sig /\ Handles(r))
    BY <1>2, <1>5, <1>15 DEF IssigGives, Handles
  <2>11. "KILL" \notin r.sig
    BY <1>2, <1>5, <1>15 DEF IssigGives, NOSIG
  <2> QED
    BY <1>10, <2>2, <2>3, <2>9, <2>10, <2>11 DEF q, KillDue
<1> QED
  BY <1>12, <1>13, <1>14, <1>15

(* A process that runs again after its sleep.                              *)
LEMMA WakeUpEntry ==
  ASSUME NEW p \in Sleepers, NEW r, EntryInv(p, r), r.stat = "SRUN", r.at \in Waiting
  PROVE  LET q == WakeUp(r) IN
         /\ EntryInv(p, q) /\ q.usig = r.usig /\ q.pptr = r.pptr /\ q.wchan = NOCHAN
         /\ q.stat \in {"SRUN", "SSTOP"} /\ q.at # "scanned"
         /\ "drain" \notin SysCalls[p] /\ KillDue(r) => KillDue(q)
<1> DEFINE q == WakeUp(r)
<1> DEFINE i == Issig(r)
<1>0. /\ r \in ProcRecords /\ ActionsOK(r) /\ CursigOK(r) /\ Timers(p, r) /\ Unstopped(p, r)
      /\ Heir(p, r) => StopPasses(r)
      /\ "drain" \notin SysCalls[p] => KillRuns(r)
      /\ r.wchan = NOCHAN
  BY DEF EntryInv, Alive, QueueOK
<1>1. q = IF r.intr /\ r.sig # {} THEN
            IF i.stat = "SSTOP" THEN i
            ELSE IF i.cursig # NOSIG THEN Interrupted(i)
            ELSE Returned(i)
          ELSE Returned(r)
  BY DEF WakeUp
<1>2. IssigGives(r, i)
  BY <1>0, IssigSound
<1> HIDE DEF i, q
<1>3. /\ i \in ProcRecords /\ i.siga = r.siga /\ i.usig = r.usig /\ i.pptr = r.pptr
      /\ i.clktim = r.clktim /\ i.tsleep = r.tsleep /\ i.at = r.at /\ i.intr = r.intr /\ i.wchan = NOCHAN
  BY <1>0, <1>2 DEF IssigGives, Kept
<1>4. r.at \notin {"user", "exit", "scanned"}
  BY DEF Waiting
<1>5. r.cursig # "KILL" \/ "drain" \in SysCalls[p]
  BY <1>0, <1>4 DEF KillRuns
<1>6. "drain" \notin SysCalls[p] => r.at # "drain"
  BY <1>0 DEF KillRuns
<1>7. CASE ~(r.intr /\ r.sig # {})
  <2>1. q = Returned(r)
    BY <1>1, <1>7
  <2>2. /\ q \in ProcRecords /\ q.stat = "SRUN" /\ q.wchan = NOCHAN /\ q.tsleep = 0
        /\ q.at \in {"exit", "test", "scan", "drained"}
        /\ q.at = "drained" => r.at = "drain"
        /\ q.sig = r.sig /\ q.cursig = r.cursig /\ q.siga = r.siga /\ q.usig = r.usig
        /\ q.pptr = r.pptr /\ q.clktim = r.clktim /\ q.swted = r.swted
    BY <1>0, <2>1, ReturnedIs
  <2>3. QueueOK(p, q) /\ Alive(q)
    BY <2>2 DEF QueueOK, Alive
  <2>4. ActionsOK(q) /\ CursigOK(q)
    BY <1>0, <2>2 DEF ActionsOK, CursigOK
  <2>5. Heir(p, q) => StopPasses(q)
    <3>1. r.at # "issig"
      BY DEF Waiting
    <3> QED
      BY <1>0, <1>7, <2>2, <3>1 DEF StopPasses, Heir
  <2>6. "drain" \notin SysCalls[p] => KillRuns(q)
    BY <1>5, <1>6, <2>2 DEF KillRuns
  <2>7. Timers(p, q) /\ Unstopped(p, q)
    BY <1>0, <2>2 DEF Timers, Unstopped
  <2>8. EntryInv(p, q)
    BY <2>2, <2>3, <2>4, <2>5, <2>6, <2>7 DEF EntryInv
  <2> QED
    BY <2>2, <2>8 DEF q, KillDue
<1>8. CASE r.intr /\ r.sig # {} /\ i.stat = "SSTOP"
  <2>1. q = i
    BY <1>1, <1>8
  <2>3. QueueOK(p, q) /\ Alive(q)
    BY <1>3, <1>8, <2>1 DEF QueueOK, Alive
  <2>4. ActionsOK(q) /\ CursigOK(q)
    BY <1>0, <1>2, <1>3, <1>4, <2>1 DEF ActionsOK, CursigOK, IssigGives
  <2>5. StopPasses(q)
    BY <1>8, <2>1 DEF StopPasses, Heir
  <2>6. "drain" \notin SysCalls[p] => KillRuns(q)
    <3>1. "KILL" \notin q.sig /\ q.cursig # "KILL"
      BY <1>2, <1>8, <2>1 DEF IssigGives
    <3>2. r.at # "drained"
      BY DEF Waiting
    <3> QED
      BY <1>3, <1>6, <2>1, <3>1, <3>2 DEF KillRuns
  <2>7. Timers(p, q) /\ Unstopped(p, q)
    BY <1>0, <1>2, <1>3, <1>8, <2>1 DEF Timers, Unstopped, IssigGives
  <2>8. EntryInv(p, q)
    BY <1>3, <1>8, <2>1, <2>3, <2>4, <2>5, <2>6, <2>7 DEF EntryInv
  <2> QED
    BY <1>2, <1>3, <1>4, <1>5, <1>8, <2>1, <2>8 DEF q, KillDue, IssigGives
<1>9. CASE r.intr /\ r.sig # {} /\ i.stat # "SSTOP" /\ i.cursig # NOSIG
  <2>1. q = Interrupted(i)
    BY <1>1, <1>9
  <2>2. /\ q \in ProcRecords /\ q.stat = "SRUN" /\ q.wchan = NOCHAN /\ q.tsleep = 0
        /\ q.at = (IF r.at = "drain" THEN "drained" ELSE "exit")
        /\ q.sig = i.sig /\ q.cursig = i.cursig /\ q.siga = r.siga /\ q.usig = r.usig
        /\ q.pptr = r.pptr /\ q.clktim = r.clktim /\ q.swted = i.swted
    BY <1>3, <2>1, InterruptedIs
  <2>3. QueueOK(p, q) /\ Alive(q)
    BY <2>2 DEF QueueOK, Alive
  <2>4. ActionsOK(q) /\ CursigOK(q)
    BY <1>0, <1>2, <2>2 DEF ActionsOK, CursigOK, IssigGives
  <2>5. StopPasses(q)
    BY <1>2, <1>9, <2>2 DEF StopPasses, Heir, IssigGives
  <2>6. "drain" \notin SysCalls[p] => KillRuns(q)
    BY <1>2, <1>6, <2>2 DEF KillRuns, IssigGives
  <2>7. Timers(p, q) /\ Unstopped(p, q)
    BY <1>0, <1>2, <2>2 DEF Timers, Unstopped, IssigGives
  <2>8. EntryInv(p, q)
    BY <2>2, <2>3, <2>4, <2>5, <2>6, <2>7 DEF EntryInv
  <2> QED
    BY <1>2, <1>5, <2>2, <2>8 DEF q, KillDue, IssigGives
<1>10. CASE r.intr /\ r.sig # {} /\ i.stat # "SSTOP" /\ i.cursig = NOSIG
  <2>1. q = Returned(i)
    BY <1>1, <1>10
  <2>2. /\ q \in ProcRecords /\ q.stat = i.stat /\ q.wchan = NOCHAN /\ q.tsleep = 0
        /\ q.at \in {"exit", "test", "scan", "drained"}
        /\ q.at = "drained" => r.at = "drain"
        /\ q.sig = i.sig /\ q.cursig = i.cursig /\ q.siga = r.siga /\ q.usig = r.usig
        /\ q.pptr = r.pptr /\ q.clktim = r.clktim /\ q.swted = i.swted
    BY <1>3, <2>1, ReturnedIs
  <2>3. i.stat = "SRUN"
    BY <1>2, <1>10 DEF IssigGives
  <2>4. QueueOK(p, q) /\ Alive(q)
    BY <2>2, <2>3 DEF QueueOK, Alive
  <2>5. ActionsOK(q) /\ CursigOK(q)
    BY <1>0, <1>10, <2>2 DEF ActionsOK, CursigOK, NOSIG
  <2>6. StopPasses(q)
    BY <1>10, <2>2 DEF StopPasses, Heir, NOSIG, Stops
  <2>7. "drain" \notin SysCalls[p] => KillRuns(q)
    BY <1>2, <1>6, <1>10, <2>2 DEF KillRuns, IssigGives, NOSIG
  <2>8. Timers(p, q) /\ Unstopped(p, q)
    BY <1>0, <1>2, <2>2, <2>3 DEF Timers, Unstopped, IssigGives
  <2>9. EntryInv(p, q)
    BY <2>2, <2>3, <2>4, <2>5, <2>6, <2>7, <2>8 DEF EntryInv
  <2>10. "KILL" \notin r.sig
    BY <1>2, <1>10 DEF IssigGives, NOSIG
  <2> QED
    BY <1>5, <2>2, <2>3, <2>9, <2>10 DEF q, KillDue
<1> QED
  BY <1>7, <1>8, <1>9, <1>10

-----------------------------------------------------------------------------
(* An entry that is ready for psig.                                        *)
Taking(p, r) ==
  /\ r \in ProcRecords /\ r.stat = "SRUN" /\ r.wchan = NOCHAN
  /\ ActionsOK(r) /\ Timers(p, r) /\ Unstopped(p, r)
  /\ r.cursig # NOSIG /\ r.usig[r.cursig] \notin {"IGN", "HOLD"}
  /\ r.cursig \in {"CONT", "CHLD"} => r.usig[r.cursig] # "DFL"
  /\ Heir(p, r) => ~(r.cursig \in Stops /\ r.usig[r.cursig] = "DFL")

(* psig calls a handler or ends the process.                               *)
LEMMA PsigEntry ==
  ASSUME NEW p \in Sleepers, NEW r, Taking(p, r)
  PROVE  LET q == Psig(r) IN
         /\ EntryInv(p, q) /\ q.pptr = r.pptr /\ q.wchan = NOCHAN /\ q.at = "user"
         /\ q.stat \in {"SRUN", "SZOMB"}
         /\ KillDue(r) => KillDue(q) \/ q.stat = "SZOMB"
<1> DEFINE c == r.cursig
<1>0. /\ r \in ProcRecords /\ r.stat = "SRUN" /\ r.wchan = NOCHAN /\ c \in Sigs /\ 0 \in 0 .. MaxSecs
      /\ r.usig[c] \in {"CATCH", "DEFER", "DFL"} /\ r.usig \in [Sigs -> Actions] /\ r.siga \in [Sigs -> Actions]
      /\ r.sig \subseteq Sigs /\ r.cursig = c
  BY SleepConstants DEF Taking, ProcRecords, Actions
<1>1. ActionsOK(r) /\ Timers(p, r) /\ Unstopped(p, r)
  BY DEF Taking
<1>2. c \in {"CONT", "CHLD"} => r.usig[c] # "DFL"
  BY DEF Taking
<1>3. Heir(p, r) => ~(c \in Stops /\ r.usig[c] = "DFL")
  BY DEF Taking
<1>4. c \in {"KILL", "STOP"} => r.usig[c] = "DFL"
  BY <1>1 DEF ActionsOK
<1> HIDE DEF c
<1>5. CASE r.usig[c] = "DFL"
  <2> DEFINE q == [r EXCEPT !.stat = "SZOMB", !.at = "user", !.sig = {},
                            !.siga = [s \in Sigs |-> "IGN"], !.clktim = 0]
  <2>1. Psig(r) = q
    BY <1>5 DEF Psig, Exit, c
  <2>2. [s \in Sigs |-> "IGN"] \in [Sigs -> Actions]
    BY DEF Actions
  <2> DEFINE ignored == [s \in Sigs |-> "IGN"]
  <2> HIDE DEF ignored
  <2>3. q = [r EXCEPT !.stat = "SZOMB", !.at = "user", !.sig = {}, !.siga = ignored, !.clktim = 0]
    BY DEF ignored
  <2>4. ignored \in [Sigs -> Actions]
    BY <2>2 DEF ignored
  <2> HIDE DEF q
  <2>5. /\ q \in ProcRecords /\ q.stat = "SZOMB" /\ q.wchan = NOCHAN /\ q.at = "user" /\ q.sig = {}
        /\ q.siga = ignored /\ q.clktim = 0 /\ q.cursig = c /\ q.tsleep = r.tsleep /\ q.pptr = r.pptr
    BY <1>0, <2>3, <2>4 DEF ProcRecords
  <2>6. Gone(p, q)
    BY <1>2, <1>3, <1>5, <2>5 DEF Gone, Heir, ignored
  <2>7. Timers(p, q) /\ Unstopped(p, q) /\ QueueOK(p, q) /\ ~Alive(q)
    BY <1>1, <2>5 DEF Timers, Unstopped, QueueOK, Alive
  <2> QED
    BY <2>1, <2>5, <2>6, <2>7 DEF EntryInv
<1>6. CASE r.usig[c] = "CATCH"
  <2> DEFINE usig == [r.usig EXCEPT ![c] = "DFL"]
  <2> DEFINE q == [r EXCEPT !.usig = usig, !.cursig = NOSIG, !.at = "user"]
  <2>1. Psig(r) = q
    BY <1>6 DEF Psig, c
  <2>2. /\ usig \in [Sigs -> Actions] /\ usig[c] = "DFL"
        /\ \A s \in Sigs \ {c} : usig[s] = r.usig[s]
    BY <1>0 DEF Actions
  <2> HIDE DEF usig
  <2>3. /\ q \in ProcRecords /\ q.stat = "SRUN" /\ q.wchan = NOCHAN /\ q.at = "user" /\ q.sig = r.sig
        /\ q.siga = r.siga /\ q.usig = usig /\ q.clktim = r.clktim /\ q.cursig = NOSIG
        /\ q.tsleep = r.tsleep /\ q.pptr = r.pptr
    BY <1>0, <2>2 DEF ProcRecords
  <2> HIDE DEF q
  <2>4. ActionsOK(q)
    <3>1. r.siga[c] = "CATCH"
      BY <1>0, <1>1, <1>6 DEF ActionsOK, AgreesWith
    <3>2. ASSUME NEW s \in Sigs PROVE q.siga[s] \in AgreesWith(q.usig[s])
      <4>1. CASE s = c
        BY <2>2, <2>3, <3>1, <4>1 DEF AgreesWith
      <4>2. CASE s # c
        BY <1>1, <2>2, <2>3, <4>2 DEF ActionsOK
      <4> QED
        BY <4>1, <4>2
    <3>3. ASSUME NEW s \in {"KILL", "STOP"} PROVE q.usig[s] = "DFL" /\ q.siga[s] = "DFL"
      BY <1>1, <1>4, <1>6, <2>2, <2>3, TheSignals DEF ActionsOK
    <3> QED
      BY <3>2, <3>3 DEF ActionsOK
  <2>5. CursigOK(q) /\ QueueOK(p, q) /\ Alive(q) /\ StopPasses(q) /\ KillRuns(q)
    BY <2>3 DEF CursigOK, QueueOK, Alive, StopPasses, Heir, KillRuns, NOSIG, Stops
  <2>6. Timers(p, q) /\ Unstopped(p, q)
    BY <1>1, <2>3 DEF Timers, Unstopped
  <2>7. KillDue(r) => KillDue(q)
    BY <1>0, <1>4, <1>6, <2>3 DEF KillDue
  <2> QED
    BY <2>1, <2>3, <2>4, <2>5, <2>6, <2>7 DEF EntryInv
<1>7. CASE r.usig[c] = "DEFER"
  <2> DEFINE usig == [r.usig EXCEPT ![c] = "HOLD"]
  <2> DEFINE siga == [r.siga EXCEPT ![c] = "HOLD"]
  <2> DEFINE q == [r EXCEPT !.usig = usig, !.siga = siga, !.cursig = NOSIG, !.at = "user"]
  <2>1. Psig(r) = q
    BY <1>7 DEF Psig, c
  <2>2. /\ usig \in [Sigs -> Actions] /\ usig[c] = "HOLD"
        /\ \A s \in Sigs \ {c} : usig[s] = r.usig[s]
    BY <1>0 DEF Actions
  <2>3. /\ siga \in [Sigs -> Actions] /\ siga[c] = "HOLD"
        /\ \A s \in Sigs \ {c} : siga[s] = r.siga[s]
    BY <1>0 DEF Actions
  <2> HIDE DEF usig, siga
  <2>4. /\ q \in ProcRecords /\ q.stat = "SRUN" /\ q.wchan = NOCHAN /\ q.at = "user" /\ q.sig = r.sig
        /\ q.siga = siga /\ q.usig = usig /\ q.clktim = r.clktim /\ q.cursig = NOSIG
        /\ q.tsleep = r.tsleep /\ q.pptr = r.pptr
    BY <1>0, <2>2, <2>3 DEF ProcRecords
  <2> HIDE DEF q
  <2>5. ActionsOK(q)
    <3>1. ASSUME NEW s \in Sigs PROVE q.siga[s] \in AgreesWith(q.usig[s])
      <4>1. CASE s = c
        BY <2>2, <2>3, <2>4, <4>1 DEF AgreesWith
      <4>2. CASE s # c
        BY <1>1, <2>2, <2>3, <2>4, <4>2 DEF ActionsOK
      <4> QED
        BY <4>1, <4>2
    <3>2. ASSUME NEW s \in {"KILL", "STOP"} PROVE q.usig[s] = "DFL" /\ q.siga[s] = "DFL"
      BY <1>1, <1>4, <1>7, <2>2, <2>3, <2>4, TheSignals DEF ActionsOK
    <3> QED
      BY <3>1, <3>2 DEF ActionsOK
  <2>6. CursigOK(q) /\ QueueOK(p, q) /\ Alive(q) /\ StopPasses(q) /\ KillRuns(q)
    BY <2>4 DEF CursigOK, QueueOK, Alive, StopPasses, Heir, KillRuns, NOSIG, Stops
  <2>7. Timers(p, q) /\ Unstopped(p, q)
    BY <1>1, <2>4 DEF Timers, Unstopped
  <2>8. KillDue(r) => KillDue(q)
    BY <1>0, <1>4, <1>7, <2>4 DEF KillDue
  <2> QED
    BY <2>1, <2>4, <2>5, <2>6, <2>7, <2>8 DEF EntryInv
<1> QED
  BY <1>0, <1>5, <1>6, <1>7

(* A process that goes on elsewhere, in user mode only with no signal in   *)
(* p_cursig.                                                               *)
MayMove(p, r, at) ==
  /\ EntryInv(p, r) /\ r.stat = "SRUN" /\ r.at \notin Waiting \cup {"issig"}
  /\ at \in {"user", "test", "scan", "scanned", "drained", "exit"}
  /\ at = "user" => r.cursig = NOSIG
  /\ at = "drained" => "drain" \in SysCalls[p]
  /\ r.cursig = "KILL" /\ "drain" \notin SysCalls[p] => at = "exit"

LEMMA MovesEntry ==
  ASSUME NEW p \in Sleepers, NEW r, NEW at, MayMove(p, r, at)
  PROVE  LET q == [r EXCEPT !.at = at] IN
         /\ EntryInv(p, q) /\ q.at = at /\ q.stat = "SRUN" /\ q.wchan = NOCHAN
         /\ q.usig = r.usig /\ q.pptr = r.pptr /\ q.sig = r.sig /\ q.cursig = r.cursig
<1> DEFINE q == [r EXCEPT !.at = at]
<1>0. MayMove(p, r, at)
  OBVIOUS
<1>1. /\ r \in ProcRecords /\ r.wchan = NOCHAN /\ ActionsOK(r) /\ CursigOK(r) /\ Timers(p, r)
      /\ Unstopped(p, r) /\ (Heir(p, r) => StopPasses(r))
      /\ "drain" \notin SysCalls[p] => KillRuns(r)
  BY <1>0 DEF MayMove, EntryInv, Alive, QueueOK
<1>2. /\ q \in ProcRecords /\ q.stat = "SRUN" /\ q.wchan = NOCHAN /\ q.at = at
      /\ q.sig = r.sig /\ q.siga = r.siga /\ q.usig = r.usig /\ q.cursig = r.cursig
      /\ q.tsleep = r.tsleep /\ q.clktim = r.clktim /\ q.pptr = r.pptr
  BY <1>0, <1>1 DEF MayMove, ProcRecords
<1> HIDE DEF q
<1>3. QueueOK(p, q) /\ Alive(q) /\ Timers(p, q) /\ Unstopped(p, q) /\ ActionsOK(q)
  BY <1>0, <1>1, <1>2 DEF MayMove, QueueOK, Alive, Timers, Unstopped, ActionsOK
<1>4. CursigOK(q)
  BY <1>0, <1>1, <1>2 DEF MayMove, CursigOK
<1>5. Heir(p, q) => StopPasses(q)
  BY <1>0, <1>1, <1>2 DEF MayMove, StopPasses, Heir
<1>6. "drain" \notin SysCalls[p] => KillRuns(q)
  BY <1>0, <1>1, <1>2 DEF MayMove, KillRuns
<1>7. EntryInv(p, q)
  BY <1>2, <1>3, <1>4, <1>5, <1>6 DEF EntryInv
<1> QED
  BY <1>2, <1>7 DEF q

(* The end of a trap or system call.                                       *)
LEMMA SignalsTakenEntry ==
  ASSUME NEW p \in Sleepers, NEW r, EntryInv(p, r), r.stat = "SRUN", r.at \in {"exit", "issig"}
  PROVE  LET q == SignalsTaken(r) IN
         /\ EntryInv(p, q) /\ q.pptr = r.pptr /\ q.wchan = NOCHAN /\ q.at \in {"user", "issig"}
         /\ q.stat \in {"SRUN", "SSTOP", "SZOMB"}
         /\ "KILL" \in r.sig => KillDue(q) \/ q.stat = "SZOMB"
<1> DEFINE q == SignalsTaken(r)
<1> DEFINE i == Issig(r)
<1>0. /\ r \in ProcRecords /\ ActionsOK(r) /\ Timers(p, r) /\ Unstopped(p, r) /\ r.wchan = NOCHAN
  BY DEF EntryInv, Alive, QueueOK
<1>1. q = IF i.stat = "SSTOP" THEN [i EXCEPT !.at = "issig"]
          ELSE IF i.cursig # NOSIG THEN Psig(i)
          ELSE [i EXCEPT !.at = "user"]
  BY DEF SignalsTaken
<1>2. IssigGives(r, i)
  BY <1>0, IssigSound
<1> HIDE DEF i, q
<1>3. /\ i \in ProcRecords /\ i.siga = r.siga /\ i.usig = r.usig /\ i.pptr = r.pptr
      /\ i.clktim = r.clktim /\ i.tsleep = r.tsleep /\ i.wchan = NOCHAN
  BY <1>0, <1>2 DEF IssigGives, Kept
<1>4. ActionsOK(i) /\ Timers(p, i)
  BY <1>0, <1>2, <1>3 DEF ActionsOK, Timers, IssigGives
<1>5. Unstopped(p, i)
  BY <1>0, <1>2 DEF Unstopped, IssigGives
<1>6. CASE i.stat = "SSTOP"
  <2>1. q = [i EXCEPT !.at = "issig"]
    BY <1>1, <1>6
  <2>2. /\ q \in ProcRecords /\ q.stat = "SSTOP" /\ q.wchan = NOCHAN /\ q.at = "issig"
        /\ q.sig = i.sig /\ q.siga = i.siga /\ q.usig = i.usig /\ q.cursig = i.cursig
        /\ q.tsleep = i.tsleep /\ q.clktim = i.clktim /\ q.pptr = i.pptr
    BY <1>3, <1>6, <2>1 DEF ProcRecords
  <2>3. QueueOK(p, q) /\ Alive(q) /\ StopPasses(q)
    BY <2>2 DEF QueueOK, Alive, StopPasses, Heir
  <2>4. ActionsOK(q) /\ Timers(p, q) /\ Unstopped(p, q)
    BY <1>4, <1>5, <1>6, <2>2 DEF ActionsOK, Timers, Unstopped
  <2>5. CursigOK(q)
    BY <1>2, <1>3, <2>2 DEF CursigOK, IssigGives
  <2>6. KillRuns(q) /\ "KILL" \notin r.sig
    BY <1>2, <1>6, <2>2 DEF KillRuns, IssigGives
  <2>7. EntryInv(p, q)
    BY <2>2, <2>3, <2>4, <2>5, <2>6 DEF EntryInv
  <2> QED
    BY <1>3, <2>2, <2>6, <2>7 DEF q
<1>7. CASE i.stat # "SSTOP" /\ i.cursig # NOSIG
  <2>1. q = Psig(i)
    BY <1>1, <1>7
  <2>2. Taking(p, i)
    BY <1>2, <1>3, <1>4, <1>5, <1>7 DEF Taking, IssigGives
  <2>3. "KILL" \in r.sig => KillDue(i)
    BY <1>2 DEF IssigGives, KillDue
  <2> QED
    BY <1>3, <2>1, <2>2, <2>3, PsigEntry DEF q
<1>8. CASE i.stat # "SSTOP" /\ i.cursig = NOSIG
  <2>1. q = [i EXCEPT !.at = "user"]
    BY <1>1, <1>8
  <2>2. i.stat = "SRUN" /\ "KILL" \notin r.sig
    BY <1>2, <1>8 DEF IssigGives, NOSIG
  <2>3. /\ q \in ProcRecords /\ q.stat = "SRUN" /\ q.wchan = NOCHAN /\ q.at = "user"
        /\ q.sig = i.sig /\ q.siga = i.siga /\ q.usig = i.usig /\ q.cursig = NOSIG
        /\ q.tsleep = i.tsleep /\ q.clktim = i.clktim /\ q.pptr = i.pptr
    BY <1>3, <1>8, <2>1, <2>2 DEF ProcRecords
  <2>4. QueueOK(p, q) /\ Alive(q) /\ StopPasses(q) /\ CursigOK(q) /\ KillRuns(q)
    BY <2>3 DEF QueueOK, Alive, StopPasses, Heir, CursigOK, KillRuns, NOSIG, Stops
  <2>5. ActionsOK(q) /\ Timers(p, q) /\ Unstopped(p, q)
    BY <1>4, <1>5, <2>2, <2>3 DEF ActionsOK, Timers, Unstopped
  <2>6. EntryInv(p, q)
    BY <2>3, <2>4, <2>5 DEF EntryInv
  <2> QED
    BY <1>3, <2>2, <2>3, <2>6 DEF q
<1> QED
  BY <1>6, <1>7, <1>8

LEMMA TrapEndEntry ==
  ASSUME NEW p \in Sleepers, NEW r, EntryInv(p, r), r.stat = "SRUN", r.at = "exit"
  PROVE  LET q == TrapEnd(r) IN
         /\ EntryInv(p, q) /\ q.pptr = r.pptr /\ q.wchan = NOCHAN /\ q.at \in {"user", "issig"}
         /\ q.stat \in {"SRUN", "SSTOP", "SZOMB"}
         /\ KillDue(r) => KillDue(q) \/ q.stat = "SZOMB"
<1>1. CASE r.cursig # NOSIG
  <2>1. Taking(p, r)
    <3>1. Heir(p, r) => StopPasses(r)
      BY DEF EntryInv, Alive
    <3>2. Heir(p, r) => ~(r.cursig \in Stops /\ r.usig[r.cursig] = "DFL")
      BY <3>1 DEF StopPasses, Heir, Waiting
    <3>3. ActionsOK(r) /\ CursigOK(r)
      BY DEF EntryInv, Alive
    <3> QED
      BY <1>1, <3>2, <3>3 DEF Taking, EntryInv, QueueOK, CursigOK
  <2> QED
    BY <1>1, <2>1, PsigEntry DEF TrapEnd
<1>2. CASE r.cursig = NOSIG /\ r.sig # {}
  <2>1. TrapEnd(r) = SignalsTaken(r)
    BY <1>2 DEF TrapEnd
  <2>2. KillDue(r) => "KILL" \in r.sig
    BY <1>2 DEF KillDue, NOSIG
  <2> QED
    BY <2>1, <2>2, SignalsTakenEntry
<1>3. CASE r.cursig = NOSIG /\ r.sig = {}
  <2>1. TrapEnd(r) = [r EXCEPT !.at = "user"]
    BY <1>3 DEF TrapEnd
  <2>2. ~KillDue(r)
    BY <1>3 DEF KillDue, NOSIG
  <2>3. MayMove(p, r, "user")
    BY <1>3 DEF MayMove, NOSIG, Waiting
  <2> QED
    BY <1>3, <2>1, <2>2, <2>3, MovesEntry
<1> QED
  BY <1>1, <1>2, <1>3

-----------------------------------------------------------------------------
(* What others do to a process: they wake it, signal it, make it an orphan *)
(* or run its clocks down, and never stop it or take SIGCHLD from it while *)
(* it runs.                                                                *)
Touched(r, q) ==
  /\ q.at = r.at /\ q.usig = r.usig /\ q.pptr \in {r.pptr, init} /\ q.wchan \in {r.wchan, NOCHAN}
  /\ \/ q.stat = r.stat
     \/ r.stat \in {"SSLEEP", "SSTOP"} /\ q.stat \in {"SRUN", "SSLEEP"}
     \/ r.stat \in {"SRUN", "SSLEEP", "SSTOP"} /\ q.stat = "panic"
  /\ q.stat = "SSTOP" => q.swted = r.swted
  /\ r.stat = "SRUN" /\ q.stat = "SRUN" /\ "CHLD" \in r.sig => "CHLD" \in q.sig

(* SIGKILL stays due, or the process has ended.                            *)
KillKept(p, r, q) ==
  "drain" \notin SysCalls[p] /\ KillDue(r) => KillDue(q) \/ q.stat \in {"SZOMB", "NULL"}

Sees(p, r, q) == EntryInv(p, q) /\ Touched(r, q) /\ KillKept(p, r, q)

LEMMA SeesTwice ==
  ASSUME NEW p, NEW r, NEW q, NEW k, Sees(p, r, q), Sees(p, q, k)
  PROVE  Sees(p, r, k)
<1>1. Touched(r, k)
  BY DEF Sees, Touched
<1>2. KillKept(p, r, k)
  BY DEF Sees, Touched, KillKept
<1> QED
  BY <1>1, <1>2 DEF Sees

LEMMA SeesNothing ==
  ASSUME NEW p, NEW r, EntryInv(p, r)
  PROVE  Sees(p, r, r)
BY DEF Sees, Touched, KillKept

(* A signal that stops nobody.                                             *)
LEMMA PsignalSees ==
  ASSUME NEW p \in Sleepers, NEW r, EntryInv(p, r), NEW s \in Sigs \ Stops
  PROVE  Sees(p, r, Psignal(r, s))
<1> DEFINE q == Psignal(r, s)
<1>0. r \in ProcRecords /\ MaySend(p, s)
  BY DEF EntryInv, MaySend
<1>1. EntryInv(p, q)
  BY <1>0, PsignalEntry
<1>2. PsignalCases(r, s, q)
  BY <1>0, PsignalIs
<1> HIDE DEF q
<1>3. Touched(r, q)
  <2>1. CASE q = r
    BY <2>1 DEF Touched
  <2>2. CASE Pends(r, s, q)
    BY <2>2 DEF Pends, Same, Kept, Touched, WithSig, Stops
  <2>3. CASE SleeperRuns(r, s, q)
    BY <2>3 DEF SleeperRuns, Same, Kept, Touched
  <2>4. CASE SleeperStops(r, s, q)
    BY <2>4 DEF SleeperStops
  <2>5. CASE SleeperForgets(r, s, q)
    BY <2>5 DEF SleeperForgets, Same, Kept, Touched
  <2>6. CASE StoppedGoesOn(r, s, q)
    BY <2>6 DEF StoppedGoesOn, Same, Kept, Touched
  <2>7. CASE StoppedStays(r, s, q)
    BY <2>7 DEF StoppedStays, Same, Kept, Touched
  <2> QED
    BY <1>2, <2>1, <2>2, <2>3, <2>4, <2>5, <2>6, <2>7 DEF PsignalCases
<1>4. KillKept(p, r, q)
  BY <1>2 DEF PsignalCases, Pends, SleeperRuns, SleeperStops, SleeperForgets, StoppedGoesOn, StoppedStays,
     Same, WithSig, Stops, KillKept, KillDue
<1> QED
  BY <1>1, <1>3, <1>4 DEF Sees, q

(* SIGKILL stays due when any signal comes.                                *)
LEMMA PsignalKill ==
  ASSUME NEW p \in Sleepers, NEW r, EntryInv(p, r), NEW s \in Sigs
  PROVE  KillKept(p, r, Psignal(r, s))
<1> DEFINE q == Psignal(r, s)
<1>1. PsignalCases(r, s, q)
  BY PsignalIs DEF EntryInv
<1> HIDE DEF q
<1>2. CASE ~SleeperStops(r, s, q)
  BY <1>1, <1>2 DEF PsignalCases, Pends, SleeperRuns, SleeperForgets, StoppedGoesOn, StoppedStays,
     Same, WithSig, Stops, KillKept, KillDue, q
<1>3. CASE SleeperStops(r, s, q)
  <2>1. "drain" \notin SysCalls[p] => ~KillDue(r)
    BY <1>3 DEF SleeperStops, EntryInv, Alive, KillRuns, KillDue
  <2> QED
    BY <2>1 DEF KillKept
<1> QED
  BY <1>2, <1>3

(* wakeup.                                                                 *)
LEMMA WokenSees ==
  ASSUME NEW p \in Sleepers, NEW r, EntryInv(p, r)
  PROVE  LET q == Woken(r) IN
         /\ Sees(p, r, q) /\ q.wchan = NOCHAN /\ q.sig = r.sig
         /\ q.stat = (IF r.stat = "SSLEEP" THEN "SRUN" ELSE r.stat)
<1> DEFINE u == Unsleep(r)
<1> DEFINE to == IF u.stat = "SSLEEP" THEN "SRUN" ELSE u.stat
<1> DEFINE q == [u EXCEPT !.stat = to]
<1>0. r \in ProcRecords
  BY DEF EntryInv
<1>1. Woken(r) = q
  BY DEF Woken
<1>2. /\ Kept(r, u) /\ u \in ProcRecords /\ u.stat = r.stat /\ u.wchan = NOCHAN
      /\ u.cursig = r.cursig /\ u.swted = r.swted /\ u.sig = r.sig
  BY <1>0, UnsleepIs DEF Kept
<1>3. to \in {"SRUN", "SSLEEP", "SSTOP", "SZOMB", "NULL", "panic"} /\ to = (IF r.stat = "SSLEEP" THEN "SRUN" ELSE r.stat)
  BY <1>0, <1>2 DEF ProcRecords
<1> HIDE DEF u, to
<1>4. /\ Kept(u, q) /\ q.stat = to /\ q.wchan = NOCHAN
      /\ q.cursig = r.cursig /\ q.swted = r.swted /\ q.sig = r.sig
  BY <1>2, <1>3 DEF ProcRecords, Kept
<1> HIDE DEF q
<1>5. Kept(r, q)
  BY <1>2, <1>4 DEF Kept
<1>6. q \in ProcRecords /\ QueueOK(p, q) /\ (Alive(q) <=> Alive(r))
  BY <1>3, <1>4, <1>5 DEF Kept, QueueOK, EntryInv, Alive
<1>7. Alive(q) => ActionsOK(q) /\ CursigOK(q)
  BY <1>4, <1>5, <1>6 DEF Kept, EntryInv, ActionsOK, CursigOK
<1>8. Alive(q) /\ Heir(p, q) => StopPasses(q)
  BY <1>3, <1>4, <1>5, <1>6 DEF Kept, EntryInv, StopPasses, Heir
<1>9. Alive(q) /\ "drain" \notin SysCalls[p] => KillRuns(q)
  BY <1>3, <1>4, <1>5, <1>6 DEF Kept, EntryInv, KillRuns
<1>10. q.stat \in {"SZOMB", "NULL"} => Gone(p, q)
  BY <1>3, <1>4, <1>5 DEF Kept, EntryInv, Gone, Heir
<1>11. Timers(p, q) /\ Unstopped(p, q)
  BY <1>3, <1>4, <1>5 DEF Kept, EntryInv, Timers, Unstopped
<1>12. EntryInv(p, q)
  BY <1>6, <1>7, <1>8, <1>9, <1>10, <1>11 DEF EntryInv
<1>13. Touched(r, q) /\ KillKept(p, r, q)
  BY <1>3, <1>4, <1>5 DEF Kept, Touched, KillKept, KillDue
<1> QED
  BY <1>1, <1>3, <1>4, <1>12, <1>13 DEF Sees

(* An orphan: whose parent was in the table, so that init is a new one.    *)
LEMMA OrphanSees ==
  ASSUME NEW p \in Sleepers, NEW r, EntryInv(p, r), PParent[p] # init
  PROVE  Sees(p, r, Orphan(r)) /\ Orphan(r).pptr = init
<1> DEFINE k == [r EXCEPT !.pptr = init]
<1> DEFINE h == IF k.stat = "SSTOP" THEN Psignal(Psignal(k, "HUP"), "CONT") ELSE k
<1>0. Orphan(r) = Forget(h, "TSTP")
  BY DEF Orphan
<1>1. /\ k \in ProcRecords /\ k.stat = r.stat /\ k.wchan = r.wchan /\ k.intr = r.intr /\ k.sig = r.sig
      /\ k.cursig = r.cursig /\ k.siga = r.siga /\ k.usig = r.usig /\ k.tsleep = r.tsleep
      /\ k.clktim = r.clktim /\ k.at = r.at /\ k.pptr = init /\ k.swted = r.swted
  BY DEF EntryInv, ProcRecords
<1> HIDE DEF k
<1>2. Sees(p, r, k)
  <2>1. QueueOK(p, k) /\ (Alive(k) <=> Alive(r)) /\ k.pptr # PParent[p]
    BY <1>1 DEF EntryInv, QueueOK, Alive
  <2>2. Alive(k) => ActionsOK(k) /\ CursigOK(k)
    BY <1>1, <2>1 DEF EntryInv, ActionsOK, CursigOK
  <2>3. Alive(k) /\ "drain" \notin SysCalls[p] => KillRuns(k)
    BY <1>1, <2>1 DEF EntryInv, KillRuns
  <2>4. k.stat \in {"SZOMB", "NULL"} => Gone(p, k)
    BY <1>1, <2>1 DEF EntryInv, Gone, Heir
  <2>5. Timers(p, k) /\ Unstopped(p, k)
    BY <1>1 DEF EntryInv, Timers, Unstopped
  <2>6. EntryInv(p, k)
    BY <1>1, <2>1, <2>2, <2>3, <2>4, <2>5 DEF EntryInv, Heir
  <2> QED
    BY <1>1, <2>6 DEF Sees, Touched, KillKept, KillDue
<1>3. "HUP" \in Sigs \ Stops /\ "CONT" \in Sigs \ Stops /\ "TSTP" \in Sigs
  BY TheSignals DEF Stops
<1>4. Sees(p, r, h) /\ h.pptr = init
  <2>1. CASE k.stat # "SSTOP"
    BY <1>1, <1>2, <2>1
  <2>2. CASE k.stat = "SSTOP"
    <3> DEFINE a == Psignal(k, "HUP")
    <3>1. Sees(p, k, a) /\ a.pptr = init
      <4>1. Sees(p, k, a)
        BY <1>2, <1>3, PsignalSees DEF Sees
      <4> QED
        BY <1>1, <4>1 DEF Sees, Touched
    <3> HIDE DEF a
    <3>2. Sees(p, a, Psignal(a, "CONT")) /\ Psignal(a, "CONT").pptr = init
      <4>1. Sees(p, a, Psignal(a, "CONT"))
        BY <1>3, <3>1, PsignalSees DEF Sees
      <4> QED
        BY <3>1, <4>1 DEF Sees, Touched
    <3>3. h = Psignal(a, "CONT")
      BY <2>2 DEF a
    <3> HIDE DEF h
    <3> QED
      BY <1>2, <3>1, <3>2, <3>3, SeesTwice
  <2> QED
    BY <2>1, <2>2
<1> HIDE DEF h
<1> DEFINE f == Forget(h, "TSTP")
<1>5. /\ Kept(h, f) /\ f.stat = h.stat /\ f.wchan = h.wchan /\ f.cursig = h.cursig /\ f.swted = h.swted
      /\ f.sig = h.sig \ {"TSTP"}
  BY <1>3, <1>4, ForgetIs DEF Sees, EntryInv
<1> HIDE DEF f
<1>6. EntryInv(p, f)
  <2>1. EntryInv(p, h) /\ f.pptr # PParent[p] /\ f \in ProcRecords
    BY <1>4, <1>5 DEF Sees, Kept
  <2>2. QueueOK(p, f) /\ (Alive(f) <=> Alive(h))
    BY <1>5, <2>1 DEF Kept, EntryInv, QueueOK, Alive
  <2>3. Alive(f) => ActionsOK(f) /\ CursigOK(f)
    BY <1>5, <2>1, <2>2 DEF Kept, EntryInv, ActionsOK, CursigOK
  <2>4. Alive(f) /\ "drain" \notin SysCalls[p] => KillRuns(f)
    BY <1>5, <2>1, <2>2 DEF Kept, EntryInv, KillRuns
  <2>5. f.stat \in {"SZOMB", "NULL"} => Gone(p, f)
    BY <1>5, <2>1 DEF Kept, EntryInv, Gone, Heir
  <2>6. Timers(p, f) /\ Unstopped(p, f)
    BY <1>5, <2>1 DEF Kept, EntryInv, Timers, Unstopped
  <2> QED
    BY <2>1, <2>2, <2>3, <2>4, <2>5, <2>6 DEF EntryInv, Heir
<1>7. Sees(p, h, f)
  BY <1>5, <1>6 DEF Sees, Touched, KillKept, KillDue, Kept
<1>8. Orphan(r) = f
  BY <1>0 DEF f
<1> QED
  BY <1>4, <1>5, <1>7, <1>8, SeesTwice DEF Kept

(* The clocks of a process are run down, or set.                           *)
ButClocks(r, q) ==
  /\ q \in ProcRecords
  /\ q.stat = r.stat /\ q.wchan = r.wchan /\ q.intr = r.intr /\ q.sig = r.sig /\ q.cursig = r.cursig
  /\ q.siga = r.siga /\ q.usig = r.usig /\ q.at = r.at /\ q.pptr = r.pptr /\ q.swted = r.swted

LEMMA ClocksSee ==
  ASSUME NEW p \in Sleepers, NEW r, EntryInv(p, r), NEW q, ButClocks(r, q), Timers(p, q)
  PROVE  Sees(p, r, q)
<1>1. q \in ProcRecords /\ QueueOK(p, q) /\ (Alive(q) <=> Alive(r))
  BY DEF ButClocks, EntryInv, QueueOK, Alive
<1>2. Alive(q) => ActionsOK(q) /\ CursigOK(q)
  BY <1>1 DEF ButClocks, EntryInv, ActionsOK, CursigOK
<1>3. Alive(q) /\ Heir(p, q) => StopPasses(q)
  BY <1>1 DEF ButClocks, EntryInv, StopPasses, Heir
<1>4. Alive(q) /\ "drain" \notin SysCalls[p] => KillRuns(q)
  BY <1>1 DEF ButClocks, EntryInv, KillRuns
<1>5. (q.stat \in {"SZOMB", "NULL"} => Gone(p, q)) /\ Unstopped(p, q)
  BY DEF ButClocks, EntryInv, Gone, Heir, Unstopped
<1>6. EntryInv(p, q)
  BY <1>1, <1>2, <1>3, <1>4, <1>5 DEF EntryInv
<1> QED
  BY <1>6 DEF ButClocks, Sees, Touched, KillKept, KillDue

(* Off the sleep queue, stopped; and a sleeper set running.                *)
LEMMA UnsleepSees ==
  ASSUME NEW p \in Sleepers, NEW r, EntryInv(p, r), r.stat # "SSLEEP"
  PROVE  Sees(p, r, Unsleep(r))
<1> DEFINE q == Unsleep(r)
<1>1. /\ Kept(r, q) /\ q.stat = r.stat /\ q.wchan = NOCHAN /\ q.cursig = r.cursig
      /\ q.swted = r.swted /\ q.sig = r.sig
  BY UnsleepIs DEF EntryInv
<1> HIDE DEF q
<1>2. q \in ProcRecords /\ QueueOK(p, q) /\ (Alive(q) <=> Alive(r))
  BY <1>1 DEF Kept, EntryInv, QueueOK, Alive
<1>3. Alive(q) => ActionsOK(q) /\ CursigOK(q)
  BY <1>1, <1>2 DEF Kept, EntryInv, ActionsOK, CursigOK
<1>4. Alive(q) /\ Heir(p, q) => StopPasses(q)
  BY <1>1, <1>2 DEF Kept, EntryInv, StopPasses, Heir
<1>5. Alive(q) /\ "drain" \notin SysCalls[p] => KillRuns(q)
  BY <1>1, <1>2 DEF Kept, EntryInv, KillRuns
<1>6. (q.stat \in {"SZOMB", "NULL"} => Gone(p, q)) /\ Timers(p, q) /\ Unstopped(p, q)
  BY <1>1 DEF Kept, EntryInv, Gone, Heir, Timers, Unstopped
<1>7. EntryInv(p, q)
  BY <1>2, <1>3, <1>4, <1>5, <1>6 DEF EntryInv
<1> QED
  BY <1>1, <1>7 DEF Kept, Sees, Touched, KillKept, KillDue, q

LEMMA SetrunSees ==
  ASSUME NEW p \in Sleepers, NEW r, EntryInv(p, r), r.stat \in {"SSLEEP", "SSTOP"},
         r.stat = "SSTOP" => Raced(p)
  PROVE  Sees(p, r, Setrun(r))
<1> DEFINE q == Setrun(r)
<1>1. /\ Kept(r, q) /\ q.stat = "SRUN" /\ q.wchan = NOCHAN /\ q.cursig = r.cursig
      /\ q.swted = r.swted /\ q.sig = r.sig
  BY SetrunIs DEF EntryInv
<1> HIDE DEF q
<1>2. q \in ProcRecords /\ QueueOK(p, q) /\ Alive(q) /\ Alive(r)
  BY <1>1 DEF Kept, EntryInv, QueueOK, Alive
<1>3. ActionsOK(q) /\ CursigOK(q)
  BY <1>1, <1>2 DEF Kept, EntryInv, ActionsOK, CursigOK
<1>4. Heir(p, q) => StopPasses(q)
  BY <1>1, <1>2 DEF Kept, EntryInv, StopPasses, Heir
<1>5. "drain" \notin SysCalls[p] => KillRuns(q)
  BY <1>1, <1>2 DEF Kept, EntryInv, KillRuns
<1>6. Timers(p, q) /\ Unstopped(p, q)
  BY <1>1 DEF Kept, EntryInv, Timers, Unstopped
<1>7. EntryInv(p, q)
  BY <1>1, <1>2, <1>3, <1>4, <1>5, <1>6 DEF EntryInv
<1> QED
  BY <1>1, <1>7 DEF Kept, Sees, Touched, KillKept, KillDue, q

-----------------------------------------------------------------------------
(* softclock.  What it read of an entry is its state, but for interrupts:  *)
(* they set sleepers running, and the terminal may stop one.               *)
Bumped(p, a, b) ==
  b = a \/ (a = "SSLEEP" /\ (b = "SRUN" \/ (b = "SSTOP" /\ "TSTP" \in Senders[p])))

ClockInv ==
  /\ clock \in Clocks
  /\ clock.at \in {"alarm", "tsleep"} =>
       clock.pp \in Sleepers /\ Bumped(clock.pp, clock.a, proc[clock.pp].stat)

(* A signal that may come at an interrupt.                                 *)
LEMMA PsignalBumps ==
  ASSUME NEW p, NEW r \in ProcRecords, NEW s \in Sigs \ {"KILL", "STOP", "CONT"},
         s = "TSTP" => s \in Senders[p]
  PROVE  Bumped(p, r.stat, Psignal(r, s).stat)
<1> DEFINE q == Psignal(r, s)
<1>1. PsignalCases(r, s, q)
  BY PsignalIs
<1> HIDE DEF q
<1>2. CASE SleeperStops(r, s, q)
  BY <1>2 DEF SleeperStops, Stops, Bumped, q
<1>3. CASE ~SleeperStops(r, s, q)
  BY <1>1, <1>3 DEF PsignalCases, Pends, SleeperRuns, SleeperForgets, StoppedGoesOn, StoppedStays,
     Bumped, q
<1> QED
  BY <1>2, <1>3

(* The alarm clock of an entry.                                            *)
LEMMA RunClktimSees ==
  ASSUME NEW p \in Sleepers, NEW r, EntryInv(p, r)
  PROVE  Sees(p, r, RunClktim(r)) /\ Bumped(p, r.stat, RunClktim(r).stat)
<1> DEFINE left == IF r.clktim = 1 THEN 0 ELSE IF r.clktim > 0 THEN r.clktim - 1 ELSE 0
<1> DEFINE c == [r EXCEPT !.clktim = left]
<1>0. r \in ProcRecords /\ MaxSecs \in Nat /\ r.clktim \in 0 .. MaxSecs
  BY SleepConstants DEF EntryInv, ProcRecords
<1>1. "ALRM" \in Sigs \ Stops /\ "ALRM" \in Sigs \ {"KILL", "STOP", "CONT"}
  BY TheSignals DEF Stops
<1>2. RunClktim(r) = IF r.clktim = 1 THEN Psignal(c, "ALRM") ELSE c
  BY <1>0 DEF RunClktim
<1>3. left \in 0 .. MaxSecs
  BY <1>0
<1> HIDE DEF left
<1>4. ButClocks(r, c) /\ c.tsleep = r.tsleep
  BY <1>0, <1>3 DEF ProcRecords, ButClocks
<1> HIDE DEF c
<1>5. Sees(p, r, c) /\ c \in ProcRecords /\ c.stat = r.stat
  <2>1. Timers(p, c)
    BY <1>4 DEF EntryInv, Timers, ButClocks
  <2> QED
    BY <1>4, <2>1, ClocksSee DEF ButClocks
<1>6. CASE r.clktim # 1
  BY <1>2, <1>5, <1>6 DEF Bumped
<1>7. CASE r.clktim = 1
  <2>1. Sees(p, c, Psignal(c, "ALRM"))
    BY <1>1, <1>5, PsignalSees DEF Sees
  <2>2. Bumped(p, c.stat, Psignal(c, "ALRM").stat)
    BY <1>1, <1>5, PsignalBumps
  <2> QED
    BY <1>2, <1>5, <1>7, <2>1, <2>2, SeesTwice
<1> QED
  BY <1>6, <1>7

(* setrun panics of a process that an interrupt has set running already,   *)
(* which takes a timed sleep.                                              *)
LEMMA PanicSees ==
  ASSUME NEW p \in Sleepers, NEW r, EntryInv(p, r), r.stat = "SRUN", TimedSleeper(p)
  PROVE  Sees(p, r, Setrun(r))
<1> DEFINE q == [r EXCEPT !.stat = "panic"]
<1>1. Setrun(r) = q
  BY DEF Setrun
<1>2. /\ q \in ProcRecords /\ q.stat = "panic" /\ q.wchan = r.wchan /\ q.sig = r.sig /\ q.cursig = r.cursig
      /\ q.usig = r.usig /\ q.at = r.at /\ q.pptr = r.pptr /\ q.swted = r.swted /\ q.tsleep = r.tsleep
  BY DEF EntryInv, ProcRecords
<1> HIDE DEF q
<1>3. EntryInv(p, q)
  BY <1>2 DEF EntryInv, QueueOK, Alive, Timers, Unstopped
<1> QED
  BY <1>1, <1>2, <1>3 DEF Sees, Touched, KillKept, KillDue

(* The timeout of an entry.                                                *)
LEMMA RunTsleepSees ==
  ASSUME NEW p \in Sleepers, NEW r, EntryInv(p, r), NEW a, Bumped(p, a, r.stat)
  PROVE  Sees(p, r, RunTsleep(r, a))
<1> DEFINE left == IF r.tsleep > 0 THEN r.tsleep - 1 ELSE 0
<1> DEFINE w == [r EXCEPT !.tsleep = left]
<1> DEFINE x == [r EXCEPT !.tsleep = 0, !.stimo = TRUE]
<1>0. r \in ProcRecords /\ MaxSecs \in Nat /\ r.tsleep \in 0 .. MaxSecs
  BY SleepConstants DEF EntryInv, ProcRecords
<1>1. RunTsleep(r, a) = IF r.tsleep # 1 THEN w
                        ELSE IF a = "SSLEEP" THEN Setrun(x)
                        ELSE IF a = "SSTOP" THEN Unsleep(x)
                        ELSE x
  BY DEF RunTsleep
<1>2. left \in 0 .. MaxSecs /\ (left > 0 => r.tsleep > 0)
  BY <1>0
<1> HIDE DEF left
<1>3. ButClocks(r, w) /\ w.tsleep = left
  BY <1>0, <1>2 DEF ProcRecords, ButClocks
<1>4. ButClocks(r, x) /\ x.tsleep = 0
  <2> DEFINE y == [r EXCEPT !.tsleep = 0]
  <2>1. ButClocks(r, y) /\ y.tsleep = 0
    BY <1>0 DEF ProcRecords, ButClocks
  <2>2. x = [y EXCEPT !.stimo = TRUE]
    BY <1>0 DEF ProcRecords
  <2> HIDE DEF y, x
  <2>3. ButClocks(y, x) /\ x.tsleep = y.tsleep
    BY <2>1, <2>2 DEF ProcRecords, ButClocks
  <2> QED
    BY <2>1, <2>3 DEF ButClocks
<1> HIDE DEF w, x
<1>5. Sees(p, r, w)
  <2>1. Timers(p, w)
    BY <1>2, <1>3 DEF EntryInv, Timers, ButClocks
  <2> QED
    BY <1>3, <2>1, ClocksSee
<1>6. Sees(p, r, x) /\ EntryInv(p, x) /\ x.stat = r.stat
  <2>1. Timers(p, x)
    BY <1>4 DEF EntryInv, Timers, ButClocks
  <2> QED
    BY <1>4, <2>1, ClocksSee DEF Sees, ButClocks
<1>7. CASE r.tsleep # 1
  BY <1>1, <1>5, <1>7
<1>8. CASE r.tsleep = 1 /\ a = "SSLEEP"
  <2>1. TimedSleeper(p)
    BY <1>8 DEF EntryInv, Timers
  <2>2. Sees(p, x, Setrun(x))
    <3>1. CASE r.stat = "SRUN"
      BY <1>6, <2>1, <3>1, PanicSees
    <3>2. CASE r.stat # "SRUN"
      BY <1>6, <1>8, <2>1, <3>2, SetrunSees DEF Bumped, Raced
    <3> QED
      BY <3>1, <3>2
  <2> QED
    BY <1>1, <1>6, <1>8, <2>2, SeesTwice
<1>9. CASE r.tsleep = 1 /\ a = "SSTOP"
  <2>1. Sees(p, x, Unsleep(x))
    BY <1>6, <1>9, UnsleepSees DEF Bumped
  <2> QED
    BY <1>1, <1>6, <1>9, <2>1, SeesTwice
<1>10. CASE r.tsleep = 1 /\ a \notin {"SSLEEP", "SSTOP"}
  BY <1>1, <1>6, <1>10
<1> QED
  BY <1>7, <1>8, <1>9, <1>10

-----------------------------------------------------------------------------
(* signal, alarm, and what wait does to the child it reports.              *)
MaySet(p, o, s, a, r) ==
  /\ EntryInv(p, o) /\ o.stat = "SRUN" /\ o.at = "user"
  /\ s \in Sigs \ {"KILL", "STOP"} /\ a \in Actions /\ r \in {o, Forget(o, s)}

LEMMA SsigEntry ==
  ASSUME NEW p \in Sleepers, NEW o, NEW s, NEW a, NEW r, MaySet(p, o, s, a, r)
  PROVE  LET q == [r EXCEPT !.siga[s] = IF a = "DEFER" THEN "CATCH" ELSE a, !.usig[s] = a, !.at = "exit"] IN
         /\ EntryInv(p, q) /\ q.stat = "SRUN" /\ q.at = "exit" /\ q.wchan = NOCHAN /\ q.pptr = o.pptr
         /\ KillKept(p, o, q)
<1> /\ EntryInv(p, o) /\ o.stat = "SRUN" /\ o.at = "user"
    /\ s \in Sigs \ {"KILL", "STOP"} /\ a \in Actions /\ r \in {o, Forget(o, s)}
  BY DEF MaySet
<1> DEFINE b == IF a = "DEFER" THEN "CATCH" ELSE a
<1> DEFINE siga == [r.siga EXCEPT ![s] = b]
<1> DEFINE usig == [r.usig EXCEPT ![s] = a]
<1> DEFINE q == [r EXCEPT !.siga = siga, !.usig = usig, !.at = "exit"]
<1>0. [r EXCEPT !.siga[s] = IF a = "DEFER" THEN "CATCH" ELSE a, !.usig[s] = a, !.at = "exit"] = q
  OBVIOUS
<1>1. /\ r \in ProcRecords /\ r.stat = "SRUN" /\ r.wchan = NOCHAN /\ r.cursig = NOSIG /\ r.pptr = o.pptr
      /\ r.siga = o.siga /\ r.usig = o.usig /\ r.tsleep = o.tsleep /\ r.clktim = o.clktim
      /\ r.sig \subseteq o.sig /\ r.cursig = o.cursig /\ ("KILL" \in o.sig => "KILL" \in r.sig)
  <2>1. o \in ProcRecords /\ o.wchan = NOCHAN /\ o.cursig = NOSIG
    BY DEF EntryInv, QueueOK, Alive, CursigOK
  <2>2. CASE r = o
    BY <2>1, <2>2
  <2>3. CASE r = Forget(o, s)
    BY <2>1, <2>3, ForgetIs DEF Kept
  <2> QED
    BY <2>2, <2>3
<1>2. /\ siga \in [Sigs -> Actions] /\ siga[s] = b /\ \A t \in Sigs \ {s} : siga[t] = r.siga[t]
  BY <1>1 DEF ProcRecords, Actions
<1>3. /\ usig \in [Sigs -> Actions] /\ usig[s] = a /\ \A t \in Sigs \ {s} : usig[t] = r.usig[t]
  BY <1>1 DEF ProcRecords
<1>4. b \in AgreesWith(a)
  BY DEF AgreesWith, Actions
<1> HIDE DEF b, siga, usig
<1>5. /\ q \in ProcRecords /\ q.stat = "SRUN" /\ q.wchan = NOCHAN /\ q.cursig = NOSIG /\ q.pptr = o.pptr
      /\ q.siga = siga /\ q.usig = usig /\ q.tsleep = o.tsleep /\ q.clktim = o.clktim
      /\ q.sig = r.sig /\ q.at = "exit"
  BY <1>1, <1>2, <1>3 DEF ProcRecords
<1> HIDE DEF q
<1>6. ActionsOK(o)
  BY DEF EntryInv, Alive
<1>7. ActionsOK(q)
  <2>1. ASSUME NEW t \in Sigs PROVE q.siga[t] \in AgreesWith(q.usig[t])
    <3>1. CASE t = s
      BY <1>2, <1>3, <1>4, <1>5, <3>1
    <3>2. CASE t # s
      BY <1>1, <1>2, <1>3, <1>5, <1>6, <3>2 DEF ActionsOK
    <3> QED
      BY <3>1, <3>2
  <2>2. ASSUME NEW t \in {"KILL", "STOP"} PROVE q.usig[t] = "DFL" /\ q.siga[t] = "DFL"
    BY <1>1, <1>2, <1>3, <1>5, <1>6, TheSignals DEF ActionsOK
  <2> QED
    BY <2>1, <2>2 DEF ActionsOK
<1>8. QueueOK(p, q) /\ CursigOK(q) /\ StopPasses(q) /\ KillRuns(q)
  BY <1>5 DEF QueueOK, CursigOK, StopPasses, Heir, KillRuns, NOSIG, Stops
<1>9. Timers(p, q) /\ Unstopped(p, q)
  BY <1>1, <1>5 DEF EntryInv, Timers, Unstopped
<1>10. EntryInv(p, q)
  BY <1>5, <1>7, <1>8, <1>9 DEF EntryInv
<1>11. KillKept(p, o, q)
  BY <1>1, <1>5 DEF KillKept, KillDue, NOSIG
<1> QED
  BY <1>0, <1>5, <1>10, <1>11

(* alarm sets the clock of a process that may set one.                     *)
LEMMA AlarmEntry ==
  ASSUME NEW p \in Sleepers, NEW r, EntryInv(p, r), r.stat = "SRUN", r.at = "user",
         "alarm" \in SysCalls[p], NEW secs \in 0 .. MaxSecs
  PROVE  LET q == [r EXCEPT !.clktim = secs, !.at = "exit"] IN
         /\ EntryInv(p, q) /\ q.stat = "SRUN" /\ q.at = "exit" /\ q.wchan = NOCHAN /\ q.pptr = r.pptr
         /\ KillKept(p, r, q)
<1> DEFINE q == [r EXCEPT !.clktim = secs, !.at = "exit"]
<1>0. r \in ProcRecords /\ r.wchan = NOCHAN /\ r.cursig = NOSIG /\ ActionsOK(r)
  BY DEF EntryInv, QueueOK, Alive, CursigOK
<1>1. /\ q \in ProcRecords /\ q.stat = "SRUN" /\ q.wchan = NOCHAN /\ q.cursig = NOSIG /\ q.pptr = r.pptr
      /\ q.siga = r.siga /\ q.usig = r.usig /\ q.tsleep = r.tsleep /\ q.clktim = secs
      /\ q.sig = r.sig /\ q.at = "exit"
  BY <1>0 DEF ProcRecords
<1> HIDE DEF q
<1>2. QueueOK(p, q) /\ CursigOK(q) /\ StopPasses(q) /\ KillRuns(q) /\ ActionsOK(q)
  BY <1>0, <1>1 DEF QueueOK, CursigOK, StopPasses, Heir, KillRuns, ActionsOK, NOSIG, Stops
<1>3. Timers(p, q) /\ Unstopped(p, q)
  BY <1>1 DEF EntryInv, Timers, Unstopped
<1>4. EntryInv(p, q)
  BY <1>1, <1>2, <1>3 DEF EntryInv
<1> QED
  BY <1>0, <1>1, <1>4 DEF KillKept, KillDue, q

(* wait marks a stopped child as reported and frees the entry of a zombie. *)
LEMMA ReportedEntry ==
  ASSUME NEW p \in Sleepers, NEW r, EntryInv(p, r), r.stat \in {"SZOMB", "SSTOP"}, PParent[p] # init
  PROVE  LET q == [r EXCEPT !.swted = TRUE, !.stat = IF @ = "SZOMB" THEN "NULL" ELSE @,
                            !.pptr = IF r.stat = "SZOMB" THEN init ELSE @] IN
         /\ EntryInv(p, q) /\ q.stat \in {"NULL", "SSTOP"} /\ q.swted /\ q.pptr \in {r.pptr, init}
         /\ q.wchan = r.wchan /\ q.at = r.at
         /\ KillKept(p, r, q)
<1>0. r \in ProcRecords /\ init \in Sleepers \cup {init}
  BY DEF EntryInv
<1>1. CASE r.stat = "SZOMB"
  <2> DEFINE q == [r EXCEPT !.swted = TRUE, !.stat = "NULL", !.pptr = init]
  <2>1. [r EXCEPT !.swted = TRUE, !.stat = IF @ = "SZOMB" THEN "NULL" ELSE @,
                            !.pptr = IF r.stat = "SZOMB" THEN init ELSE @] = q
    BY <1>1
  <2>2. /\ q \in ProcRecords /\ q.stat = "NULL" /\ q.wchan = r.wchan /\ q.pptr = init /\ q.siga = r.siga
        /\ q.sig = r.sig /\ q.at = r.at /\ q.tsleep = r.tsleep /\ q.clktim = r.clktim /\ q.swted
        /\ q.cursig = r.cursig
    BY <1>0 DEF ProcRecords
  <2> HIDE DEF q
  <2>3. QueueOK(p, q) /\ Gone(p, q) /\ Timers(p, q) /\ Unstopped(p, q) /\ ~Alive(q)
    BY <1>1, <2>2 DEF EntryInv, QueueOK, Gone, Heir, Timers, Unstopped, Alive
  <2>4. EntryInv(p, q) /\ KillKept(p, r, q)
    BY <2>2, <2>3 DEF EntryInv, KillKept
  <2> QED
    BY <2>1, <2>2, <2>4
<1>2. CASE r.stat = "SSTOP"
  <2> DEFINE q == [r EXCEPT !.swted = TRUE]
  <2>1. [r EXCEPT !.swted = TRUE, !.stat = IF @ = "SZOMB" THEN "NULL" ELSE @,
                            !.pptr = IF r.stat = "SZOMB" THEN init ELSE @] = q
    BY <1>0, <1>2 DEF ProcRecords
  <2>2. /\ q \in ProcRecords /\ q.stat = "SSTOP" /\ q.wchan = r.wchan /\ q.pptr = r.pptr /\ q.siga = r.siga
        /\ q.sig = r.sig /\ q.at = r.at /\ q.tsleep = r.tsleep /\ q.clktim = r.clktim /\ q.swted
        /\ q.cursig = r.cursig /\ q.usig = r.usig /\ q.intr = r.intr
    BY <1>0, <1>2 DEF ProcRecords
  <2> HIDE DEF q
  <2>3. QueueOK(p, q) /\ Timers(p, q) /\ Unstopped(p, q) /\ StopPasses(q)
    BY <1>2, <2>2 DEF EntryInv, QueueOK, Timers, Unstopped, StopPasses, Heir
  <2>4. ActionsOK(q) /\ CursigOK(q) /\ ("drain" \notin SysCalls[p] => KillRuns(q))
    BY <1>2, <2>2 DEF EntryInv, Alive, ActionsOK, CursigOK, KillRuns
  <2>5. EntryInv(p, q) /\ KillKept(p, r, q)
    BY <2>2, <2>3, <2>4 DEF EntryInv, KillKept, KillDue
  <2> QED
    BY <2>1, <2>2, <2>5
<1> QED
  BY <1>1, <1>2


-----------------------------------------------------------------------------
(* The whole table, as others change it.                                   *)
AllSee(P, Q) ==
  /\ Q \in [Sleepers -> ProcRecords]
  /\ \A p \in Sleepers : Sees(p, P[p], Q[p])

(* Who is seen to by others stays in order.                                *)
LEMMA AllSeeOK ==
  ASSUME NEW P, TableOK(P), NEW Q, AllSee(P, Q)
  PROVE  TableOK(Q)
<1>1. ASSUME NEW p \in Sleepers PROVE EntryInv(p, Q[p]) /\ Q[p].pptr \in {PParent[p], init}
  BY DEF TableOK, AllSee, Sees, Touched
<1> QED
  BY <1>1 DEF TableOK, AllSee

LEMMA AllSeeTwice ==
  ASSUME NEW P, NEW Q, NEW R, AllSee(P, Q), AllSee(Q, R)
  PROVE  AllSee(P, R)
<1>1. ASSUME NEW p \in Sleepers PROVE Sees(p, P[p], R[p])
  BY SeesTwice DEF AllSee
<1> QED
  BY <1>1 DEF AllSee

(* wakeup leaves nobody on the channel.                                    *)
LEMMA Wakeup1Sees ==
  ASSUME NEW P, TableOK(P), NEW c \in Chans
  PROVE  /\ AllSee(P, Wakeup1(P, c))
         /\ \A p \in Sleepers : Wakeup1(P, c)[p].wchan # c
<1> DEFINE Q == Wakeup1(P, c)
<1>1. ASSUME NEW p \in Sleepers PROVE Sees(p, P[p], Q[p]) /\ Q[p].wchan # c /\ Q[p] \in ProcRecords
  <2>1. EntryInv(p, P[p]) /\ c # NOCHAN
    BY SleepConstants DEF TableOK
  <2>2. CASE P[p].wchan = c
    <3>1. Q[p] = Woken(P[p])
      BY <2>2 DEF Wakeup1
    <3>2. Sees(p, P[p], Woken(P[p])) /\ Woken(P[p]).wchan = NOCHAN
      BY <2>1, WokenSees
    <3> QED
      BY <2>1, <3>1, <3>2 DEF Sees, EntryInv
  <2>3. CASE P[p].wchan # c
    <3>1. Q[p] = P[p]
      BY <2>3 DEF Wakeup1
    <3>2. Sees(p, P[p], P[p])
      BY <2>1, SeesNothing
    <3> QED
      BY <2>3, <3>1, <3>2 DEF Sees, EntryInv
  <2> QED
    BY <2>2, <2>3
<1>2. Q = [p \in Sleepers |-> Q[p]]
  BY DEF Wakeup1
<1> HIDE DEF Q
<1>3. Q \in [Sleepers -> ProcRecords]
  BY <1>1, <1>2
<1>4. AllSee(P, Q)
  BY <1>1, <1>3 DEF AllSee
<1> QED
  BY <1>1, <1>4 DEF Q

(* A parent that is told of a child is not left asleep in wait, nor on its *)
(* way there without the signal.                                           *)
LEMMA TellParentSees ==
  ASSUME NEW P, TableOK(P), NEW x \in Sleepers \cup {init}
  PROVE  /\ AllSee(P, TellParent(P, x))
         /\ x \in Sleepers => ~Listens(x, TellParent(P, x)[x])
<1>0. init \notin Sleepers /\ NOCHAN \notin Chans
  BY SleepConstants
<1>1. CASE x = init
  <2>1. TellParent(P, x) = P
    BY <1>1 DEF TellParent
  <2>2. AllSee(P, P)
    BY SeesNothing DEF AllSee, TableOK
  <2> QED
    BY <1>0, <1>1, <2>1, <2>2
<1>2. CASE x \in Sleepers
  <2> DEFINE Q == Wakeup1(P, x)
  <2> DEFINE n == Psignal(Q[x], "CHLD")
  <2> DEFINE R == [Q EXCEPT ![x] = n]
  <2>1. TellParent(P, x) = R
    BY <1>0, <1>2 DEF TellParent
  <2>2. AllSee(P, Q) /\ Q[x].wchan # x /\ x \in Chans
    BY <1>2, Wakeup1Sees DEF Chans
  <2>3. TableOK(Q) /\ Q \in [Sleepers -> ProcRecords]
    BY <2>2, AllSeeOK DEF AllSee
  <2> HIDE DEF Q
  <2>4. EntryInv(x, Q[x]) /\ "CHLD" \in Sigs \ Stops /\ Q[x] \in ProcRecords
    BY <1>2, <2>3, TheSignals DEF TableOK, Stops
  <2>5. Sees(x, Q[x], n)
    BY <1>2, <2>4, PsignalSees
  <2>6. EntryInv(x, n) /\ n \in ProcRecords
    BY <2>5 DEF Sees, EntryInv
  <2>7. ~Listens(x, n)
    <3> SUFFICES ASSUME Handles(n), Deaf(n) PROVE FALSE
      BY DEF Listens
    <3>1. n.wchan \in {Q[x].wchan, NOCHAN} /\ n.at = Q[x].at /\ n.usig = Q[x].usig
      BY <2>5 DEF Sees, Touched
    <3>2. CASE n.stat = "SSLEEP" /\ n.at = "wait"
      <4>1. n.wchan = x
        BY <2>6, <3>2 DEF EntryInv, QueueOK, WaitChan
      <4> QED
        BY <1>0, <2>2, <3>1, <4>1
    <3>3. CASE n.stat = "SRUN" /\ n.at = "scanned" /\ "CHLD" \notin n.sig
      <4>1. Q[x].stat = "SRUN"
        BY <2>4, <2>5, <3>1, <3>3 DEF Sees, Touched, EntryInv, QueueOK, Waiting
      <4>2. ActionsOK(Q[x]) /\ Q[x].usig["CHLD"] \in {"CATCH", "DEFER"}
        BY <2>4, <3>1, <4>1 DEF EntryInv, Alive, Handles
      <4>3. Q[x].siga["CHLD"] = "CATCH"
        BY <2>4, <4>2 DEF ActionsOK, AgreesWith
      <4>4. n = Posted(Q[x], "CHLD")
        <5>1. Posted(Q[x], "CHLD").stat = "SRUN"
          BY <2>4, <4>1, PostedIs
        <5> QED
          BY <4>3, <5>1 DEF Psignal
      <4>5. "CHLD" \in n.sig
        BY <2>4, <4>4, PostedIs DEF Stops
      <4> QED
        BY <3>3, <4>5
    <3> QED
      BY <3>2, <3>3 DEF Deaf
  <2> HIDE DEF n
  <2>8. R \in [Sleepers -> ProcRecords] /\ R[x] = n /\ \A q \in Sleepers \ {x} : R[q] = Q[q]
    BY <1>2, <2>3, <2>6
  <2> HIDE DEF R
  <2>9. ASSUME NEW q \in Sleepers PROVE Sees(q, Q[q], R[q])
    <3>1. Sees(q, Q[q], Q[q])
      BY <2>3, SeesNothing DEF TableOK
    <3> QED
      BY <2>5, <2>8, <3>1
  <2>10. AllSee(Q, R)
    BY <2>8, <2>9 DEF AllSee
  <2>11. AllSee(P, R)
    BY <2>2, <2>10, AllSeeTwice
  <2> QED
    BY <2>1, <2>7, <2>8, <2>11
<1> QED
  BY <1>1, <1>2

(* An interrupt's wakeup, and what it tells a parent.                      *)
LEMMA Wakeup1Bumps ==
  ASSUME NEW P, TableOK(P), NEW c \in Chans, NEW p \in Sleepers
  PROVE  Bumped(p, P[p].stat, Wakeup1(P, c)[p].stat)
<1>1. Woken(P[p]).stat = (IF P[p].stat = "SSLEEP" THEN "SRUN" ELSE P[p].stat)
  BY WokenSees DEF TableOK
<1> QED
  BY <1>1 DEF Wakeup1, Bumped

LEMMA TellParentBumps ==
  ASSUME NEW P, TableOK(P), NEW x \in Sleepers \cup {init}, NEW p \in Sleepers
  PROVE  Bumped(p, P[p].stat, TellParent(P, x)[p].stat)
<1>1. CASE x = init
  BY <1>1 DEF TellParent, Bumped
<1>2. CASE x # init
  <2> DEFINE Q == Wakeup1(P, x)
  <2>1. x \in Sleepers /\ x \in Chans
    BY <1>2 DEF Chans
  <2>2. Bumped(p, P[p].stat, Q[p].stat)
    BY <2>1, Wakeup1Bumps
  <2>3. Q[x] \in ProcRecords /\ Q = [q \in Sleepers |-> Q[q]]
    BY <2>1, Wakeup1Sees DEF AllSee, Wakeup1
  <2>4. TellParent(P, x) = [Q EXCEPT ![x] = Psignal(Q[x], "CHLD")]
    BY <1>2 DEF TellParent
  <2> HIDE DEF Q
  <2>5. Bumped(x, Q[x].stat, Psignal(Q[x], "CHLD").stat)
    BY <2>3, PsignalBumps, TheSignals
  <2>6. CASE p = x
    <3>1. TellParent(P, x)[p] = Psignal(Q[x], "CHLD")
      BY <2>1, <2>3, <2>4, <2>6
    <3> QED
      BY <2>2, <2>5, <2>6, <3>1 DEF Bumped
  <2>7. CASE p # x
    <3>1. TellParent(P, x)[p] = Q[p]
      BY <2>3, <2>4, <2>7
    <3> QED
      BY <2>2, <3>1
  <2> QED
    BY <2>6, <2>7
<1> QED
  BY <1>1, <1>2

(* The children of a process that exits.                                   *)
LEMMA OrphansSee ==
  ASSUME NEW P, TableOK(P), NEW p \in Sleepers
  PROVE  AllSee(P, Orphans(P, p))
<1> DEFINE Q == Orphans(P, p)
<1>1. ASSUME NEW q \in Sleepers PROVE Sees(q, P[q], Q[q]) /\ Q[q] \in ProcRecords
  <2>1. EntryInv(q, P[q]) /\ P[q].pptr \in {PParent[q], init}
    BY DEF TableOK
  <2>2. CASE P[q].pptr = p
    <3>1. PParent[q] # init
      BY <2>1, <2>2, SleepConstants
    <3>2. Sees(q, P[q], Orphan(P[q]))
      BY <2>1, <3>1, OrphanSees
    <3>3. Q[q] = Orphan(P[q])
      BY <2>2 DEF Orphans
    <3> QED
      BY <3>2, <3>3 DEF Sees, EntryInv
  <2>3. CASE P[q].pptr # p
    <3>1. Sees(q, P[q], P[q])
      BY <2>1, SeesNothing
    <3>2. Q[q] = P[q]
      BY <2>3 DEF Orphans
    <3> QED
      BY <3>1, <3>2 DEF Sees, EntryInv
  <2> QED
    BY <2>2, <2>3
<1>2. Q = [q \in Sleepers |-> Q[q]]
  BY DEF Orphans
<1> HIDE DEF Q
<1>3. Q \in [Sleepers -> ProcRecords]
  BY <1>1, <1>2
<1> QED
  BY <1>1, <1>3 DEF AllSee, Q


-----------------------------------------------------------------------------
(* A step of the table.  ReportsTo is Reportable, of an entry.             *)
ReportsTo(r, p) == r.pptr = p /\ (r.stat = "SZOMB" \/ (r.stat = "SSTOP" /\ ~r.swted))

AllKept == \A p \in Sleepers : KillKept(p, proc[p], proc'[p])

(* What others do makes no process deaf, and no child reportable.          *)
LEMMA SeenListens ==
  ASSUME NEW p, NEW r, EntryInv(p, r), NEW q, Touched(r, q), Listens(p, q)
  PROVE  Listens(p, r)
<1>1. Handles(r) /\ q.at = r.at
  BY DEF Listens, Handles, Touched
<1>2. CASE q.stat = "SSLEEP" /\ q.at = "wait"
  BY <1>1, <1>2 DEF Listens, Touched, EntryInv, Unstopped, Deaf
<1>3. CASE q.stat = "SRUN" /\ q.at = "scanned" /\ "CHLD" \notin q.sig
  BY <1>1, <1>3 DEF Listens, Touched, EntryInv, QueueOK, Deaf, Waiting
<1> QED
  BY <1>2, <1>3 DEF Listens, Deaf

LEMMA SeenReports ==
  ASSUME NEW r, NEW q, Touched(r, q), NEW x, x # init, ReportsTo(q, x)
  PROVE  ReportsTo(r, x)
BY DEF Touched, ReportsTo

LEMMA ReportableIs ==
  ASSUME NEW p, NEW q
  PROVE  Reportable(q, p) <=> ReportsTo(proc[q], p)
BY DEF Reportable, ReportsTo

LEMMA ReportableNext ==
  ASSUME NEW p, NEW q
  PROVE  Reportable(q, p)' <=> ReportsTo(proc'[q], p)
BY DEF Reportable, ReportsTo

LEMMA ListensNext ==
  ASSUME NEW p
  PROVE  Listens(p, proc[p])' <=> Listens(p, proc'[p])
BY DEF Listens, Handles, Deaf

(* What the table says of SIGKILL is kept in two steps.                    *)
LEMMA KillKeptTwice ==
  ASSUME NEW p, NEW o, NEW r, NEW q, KillKept(p, o, r), Sees(p, r, q)
  PROVE  KillKept(p, o, q)
BY DEF KillKept, Sees, Touched

(* The step of process p, whose entry becomes r, before others hear of it. *)
Acts(p, r) ==
  /\ EntryInv(p, r) /\ r.pptr = proc[p].pptr
  /\ event' \in [EventChans -> BOOLEAN]
  /\ \A c \in EventChans : event'[c] => event[c]
  /\ r.wchan # NOCHAN /\ r.at = "await" => ~event'[ChanOf[p]]
  /\ Listens(p, r) => \A q \in Sleepers : ~Reportable(q, p)
  /\ proc[p].stat = "SSTOP" /\ r.stat = "SSTOP" => r.swted = proc[p].swted
  /\ KillKept(p, proc[p], r)

(* Then others hear of it, its parent if it stopped or ended.              *)
Told(p, r) ==
  /\ proc' \in [Sleepers -> ProcRecords]
  /\ \A q \in Sleepers \ {p} : Sees(q, proc[q], proc'[q])
  /\ Sees(p, r, proc'[p])
  /\ r.stat \in {"SSTOP", "SZOMB"} /\ r.stat # proc[p].stat /\ r.pptr \in Sleepers =>
       ~Listens(r.pptr, proc'[r.pptr])

LEMMA SetProcTold ==
  ASSUME EntriesInv, NEW p \in Sleepers, NEW r, Acts(p, r), SetProc(p, r)
  PROVE  Told(p, r)
<1> DEFINE P == [proc EXCEPT ![p] = r]
<1>0. EntryInv(p, r) /\ r \in ProcRecords /\ r.pptr \in Sleepers \cup {init} /\ TableOK(proc)
      /\ proc \in [Sleepers -> ProcRecords] /\ r.pptr = proc[p].pptr
  BY DEF Acts, EntryInv, EntriesInv, TableOK, ProcRecords
<1>1. P \in [Sleepers -> ProcRecords] /\ P[p] = r /\ \A q \in Sleepers \ {p} : P[q] = proc[q]
  BY <1>0
<1>2. TableOK(P)
  <2>1. ASSUME NEW q \in Sleepers PROVE EntryInv(q, P[q]) /\ P[q].pptr \in {PParent[q], init}
    BY <1>0, <1>1 DEF TableOK
  <2> QED
    BY <1>1, <2>1 DEF TableOK
<1>3. proc' = (IF r.stat = proc[p].stat THEN P
               ELSE IF r.stat = "SSTOP" THEN TellParent(P, r.pptr)
               ELSE IF r.stat = "SZOMB" THEN TellParent(Orphans(P, p), r.pptr)
               ELSE P)
  BY DEF SetProc
<1> HIDE DEF P
<1>4. AllSee(P, P)
  BY <1>2, SeesNothing DEF AllSee, TableOK
<1>5. /\ AllSee(P, TellParent(P, r.pptr))
      /\ r.pptr \in Sleepers => ~Listens(r.pptr, TellParent(P, r.pptr)[r.pptr])
  BY <1>0, <1>2, TellParentSees
<1>6. /\ AllSee(P, TellParent(Orphans(P, p), r.pptr))
      /\ r.pptr \in Sleepers => ~Listens(r.pptr, TellParent(Orphans(P, p), r.pptr)[r.pptr])
  <2>1. AllSee(P, Orphans(P, p)) /\ TableOK(Orphans(P, p))
    BY <1>2, OrphansSee, AllSeeOK
  <2>2. /\ AllSee(Orphans(P, p), TellParent(Orphans(P, p), r.pptr))
        /\ r.pptr \in Sleepers => ~Listens(r.pptr, TellParent(Orphans(P, p), r.pptr)[r.pptr])
    BY <1>0, <2>1, TellParentSees
  <2> QED
    BY <2>1, <2>2, AllSeeTwice
<1>7. /\ AllSee(P, proc')
      /\ r.stat \in {"SSTOP", "SZOMB"} /\ r.stat # proc[p].stat /\ r.pptr \in Sleepers =>
           ~Listens(r.pptr, proc'[r.pptr])
  <2>1. CASE r.stat = proc[p].stat \/ r.stat \notin {"SSTOP", "SZOMB"}
    BY <1>3, <1>4, <2>1
  <2>2. CASE r.stat # proc[p].stat /\ r.stat = "SSTOP"
    BY <1>3, <1>5, <2>2
  <2>3. CASE r.stat # proc[p].stat /\ r.stat = "SZOMB"
    BY <1>3, <1>6, <2>3
  <2> QED
    BY <2>1, <2>2, <2>3
<1> QED
  BY <1>1, <1>7 DEF AllSee, Told

(* A step that nobody hears of.                                            *)
LEMMA PutTold ==
  ASSUME EntriesInv, NEW p \in Sleepers, NEW r, Acts(p, r), r.stat = "SRUN",
         proc' = [proc EXCEPT ![p] = r]
  PROVE  Told(p, r)
<1>0. EntryInv(p, r) /\ r \in ProcRecords /\ proc \in [Sleepers -> ProcRecords]
  BY DEF Acts, EntryInv, EntriesInv, TableOK
<1>1. proc' \in [Sleepers -> ProcRecords] /\ proc'[p] = r /\ \A q \in Sleepers \ {p} : proc'[q] = proc[q]
  BY <1>0
<1>2. Sees(p, r, proc'[p])
  BY <1>0, <1>1, SeesNothing
<1>3. ASSUME NEW q \in Sleepers \ {p} PROVE Sees(q, proc[q], proc'[q])
  BY <1>1, SeesNothing DEF EntriesInv, TableOK
<1> QED
  BY <1>1, <1>2, <1>3 DEF Told

(* Such a step keeps the invariant.                                        *)
LEMMA ToldKeeps ==
  ASSUME SleepInv, NEW p \in Sleepers, NEW r, Acts(p, r), Told(p, r)
  PROVE  SleepInv' /\ AllKept
<1>0. /\ EntriesInv /\ EventInv /\ HearInv /\ init \notin Sleepers /\ r.pptr = proc[p].pptr
      /\ EntryInv(p, r) /\ ChanOf \in [Sleepers -> EventChans]
      /\ \A q \in Sleepers : EntryInv(q, proc[q]) /\ proc[q].pptr \in {PParent[q], init}
  BY SleepConstants DEF SleepInv, Acts, EntriesInv, TableOK
<1>1. EntriesInv'
  <2>1. ASSUME NEW q \in Sleepers PROVE EntryInv(q, proc'[q]) /\ proc'[q].pptr \in {PParent[q], init}
    BY <1>0 DEF Told, Sees, Touched
  <2>2. TableOK(proc')
    BY <2>1 DEF TableOK, Told
  <2>3. TableOK(proc)' <=> TableOK(proc')
    BY DEF TableOK, EntryInv, QueueOK, ActionsOK, CursigOK, StopPasses, Heir, KillRuns, Gone, Timers,
      Unstopped, Alive
  <2> QED
    BY <2>2, <2>3 DEF EntriesInv, Acts
<1>2. EventInv'
  <2> SUFFICES ASSUME NEW q \in Sleepers, proc'[q].wchan # NOCHAN, proc'[q].at = "await"
               PROVE  ~event'[ChanOf[q]]
    BY DEF EventInv
  <2>1. CASE q = p
    <3>1. r.wchan # NOCHAN /\ r.at = "await"
      BY <2>1 DEF Told, Sees, Touched
    <3> QED
      BY <2>1, <3>1 DEF Acts
  <2>2. CASE q # p
    <3>1. proc[q].wchan # NOCHAN /\ proc[q].at = "await"
      BY <2>2 DEF Told, Sees, Touched
    <3>2. ~event[ChanOf[q]] /\ ChanOf[q] \in EventChans
      BY <1>0, <3>1 DEF EventInv
    <3> QED
      BY <3>2 DEF Acts
  <2> QED
    BY <2>1, <2>2
<1>3. HearInv'
  <2> SUFFICES ASSUME NEW x \in Sleepers, Listens(x, proc'[x]), NEW q \in Sleepers, ReportsTo(proc'[q], x)
               PROVE  FALSE
    BY ReportableNext, ListensNext DEF HearInv
  <2>1. x # init
    BY <1>0
  <2>2. CASE x = p
    <3>1. Listens(p, r)
      BY <1>0, <2>2, SeenListens DEF Told, Sees
    <3>2. ~ReportsTo(proc[q], p)
      BY <3>1, ReportableIs DEF Acts
    <3>3. q # p
      BY <2>2, <2>1 DEF ReportsTo, Listens, Deaf
    <3> QED
      BY <2>1, <2>2, <3>2, <3>3, SeenReports DEF Told, Sees
  <2>3. CASE x # p
    <3>1. Listens(x, proc[x])
      BY <1>0, <2>3, SeenListens DEF Told, Sees
    <3>2. \A k \in Sleepers : ~ReportsTo(proc[k], x)
      BY <1>0, <3>1, ReportableIs DEF HearInv
    <3>3. CASE q # p
      BY <2>1, <3>2, <3>3, SeenReports DEF Told, Sees
    <3>4. CASE q = p
      <4>1. ReportsTo(r, x)
        BY <2>1, <3>4, SeenReports DEF Told, Sees
      <4>2. r.stat \in {"SSTOP", "SZOMB"} /\ r.pptr = x
        BY <4>1 DEF ReportsTo
      <4>3. r.stat = proc[p].stat
        BY <4>2 DEF Told
      <4>4. ReportsTo(proc[p], x)
        BY <1>0, <4>1, <4>3 DEF ReportsTo, Acts
      <4> QED
        BY <3>2, <4>4
    <3> QED
      BY <3>3, <3>4
  <2> QED
    BY <2>2, <2>3
<1>4. AllKept
  <2>1. KillKept(p, proc[p], proc'[p])
    BY KillKeptTwice DEF Acts, Told
  <2>2. ASSUME NEW q \in Sleepers \ {p} PROVE KillKept(q, proc[q], proc'[q])
    BY DEF Told, Sees
  <2> QED
    BY <2>1, <2>2 DEF AllKept
<1> QED
  BY <1>1, <1>2, <1>3, <1>4 DEF SleepInv


(* Steps of nobody in the table: an event happens, a second passes.        *)
LEMMA AllSeeKeeps ==
  ASSUME SleepInv, AllSee(proc, proc'), event' \in [EventChans -> BOOLEAN],
         \A q \in Sleepers : proc'[q].wchan # NOCHAN /\ proc'[q].at = "await" =>
           event'[ChanOf[q]] = event[ChanOf[q]]
  PROVE  SleepInv' /\ AllKept
<1>0. /\ EntriesInv /\ EventInv /\ HearInv /\ init \notin Sleepers /\ TableOK(proc)
      /\ \A q \in Sleepers : EntryInv(q, proc[q])
  BY SleepConstants DEF SleepInv, EntriesInv, TableOK
<1>1. EntriesInv'
  <2>1. TableOK(proc')
    BY <1>0, AllSeeOK
  <2>2. TableOK(proc)' <=> TableOK(proc')
    BY DEF TableOK, EntryInv, QueueOK, ActionsOK, CursigOK, StopPasses, Heir, KillRuns, Gone, Timers,
      Unstopped, Alive
  <2> QED
    BY <2>1, <2>2 DEF EntriesInv
<1>2. EventInv'
  <2> SUFFICES ASSUME NEW q \in Sleepers, proc'[q].wchan # NOCHAN, proc'[q].at = "await"
               PROVE  ~event'[ChanOf[q]]
    BY DEF EventInv
  <2>1. proc[q].wchan # NOCHAN /\ proc[q].at = "await"
    BY DEF AllSee, Sees, Touched
  <2> QED
    BY <1>0, <2>1 DEF EventInv
<1>3. HearInv'
  <2> SUFFICES ASSUME NEW x \in Sleepers, Listens(x, proc'[x]), NEW q \in Sleepers, ReportsTo(proc'[q], x)
               PROVE  FALSE
    BY ReportableNext, ListensNext DEF HearInv
  <2>1. x # init
    BY <1>0
  <2>2. Listens(x, proc[x])
    BY <1>0, SeenListens DEF AllSee, Sees
  <2>3. ReportsTo(proc[q], x)
    BY <2>1, SeenReports DEF AllSee, Sees
  <2> QED
    BY <1>0, <2>2, <2>3, ReportableIs DEF HearInv
<1>4. AllKept
  BY DEF AllKept, AllSee, Sees
<1> QED
  BY <1>1, <1>2, <1>3, <1>4 DEF SleepInv

(* The event happens, and who waits for it is woken.                       *)
LEMMA HappensKeeps ==
  ASSUME SleepInv, NEW c \in EventChans, Happens(c)
  PROVE  SleepInv' /\ AllKept
<1>0. TableOK(proc) /\ event \in [EventChans -> BOOLEAN] /\ c \in Chans
  BY DEF SleepInv, EntriesInv, Chans
<1>1. AllSee(proc, proc') /\ \A q \in Sleepers : proc'[q].wchan # c
  BY <1>0, Wakeup1Sees DEF Happens
<1>2. /\ event' \in [EventChans -> BOOLEAN]
      /\ \A d \in EventChans \ {c} : event'[d] = event[d]
  BY <1>0 DEF Happens
<1>3. ASSUME NEW q \in Sleepers, proc'[q].wchan # NOCHAN, proc'[q].at = "await"
      PROVE  event'[ChanOf[q]] = event[ChanOf[q]]
  <2>1. EntryInv(q, proc'[q])
    BY <1>1 DEF AllSee, Sees
  <2>2. proc'[q].wchan = ChanOf[q]
    BY <1>3, <2>1 DEF EntryInv, QueueOK, WaitChan
  <2>3. ChanOf[q] \in EventChans \ {c}
    BY <1>1, <2>2, SleepConstants
  <2> QED
    BY <1>2, <2>3
<1> QED
  BY <1>1, <1>2, <1>3, AllSeeKeeps

(* softclock.                                                              *)
LEMMA ClockStepKeeps ==
  ASSUME SleepInv, ClockInv, ClockStep
  PROVE  SleepInv' /\ AllKept
<1>0. /\ TableOK(proc) /\ event' = event /\ event \in [EventChans -> BOOLEAN]
      /\ proc \in [Sleepers -> ProcRecords] /\ \A q \in Sleepers : EntryInv(q, proc[q])
  BY DEF SleepInv, EntriesInv, TableOK, ClockStep, Softclock, ClockLook, ClockAlarm, ClockTsleep
<1>1. CASE proc' = proc
  <2>1. AllSee(proc, proc')
    BY <1>0, <1>1, SeesNothing DEF AllSee
  <2> QED
    BY <1>0, <2>1, AllSeeKeeps
<1>2. ASSUME NEW r, clock.pp \in Sleepers, Sees(clock.pp, proc[clock.pp], r),
             proc' = [proc EXCEPT ![clock.pp] = r]
      PROVE  SleepInv' /\ AllKept
  <2>1. r \in ProcRecords
    BY <1>2 DEF Sees, EntryInv
  <2>2. ASSUME NEW q \in Sleepers PROVE Sees(q, proc[q], proc'[q])
    BY <1>0, <1>2, SeesNothing
  <2>3. proc' \in [Sleepers -> ProcRecords]
    BY <1>0, <1>2, <2>1
  <2>4. AllSee(proc, proc')
    BY <2>2, <2>3 DEF AllSee
  <2> QED
    BY <1>0, <2>4, AllSeeKeeps
<1>3. CASE Softclock \/ \E p \in Sleepers : ClockLook(p)
  BY <1>1, <1>3 DEF Softclock, ClockLook
<1>4. CASE ClockAlarm
  <2>1. clock.pp \in Sleepers /\ proc' = [proc EXCEPT ![clock.pp] = RunClktim(proc[clock.pp])]
    BY <1>4 DEF ClockAlarm, ClockInv
  <2>2. Sees(clock.pp, proc[clock.pp], RunClktim(proc[clock.pp]))
    BY <1>0, <2>1, RunClktimSees
  <2> QED
    BY <1>2, <2>1, <2>2
<1>5. CASE ClockTsleep
  <2>1. /\ clock.pp \in Sleepers /\ Bumped(clock.pp, clock.a, proc[clock.pp].stat)
        /\ proc' = [proc EXCEPT ![clock.pp] = RunTsleep(proc[clock.pp], clock.a)]
    BY <1>5 DEF ClockTsleep, ClockInv
  <2>2. Sees(clock.pp, proc[clock.pp], RunTsleep(proc[clock.pp], clock.a))
    BY <1>0, <2>1, RunTsleepSees
  <2> QED
    BY <1>2, <2>1, <2>2
<1> QED
  BY <1>3, <1>4, <1>5 DEF ClockStep

(* A signal: one that may stop the process if any process sends such.      *)
LEMMA SignalKeeps ==
  ASSUME SleepInv, NEW p \in Sleepers, NEW s \in Sigs, Signal(p, s)
  PROVE  SleepInv' /\ AllKept
<1> DEFINE r == Psignal(proc[p], s)
<1>0. /\ EntryInv(p, proc[p]) /\ proc[p] \in ProcRecords /\ event' = event
      /\ event \in [EventChans -> BOOLEAN] /\ EventInv /\ HearInv /\ EntriesInv
      /\ SetProc(p, r) /\ ChanOf \in [Sleepers -> EventChans] /\ s \in Senders[p]
  BY SleepConstants DEF SleepInv, EntriesInv, TableOK, EntryInv, Signal
<1>1. EntryInv(p, r)
  BY <1>0, PsignalEntry DEF MaySend
<1>2. /\ Kept(proc[p], r) /\ r.wchan \in {proc[p].wchan, NOCHAN}
      /\ proc[p].stat = "SSTOP" /\ r.stat = "SSTOP" => r.swted = proc[p].swted
  BY <1>0, PsignalFrame
<1>3. KillKept(p, proc[p], r)
  BY <1>0, PsignalKill
<1>4. Listens(p, r) => \A q \in Sleepers : ~Reportable(q, p)
  <2> SUFFICES ASSUME Listens(p, r) PROVE Listens(p, proc[p])
    BY <1>0 DEF HearInv
  <2>1. s \in Sigs \ Stops
    BY <1>0 DEF Listens
  <2>2. Touched(proc[p], r)
    BY <1>0, <2>1, PsignalSees DEF Sees
  <2> QED
    BY <1>0, <2>2, SeenListens
<1> HIDE DEF r
<1>5. r.wchan # NOCHAN /\ r.at = "await" => ~event'[ChanOf[p]]
  BY <1>0, <1>2 DEF Kept, EventInv
<1>6. Acts(p, r)
  BY <1>0, <1>1, <1>2, <1>3, <1>4, <1>5 DEF Acts, Kept
<1> QED
  BY <1>0, <1>6, SetProcTold, ToldKeeps


-----------------------------------------------------------------------------
(* The steps a process takes on the processor.  It runs on, or gives the   *)
(* processor up off the sleep queue:                                       *)
LEMMA RunsOn ==
  ASSUME SleepInv, NEW p \in Sleepers, proc[p].stat = "SRUN", NEW r, EntryInv(p, r),
         r.pptr = proc[p].pptr, r.wchan = NOCHAN, ~Listens(p, r), KillKept(p, proc[p], r),
         event' \in [EventChans -> BOOLEAN], \A c \in EventChans : event'[c] => event[c]
  PROVE  Acts(p, r)
BY DEF Acts

(* A process that moves on, in a step that nobody hears of.                *)
LEMMA MovesKeeps ==
  ASSUME SleepInv, NEW p \in Sleepers, NEW at, MayMove(p, proc[p], at),
         at = "scanned" => \A q \in Sleepers : ~Reportable(q, p),
         event' \in [EventChans -> BOOLEAN], \A c \in EventChans : event'[c] => event[c],
         \/ proc' = [proc EXCEPT ![p] = [proc[p] EXCEPT !.at = at]]
         \/ SetProc(p, [proc[p] EXCEPT !.at = at])
  PROVE  SleepInv' /\ AllKept
<1> DEFINE r == [proc[p] EXCEPT !.at = at]
<1>1. /\ EntryInv(p, r) /\ r.at = at /\ r.stat = "SRUN" /\ r.wchan = NOCHAN
      /\ r.usig = proc[p].usig /\ r.pptr = proc[p].pptr /\ r.sig = proc[p].sig /\ r.cursig = proc[p].cursig
  BY MovesEntry
<1>2. proc' = [proc EXCEPT ![p] = r] \/ SetProc(p, r)
  OBVIOUS
<1> HIDE DEF r
<1>3. EntriesInv /\ proc[p].stat = "SRUN"
  BY DEF SleepInv, MayMove
<1>4. Acts(p, r)
  BY <1>1, <1>3 DEF Acts, Listens, Deaf, KillKept, KillDue
<1>5. Told(p, r)
  BY <1>1, <1>2, <1>3, <1>4, SetProcTold, PutTold
<1> QED
  BY <1>4, <1>5, ToldKeeps

(* What a process on the processor has in its entry.                       *)
LEMMA RunnerIs ==
  ASSUME SleepInv, NEW p \in Sleepers, OnProcessor(p)
  PROVE  /\ EntryInv(p, proc[p]) /\ proc[p].stat = "SRUN" /\ proc[p].wchan = NOCHAN
         /\ proc[p] \in ProcRecords /\ EntriesInv /\ EventInv /\ HearInv
         /\ proc \in [Sleepers -> ProcRecords] /\ event \in [EventChans -> BOOLEAN]
         /\ proc[p].at = "user" => proc[p].cursig = NOSIG
         /\ proc[p].cursig = "KILL" /\ "drain" \notin SysCalls[p] => proc[p].at = "exit"
BY DEF SleepInv, EntriesInv, TableOK, EntryInv, OnProcessor, QueueOK, Alive, CursigOK, KillRuns

(* The calls begin, and a trap.                                            *)
LEMMA AwaitKeeps ==
  ASSUME SleepInv, NEW p \in Sleepers, Await(p)
  PROVE  SleepInv' /\ AllKept
<1>1. proc' = [proc EXCEPT ![p] = [proc[p] EXCEPT !.at = "test"]] /\ event' = event /\ OnProcessor(p)
  BY DEF Await
<1>2. MayMove(p, proc[p], "test")
  BY <1>1, RunnerIs DEF Await, MayMove, Waiting, NOSIG
<1> QED
  BY <1>1, <1>2, RunnerIs, MovesKeeps

LEMMA WaitKeeps ==
  ASSUME SleepInv, NEW p \in Sleepers, Wait(p)
  PROVE  SleepInv' /\ AllKept
<1>1. proc' = [proc EXCEPT ![p] = [proc[p] EXCEPT !.at = "scan"]] /\ event' = event /\ OnProcessor(p)
  BY DEF Wait
<1>2. MayMove(p, proc[p], "scan")
  BY <1>1, RunnerIs DEF Wait, MayMove, Waiting, NOSIG
<1> QED
  BY <1>1, <1>2, RunnerIs, MovesKeeps

LEMMA UserTrapKeeps ==
  ASSUME SleepInv, NEW p \in Sleepers, UserTrap(p)
  PROVE  SleepInv' /\ AllKept
<1>1. proc' = [proc EXCEPT ![p] = [proc[p] EXCEPT !.at = "exit"]] /\ event' = event /\ OnProcessor(p)
  BY DEF UserTrap
<1>2. MayMove(p, proc[p], "exit")
  BY <1>1, RunnerIs DEF UserTrap, MayMove, Waiting
<1> QED
  BY <1>1, <1>2, RunnerIs, MovesKeeps

(* The test of the event, and the sleep if it has not happened.            *)
LEMMA AwaitTestKeeps ==
  ASSUME SleepInv, NEW p \in Sleepers, AwaitTest(p)
  PROVE  SleepInv' /\ AllKept
<1> DEFINE c == ChanOf[p]
<1>0. /\ OnProcessor(p) /\ proc[p].at = "test" /\ c \in EventChans /\ MaxSecs \in Nat \ {0}
      /\ SysCalls[p] \subseteq {"await", "timed", "wait", "drain", "alarm"}
  BY SleepConstants DEF AwaitTest
<1>1. CASE event[c]
  <2>1. event' = [event EXCEPT ![c] = FALSE] /\ SetProc(p, [proc[p] EXCEPT !.at = "exit"])
    BY <1>1 DEF AwaitTest
  <2>2. event' \in [EventChans -> BOOLEAN] /\ \A d \in EventChans : event'[d] => event[d]
    BY <1>0, <2>1, RunnerIs
  <2>3. MayMove(p, proc[p], "exit")
    BY <1>0, RunnerIs DEF MayMove, Waiting
  <2> QED
    BY <2>1, <2>2, <2>3, MovesKeeps
<1>2. CASE ~event[c]
  <2>1. PICK interruptible \in BOOLEAN :
          \E secs \in IF interruptible /\ "timed" \in SysCalls[p] THEN 0 .. MaxSecs ELSE {0} :
            SetProc(p, FallAsleep(proc[p], c, interruptible, secs, "await"))
    BY <1>2 DEF AwaitTest
  <2>2. PICK secs \in IF interruptible /\ "timed" \in SysCalls[p] THEN 0 .. MaxSecs ELSE {0} :
          SetProc(p, FallAsleep(proc[p], c, interruptible, secs, "await"))
    BY <2>1
  <2>3. event' = event
    BY <1>2 DEF AwaitTest
  <2> DEFINE r == FallAsleep(proc[p], c, interruptible, secs, "await")
  <2>4. secs \in 0 .. MaxSecs /\ (secs > 0 => "timed" \in SysCalls[p])
    BY <1>0
  <2>5. GoesToSleep(p, proc[p], c, interruptible, secs, "await")
    BY <1>0, <2>4, RunnerIs DEF GoesToSleep, Waiting, WaitChan, TimedSleeper
  <2>6. /\ EntryInv(p, r) /\ r.usig = proc[p].usig /\ r.pptr = proc[p].pptr
        /\ r.at \in {"exit", "drained", "await"}
        /\ "drain" \notin SysCalls[p] /\ KillDue(proc[p]) => KillDue(r)
    BY <2>5, FallAsleepEntry
  <2>7. SetProc(p, r)
    BY <2>2
  <2> HIDE DEF r
  <2>8. Acts(p, r)
    BY <1>0, <1>2, <2>3, <2>6, RunnerIs DEF Acts, Listens, Deaf, KillKept, OnProcessor
  <2> QED
    BY <2>7, <2>8, RunnerIs, <1>0, SetProcTold, ToldKeeps
<1> QED
  BY <1>1, <1>2

(* wait scans the table: it reports a child, or finds none to report.      *)
LEMMA WaitScanKeeps ==
  ASSUME SleepInv, NEW p \in Sleepers, WaitScan(p), \A q \in Sleepers : ~Reportable(q, p)
  PROVE  SleepInv' /\ AllKept
<1> DEFINE at == IF \E q \in Sleepers : proc[q].pptr = p THEN "scanned" ELSE "exit"
<1>1. /\ proc' = [proc EXCEPT ![p] = [proc[p] EXCEPT !.at = at]] /\ event' = event
      /\ OnProcessor(p) /\ proc[p].at = "scan"
  BY DEF WaitScan
<1>2. at \in {"scanned", "exit"}
  OBVIOUS
<1> HIDE DEF at
<1>3. MayMove(p, proc[p], at)
  BY <1>1, <1>2, RunnerIs DEF MayMove, Waiting, NOSIG
<1> QED
  BY <1>1, <1>3, RunnerIs, MovesKeeps

(* It goes to sleep, unless SIGCHLD has come in between and is handled.    *)
LEMMA WaitSleepKeeps ==
  ASSUME SleepInv, NEW p \in Sleepers, WaitSleep(p)
  PROVE  SleepInv' /\ AllKept
<1> DEFINE yes == TRUE
<1> DEFINE r == FallAsleep(proc[p], p, yes, 0, "wait")
<1>0. /\ OnProcessor(p) /\ proc[p].at = "scanned" /\ event' = event /\ SetProc(p, r)
      /\ MaxSecs \in Nat \ {0} /\ yes \in BOOLEAN /\ yes
  BY SleepConstants DEF WaitSleep
<1> HIDE DEF yes
<1>1. GoesToSleep(p, proc[p], p, yes, 0, "wait")
  BY <1>0, RunnerIs DEF GoesToSleep, Waiting, WaitChan
<1>2. /\ EntryInv(p, r) /\ r.usig = proc[p].usig /\ r.pptr = proc[p].pptr
      /\ r.at \in {"exit", "drained", "wait"}
      /\ r.stat = "SSLEEP" /\ Handles(proc[p]) /\ "CHLD" \in proc[p].sig => ~yes
      /\ "drain" \notin SysCalls[p] /\ KillDue(proc[p]) => KillDue(r)
  BY <1>1, FallAsleepEntry
<1> HIDE DEF r
<1>3. Listens(p, r) => \A q \in Sleepers : ~Reportable(q, p)
  <2> SUFFICES ASSUME Listens(p, r) PROVE Listens(p, proc[p])
    BY <1>0, RunnerIs DEF HearInv
  <2>1. Handles(proc[p]) /\ r.stat = "SSLEEP"
    BY <1>2 DEF Listens, Handles, Deaf
  <2> QED
    BY <1>0, <1>2, <2>1 DEF Listens, Deaf, OnProcessor
<1>4. Acts(p, r)
  BY <1>0, <1>2, <1>3, RunnerIs DEF Acts, KillKept, OnProcessor
<1> QED
  BY <1>0, <1>4, RunnerIs, SetProcTold, ToldKeeps


(* wait reports a child: a zombie is gone, a stopped child is reported.    *)
LEMMA WaitReportKeeps ==
  ASSUME SleepInv, NEW p \in Sleepers, WaitScan(p), \E q \in Sleepers : Reportable(q, p)
  PROVE  SleepInv' /\ AllKept
<1>0. /\ OnProcessor(p) /\ proc[p].at = "scan" /\ event' = event
      /\ proc \in [Sleepers -> ProcRecords] /\ EntriesInv /\ EventInv /\ HearInv /\ TableOK(proc)
      /\ ChanOf \in [Sleepers -> EventChans] /\ init \notin Sleepers /\ event \in [EventChans -> BOOLEAN]
  BY RunnerIs, SleepConstants DEF WaitScan, SleepInv, EntriesInv
<1>1. PICK c \in Sleepers :
        /\ Reportable(c, p)
        /\ proc' = [proc EXCEPT ![p].at = "exit", ![c].swted = TRUE,
                      ![c].stat = IF @ = "SZOMB" THEN "NULL" ELSE @,
                      ![c].pptr = IF proc[c].stat = "SZOMB" THEN init ELSE @]
  BY DEF WaitScan
<1>2. /\ c # p /\ proc[c].pptr = p /\ proc[c].stat \in {"SZOMB", "SSTOP"}
      /\ EntryInv(c, proc[c]) /\ PParent[c] # init
  BY <1>0, <1>1 DEF Reportable, OnProcessor, TableOK
<1> DEFINE r == [proc[p] EXCEPT !.at = "exit"]
<1> DEFINE k == [proc[c] EXCEPT !.swted = TRUE, !.stat = IF @ = "SZOMB" THEN "NULL" ELSE @,
                                !.pptr = IF proc[c].stat = "SZOMB" THEN init ELSE @]
<1>3. proc' = [proc EXCEPT ![p] = r, ![c] = k]
  BY <1>0, <1>1, <1>2
<1>4. /\ EntryInv(p, r) /\ r.stat = "SRUN" /\ r.wchan = NOCHAN /\ r.pptr = proc[p].pptr /\ r.at = "exit"
      /\ r.sig = proc[p].sig /\ r.cursig = proc[p].cursig
  <2>1. MayMove(p, proc[p], "exit")
    BY <1>0, RunnerIs DEF MayMove, Waiting
  <2> QED
    BY <2>1, MovesEntry
<1>5. /\ EntryInv(c, k) /\ k.stat \in {"NULL", "SSTOP"} /\ k.swted /\ k.pptr \in {proc[c].pptr, init}
      /\ k.wchan = proc[c].wchan /\ k.at = proc[c].at
      /\ KillKept(c, proc[c], k)
  BY <1>2, ReportedEntry
<1> HIDE DEF r, k
<1>6. /\ proc' \in [Sleepers -> ProcRecords] /\ proc'[p] = r /\ proc'[c] = k
      /\ \A q \in Sleepers \ {p, c} : proc'[q] = proc[q]
  BY <1>0, <1>2, <1>3, <1>4, <1>5 DEF EntryInv
<1>7. EntriesInv'
  <2>1. ASSUME NEW q \in Sleepers PROVE EntryInv(q, proc'[q]) /\ proc'[q].pptr \in {PParent[q], init}
    BY <1>0, <1>2, <1>4, <1>5, <1>6 DEF TableOK
  <2>2. TableOK(proc')
    BY <1>6, <2>1 DEF TableOK
  <2>3. TableOK(proc)' <=> TableOK(proc')
    BY DEF TableOK, EntryInv, QueueOK, ActionsOK, CursigOK, StopPasses, Heir, KillRuns, Gone, Timers,
      Unstopped, Alive
  <2> QED
    BY <1>0, <2>2, <2>3 DEF EntriesInv
<1>8. EventInv'
  <2> SUFFICES ASSUME NEW q \in Sleepers, proc'[q].wchan # NOCHAN, proc'[q].at = "await"
               PROVE  ~event'[ChanOf[q]]
    BY DEF EventInv
  <2>1. proc[q].wchan # NOCHAN /\ proc[q].at = "await"
    BY <1>4, <1>5, <1>6
  <2> QED
    BY <1>0, <2>1 DEF EventInv
<1>9. HearInv'
  <2> SUFFICES ASSUME NEW x \in Sleepers, Listens(x, proc'[x]), NEW q \in Sleepers, ReportsTo(proc'[q], x)
               PROVE  FALSE
    BY ReportableNext, ListensNext DEF HearInv
  <2>1. x # p /\ x # c
    BY <1>4, <1>5, <1>6 DEF Listens, Deaf
  <2>2. q # p /\ q # c
    BY <1>4, <1>5, <1>6 DEF ReportsTo
  <2> QED
    BY <1>0, <1>6, <2>1, <2>2, ReportableIs DEF HearInv
<1>10. AllKept
  <2>1. KillKept(p, proc[p], r)
    BY <1>4 DEF KillKept, KillDue
  <2>2. ASSUME NEW q \in Sleepers \ {p, c} PROVE KillKept(q, proc[q], proc'[q])
    BY <1>6 DEF KillKept
  <2> QED
    BY <1>5, <1>6, <2>1, <2>2 DEF AllKept
<1> QED
  BY <1>7, <1>8, <1>9, <1>10 DEF SleepInv

(* A close drains the output.                                              *)
LEMMA DrainKeeps ==
  ASSUME SleepInv, NEW p \in Sleepers, Drain(p)
  PROVE  SleepInv' /\ AllKept
<1>0. /\ OnProcessor(p) /\ event' = event /\ "drain" \in SysCalls[p] /\ MaxSecs \in Nat \ {0}
  BY SleepConstants DEF Drain
<1>1. CASE proc[p].at = "user" /\ SetProc(p, [proc[p] EXCEPT !.at = "drained"])
  <2>1. MayMove(p, proc[p], "drained")
    BY <1>0, <1>1, RunnerIs DEF MayMove, Waiting
  <2> QED
    BY <1>0, <1>1, <2>1, RunnerIs, MovesKeeps
<1>2. CASE proc[p].at = "drained" /\ SetProc(p, FallAsleep(proc[p], ChanOf[p], TRUE, 1, "drain"))
  <2> DEFINE yes == TRUE
  <2> DEFINE r == FallAsleep(proc[p], ChanOf[p], yes, 1, "drain")
  <2>0. yes \in BOOLEAN /\ SetProc(p, r)
    BY <1>2
  <2> HIDE DEF yes
  <2>1. GoesToSleep(p, proc[p], ChanOf[p], yes, 1, "drain")
    BY <1>0, <1>2, <2>0, RunnerIs DEF GoesToSleep, Waiting, WaitChan, TimedSleeper
  <2>2. /\ EntryInv(p, r) /\ r.usig = proc[p].usig /\ r.pptr = proc[p].pptr
        /\ r.at \in {"exit", "drained", "drain"}
    BY <2>1, FallAsleepEntry
  <2> HIDE DEF r
  <2>4. Acts(p, r)
    BY <1>0, <2>2, RunnerIs DEF Acts, KillKept, OnProcessor, Listens, Deaf
  <2> QED
    BY <1>0, <2>0, <2>4, RunnerIs, SetProcTold, ToldKeeps
<1>3. CASE proc[p].at = "drained" /\ SetProc(p, [proc[p] EXCEPT !.at = "exit"])
  <2>1. MayMove(p, proc[p], "exit")
    BY <1>0, <1>3, RunnerIs DEF MayMove, Waiting
  <2> QED
    BY <1>0, <1>3, <2>1, RunnerIs, MovesKeeps
<1> QED
  BY <1>1, <1>2, <1>3 DEF Drain

(* A process returns from its sleep, or from a system call or trap.        *)
LEMMA ResumeKeeps ==
  ASSUME SleepInv, NEW p \in Sleepers, Resume(p)
  PROVE  SleepInv' /\ AllKept
<1> DEFINE r == WakeUp(proc[p])
<1>0. OnProcessor(p) /\ event' = event /\ SetProc(p, r) /\ proc[p].at \in Waiting
  BY DEF Resume, Waiting
<1>1. /\ EntryInv(p, r) /\ r.pptr = proc[p].pptr /\ r.wchan = NOCHAN
      /\ r.stat \in {"SRUN", "SSTOP"} /\ r.at # "scanned"
      /\ "drain" \notin SysCalls[p] /\ KillDue(proc[p]) => KillDue(r)
  BY <1>0, RunnerIs, WakeUpEntry
<1> HIDE DEF r
<1>2. Acts(p, r)
  BY <1>0, <1>1, RunnerIs DEF Acts, KillKept, OnProcessor, Listens, Deaf
<1> QED
  BY <1>0, <1>2, RunnerIs, SetProcTold, ToldKeeps

LEMMA TrapExitKeeps ==
  ASSUME SleepInv, NEW p \in Sleepers, TrapExit(p)
  PROVE  SleepInv' /\ AllKept
<1>0. OnProcessor(p) /\ event' = event
  BY DEF TrapExit
<1>1. PICK r : /\ SetProc(p, r) /\ EntryInv(p, r) /\ r.pptr = proc[p].pptr /\ r.wchan = NOCHAN
               /\ r.at \in {"user", "issig"} /\ r.stat \in {"SRUN", "SSTOP", "SZOMB"}
               /\ "drain" \notin SysCalls[p] /\ KillDue(proc[p]) => KillDue(r) \/ r.stat = "SZOMB"
  <2>1. CASE proc[p].at = "exit" /\ SetProc(p, TrapEnd(proc[p]))
    BY <1>0, <2>1, RunnerIs, TrapEndEntry
  <2>2. CASE proc[p].at = "issig" /\ SetProc(p, SignalsTaken(proc[p]))
    <3>1. "drain" \notin SysCalls[p] /\ KillDue(proc[p]) => "KILL" \in proc[p].sig
      BY <1>0, <2>2, RunnerIs DEF KillDue
    <3> QED
      BY <1>0, <2>2, <3>1, RunnerIs, SignalsTakenEntry
  <2> QED
    BY <2>1, <2>2 DEF TrapExit
<1>2. Acts(p, r)
  BY <1>0, <1>1, RunnerIs DEF Acts, KillKept, OnProcessor, Listens, Deaf
<1> QED
  BY <1>0, <1>1, <1>2, RunnerIs, SetProcTold, ToldKeeps

(* signal and alarm.                                                       *)
LEMMA SsigKeeps ==
  ASSUME SleepInv, NEW p \in Sleepers, Ssig(p)
  PROVE  SleepInv' /\ AllKept
<1>0. OnProcessor(p) /\ event' = event /\ proc[p].at = "user" /\ Settings[p] \subseteq Sigs \X Actions
  BY SleepConstants DEF Ssig
<1>1. PICK setting \in Settings[p] :
        LET s == setting[1]
            a == setting[2]
            r == IF proc[p].usig[s] = "IGN" THEN Forget(proc[p], s) ELSE proc[p] IN
        /\ s \notin {"KILL", "STOP"}
        /\ proc' = [proc EXCEPT ![p] = [r EXCEPT !.siga[s] = IF a = "DEFER" THEN "CATCH" ELSE a,
                                                 !.usig[s] = a, !.at = "exit"]]
  BY DEF Ssig
<1> DEFINE s == setting[1]
<1> DEFINE a == setting[2]
<1> DEFINE r == IF proc[p].usig[s] = "IGN" THEN Forget(proc[p], s) ELSE proc[p]
<1> DEFINE q == [r EXCEPT !.siga[s] = IF a = "DEFER" THEN "CATCH" ELSE a, !.usig[s] = a, !.at = "exit"]
<1>2. s \in Sigs \ {"KILL", "STOP"} /\ a \in Actions /\ r \in {proc[p], Forget(proc[p], s)}
  BY <1>0, <1>1
<1>3. proc' = [proc EXCEPT ![p] = q]
  BY <1>1
<1>4. /\ EntryInv(p, q) /\ q.stat = "SRUN" /\ q.at = "exit" /\ q.wchan = NOCHAN /\ q.pptr = proc[p].pptr
      /\ KillKept(p, proc[p], q)
  <2>1. EntryInv(p, proc[p]) /\ proc[p].stat = "SRUN"
    BY <1>0, RunnerIs
  <2>2. MaySet(p, proc[p], s, a, r)
    BY <1>0, <1>2, <2>1 DEF MaySet
  <2> HIDE DEF r, s, a
  <2> QED
    BY <2>2, SsigEntry
<1> HIDE DEF q
<1>5. Acts(p, q)
  BY <1>0, <1>4, RunnerIs DEF Acts, Listens, Deaf
<1> QED
  BY <1>0, <1>3, <1>4, <1>5, RunnerIs, PutTold, ToldKeeps

LEMMA AlarmKeeps ==
  ASSUME SleepInv, NEW p \in Sleepers, Alarm(p)
  PROVE  SleepInv' /\ AllKept
<1>0. OnProcessor(p) /\ event' = event /\ proc[p].at = "user" /\ "alarm" \in SysCalls[p]
  BY DEF Alarm
<1>1. PICK secs \in 0 .. MaxSecs : proc' = [proc EXCEPT ![p].clktim = secs, ![p].at = "exit"]
  BY DEF Alarm
<1> DEFINE q == [proc[p] EXCEPT !.clktim = secs, !.at = "exit"]
<1>2. proc' = [proc EXCEPT ![p] = q]
  BY <1>0, <1>1, RunnerIs
<1>3. /\ EntryInv(p, q) /\ q.stat = "SRUN" /\ q.at = "exit" /\ q.wchan = NOCHAN /\ q.pptr = proc[p].pptr
      /\ KillKept(p, proc[p], q)
  BY <1>0, RunnerIs, AlarmEntry
<1> HIDE DEF q
<1>4. Acts(p, q)
  BY <1>0, <1>3, RunnerIs DEF Acts, Listens, Deaf
<1> QED
  BY <1>0, <1>2, <1>3, <1>4, RunnerIs, PutTold, ToldKeeps


-----------------------------------------------------------------------------
(* The processes as they begin.                                            *)
LEMMA SleepInitInv ==
  ASSUME SleepInit
  PROVE  SleepInv
<1>0. /\ proc = [p \in Sleepers |-> NewProc(p)] /\ event = [c \in EventChans |-> FALSE]
      /\ PParent \in [Sleepers -> Sleepers \cup {init}] /\ MaxSecs \in Nat \ {0}
      /\ ChanOf \in [Sleepers -> EventChans]
  BY SleepConstants DEF SleepInit
<1>1. ASSUME NEW p \in Sleepers PROVE EntryInv(p, NewProc(p)) /\ NewProc(p).pptr = PParent[p]
  <2> DEFINE r == NewProc(p)
  <2> DEFINE dfl == [s \in Sigs |-> "DFL"]
  <2>1. dfl \in [Sigs -> Actions] /\ \A s \in Sigs : dfl[s] = "DFL"
    BY DEF Actions
  <2>2. r = [stat |-> "SRUN", wchan |-> NOCHAN, intr |-> FALSE, sig |-> {}, cursig |-> NOSIG,
             siga |-> dfl, usig |-> dfl, tsleep |-> 0, clktim |-> 0, stimo |-> FALSE, at |-> "user",
             pptr |-> PParent[p], swted |-> FALSE]
    BY DEF NewProc
  <2> HIDE DEF dfl
  <2>3. r \in ProcRecords
    BY <1>0, <2>1, <2>2 DEF ProcRecords
  <2>4. /\ r.stat = "SRUN" /\ r.wchan = NOCHAN /\ r.sig = {} /\ r.cursig = NOSIG /\ r.siga = dfl
        /\ r.usig = dfl /\ r.tsleep = 0 /\ r.clktim = 0 /\ r.at = "user" /\ r.pptr = PParent[p]
    BY <2>2
  <2> HIDE DEF r
  <2>5. ActionsOK(r)
    BY <2>1, <2>4, TheSignals DEF ActionsOK, AgreesWith
  <2>6. QueueOK(p, r) /\ CursigOK(r) /\ StopPasses(r) /\ KillRuns(r) /\ Timers(p, r) /\ Unstopped(p, r)
    BY <2>4 DEF QueueOK, CursigOK, StopPasses, Heir, KillRuns, Timers, Unstopped, NOSIG, Stops
  <2>7. EntryInv(p, r) /\ r.pptr = PParent[p]
    BY <2>3, <2>4, <2>5, <2>6 DEF EntryInv
  <2> QED
    BY <2>7 DEF r
<1>2. \A p \in Sleepers : NewProc(p).wchan = NOCHAN /\ NewProc(p).stat = "SRUN" /\ NewProc(p).at = "user"
  BY DEF NewProc
<1>3. TableOK(proc)
  <2>1. proc \in [Sleepers -> ProcRecords]
    BY <1>0, <1>1 DEF EntryInv
  <2> QED
    BY <1>0, <1>1, <2>1 DEF TableOK
<1>4. EntriesInv
  BY <1>0, <1>3 DEF EntriesInv
<1>5. EventInv
  BY <1>0, <1>2 DEF EventInv
<1>6. HearInv
  BY <1>0, <1>2 DEF HearInv, Listens, Deaf
<1> QED
  BY <1>4, <1>5, <1>6 DEF SleepInv

(* Every step keeps the invariant, and a SIGKILL that is due.              *)
LEMMA SleepStepInv ==
  ASSUME SleepInv, ClockInv, [SleepNext]_sleepVars
  PROVE  SleepInv' /\ AllKept
<1>1. CASE UNCHANGED sleepVars
  <2>1. proc' = proc /\ event' = event
    BY <1>1 DEF sleepVars
  <2>2. AllSee(proc, proc')
    BY <2>1, SeesNothing DEF SleepInv, EntriesInv, TableOK, AllSee
  <2>3. event' \in [EventChans -> BOOLEAN]
    BY <2>1 DEF SleepInv, EntriesInv
  <2> QED
    BY <2>1, <2>2, <2>3, AllSeeKeeps
<1>2. ASSUME NEW p \in Sleepers, SleepStep(p) PROVE SleepInv' /\ AllKept
  <2>1. CASE Await(p)
    BY <2>1, AwaitKeeps
  <2>2. CASE AwaitTest(p)
    BY <2>2, AwaitTestKeeps
  <2>3. CASE Wait(p)
    BY <2>3, WaitKeeps
  <2>4. CASE WaitScan(p)
    <3>1. CASE \E q \in Sleepers : Reportable(q, p)
      BY <2>4, <3>1, WaitReportKeeps
    <3>2. CASE \A q \in Sleepers : ~Reportable(q, p)
      BY <2>4, <3>2, WaitScanKeeps
    <3> QED
      BY <3>1, <3>2
  <2>5. CASE WaitSleep(p)
    BY <2>5, WaitSleepKeeps
  <2>6. CASE Drain(p)
    BY <2>6, DrainKeeps
  <2>7. CASE Resume(p)
    BY <2>7, ResumeKeeps
  <2>8. CASE TrapExit(p)
    BY <2>8, TrapExitKeeps
  <2>9. CASE UserTrap(p)
    BY <2>9, UserTrapKeeps
  <2>10. CASE Ssig(p)
    BY <2>10, SsigKeeps
  <2>11. CASE Alarm(p)
    BY <2>11, AlarmKeeps
  <2> QED
    BY <1>2, <2>1, <2>2, <2>3, <2>4, <2>5, <2>6, <2>7, <2>8, <2>9, <2>10, <2>11 DEF SleepStep
<1>3. ASSUME NEW p \in Sleepers, NEW s \in Sigs, Signal(p, s) PROVE SleepInv' /\ AllKept
  BY <1>3, SignalKeeps
<1>4. ASSUME NEW c \in EventChans, Happens(c) PROVE SleepInv' /\ AllKept
  BY <1>4, HappensKeeps
<1>5. CASE ClockStep
  BY <1>5, ClockStepKeeps
<1> QED
  BY <1>1, <1>2, <1>3, <1>4, <1>5 DEF SleepNext

(* softclock's look at an entry stays good, but for interrupts.            *)
LEMMA ClockHeld ==
  ASSUME ClockInv, clock' = clock,
         clock.at # "idle" => \A q \in Sleepers : Bumped(q, proc[q].stat, proc'[q].stat)
  PROVE  ClockInv'
<1> SUFFICES ASSUME clock.at \in {"alarm", "tsleep"}
             PROVE  Bumped(clock.pp, clock.a, proc'[clock.pp].stat)
  BY DEF ClockInv, Bumped
<1> QED
  BY DEF ClockInv, Bumped

LEMMA InterruptBumps ==
  ASSUME SleepInv, NEW p \in Sleepers, NEW s \in Sigs, Signal(p, s), clock.at # "idle",
         NEW q \in Sleepers
  PROVE  Bumped(q, proc[q].stat, proc'[q].stat)
<1> DEFINE r == Psignal(proc[p], s)
<1> DEFINE P == [proc EXCEPT ![p] = r]
<1>0. /\ TableOK(proc) /\ EntryInv(p, proc[p]) /\ proc[p] \in ProcRecords
      /\ proc \in [Sleepers -> ProcRecords] /\ s \in Senders[p] /\ s \in {"HUP", "INT", "TSTP"}
      /\ SetProc(p, r)
  BY DEF SleepInv, EntriesInv, TableOK, EntryInv, Signal
<1>1. Bumped(p, proc[p].stat, r.stat)
  BY <1>0, PsignalBumps
<1>2. EntryInv(p, r) /\ r \in ProcRecords /\ r.pptr = proc[p].pptr
  BY <1>0, PsignalEntry, PsignalFrame DEF MaySend, EntryInv, Kept
<1> HIDE DEF r
<1>3. P[p] = r /\ \A x \in Sleepers \ {p} : P[x] = proc[x]
  BY <1>0
<1>4. TableOK(P)
  BY <1>0, <1>2, <1>3 DEF TableOK
<1>5. Bumped(q, proc[q].stat, P[q].stat)
  BY <1>1, <1>3 DEF Bumped
<1>6. proc' = P \/ proc' = TellParent(P, r.pptr)
  <2>1. r.stat = "SZOMB" => proc[p].stat = "SZOMB"
    BY <1>1 DEF Bumped
  <2> QED
    BY <1>0, <2>1 DEF SetProc
<1>7. r.pptr \in Sleepers \cup {init}
  BY <1>2 DEF ProcRecords
<1> HIDE DEF P
<1>8. CASE proc' = P
  BY <1>5, <1>8
<1>9. CASE proc' = TellParent(P, r.pptr)
  <2>1. Bumped(q, P[q].stat, proc'[q].stat)
    BY <1>4, <1>7, <1>9, TellParentBumps
  <2> QED
    BY <1>5, <2>1 DEF Bumped
<1> QED
  BY <1>6, <1>8, <1>9

LEMMA ClockStepInv ==
  ASSUME SleepInv, ClockInv, [SleepNext]_sleepVars
  PROVE  ClockInv'
<1>0. TableOK(proc) /\ proc \in [Sleepers -> ProcRecords] /\ init \notin Sleepers
  BY SleepConstants DEF SleepInv, EntriesInv, TableOK
<1>1. CASE UNCHANGED sleepVars
  BY <1>1, ClockHeld DEF sleepVars, Bumped
<1>2. ASSUME NEW p \in Sleepers, SleepStep(p) PROVE ClockInv'
  <2>1. clock' = clock /\ clock.at = "idle"
    BY <1>2 DEF SleepStep, Await, AwaitTest, Wait, WaitScan, WaitSleep, Drain, Resume, TrapExit, UserTrap,
      Ssig, Alarm, OnProcessor
  <2> QED
    BY <2>1, ClockHeld
<1>3. ASSUME NEW p \in Sleepers, NEW s \in Sigs, Signal(p, s) PROVE ClockInv'
  <2>1. clock' = clock
    BY <1>3 DEF Signal
  <2> QED
    BY <1>3, <2>1, InterruptBumps, ClockHeld
<1>4. ASSUME NEW c \in EventChans, Happens(c) PROVE ClockInv'
  <2>1. clock' = clock /\ proc' = Wakeup1(proc, c) /\ c \in Chans
    BY <1>4 DEF Happens, Chans
  <2> QED
    BY <1>0, <2>1, Wakeup1Bumps, ClockHeld
<1>5. CASE ClockStep
  <2>1. ASSUME NEW left \in SUBSET Sleepers, clock' = Loop(left) PROVE ClockInv'
    BY <2>1 DEF ClockInv, Loop, Clocks
  <2>2. CASE Softclock
    BY <2>1, <2>2 DEF Softclock
  <2>3. ASSUME NEW p \in Sleepers, ClockLook(p) PROVE ClockInv'
    <3>1. /\ clock' = [left |-> clock.left \ {p}, pp |-> p, a |-> proc[p].stat, at |-> "alarm"]
          /\ proc' = proc /\ proc[p].stat \in {"SRUN", "SSLEEP", "SSTOP", "SZOMB", "NULL", "panic"}
          /\ clock.left \subseteq Sleepers
      BY <1>0, <2>3 DEF ClockLook, ClockInv, Clocks, ProcRecords
    <3>2. clock' \in Clocks /\ clock'.pp = p /\ clock'.a = proc[p].stat
      BY <3>1 DEF Clocks
    <3> QED
      BY <3>1, <3>2 DEF ClockInv, Bumped
  <2>4. CASE ClockAlarm
    <3>1. /\ clock.pp \in Sleepers /\ Bumped(clock.pp, clock.a, proc[clock.pp].stat) /\ clock \in Clocks
          /\ clock' = [clock EXCEPT !.at = "tsleep"]
          /\ proc' = [proc EXCEPT ![clock.pp] = RunClktim(proc[clock.pp])]
      BY <2>4 DEF ClockAlarm, ClockInv
    <3>2. clock' \in Clocks /\ clock'.pp = clock.pp /\ clock'.a = clock.a
      BY <3>1 DEF Clocks
    <3>3. Bumped(clock.pp, proc[clock.pp].stat, RunClktim(proc[clock.pp]).stat)
      BY <1>0, <3>1, RunClktimSees DEF TableOK
    <3>4. proc'[clock.pp] = RunClktim(proc[clock.pp])
      BY <1>0, <3>1
    <3> QED
      BY <3>1, <3>2, <3>3, <3>4 DEF ClockInv, Bumped
  <2>5. CASE ClockTsleep
    <3>1. clock' = Loop(clock.left) /\ clock.left \subseteq Sleepers
      BY <2>5 DEF ClockTsleep, ClockInv, Clocks
    <3> QED
      BY <2>1, <3>1
  <2> QED
    BY <1>5, <2>2, <2>3, <2>4, <2>5 DEF ClockStep
<1> QED
  BY <1>1, <1>2, <1>3, <1>4, <1>5 DEF SleepNext

(* The invariant of the process table, the sleep queue and softclock.      *)
THEOREM SleepInvariant == SleepSpec => [](SleepInv /\ ClockInv)
<1>1. SleepInit => SleepInv /\ ClockInv
  <2>1. SleepInit => ClockInv
    BY DEF SleepInit, ClockInv, Clocks, Loop
  <2> QED
    BY <2>1, SleepInitInv
<1>2. SleepInv /\ ClockInv /\ [SleepNext]_sleepVars => SleepInv' /\ ClockInv'
  BY SleepStepInv, ClockStepInv
<1> QED
  BY <1>1, <1>2, PTL DEF SleepSpec

(* The entries of the table have their types.                              *)
THEOREM SleepTypes == SleepSpec => []SleepTypeOK
<1>1. SleepInv /\ ClockInv => SleepTypeOK
  BY DEF SleepInv, EntriesInv, TableOK, ClockInv, SleepTypeOK
<1> QED
  BY <1>1, SleepInvariant, PTL

(* The panics of setrun, wakeup and psig: psig always has an action for    *)
(* its signal, the sleep queue is in order, and setrun is given processes  *)
(* that are asleep or stopped, but for softclock at the end of a timed     *)
(* sleep: whatever the signals, the alarm clocks and the interrupts.       *)
THEOREM NoPanics == SleepSpec => []NoSleepPanic
<1>1. SleepInv => NoSleepPanic
  <2> SUFFICES ASSUME SleepInv, NEW p \in Sleepers
               PROVE  /\ proc[p].stat # "psig panic"
                      /\ proc[p].stat = "panic" => TimedSleeper(p)
                      /\ proc[p].wchan # NOCHAN => proc[p].stat \in {"SSLEEP", "SSTOP"}
                      /\ proc[p].stat = "SSLEEP" => proc[p].wchan # NOCHAN
    BY DEF NoSleepPanic
  <2>1. EntryInv(p, proc[p])
    BY DEF SleepInv, EntriesInv, TableOK
  <2>2. proc[p].stat # "psig panic"
    BY <2>1 DEF EntryInv, ProcRecords
  <2> QED
    BY <2>1, <2>2 DEF EntryInv, QueueOK, Timers
<1> QED
  BY <1>1, SleepInvariant, PTL

(* No process is asleep for an event that has happened, however it was     *)
(* stopped, continued, interrupted or timed out on the way to sleep.       *)
THEOREM WakeupsAreKept == SleepSpec => []NoLostWakeup
<1>1. SleepInv => NoLostWakeup
  BY DEF SleepInv, EntriesInv, TableOK, EntryInv, QueueOK, EventInv, NoLostWakeup
<1> QED
  BY <1>1, SleepInvariant, PTL

(* The stop signal that stop leaves in p_cursig ends no process, but one   *)
(* that the terminal may stop in a timed sleep.                            *)
THEOREM StopsNeverKill == SleepSpec => []StopsDontKill
<1>1. SleepInv => StopsDontKill
  BY DEF SleepInv, EntriesInv, TableOK, EntryInv, Gone, Heir, Raced, EndedByStop, StopsDontKill
<1> QED
  BY <1>1, SleepInvariant, PTL

(* A process that handles SIGCHLD, and that nobody stops, does not sleep   *)
(* in wait while there is a child to report.                               *)
THEOREM WaitersHear == SleepSpec => []WaitHears
<1>1. SleepInv => WaitHears
  BY DEF SleepInv, HearInv, Listens, Handles, Deaf, WaitHears
<1> QED
  BY <1>1, SleepInvariant, PTL

(* SIGKILL is sure: it stays due until the process ends, which it is kept  *)
(* running for.                                                            *)
THEOREM KillsAreSure == SleepSpec => KillIsSure
<1> DEFINE Sure ==
      \A p \in {q \in Sleepers : "drain" \notin SysCalls[q]} :
        /\ KillDue(proc[p]) => KillDue(proc'[p]) \/ proc'[p].stat \in {"SZOMB", "NULL"}
        /\ "KILL" \in proc'[p].sig =>
             \/ proc'[p].stat \in {"SRUN", "panic"}
             \/ proc'[p].stat = "SSLEEP" /\ ~proc'[p].intr
<1>1. SleepInv /\ ClockInv /\ [SleepNext]_sleepVars => Sure
  <2> SUFFICES ASSUME SleepInv, ClockInv, [SleepNext]_sleepVars,
                      NEW p \in Sleepers, "drain" \notin SysCalls[p]
               PROVE  /\ KillDue(proc[p]) => KillDue(proc'[p]) \/ proc'[p].stat \in {"SZOMB", "NULL"}
                      /\ "KILL" \in proc'[p].sig =>
                           \/ proc'[p].stat \in {"SRUN", "panic"}
                           \/ proc'[p].stat = "SSLEEP" /\ ~proc'[p].intr
    OBVIOUS
  <2>1. SleepInv' /\ AllKept
    BY SleepStepInv
  <2>2. KillKept(p, proc[p], proc'[p])
    BY <2>1 DEF AllKept
  <2>3. EntryInv(p, proc[p])'
    BY <2>1 DEF SleepInv, EntriesInv, TableOK
  <2>4. proc'[p].stat \in {"SRUN", "SSLEEP", "SSTOP", "SZOMB", "NULL", "panic"}
    BY <2>3 DEF EntryInv, ProcRecords
  <2>5. CASE proc'[p].stat \in {"SRUN", "SSLEEP", "SSTOP"}
    <3>1. KillRuns(proc[p])'
      BY <2>3, <2>5 DEF EntryInv, Alive
    <3> QED
      BY <2>2, <3>1 DEF KillRuns, KillKept
  <2>6. CASE proc'[p].stat \in {"SZOMB", "NULL"}
    BY <2>3, <2>6 DEF EntryInv, Gone, Heir
  <2>7. CASE proc'[p].stat = "panic"
    BY <2>2, <2>7 DEF KillKept
  <2> QED
    BY <2>4, <2>5, <2>6, <2>7
<1>2. SleepSpec => [][Sure]_sleepVars
  BY <1>1, SleepInvariant, PTL DEF SleepSpec
<1> QED
  BY <1>2, PTL DEF KillIsSure
=============================================================================
