-------------------------------- MODULE Sleep --------------------------------
(***************************************************************************)
(* Sleep, wakeup, signals and the once-a-second clock: sleep, tsleep,      *)
(* unsleep, wakeup and setrun of sys/slp.c, psignal, issig, stop and psig  *)
(* of sys/sig.c, ssig and alarm of sys/sys4.c, and the part of softclock   *)
(* of sys/clock.c that runs down p_clktim and p_tsleep.                    *)
(*                                                                         *)
(* A process is the record of its struct proc.  What runs at spl6 is one   *)
(* step; a step begins where a process resumes and ends where it calls     *)
(* swtch or goes back to user mode.  slpque is the set of processes whose  *)
(* p_wchan is set.  softclock runs below spl6: interrupts come between the *)
(* steps of its loop, processes run when it is over.  Tracing, vfork,      *)
(* priorities other than "above PZERO", and swapping (SLOAD) are left out. *)
(***************************************************************************)
EXTENDS Naturals, FiniteSets

CONSTANTS
  Sleepers,     \* the processes
  EventChans,   \* the channels they await
  ChanOf,       \* ChanOf[p]: the channel of p's system call
  PParent,      \* PParent[p]: the parent, or init
  init,         \* process 1
  Senders,      \* Senders[p]: the signals that other processes send p
  Settings,     \* Settings[p]: the <<signal, action>> pairs p gives to signal
  SysCalls,     \* SysCalls[p]: the system calls p makes
  MaxSecs       \* bound on alarm clocks and timeouts

VARIABLES
  proc,    \* the process table
  event,   \* event[c]: what the sleepers on c wait for has happened
  clock    \* softclock's loop: the entries left, pp, the p_stat it read, the place

sleepVars == <<proc, event, clock>>

NOCHAN == "nochan"
NOSIG == "nosig"
Chans == EventChans \cup Sleepers     \* wait sleeps on the parent's own entry

(* Signals by number; those that stop a process unless it handles them.    *)
SigNo == [HUP |-> 1, INT |-> 2, KILL |-> 9, ALRM |-> 14, STOP |-> 17, TSTP |-> 18, CONT |-> 19, CHLD |-> 20]
Sigs == DOMAIN SigNo
Stops == {"STOP", "TSTP"}
Actions == {"DFL", "IGN", "HOLD", "CATCH", "DEFER"}   \* DEFER: a handler that holds its signal

ASSUME SleepConstants ==
  /\ ChanOf \in [Sleepers -> EventChans]
  /\ PParent \in [Sleepers -> Sleepers \cup {init}]
  /\ init \notin Sleepers /\ NOCHAN \notin Chans
  /\ SysCalls \in [Sleepers -> SUBSET {"await", "timed", "wait", "drain", "alarm"}]
  /\ \A p \in Sleepers : Settings[p] \subseteq Sigs \X Actions
  /\ MaxSecs \in Nat \ {0}

ProcRecords ==
  [stat : {"SRUN", "SSLEEP", "SSTOP", "SZOMB", "NULL", "panic"},
   wchan : Chans \cup {NOCHAN},
   intr : BOOLEAN,                  \* p_pri > PZERO
   sig : SUBSET Sigs,
   cursig : Sigs \cup {NOSIG},
   siga : [Sigs -> Actions],        \* what psignal looks at
   usig : [Sigs -> Actions],        \* what issig and psig look at
   tsleep : 0 .. MaxSecs,
   clktim : 0 .. MaxSecs,
   stimo : BOOLEAN,
   at : {"user", "test", "await", "scan", "scanned", "wait", "drained", "drain", "issig", "exit"},
   pptr : Sleepers \cup {init},
   swted : BOOLEAN]                 \* wait has reported that it stopped

NewProc(p) ==
  [stat |-> "SRUN", wchan |-> NOCHAN, intr |-> FALSE, sig |-> {}, cursig |-> NOSIG,
   siga |-> [s \in Sigs |-> "DFL"], usig |-> [s \in Sigs |-> "DFL"],
   tsleep |-> 0, clktim |-> 0, stimo |-> FALSE, at |-> "user",
   pptr |-> PParent[p], swted |-> FALSE]

Clocks ==
  [left : SUBSET Sleepers, pp : Sleepers \cup {init},
   a : {"SRUN", "SSLEEP", "SSTOP", "SZOMB", "NULL", "panic"},
   at : {"idle", "loop", "alarm", "tsleep"}]

(* The loop goes on with the entries left; there may be none.              *)
Loop(left) ==
  [left |-> left, pp |-> init, a |-> "NULL", at |-> IF left = {} THEN "idle" ELSE "loop"]

-----------------------------------------------------------------------------
(* Operations on one process.                                              *)

Unsleep(r) == [r EXCEPT !.wchan = NOCHAN]

Setrun(r) ==
  IF r.stat \in {"SSLEEP", "SSTOP"} THEN [Unsleep(r) EXCEPT !.stat = "SRUN"]
  ELSE [r EXCEPT !.stat = "panic"]

(* Mutant: wakeup passes over stopped processes.                           *)
WokenSleepersOnly(r) == IF r.stat = "SSLEEP" THEN [Unsleep(r) EXCEPT !.stat = "SRUN"] ELSE r

(* What wakeup does to a process asleep on the channel.                    *)
Woken(r) ==
  [Unsleep(r) EXCEPT !.stat = IF @ = "SSLEEP" THEN "SRUN" ELSE @]

(* The signal becomes pending; SIGCONT and the stop signals cancel out.    *)
Posted(r, s) ==
  [r EXCEPT !.sig = (@ \cup {s}) \ (IF s = "CONT" THEN Stops
                                   ELSE IF s \in Stops THEN {"CONT"} ELSE {})]

Forget(r, s) == [r EXCEPT !.sig = @ \ {s}]

(* psignal to a process in an interruptible sleep.                         *)
SignalSleeper(r, s) ==
  IF s \in Stops /\ r.siga[s] = "DFL" THEN
    IF s # "STOP" /\ r.pptr = init THEN Forget(Setrun(Posted(r, "KILL")), s)
    ELSE [Forget(r, s) EXCEPT !.cursig = s, !.stat = "SSTOP", !.swted = FALSE]
  ELSE IF s = "CHLD" /\ r.siga[s] = "DFL" THEN Forget(r, s)
  ELSE Setrun(r)

(* Mutant: a stopped process is left alone until it is continued.          *)
SignalStoppedKeepsKill(r, s) ==
  IF s = "CONT" THEN
    IF r.siga[s] # "DFL" \/ r.wchan = NOCHAN THEN Setrun(r) ELSE [r EXCEPT !.stat = "SSLEEP"]
  ELSE IF s \in Stops THEN Forget(r, s)
  ELSE IF r.wchan # NOCHAN /\ r.intr THEN Unsleep(r)
  ELSE r

(* Mutant: a process continued is always put back to sleep.               *)
SignalStoppedAlwaysSleeps(r, s) ==
  IF s = "KILL" THEN Setrun(r)
  ELSE IF s = "CONT" THEN
    IF r.siga[s] # "DFL" THEN Setrun(r) ELSE [r EXCEPT !.stat = "SSLEEP"]
  ELSE IF s \in Stops THEN Forget(r, s)
  ELSE IF r.wchan # NOCHAN /\ r.intr THEN Unsleep(r)
  ELSE r

(* psignal to a stopped process.                                           *)
SignalStopped(r, s) ==
  IF s = "KILL" THEN Setrun(r)
  ELSE IF s = "CONT" THEN
    IF r.siga[s] # "DFL" \/ r.wchan = NOCHAN THEN Setrun(r) ELSE [r EXCEPT !.stat = "SSLEEP"]
  ELSE IF s \in Stops THEN Forget(r, s)
  ELSE IF r.wchan # NOCHAN /\ r.intr THEN Unsleep(r)
  ELSE r

(* psignal, as far as the process itself goes.                             *)
Psignal(r, s) ==
  LET q == Posted(r, s) IN
  IF r.siga[s] = "IGN" THEN r
  ELSE IF r.siga[s] = "HOLD" THEN q
  ELSE IF q.stat = "SSLEEP" /\ q.intr THEN SignalSleeper(q, s)
  ELSE IF q.stat = "SSTOP" THEN SignalStopped(q, s)
  ELSE q

(* The pending signals that issig looks at, and those of them it discards. *)
Pending(r) == {s \in r.sig : r.siga[s] \notin {"IGN", "HOLD"}}
Noise(r) == {s \in Pending(r) : s \in {"CONT", "CHLD"} /\ r.usig[s] = "DFL"}

Before(s, t) == s = "KILL" \/ (t # "KILL" /\ SigNo[s] <= SigNo[t])

(* Mutant: when there is nothing to take, p_cursig keeps what it held.     *)
IssigKeepsCursig(r) ==
  LET rest == Pending(r) \ Noise(r)
      s == CHOOSE x \in rest : \A y \in rest : Before(x, y)
      q == [r EXCEPT !.sig = (@ \ {s}) \ {t \in Noise(r) : Before(t, s)}, !.cursig = s]
  IN IF rest = {} THEN [r EXCEPT !.sig = @ \ Pending(r)]
     ELSE IF s \in Stops /\ r.usig[s] = "DFL" THEN
       IF s # "STOP" /\ r.pptr = init THEN [q EXCEPT !.cursig = "KILL"]
       ELSE [q EXCEPT !.stat = "SSTOP", !.swted = FALSE]
     ELSE q

(* issig: take the first signal that is not discarded, if there is one.    *)
Issig(r) ==
  LET rest == Pending(r) \ Noise(r) IN
  IF rest = {} THEN [r EXCEPT !.sig = @ \ Pending(r), !.cursig = NOSIG]
  ELSE
    LET s == CHOOSE x \in rest : \A y \in rest : Before(x, y)
        q == [r EXCEPT !.sig = (@ \ {s}) \ {t \in Noise(r) : Before(t, s)}, !.cursig = s] IN
    IF s \in Stops /\ r.usig[s] = "DFL" THEN
      IF s # "STOP" /\ r.pptr = init THEN [q EXCEPT !.cursig = "KILL"]
      ELSE [q EXCEPT !.stat = "SSTOP", !.swted = FALSE]
    ELSE q

(* exit: the signals are ignored from now on, the alarm clock is off.      *)
Exit(r) ==
  [r EXCEPT !.stat = "SZOMB", !.at = "user", !.sig = {}, !.siga = [s \in Sigs |-> "IGN"], !.clktim = 0]

(* psig: the signal in p_cursig takes its action.  A handler is reset in   *)
(* u_signal, though not in the bits psignal looks at.                      *)
Psig(r) ==
  CASE r.usig[r.cursig] = "CATCH" ->
         [r EXCEPT !.usig[r.cursig] = "DFL", !.cursig = NOSIG, !.at = "user"]
    [] r.usig[r.cursig] = "DEFER" ->
         [r EXCEPT !.usig[r.cursig] = "HOLD", !.siga[r.cursig] = "HOLD", !.cursig = NOSIG, !.at = "user"]
    [] r.usig[r.cursig] = "DFL" -> Exit(r)
    [] OTHER -> [r EXCEPT !.stat = "psig panic"]

(* Leaving sleep: by the longjmp, which tsleep turns into TS_SIG, or by a  *)
(* return, with STIMO set if the timeout expired.  The callers give up     *)
(* when interrupted, except the loop of stclose, which does not look.      *)
Interrupted(r) ==
  [Unsleep(r) EXCEPT !.stat = "SRUN", !.tsleep = 0, !.stimo = FALSE,
                     !.at = IF @ = "drain" THEN "drained" ELSE "exit"]

Returned(r) ==
  [r EXCEPT !.tsleep = 0, !.stimo = FALSE,
            !.at = CASE @ = "await" -> IF r.stimo THEN "exit" ELSE "test"
                     [] @ = "wait" -> "scan"
                     [] @ = "drain" -> "drained"]

(* sleep, up to its call of swtch.                                         *)
FallAsleep(r, c, interruptible, secs, at) ==
  LET q == [r EXCEPT !.wchan = c, !.intr = interruptible, !.tsleep = secs, !.at = at] IN
  IF interruptible /\ q.sig # {} THEN
    LET i == Issig(q) IN
    IF i.stat = "SSTOP" THEN i
    ELSE IF i.cursig # NOSIG THEN Interrupted(i)
    ELSE [i EXCEPT !.stat = "SSLEEP"]
  ELSE [q EXCEPT !.stat = "SSLEEP"]

(* sleep, from swtch on.                                                   *)
WakeUp(r) ==
  IF r.intr /\ r.sig # {} THEN
    LET i == Issig(r) IN
    IF i.stat = "SSTOP" THEN i
    ELSE IF i.cursig # NOSIG THEN Interrupted(i)
    ELSE Returned(i)
  ELSE Returned(r)

(* The end of a trap or system call.                                       *)
SignalsTaken(r) ==
  LET i == Issig(r) IN
  IF i.stat = "SSTOP" THEN [i EXCEPT !.at = "issig"]
  ELSE IF i.cursig # NOSIG THEN Psig(i)
  ELSE [i EXCEPT !.at = "user"]

TrapEnd(r) ==
  IF r.cursig # NOSIG THEN Psig(r)
  ELSE IF r.sig # {} THEN SignalsTaken(r)
  ELSE [r EXCEPT !.at = "user"]

-----------------------------------------------------------------------------
(* Operations on the process table.                                        *)

Wakeup1(P, c) == [p \in Sleepers |-> IF P[p].wchan = c THEN Woken(P[p]) ELSE P[p]]

(* Mutant: the parent is woken, and gets no signal.                        *)
TellParentSilently(P, q) == IF q = init THEN P ELSE Wakeup1(P, q)

(* stop and exit tell the parent, with a wakeup and with SIGCHLD.          *)
TellParent(P, q) ==
  IF q = init THEN P
  ELSE LET Q == Wakeup1(P, q) IN [Q EXCEPT ![q] = Psignal(@, "CHLD")]

(* The children of a process that exits go to init; those that are stopped *)
(* get SIGHUP and SIGCONT.                                                 *)
Orphan(r) ==
  LET q == [r EXCEPT !.pptr = init]
      h == IF q.stat = "SSTOP" THEN Psignal(Psignal(q, "HUP"), "CONT") ELSE q
  IN Forget(h, "TSTP")

Orphans(P, p) == [q \in Sleepers |-> IF P[q].pptr = p THEN Orphan(P[q]) ELSE P[q]]

(* Process p becomes r, and its parent hears of it if it stopped or ended. *)
SetProc(p, r) ==
  LET P == [proc EXCEPT ![p] = r] IN
  proc' = IF r.stat = proc[p].stat THEN P
          ELSE IF r.stat = "SSTOP" THEN TellParent(P, r.pptr)
          ELSE IF r.stat = "SZOMB" THEN TellParent(Orphans(P, p), r.pptr)
          ELSE P

-----------------------------------------------------------------------------
(* One process runs at a time, and gives up the processor only in sleep or *)
(* on its way to user mode: "scanned" is the only point in between, at     *)
(* spl0 in wait1, where interrupts come in but no other process runs.      *)
OnProcessor(p) ==
  /\ proc[p].stat = "SRUN" /\ clock.at = "idle"
  /\ \A q \in Sleepers \ {p} : proc[q].at # "scanned"

(* A system call that awaits an event, with or without a timeout.          *)
Await(p) ==
  /\ OnProcessor(p) /\ proc[p].at = "user" /\ SysCalls[p] \cap {"await", "timed"} # {}
  /\ proc' = [proc EXCEPT ![p].at = "test"]
  /\ UNCHANGED <<event, clock>>

AwaitTest(p) ==
  LET c == ChanOf[p] IN
  /\ OnProcessor(p) /\ proc[p].at = "test"
  /\ IF event[c] THEN /\ event' = [event EXCEPT ![c] = FALSE]
                      /\ SetProc(p, [proc[p] EXCEPT !.at = "exit"])
     ELSE /\ \E interruptible \in BOOLEAN :
               \E secs \in IF interruptible /\ "timed" \in SysCalls[p] THEN 0 .. MaxSecs ELSE {0} :
                 SetProc(p, FallAsleep(proc[p], c, interruptible, secs, "await"))
          /\ UNCHANGED event
  /\ UNCHANGED clock

(* wait1: look at the children; sleep on one's own table entry.            *)
Reportable(q, p) ==
  /\ proc[q].pptr = p
  /\ proc[q].stat = "SZOMB" \/ (proc[q].stat = "SSTOP" /\ ~proc[q].swted)

Wait(p) ==
  /\ OnProcessor(p) /\ proc[p].at = "user" /\ "wait" \in SysCalls[p]
  /\ proc' = [proc EXCEPT ![p].at = "scan"]
  /\ UNCHANGED <<event, clock>>

WaitScan(p) ==
  /\ OnProcessor(p) /\ proc[p].at = "scan"
  /\ \/ \E q \in Sleepers :
          /\ Reportable(q, p)
          /\ proc' = [proc EXCEPT ![p].at = "exit", ![q].swted = TRUE,
                        ![q].stat = IF @ = "SZOMB" THEN "NULL" ELSE @,
                        ![q].pptr = IF proc[q].stat = "SZOMB" THEN init ELSE @]
     \/ /\ \A q \in Sleepers : ~Reportable(q, p)
        /\ proc' = [proc EXCEPT ![p].at =
                      IF \E q \in Sleepers : proc[q].pptr = p THEN "scanned" ELSE "exit"]
  /\ UNCHANGED <<event, clock>>

WaitSleep(p) ==
  /\ OnProcessor(p) /\ proc[p].at = "scanned"
  /\ SetProc(p, FallAsleep(proc[p], p, TRUE, 0, "wait"))
  /\ UNCHANGED <<event, clock>>

(* stclose: a close waits for output to drain, a second at a time.         *)
Drain(p) ==
  /\ OnProcessor(p) /\ "drain" \in SysCalls[p]
  /\ \/ proc[p].at = "user" /\ SetProc(p, [proc[p] EXCEPT !.at = "drained"])
     \/ proc[p].at = "drained" /\ SetProc(p, FallAsleep(proc[p], ChanOf[p], TRUE, 1, "drain"))
     \/ proc[p].at = "drained" /\ SetProc(p, [proc[p] EXCEPT !.at = "exit"])
  /\ UNCHANGED <<event, clock>>

Resume(p) ==
  /\ OnProcessor(p) /\ proc[p].at \in {"await", "wait", "drain"}
  /\ SetProc(p, WakeUp(proc[p]))
  /\ UNCHANGED <<event, clock>>

TrapExit(p) ==
  /\ OnProcessor(p)
  /\ \/ proc[p].at = "exit" /\ SetProc(p, TrapEnd(proc[p]))
     \/ proc[p].at = "issig" /\ SetProc(p, SignalsTaken(proc[p]))
  /\ UNCHANGED <<event, clock>>

(* Any trap: a pending signal is noticed on the way back.                  *)
UserTrap(p) ==
  /\ OnProcessor(p) /\ proc[p].at = "user" /\ proc[p].sig # {}
  /\ proc' = [proc EXCEPT ![p].at = "exit"]
  /\ UNCHANGED <<event, clock>>

(* signal and alarm.                                                       *)
Ssig(p) ==
  /\ OnProcessor(p) /\ proc[p].at = "user"
  /\ \E setting \in Settings[p] :
       LET s == setting[1]
           a == setting[2]
           r == IF proc[p].usig[s] = "IGN" THEN Forget(proc[p], s) ELSE proc[p] IN
       /\ s \notin {"KILL", "STOP"}
       /\ proc' = [proc EXCEPT ![p] = [r EXCEPT !.siga[s] = IF a = "DEFER" THEN "CATCH" ELSE a,
                                                !.usig[s] = a, !.at = "exit"]]
  /\ UNCHANGED <<event, clock>>

Alarm(p) ==
  /\ OnProcessor(p) /\ proc[p].at = "user" /\ "alarm" \in SysCalls[p]
  /\ \E secs \in 0 .. MaxSecs : proc' = [proc EXCEPT ![p].clktim = secs, ![p].at = "exit"]
  /\ UNCHANGED <<event, clock>>

(* A signal: from the terminal at any time, or from another process.       *)
Signal(p, s) ==
  /\ s \in Senders[p]
  /\ s \in {"HUP", "INT", "TSTP"} \/ (clock.at = "idle" /\ \A q \in Sleepers : proc[q].at # "scanned")
  /\ SetProc(p, Psignal(proc[p], s))
  /\ UNCHANGED <<event, clock>>

(* An interrupt or another process: the event has happened.                *)
Happens(c) ==
  /\ ~event[c]
  /\ event' = [event EXCEPT ![c] = TRUE]
  /\ proc' = Wakeup1(proc, c)
  /\ UNCHANGED clock

(* Mutant: an alarm clock that is off is run down too.                     *)
RunClktimBelowZero(r) ==
  IF r.clktim = 1 THEN Psignal([r EXCEPT !.clktim = 0], "ALRM") ELSE [r EXCEPT !.clktim = @ - 1]

(* A second off the alarm clock.                                           *)
RunClktim(r) ==
  IF r.clktim = 1 THEN Psignal([r EXCEPT !.clktim = 0], "ALRM")
  ELSE [r EXCEPT !.clktim = IF @ > 0 THEN @ - 1 ELSE 0]

(* A second off the timeout, which ends for the state softclock has read.  *)
RunTsleep(r, a) ==
  LET x == [r EXCEPT !.tsleep = 0, !.stimo = TRUE] IN
  IF r.tsleep # 1 THEN [r EXCEPT !.tsleep = IF @ > 0 THEN @ - 1 ELSE 0]
  ELSE IF a = "SSLEEP" THEN Setrun(x)
  ELSE IF a = "SSTOP" THEN Unsleep(x)
  ELSE x

(* softclock, once a second: the entries that have a clock running.  It    *)
(* reads the state of an entry, runs the alarm clock down, and only then   *)
(* goes to spl6 and runs the timeout down.                                 *)
Ticking(p) == proc[p].stat \notin {"NULL", "SZOMB"} /\ (proc[p].clktim > 0 \/ proc[p].tsleep > 0)

Softclock ==
  /\ clock.at = "idle" /\ clock' = Loop({p \in Sleepers : Ticking(p)})
  /\ UNCHANGED <<proc, event>>

ClockLook(p) ==
  /\ clock.at = "loop" /\ p \in clock.left
  /\ clock' = [left |-> clock.left \ {p}, pp |-> p, a |-> proc[p].stat, at |-> "alarm"]
  /\ UNCHANGED <<proc, event>>

ClockAlarm ==
  /\ clock.at = "alarm" /\ clock' = [clock EXCEPT !.at = "tsleep"]
  /\ proc' = [proc EXCEPT ![clock.pp] = RunClktim(@)]
  /\ UNCHANGED event

ClockTsleep ==
  /\ clock.at = "tsleep" /\ clock' = Loop(clock.left)
  /\ proc' = [proc EXCEPT ![clock.pp] = RunTsleep(@, clock.a)]
  /\ UNCHANGED event

ClockStep == Softclock \/ (\E p \in Sleepers : ClockLook(p)) \/ ClockAlarm \/ ClockTsleep

SleepStep(p) ==
  \/ Await(p) \/ AwaitTest(p) \/ Wait(p) \/ WaitScan(p) \/ WaitSleep(p) \/ Drain(p)
  \/ Resume(p) \/ TrapExit(p) \/ UserTrap(p) \/ Ssig(p) \/ Alarm(p)

SleepInit ==
  /\ proc = [p \in Sleepers |-> NewProc(p)]
  /\ event = [c \in EventChans |-> FALSE]
  /\ clock = Loop({})

(* A panic stops the machine.                                              *)
SleepNext ==
  /\ \A p \in Sleepers : proc[p].stat # "panic"
  /\ \/ \E p \in Sleepers : SleepStep(p)
     \/ \E p \in Sleepers : \E s \in Sigs : Signal(p, s)
     \/ \E c \in EventChans : Happens(c)
     \/ ClockStep

SleepSpec == SleepInit /\ [][SleepNext]_sleepVars

-----------------------------------------------------------------------------
(* Types of the process table, of the events and of softclock's loop.      *)
SleepTypeOK ==
  /\ proc \in [Sleepers -> ProcRecords]
  /\ event \in [EventChans -> BOOLEAN]
  /\ clock \in Clocks

TimedSleeper(p) == SysCalls[p] \cap {"timed", "drain"} # {}

(* The panics of setrun, wakeup and psig: whoever is on the sleep queue is *)
(* asleep or stopped (slp.c:150), a sleeper is on the queue, where wakeup  *)
(* can find it, psig has an action for its signal, and nobody sets running *)
(* a process that runs already or is gone, except that softclock may at    *)
(* the end of a timed sleep (SetrunSafe).                                  *)
NoSleepPanic ==
  \A p \in Sleepers :
    /\ proc[p].stat # "psig panic"
    /\ proc[p].stat = "panic" => TimedSleeper(p)
    /\ proc[p].wchan # NOCHAN => proc[p].stat \in {"SSLEEP", "SSTOP"}
    /\ proc[p].stat = "SSLEEP" => proc[p].wchan # NOCHAN

(* What setrun assumes: it is given processes that are asleep or stopped.  *)
(* softclock gives it one that was when it read p_stat, with an alarm and  *)
(* any interrupt in between (clock.c:328-350).                             *)
SetrunSafe == \A p \in Sleepers : proc[p].stat # "panic"

(* A process is not asleep for an event that has happened, however it was  *)
(* stopped, continued, interrupted or timed out on the way.                *)
NoLostWakeup ==
  \A p \in Sleepers : proc[p].stat = "SSLEEP" /\ proc[p].at = "await" => ~event[ChanOf[p]]

(* A process ended by a signal that should stop it, or do nothing.  (An    *)
(* orphan may: see the README.)                                            *)
EndedByStop(p) ==
  /\ proc[p].stat = "SZOMB" /\ proc[p].pptr = PParent[p]
  /\ proc[p].cursig \in Stops \cup {"CONT", "CHLD"}

(* A process never ends by a stop signal, or by one it would ignore, even  *)
(* though stop leaves its signal in p_cursig, where the trap looks for one *)
(* to hand to psig: unless the terminal may stop it in a timed sleep.      *)
StopsDontKill ==
  \A p \in Sleepers : EndedByStop(p) => TimedSleeper(p) /\ "TSTP" \in Senders[p]

(* What sig.c:133 says, without the exception: softclock sets a process    *)
(* running that SIGTSTP stops between its look at p_stat and its setrun.   *)
StopsOnlyStop == \A p \in Sleepers : ~EndedByStop(p)

(* A process that handles SIGCHLD does not sleep in wait while there is a  *)
(* child to report: a child that stops between the scan of the table and   *)
(* the sleep is heard of through the signal.  (One that is itself stopped  *)
(* may: see the README.)                                                   *)
WaitHears ==
  \A p \in {q \in Sleepers : Senders[q] \cap Stops = {}} :
    proc[p].stat = "SSLEEP" /\ proc[p].at = "wait" /\ proc[p].usig["CHLD"] \in {"CATCH", "DEFER"}
      => \A q \in Sleepers : ~Reportable(q, p)

(* SIGKILL is sure: once sent it stays pending, or in p_cursig, until the  *)
(* process ends, and while it is pending the process is neither stopped    *)
(* nor asleep where a signal could reach it.  (A close that drains a       *)
(* stream ignores tsleep's verdict, and may lose it: see the README.)      *)
KillDue(r) == "KILL" \in r.sig \/ r.cursig = "KILL"

KillIsSure ==
  [][\A p \in {q \in Sleepers : "drain" \notin SysCalls[q]} :
       /\ KillDue(proc[p]) => KillDue(proc'[p]) \/ proc'[p].stat \in {"SZOMB", "NULL"}
       /\ "KILL" \in proc'[p].sig =>
            \/ proc'[p].stat \in {"SRUN", "panic"}
            \/ proc'[p].stat = "SSLEEP" /\ ~proc'[p].intr]_sleepVars
=============================================================================
