------------------------------ MODULE StreamPipe ------------------------------
(***************************************************************************)
(* A pipe made by sys/pipe.c: two stream heads of sys/streamio.c whose     *)
(* write queues lead to each other's read queue.  The stream head routines *)
(* stread, stwrite, stioctl (TIOCFLUSH, FIOWNBLK, FIOSNDFD, FIORCVFD),     *)
(* strput, stwsrv, stenter, stexit, stclose and the queues of dev/stream.c *)
(* run in the processes that use the pipe; the service procedure of a      *)
(* write queue runs from queuerun, in the software interrupt.              *)
(*                                                                         *)
(* Scheduling is the kernel's: one CPU, and a process inside the kernel    *)
(* gives it up only where it sleeps, in tsleep or in iomove, which may     *)
(* wait for a page.  cur is the process that has not reached such a place. *)
(* The software interrupt runs as soon as a process lowers its priority,   *)
(* that is before the process takes its next step.                         *)
(*                                                                         *)
(* Left out: select, line disciplines pushed on the pipe, signals to the   *)
(* process group, opening an end by name, the pool of blocks (allocb       *)
(* finds one) and blocks of 1024 bytes, which weigh less per byte.         *)
(***************************************************************************)
EXTENDS StreamQueue, FiniteSets

CONSTANTS Procs,       \* processes
          Ends,        \* the two stream heads
          None,        \* no process, no block, not sleeping
          Holds,       \* Holds[p]: the ends process p has open at first
          CallsOf,     \* CallsOf[p]: the calls process p may make
          MaxBytes,    \* how many bytes are written towards an end at most
          MaxCount,    \* calls start while stdata.count is below this bound
          Eager,       \* the processes that go on making calls
          Signals,     \* the processes that may be interrupted while they sleep
          Faults       \* whether copying to or from user space may fail

Kinds == {"read", "write", "flush", "wnblk", "sndfd", "rcvfd", "close"}

Call == [kind : Kinds, end : Ends, n : Nat]

ASSUME PipeAssumption ==
  /\ (\E e, f \in Ends : e # f /\ Ends = {e, f}) /\ IsFiniteSet(Procs)
  /\ Holds \in [Procs -> SUBSET Ends]
  /\ CallsOf \in [Procs -> SUBSET Call]
  /\ MaxBytes \in Nat /\ MaxCount \in Nat /\ Signals \cup Eager \subseteq Procs /\ Faults \in BOOLEAN
  /\ None \notin Procs \cup Call \cup ({"read queue", "write queue"} \X Ends)

Peer(e) == CHOOSE f \in Ends : f # e

VARIABLES
  queue,      \* queue[e]: the read queue of end e
  sflag,      \* sflag[e]: RSLEEP, WSLEEP, HUNGUP, WNBLK of its stdata
  count,      \* count[e]: stdata.count
  streaming,  \* the ends whose inode has a stream, i_sptr
  linked,     \* whether the write queues still lead to the other end
  enabled,    \* the ends whose write queue is on queuerun's list
  fd,         \* fd[e]: the processes that have end e open
  pc,         \* where process p is
  call,       \* the call it is executing, or None
  ucount,     \* u.u_count
  hand,       \* the block it has got from the queue or is filling, or None
  wrote,      \* stwrite has put a block (n is not 0)
  wchan,      \* the queue it sleeps on, or None
  cur,        \* the process that has the CPU inside the kernel, or None
  sent,       \* history: bytes written towards end e so far
  starts,     \* history: sent[e] at the start of every write towards e
  seen        \* history: the bytes that p's current read has delivered

endVars  == <<queue, sflag, count, streaming, linked, enabled, fd>>
procVars == <<pc, call, ucount, hand, wrote, wchan, cur>>
history  == <<sent, starts, seen>>
vars     == <<endVars, procVars, history>>

PCs == {"user",     \* in user mode
        "read",     \* stread, at the top of its loop
        "iomove",   \* stread has a block and copies it out
        "write",    \* stwrite, at the top of its loop
        "copyin",   \* stwrite has a block and copies into it
        "ioctl",    \* stioctl, after stenter
        "rcv",      \* urcvfile, at the top of its loop
        "exit"}     \* about to call stexit

End(p) == call[p].end

(* Every step of a process inside the kernel waits for the software        *)
(* interrupt to have run the enabled queues.                               *)
Running(p) == wchan[p] = None /\ cur \in {p, None} /\ enabled = {}

Goto(p, l) == pc' = [pc EXCEPT ![p] = l]

Rd(e) == <<"read queue", e>>
Wr(e) == <<"write queue", e>>

Wakeup(chans) ==
  wchan' = [q \in Procs |-> IF wchan[q] \in chans THEN None ELSE wchan[q]]

(* backq of end e's read queue is the write queue of the other end, which  *)
(* has a service procedure, or that of the black hole, which has none.     *)
Enable(e, wanted) ==
  enabled' = IF wanted /\ linked THEN enabled \cup {Peer(e)} ELSE enabled

(***************************************************************************)
(* stenter, stexit, strput                                                 *)
(***************************************************************************)
Entry(kind) == CASE kind = "read" -> "read" [] kind = "write" -> "write"
                 [] kind = "rcvfd" -> "rcv" [] OTHER -> "ioctl"

(* A system call on an end whose stream is gone returns at once.           *)
Stenter(p, c) ==
  /\ pc[p] = "user" /\ cur = None /\ enabled = {}
  /\ p \in fd[c.end] /\ c.kind # "close" /\ c.end \in streaming
  /\ c.kind = "write" => sent[Peer(c.end)] + c.n <= MaxBytes
  /\ count[c.end] < MaxCount
  /\ count' = [count EXCEPT ![c.end] = @ + 1]
  /\ call' = [call EXCEPT ![p] = c]
  /\ ucount' = [ucount EXCEPT ![p] = c.n]
  /\ Goto(p, Entry(c.kind))
  /\ cur' = p
  /\ starts' = IF c.kind = "write"
               THEN [starts EXCEPT ![Peer(c.end)] = @ \cup {sent[Peer(c.end)]}] ELSE starts
  /\ UNCHANGED <<queue, sflag, streaming, linked, enabled, fd, hand, wrote, wchan, sent, seen>>

Return(p) ==
  /\ Goto(p, "user")
  /\ call' = [call EXCEPT ![p] = None]
  /\ ucount' = [ucount EXCEPT ![p] = 0]
  /\ wrote' = [wrote EXCEPT ![p] = FALSE]
  /\ seen' = [seen EXCEPT ![p] = {}]
  /\ cur' = None

(* strput of a data, delimiter or pass block by a writer on the other end  *)
(* of e; the black hole frees it.                                          *)
Strput(e, b) ==
  IF linked
  THEN /\ queue' = [queue EXCEPT ![e] = Putq(@, b)]
       /\ sflag' = [sflag EXCEPT ![e] = @ \ {"RSLEEP"}]
       /\ Wakeup(IF "RSLEEP" \in sflag[e] THEN {Rd(e)} ELSE {})
  ELSE UNCHANGED <<queue, sflag, wchan>>

(* stclose of end e whose count is n: seal off the other end and send it   *)
(* M_HANGUP; free what is queued (files being passed are closed).          *)
(* Mutants: the hangup wakes the readers only, or the writers only.        *)
HangupWakesReaders(e) == {Rd(e)}
HangupWakesWriters(e) == {Wr(e)}

HangupWakes(e) == {Rd(e), Wr(e)}

Stclose(e, n) ==
  /\ count' = [count EXCEPT ![e] = n]
  /\ IF n # 0 THEN UNCHANGED <<queue, sflag, streaming, linked, wchan>>
     ELSE /\ streaming' = streaming \ {e}
          /\ queue' = [queue EXCEPT ![e] = Empty]
          /\ sflag' = [f \in Ends |-> IF f = e THEN {}
                         ELSE IF linked THEN sflag[f] \cup {"HUNGUP"} ELSE sflag[f]]
          /\ Wakeup(IF linked THEN HangupWakes(Peer(e)) ELSE {})
          /\ linked' = FALSE

(* stexit: the last one out of a hung up stream with nothing to read shuts *)
(* it down.                                                                *)
Stexit(p) ==
  LET e == End(p) IN
  /\ pc[p] = "exit" /\ Running(p)
  /\ IF count[e] = 1 /\ "HUNGUP" \in sflag[e] /\ Count(queue[e].blocks) = 0
     THEN Stclose(e, 0)
     ELSE /\ count' = [count EXCEPT ![e] = @ - 1]
          /\ UNCHANGED <<queue, sflag, streaming, linked, wchan>>
  /\ Return(p)
  /\ UNCHANGED <<enabled, fd, hand, sent, starts>>

(***************************************************************************)
(* stread                                                                  *)
(***************************************************************************)
(* The queue is empty and the other end is gone.  (While it is there its   *)
(* write queue is marked QDELIM, and a read waits for the delimiter.)      *)
ReadEof(p) ==
  /\ pc[p] = "read" /\ Running(p)
  /\ queue[End(p)].blocks = <<>> /\ "HUNGUP" \in sflag[End(p)]
  /\ queue' = [queue EXCEPT ![End(p)] = Getq(@)]
  /\ Enable(End(p), GetqEnables(queue[End(p)]))
  /\ Goto(p, "exit")
  /\ cur' = p
  /\ UNCHANGED <<sflag, count, streaming, linked, fd, call, ucount, hand, wrote, wchan, history>>

(* The queue is empty: sleep.  urcvfile does the same.                     *)
ReadSleep(p) ==
  /\ pc[p] \in {"read", "rcv"} /\ Running(p)
  /\ queue[End(p)].blocks = <<>> /\ "HUNGUP" \notin sflag[End(p)]
  /\ queue' = [queue EXCEPT ![End(p)] = Getq(@)]
  /\ Enable(End(p), GetqEnables(queue[End(p)]))
  /\ sflag' = [sflag EXCEPT ![End(p)] = @ \cup {"RSLEEP"}]
  /\ wchan' = [wchan EXCEPT ![p] = Rd(End(p))]
  /\ cur' = None
  /\ UNCHANGED <<count, streaming, linked, fd, pc, call, ucount, hand, wrote, history>>

(* A data block: take it off the queue; iomove may sleep.                  *)
ReadData(p) ==
  /\ pc[p] = "read" /\ Running(p)
  /\ queue[End(p)].blocks # <<>> /\ Head(queue[End(p)].blocks).type = "data"
  /\ hand' = [hand EXCEPT ![p] = Head(queue[End(p)].blocks)]
  /\ queue' = [queue EXCEPT ![End(p)] = Getq(@)]
  /\ Enable(End(p), GetqEnables(queue[End(p)]))
  /\ Goto(p, "iomove")
  /\ cur' = IF ucount[p] = 0 THEN p ELSE None
  /\ UNCHANGED <<sflag, count, streaming, linked, fd, call, ucount, wrote, wchan, history>>

(* A delimiter: the read is complete.                                      *)
ReadDelim(p) ==
  /\ pc[p] = "read" /\ Running(p)
  /\ queue[End(p)].blocks # <<>> /\ Head(queue[End(p)].blocks).type = "delim"
  /\ queue' = [queue EXCEPT ![End(p)] = Getq(@)]
  /\ Enable(End(p), GetqEnables(queue[End(p)]))
  /\ Goto(p, "exit")
  /\ cur' = p
  /\ UNCHANGED <<sflag, count, streaming, linked, fd, call, ucount, hand, wrote, wchan, history>>

(* A file being passed is put back, and stread returns without stexit.     *)
ReadPass(p) ==
  LET q == queue[End(p)] IN
  /\ pc[p] = "read" /\ Running(p)
  /\ q.blocks # <<>> /\ Head(q.blocks).type = "pass"
  /\ queue' = [queue EXCEPT ![End(p)] = Putbq(Getq(q), Head(q.blocks))]
  /\ Enable(End(p), GetqEnables(q))
  /\ Return(p)
  /\ UNCHANGED <<sflag, count, streaming, linked, fd, hand, wchan, sent, starts>>

(* How many bytes of the block the read wants.                             *)
Wanted(p) == Min({ucount[p], Len(hand[p].bytes)})

(* The bytes are copied out.  A block that is not used up goes back to the *)
(* front of the queue; the read is over if the user has what he asked for, *)
(* or if the copy failed, in which case the bytes are lost.                *)
ReadCopied(p) ==
  LET b == hand[p]
      n == Wanted(p)
      rest == [b EXCEPT !.bytes = SubSeq(b.bytes, n + 1, Len(b.bytes))]
  IN
  /\ pc[p] = "iomove" /\ Running(p)
  /\ \E fault \in IF n > 0 THEN {FALSE, Faults} ELSE {FALSE} :
       /\ ucount' = IF fault THEN ucount ELSE [ucount EXCEPT ![p] = @ - n]
       /\ seen' = IF fault THEN seen
                  ELSE [seen EXCEPT ![p] = @ \cup {b.bytes[i] : i \in 1 .. n}]
       /\ queue' = IF rest.bytes = <<>> THEN queue
                   ELSE [queue EXCEPT ![End(p)] = Putbq(@, rest)]
       /\ Goto(p, IF fault \/ (rest.bytes # <<>> /\ ucount[p] = n) THEN "exit" ELSE "read")
  /\ hand' = [hand EXCEPT ![p] = None]
  /\ cur' = p
  /\ UNCHANGED <<sflag, count, streaming, linked, enabled, fd, call, wrote, wchan, sent, starts>>

(***************************************************************************)
(* stwrite                                                                 *)
(***************************************************************************)
Full(e) == linked /\ "QFULL" \in queue[Peer(e)].flag

(* No room: sleep until stwsrv or a hangup.                                *)
WriteSleep(p) ==
  /\ pc[p] = "write" /\ Running(p)
  /\ Full(End(p)) /\ sflag[End(p)] \cap {"HUNGUP", "WNBLK"} = {}
  /\ sflag' = [sflag EXCEPT ![End(p)] = @ \cup {"WSLEEP"}]
  /\ wchan' = [wchan EXCEPT ![p] = Wr(End(p))]
  /\ cur' = None
  /\ UNCHANGED <<queue, count, streaming, linked, enabled, fd, pc, call, ucount, hand,
                 wrote, history>>

(* Mutant: a nonblocking write that has put something ends without a       *)
(* delimiter.                                                              *)
WriteBusyNoDelim(p) ==
  /\ pc[p] = "write" /\ Running(p)
  /\ Full(End(p)) /\ "WNBLK" \in sflag[End(p)] /\ "HUNGUP" \notin sflag[End(p)]
  /\ Goto(p, "exit")
  /\ cur' = p
  /\ UNCHANGED <<endVars, call, ucount, hand, wrote, wchan, history>>

(* No room on a nonblocking stream: end the record short, or fail.         *)
WriteBusy(p) ==
  /\ pc[p] = "write" /\ Running(p)
  /\ Full(End(p)) /\ "WNBLK" \in sflag[End(p)] /\ "HUNGUP" \notin sflag[End(p)]
  /\ IF wrote[p] THEN Strput(Peer(End(p)), Delim) ELSE UNCHANGED <<queue, sflag, wchan>>
  /\ Goto(p, "exit")
  /\ cur' = p
  /\ UNCHANGED <<count, streaming, linked, enabled, fd, call, ucount, hand, wrote, history>>

(* The other end is gone: SIGPIPE.                                         *)
WriteHungup(p) ==
  /\ pc[p] = "write" /\ Running(p)
  /\ "HUNGUP" \in sflag[End(p)]
  /\ Goto(p, "exit")
  /\ cur' = p
  /\ UNCHANGED <<endVars, call, ucount, hand, wrote, wchan, history>>

(* Everything is written: the delimiter.                                   *)
WriteDelim(p) ==
  /\ pc[p] = "write" /\ Running(p)
  /\ ~Full(End(p)) /\ "HUNGUP" \notin sflag[End(p)] /\ ucount[p] = 0
  /\ Strput(Peer(End(p)), Delim)
  /\ Goto(p, "exit")
  /\ cur' = p
  /\ UNCHANGED <<count, streaming, linked, enabled, fd, call, ucount, hand, wrote, history>>

(* Get a block; iomove may sleep.                                          *)
WriteAlloc(p) ==
  /\ pc[p] = "write" /\ Running(p)
  /\ ~Full(End(p)) /\ "HUNGUP" \notin sflag[End(p)] /\ ucount[p] > 0
  /\ Goto(p, "copyin")
  /\ cur' = None
  /\ UNCHANGED <<endVars, call, ucount, hand, wrote, wchan, history>>

(* The block is filled: put it, whatever has happened to the queue since.  *)
WritePut(p) ==
  LET f == Peer(End(p))
      n == Min({Cap, ucount[p]})
  IN
  /\ pc[p] = "copyin" /\ Running(p)
  /\ Strput(f, Data([i \in 1 .. n |-> sent[f] + i]))
  /\ sent' = IF linked THEN [sent EXCEPT ![f] = @ + n] ELSE sent
  /\ ucount' = [ucount EXCEPT ![p] = @ - n]
  /\ wrote' = [wrote EXCEPT ![p] = TRUE]
  /\ Goto(p, "write")
  /\ cur' = p
  /\ UNCHANGED <<count, streaming, linked, enabled, fd, call, hand, starts, seen>>

(* The copy failed: nothing is put, and the record has no delimiter.       *)
WriteFault(p) ==
  /\ pc[p] = "copyin" /\ Running(p) /\ Faults
  /\ Goto(p, "exit")
  /\ cur' = p
  /\ UNCHANGED <<endVars, call, ucount, hand, wrote, wchan, history>>

(***************************************************************************)
(* stioctl                                                                 *)
(***************************************************************************)
(* TIOCFLUSH, FIOSNDFD on a hung up stream; FIOSNDFD when there is no room.*)
IoctlError(p) ==
  /\ pc[p] = "ioctl" /\ Running(p)
  /\ \/ call[p].kind \in {"flush", "sndfd"} /\ "HUNGUP" \in sflag[End(p)]
     \/ call[p].kind = "sndfd" /\ Full(End(p))
  /\ Goto(p, "exit")
  /\ cur' = p
  /\ UNCHANGED <<endVars, call, ucount, hand, wrote, wchan, history>>

(* TIOCFLUSH empties the read queue, and M_FLUSH that of the other end.    *)
Flush(p) ==
  /\ pc[p] = "ioctl" /\ Running(p)
  /\ call[p].kind = "flush" /\ "HUNGUP" \notin sflag[End(p)]
  /\ queue' = [e \in Ends |-> IF e = End(p) \/ linked THEN Flushq(queue[e]) ELSE queue[e]]
  /\ enabled' = IF linked THEN {Peer(e) : e \in {f \in Ends : FlushqEnables(queue[f])}} ELSE {}
  /\ Goto(p, "exit")
  /\ cur' = p
  /\ UNCHANGED <<sflag, count, streaming, linked, fd, call, ucount, hand, wrote, wchan, history>>

(* FIOWNBLK sets or clears nonblocking writes.                             *)
Wnblk(p) ==
  /\ pc[p] = "ioctl" /\ Running(p) /\ call[p].kind = "wnblk"
  /\ \E set \in {{}, {"WNBLK"}} : sflag' = [sflag EXCEPT ![End(p)] = (@ \ {"WNBLK"}) \cup set]
  /\ Goto(p, "exit")
  /\ cur' = p
  /\ UNCHANGED <<queue, count, streaming, linked, enabled, fd, call, ucount, hand, wrote,
                 wchan, history>>

(* FIOSNDFD: sndfile.                                                      *)
SendFile(p) ==
  /\ pc[p] = "ioctl" /\ Running(p)
  /\ call[p].kind = "sndfd" /\ "HUNGUP" \notin sflag[End(p)] /\ ~Full(End(p))
  /\ Strput(Peer(End(p)), Pass)
  /\ Goto(p, "exit")
  /\ cur' = p
  /\ UNCHANGED <<count, streaming, linked, enabled, fd, call, ucount, hand, wrote, history>>

(* FIORCVFD: urcvfile takes a file, puts another block back, or gives up.  *)
ReceiveFile(p) ==
  LET q == queue[End(p)] IN
  /\ pc[p] = "rcv" /\ Running(p)
  /\ q.blocks # <<>> \/ "HUNGUP" \in sflag[End(p)]
  /\ queue' = [queue EXCEPT ![End(p)] =
       IF q.blocks = <<>> \/ Head(q.blocks).type = "pass" THEN Getq(q)
       ELSE Putbq(Getq(q), Head(q.blocks))]
  /\ Enable(End(p), GetqEnables(q))
  /\ Goto(p, "exit")
  /\ cur' = p
  /\ UNCHANGED <<sflag, count, streaming, linked, fd, call, ucount, hand, wrote, wchan, history>>

(***************************************************************************)
(* close, signals, the software interrupt                                  *)
(***************************************************************************)
(* closef: the last close of an end shuts its stream down.                 *)
Close(p, c) ==
  LET e == c.end IN
  /\ c.kind = "close" /\ p \in fd[e]
  /\ pc[p] = "user" /\ cur = None /\ enabled = {}
  /\ fd' = [fd EXCEPT ![e] = @ \ {p}]
  /\ IF fd[e] = {p} /\ e \in streaming THEN Stclose(e, count[e])
     ELSE UNCHANGED <<queue, sflag, count, streaming, linked, wchan>>
  /\ UNCHANGED <<enabled, pc, call, ucount, hand, wrote, cur, history>>

(* Mutant: the interrupted call returns without stexit.                    *)
SignalReturns(p) ==
  /\ p \in Signals /\ wchan[p] # None /\ cur = None /\ enabled = {}
  /\ wchan' = [wchan EXCEPT ![p] = None]
  /\ Return(p)
  /\ UNCHANGED <<endVars, hand, sent, starts>>

(* tsleep returns TS_SIG; stexit, then longjmp out of the call.            *)
Signal(p) ==
  /\ p \in Signals /\ wchan[p] # None /\ cur = None /\ enabled = {}
  /\ wchan' = [wchan EXCEPT ![p] = None]
  /\ Goto(p, "exit")
  /\ cur' = p
  /\ UNCHANGED <<endVars, call, ucount, hand, wrote, history>>

(* stwsrv, the service procedure of a write queue.                         *)
Stwsrv(e) ==
  /\ e \in enabled
  /\ enabled' = enabled \ {e}
  /\ sflag' = [sflag EXCEPT ![e] = @ \ {"WSLEEP"}]
  /\ Wakeup(IF "WSLEEP" \in sflag[e] THEN {Wr(e)} ELSE {})
  /\ UNCHANGED <<queue, count, streaming, linked, fd, pc, call, ucount, hand, wrote, cur, history>>

(***************************************************************************)
(* The specification                                                       *)
(***************************************************************************)
Init ==
  /\ queue = [e \in Ends |-> Empty]
  /\ sflag = [e \in Ends |-> {}]
  /\ count = [e \in Ends |-> 0]
  /\ streaming = Ends
  /\ linked = TRUE
  /\ enabled = {}
  /\ fd = [e \in Ends |-> {p \in Procs : e \in Holds[p]}]
  /\ pc = [p \in Procs |-> "user"]
  /\ call = [p \in Procs |-> None]
  /\ ucount = [p \in Procs |-> 0]
  /\ hand = [p \in Procs |-> None]
  /\ wrote = [p \in Procs |-> FALSE]
  /\ wchan = [p \in Procs |-> None]
  /\ cur = None
  /\ sent = [e \in Ends |-> 0]
  /\ starts = [e \in Ends |-> {}]
  /\ seen = [p \in Procs |-> {}]

Stread(p)  == ReadEof(p) \/ ReadSleep(p) \/ ReadData(p) \/ ReadDelim(p) \/ ReadPass(p)
                \/ ReadCopied(p)
Stwrite(p) == WriteSleep(p) \/ WriteBusy(p) \/ WriteHungup(p) \/ WriteDelim(p)
                \/ WriteAlloc(p) \/ WritePut(p) \/ WriteFault(p)
Stioctl(p) == IoctlError(p) \/ Flush(p) \/ Wnblk(p) \/ SendFile(p) \/ ReceiveFile(p)

(* A step of a process that is inside a call.                              *)
Proceed(p) == Stread(p) \/ Stwrite(p) \/ Stioctl(p) \/ Stexit(p)

Enter(p) == \E c \in CallsOf[p] : Stenter(p, c) \/ Close(p, c)

Next ==
  \/ \E p \in Procs : Proceed(p) \/ Enter(p) \/ Signal(p)
  \/ \E e \in Ends : Stwsrv(e)

Spec == Init /\ [][Next]_vars

(* The scheduler runs every process that can run in the end, an interrupt  *)
(* that was asked for is served, and the processes of Eager go on reading, *)
(* or close.                                                               *)
Fairness ==
  /\ \A p \in Procs : SF_vars(Proceed(p))
  /\ \A p \in Eager : SF_vars(Enter(p))
  /\ \A e \in Ends : WF_vars(Stwsrv(e))

FairSpec == Spec /\ Fairness

(***************************************************************************)
(* Properties                                                              *)
(***************************************************************************)
Block == [type : {"data", "delim", "pass"}, bytes : Seq(1 .. MaxBytes), room : 0 .. Cap]

Chans == {Rd(e) : e \in Ends} \cup {Wr(e) : e \in Ends}

(* Types.  A process that is in user mode is executing no call, only a     *)
(* process in stread holds a block, and a data block has bytes in it, no   *)
(* more than fit, also after it was merged or put back in part.            *)
TypeOK ==
  /\ \A e \in Ends :
       /\ queue[e].blocks \in Seq(Block) /\ queue[e].flag \subseteq QFlags
       /\ \A i \in 1 .. Len(queue[e].blocks) :
            LET b == queue[e].blocks[i] IN
            b.type = "data" => Len(b.bytes) \in 1 .. Cap /\ Len(b.bytes) + b.room <= Cap
       /\ sent[e] \in 0 .. MaxBytes /\ starts[e] \subseteq 0 .. MaxBytes
  /\ sflag \in [Ends -> SUBSET {"RSLEEP", "WSLEEP", "HUNGUP", "WNBLK"}]
  /\ count \in [Ends -> Nat] /\ fd \in [Ends -> SUBSET Procs]
  /\ streaming \subseteq Ends /\ linked \in BOOLEAN /\ enabled \subseteq Ends
  /\ pc \in [Procs -> PCs] /\ ucount \in [Procs -> Nat] /\ wrote \in [Procs -> BOOLEAN]
  /\ \A p \in Procs :
       /\ call[p] \in IF pc[p] = "user" THEN {None} ELSE CallsOf[p]
       /\ IF pc[p] = "iomove" THEN hand[p] \in Block ELSE hand[p] = None
       /\ wchan[p] \in Chans \cup {None} /\ seen[p] \subseteq 1 .. MaxBytes
  /\ cur \in Procs \cup {None}

Inside(e) == {p \in Procs : pc[p] # "user" /\ End(p) = e}

(* stenter and stexit count the processes that are inside the routines of  *)
(* a stream; a stream whose count is too high is never shut down.          *)
CountIsInside == \A e \in Ends : count[e] = Cardinality(Inside(e))

(* One read never delivers bytes of two writes, when nobody flushes and    *)
(* every write runs to its end: the delimiters stay where they were put,   *)
(* though data is merged into the last block of the queue, partly read     *)
(* blocks go back to the front, and a full queue on a nonblocking stream   *)
(* cuts a record short.                                                    *)
RecordsKept ==
  \A p \in Procs : pc[p] # "user" =>
    \A m \in starts[End(p)] : (\A x \in seen[p] : x <= m) \/ (\A x \in seen[p] : x > m)

(* The limit of a queue is passed by no more than the block of a writer    *)
(* that found room before it copied from user space, the block that the    *)
(* reader puts back, and the delimiter that ends a nonblocking write.      *)
QueueBounded ==
  \A e \in Ends : Count(queue[e].blocks) < Limit + 2 * DataWeight + DelimWeight

(* No wakeup is lost to a writer.  A process that sleeps for room is known *)
(* to its stream head, the other end is there, and either the service      *)
(* procedure is about to run or the queue, still above its low water mark, *)
(* will enable it.                                                         *)
WritersWillWake ==
  \A p \in Procs, e \in Ends : wchan[p] = Wr(e) =>
    LET f == Peer(e) IN
    /\ "WSLEEP" \in sflag[e] /\ "HUNGUP" \notin sflag[e] /\ linked
    /\ e \in enabled \/ ("QWANTW" \in queue[f].flag /\ Count(queue[f].blocks) > LoLimit)

(* No wakeup is lost to a reader, when an end has one: while it sleeps the *)
(* queue is empty, the other end is there and strput will wake it.         *)
ReadersWillWake ==
  \A p \in Procs, e \in Ends : wchan[p] = Rd(e) =>
    "RSLEEP" \in sflag[e] /\ queue[e].blocks = <<>> /\ "HUNGUP" \notin sflag[e] /\ linked

BytesOf(blocks) == FoldLeft(LAMBDA s, b : s \o b.bytes, <<>>, blocks)

Pipe == INSTANCE BytePipe WITH
  chan <- [e \in Ends |-> BytesOf(queue[e].blocks)],
  held <- [e \in Ends |->
             IF \E p \in Inside(e) : hand[p] # None
             THEN hand[CHOOSE p \in Inside(e) : hand[p] # None].bytes ELSE <<>>]

(* With one reader and one writer at each end a pipe delivers the bytes in *)
(* order and each once, whatever is flushed, fails or is interrupted.      *)
PipeIsFifo == Pipe!Spec

(* A write is over in the end if the other end goes on reading or closes:  *)
(* no sleep for room outlasts the data that filled the queue.              *)
WritesReturn ==
  \A p \in Procs : (pc[p] # "user" /\ call[p].kind = "write" /\ fd[Peer(End(p))] \subseteq Eager)
                      ~> pc[p] = "user"

(* A call on an end whose other end nobody has open any more returns.      *)
HangupHeard ==
  \A p \in Procs : (pc[p] # "user" /\ fd[Peer(End(p))] = {}) ~> pc[p] = "user"
=============================================================================
