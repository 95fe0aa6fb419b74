----------------------------- MODULE MCStreamPipe -----------------------------
(***************************************************************************)
(* Values for TLC.  Process p1 has end e1 open, p2 and p3 have end e2.  A  *)
(* data block holds two bytes and weighs two, so that a full queue has two *)
(* blocks; a write of three bytes takes two blocks, the second half full.  *)
(***************************************************************************)
EXTENDS StreamPipe

CONSTANTS p1, p2, p3, e1, e2

c(kind, end, n) == [kind |-> kind, end |-> end, n |-> n]

EndOf == [p \in Procs |-> IF p = p1 THEN {e1} ELSE {e2}]

(* One end writes records and passes files, with blocking and nonblocking  *)
(* writes; the other reads, in pieces smaller and larger than a record.    *)
RecordCalls ==
  p1 :> {c("write", e1, 1), c("write", e1, 3), c("wnblk", e1, 0), c("sndfd", e1, 0),
         c("close", e1, 0)}
    @@ p2 :> {c("read", e2, 1), c("read", e2, 4), c("rcvfd", e2, 0), c("close", e2, 0)}

(* A writer, a reader, and a process that shares the reader's end and      *)
(* flushes it at any time.                                                 *)
LiveCalls ==
  p1 :> {c("write", e1, 2), c("write", e1, 3), c("flush", e1, 0), c("close", e1, 0)}
    @@ p2 :> {c("read", e2, 1), c("read", e2, 4), c("close", e2, 0)}
    @@ p3 :> {c("flush", e2, 0), c("close", e2, 0)}

PassCalls ==
  p1 :> {c("write", e1, 2), c("sndfd", e1, 0), c("close", e1, 0)}
    @@ p2 :> {c("read", e2, 4), c("close", e2, 0)}
=============================================================================
