---------------------------- MODULE MCBufferCache ----------------------------
(***************************************************************************)
(* Values for TLC.  One device of two or three blocks; every pair of       *)
(* processes that one buffer pool can bring together is an interleaving of *)
(* the calls below.                                                        *)
(***************************************************************************)
EXTENDS BufferCache, TLC

CONSTANTS p1, p2, p3, d1

C(kind, n, m) == [kind |-> kind, blk |-> <<d1, n>>,
                  ra |-> IF m = 0 THEN None ELSE <<d1, m>>]

(* Two writers, partial and whole blocks, and a reader ahead.              *)
MixedCalls ==
  (p1 :> {C("part", 1, 0), C("reada", 1, 2), C("close", 1, 0)}
   @@ p2 :> {C("full", 1, 0), C("dir", 2, 0), C("sync", 1, 0)})

(* The same two, which stop after a few calls, and the update daemon.      *)
StoreCalls ==
  (p1 :> {C("part", 1, 0), C("reada", 2, 1), C("close", 1, 0)}
   @@ p2 :> {C("full", 1, 0), C("dir", 2, 0), C("hole", 1, 0)}
   @@ p3 :> {C("sync", 1, 0)})

(* Two processes with read-ahead in opposite directions.                   *)
LiveCalls ==
  (p1 :> {C("reada", 1, 2), C("part", 2, 0)}
   @@ p2 :> {C("reada", 2, 1), C("dir", 1, 0), C("full", 2, 0)})

RaceCalls == (p1 :> {C("reada", 1, 2)} @@ p2 :> {C("read", 2, 0)})
=============================================================================
