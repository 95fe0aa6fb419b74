----------------------------- MODULE BlockStore -----------------------------
(***************************************************************************)
(* What the block buffer cache of dev/bio.c promises to its callers: each  *)
(* disk block is one word of storage that one process at a time may hold   *)
(* ("the buffer is marked busy so that no one else can touch it"), and     *)
(* only the holder of a block changes what the block contains.  Buffers,   *)
(* delayed and asynchronous writes, read-ahead, reuse of buffers and the   *)
(* disk itself are invisible.                                              *)
(***************************************************************************)
CONSTANTS Procs,     \* the processes that use the cache
          Blocks,    \* the disk blocks
          Values,    \* what a block may contain
          Nobody     \* not a process: the holder of a block nobody holds

VARIABLES store,     \* store[k] is what block k contains
          holder     \* holder[k] is the process between getblk and brelse of k

vars == <<store, holder>>

Init ==
  /\ store \in [Blocks -> Values]
  /\ holder = [k \in Blocks |-> Nobody]

(* getblk, bread and breada give the block to p.                           *)
Take(p, k) ==
  /\ holder[k] = Nobody
  /\ holder' = [holder EXCEPT ![k] = p]
  /\ UNCHANGED store

(* brelse gives the block back.                                            *)
Drop(p, k) ==
  /\ holder[k] = p
  /\ holder' = [holder EXCEPT ![k] = Nobody]
  /\ UNCHANGED store

(* bdwrite and bawrite store new contents and give the block back; in      *)
(* bwrite the holder keeps it until the transfer is done.                  *)
Put(p, k, v) ==
  /\ holder[k] = p
  /\ store' = [store EXCEPT ![k] = v]
  /\ holder' \in {holder, [holder EXCEPT ![k] = Nobody]}

Next ==
  \E p \in Procs, k \in Blocks :
    \/ Take(p, k)
    \/ Drop(p, k)
    \/ \E v \in Values : Put(p, k, v)

Spec == Init /\ [][Next]_vars
=============================================================================
