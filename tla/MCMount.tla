------------------------------- MODULE MCMount -------------------------------
(***************************************************************************)
(* Values for TLC: block 1 of the device is its super block, block 2 holds *)
(* the root inode and is also what other processes read and write.         *)
(***************************************************************************)
EXTENDS Mount, TLC

CONSTANTS p1, p2, p3, d1

C(kind, n, m) == [kind |-> kind, blk |-> <<d1, n>>,
                  ra |-> IF m = 0 THEN None ELSE <<d1, m>>]

(* Nobody but the mounting process uses the device.                        *)
UmountCalls == (p1 :> {C("mount", 1, 2), C("umount", 1, 2)} @@ p2 :> {C("read", 2, 0)})

(* A mount that fails, and a program that opens and closes the device.     *)
FailCalls == (p1 :> {C("mount", 1, 2)} @@ p2 :> {C("read", 2, 0), C("close", 1, 0)})
=============================================================================
