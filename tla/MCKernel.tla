------------------------------ MODULE MCKernel ------------------------------
(***************************************************************************)
(* Values for TLC, and one run for the parts of the kernel that are        *)
(* modelled without each other: part says which of them the behaviour is   *)
(* about, the others stay in their initial states.                         *)
(***************************************************************************)
EXTENDS Mount, Sleep, StreamIoctl, SwapSpace, DiskQueue, InodeTable, TextTable, TLC

CONSTANTS p1, p2, p3, d1, d2, c1, c2, x1, r1, r2, r3, r4, Parts

(* Block 1 of the device is its super block; block 2 holds the root inode  *)
(* and is also what other processes read and write.                        *)
C(kind, n, m) == [kind |-> kind, blk |-> <<d1, n>>, ra |-> IF m = 0 THEN None ELSE <<d1, m>>]

MountCalls ==
  (p1 :> {C("mount", 1, 2), C("umount", 1, 2)}
   @@ p2 :> {C("super", 1, 0), C("read", 2, 0), C("part", 2, 0), C("close", 1, 0), C("mount", 1, 2)})

(* p1 waits for its child p2 and closes a stream; p2 waits for an event    *)
(* and sets alarms, and is stopped, continued and killed.                  *)
ChanOfProc == p1 :> c1 @@ p2 :> c1
ParentOf == p1 :> init @@ p2 :> p1
SentBy == p1 :> {} @@ p2 :> {"TSTP", "CONT", "KILL"}
SetBy == p1 :> {<<"CHLD", "DEFER">>} @@ p2 :> {}
CalledBy == p1 :> {"wait", "drain"} @@ p2 :> {"await", "alarm"}
TimedBy == p1 :> {"wait"} @@ p2 :> {"timed", "alarm"}

(* Two directories, two files in one block of the i-list, one of them in   *)
(* directory 1.                                                            *)
OneBlock == <<<<1, 2>>>>
FileOne == <<{1}, {}>>
DoneBy == p1 :> {<<"unlink", 1>>, <<"creat", 2>>}
          @@ p2 :> {<<"creat", 1>>, <<"look", 1>>, <<"sync", 1>>}

(* p2 is traced; p1 runs programs, forks, and opens one for writing.       *)
TasksBy == p1 :> {"exec", "exit", "fork", "open"} @@ p2 :> {"exec", "exit", "fork", "umount"}

VARIABLE part

KernelInit ==
  /\ part \in Parts
  /\ MountInit /\ SleepInit /\ IoctlInit /\ SwapInit /\ DiskInit /\ InodeInit /\ TextInit

KernelNext ==
  /\ UNCHANGED part
  /\ \/ /\ part = "mount" /\ MountNext
        /\ UNCHANGED <<sleepVars, ioctlVars, swapVars, queueVars, inodeVars, textVars>>
     \/ /\ part = "sleep" /\ SleepNext
        /\ UNCHANGED <<mountVars, ioctlVars, swapVars, queueVars, inodeVars, textVars>>
     \/ /\ part = "ioctl" /\ IoctlNext
        /\ UNCHANGED <<mountVars, sleepVars, swapVars, queueVars, inodeVars, textVars>>
     \/ /\ part = "swap" /\ SwapNext
        /\ UNCHANGED <<mountVars, sleepVars, ioctlVars, queueVars, inodeVars, textVars>>
     \/ /\ part = "disk" /\ DiskNext
        /\ UNCHANGED <<mountVars, sleepVars, ioctlVars, swapVars, inodeVars, textVars>>
     \/ /\ part = "inode" /\ InodeNext
        /\ UNCHANGED <<mountVars, sleepVars, ioctlVars, swapVars, queueVars, textVars>>
     \/ /\ part = "text" /\ TextNext
        /\ UNCHANGED <<mountVars, sleepVars, ioctlVars, swapVars, queueVars, inodeVars>>

kernelVars == <<part, mountVars, sleepVars, ioctlVars, swapVars, queueVars, inodeVars, textVars>>

KernelSpec == KernelInit /\ [][KernelNext]_kernelVars

(* Types of the state of the part that runs.                               *)
KernelTypeOK ==
  /\ part = "sleep" => SleepTypeOK
  /\ part = "ioctl" => IoctlTypeOK
  /\ part = "swap" => SwapTypeOK
  /\ part = "disk" => DiskTypeOK
  /\ part = "inode" => InodeTypeOK
  /\ part = "text" => TextTypeOK
=============================================================================
