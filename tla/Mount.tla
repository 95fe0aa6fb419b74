-------------------------------- MODULE Mount --------------------------------
(***************************************************************************)
(* Mounting and unmounting over the buffer cache: fson, fsoff and          *)
(* fsfupdat of sys/fs.c.  A mounted file system keeps a pointer to the     *)
(* buffer of its super block and uses it without getblk; B_LOCKED is what  *)
(* keeps the buffer from being reused meanwhile.                           *)
(*                                                                         *)
(* A call of kind "mount" or "umount" has the super block as blk and the   *)
(* block of the root inode as ra.  Mount table entries, the root inode's   *)
(* lock and the in-core inodes are modelled by which calls may overlap.    *)
(* Calls of the other kinds on the device are made on the mounted files,   *)
(* or on the block device itself by a process that has it open.            *)
(***************************************************************************)
EXTENDS BufferCache

VARIABLES m_bufp,     \* m_bufp[d]: the buffer of the mount table entry, or None
          stillopen   \* fsoff found the block device open by someone else

mntVars == <<m_bufp, stillopen>>
mountVars == <<vars, mntVars>>

MountInit ==
  /\ Init
  /\ m_bufp = [d \in Devs |-> None]
  /\ stillopen = [p \in Procs |-> FALSE]

(* Processes other than p inside a call of a kind in K on device d.        *)
Others(p, K, d) ==
  {q \in Procs \ {p} : call[q] # None /\ call[q].kind \in K /\ DevOf(call[q].blk) = d}

(* closef does not come to bflush for a device that is mounted.            *)
FileCall(p, c) ==
  /\ c.kind = "close" => m_bufp[DevOf(c.blk)] = None
  /\ Start(p, c)
  /\ UNCHANGED mntVars

(* allocmount refuses a device that has an entry already.                  *)
FsonStart(p, c) ==
  /\ c.kind = "mount" /\ m_bufp[DevOf(c.blk)] = None
  /\ Others(p, {"mount"}, DevOf(c.blk)) = {}
  /\ Enter(p, c)
  /\ UNCHANGED mntVars

(* Mutant: the early return forgets brelse.                                *)
FsonErrorLeak(p) ==
  /\ pc[p] = "iomove" /\ Running(p)
  /\ call[p].kind = "mount" /\ stage[p] = "bread" /\ uerror[p]
  /\ Return(p)
  /\ UNCHANGED <<bufVars, diskVars, wchan, mntVars>>

(* The super block could not be read.                                      *)
FsonError(p) ==
  /\ pc[p] = "iomove" /\ Running(p)
  /\ call[p].kind = "mount" /\ stage[p] = "bread" /\ uerror[p]
  /\ Brelse(bp[p], b_flags[bp[p]])
  /\ Return(p)
  /\ UNCHANGED <<data, diskVars, mntVars>>

(* Lock the super block in core, release it, and get the root inode.       *)
FsonSuper(p) ==
  /\ pc[p] = "iomove" /\ Running(p)
  /\ call[p].kind = "mount" /\ stage[p] = "bread" /\ ~uerror[p]
  /\ Brelse(bp[p], b_flags[bp[p]] \cup {"LOCKED"})
  /\ m_bufp' = [m_bufp EXCEPT ![DevOf(call[p].blk)] = bp[p]]
  /\ bp' = [bp EXCEPT ![p] = None]
  /\ stage' = [stage EXCEPT ![p] = "ra"]
  /\ Goto(p, "getblk")
  /\ cur' = p
  /\ UNCHANGED <<data, diskVars, call, kept, uerror, left, stillopen>>

(* fsget has copied the root inode out of its block.                       *)
FsonDone(p) ==
  /\ pc[p] = "iomove" /\ Running(p)
  /\ call[p].kind = "mount" /\ stage[p] = "ra" /\ ~uerror[p]
  /\ Brelse(bp[p], b_flags[bp[p]])
  /\ Return(p)
  /\ UNCHANGED <<data, diskVars, mntVars>>

(* iget failed, or the root inode is in use: B_LOCKED goes off, on a       *)
(* buffer that is on its free list.  (A bitmap file system that was not    *)
(* unmounted takes the same way out before iget.)                          *)
FsonFail(p) ==
  LET d == DevOf(call[p].blk) IN
  /\ pc[p] = "iomove" /\ Running(p)
  /\ call[p].kind = "mount" /\ stage[p] = "ra"
  /\ LET fl == [b_flags EXCEPT ![bp[p]] = BrelseFlags(@)]
     IN b_flags' = [fl EXCEPT ![m_bufp[d]] = @ \ {"LOCKED"}]
  /\ b_blk' = IF "ERROR" \in BrelseFlags(b_flags[bp[p]])
              THEN [b_blk EXCEPT ![bp[p]] = NODEV] ELSE b_blk
  /\ av' = [av EXCEPT ![bp[p]] = BrelseList(b_flags[bp[p]])]
  /\ Wakeup(BrelseWakes(bp[p], b_flags[bp[p]]))
  /\ flwanted' = FALSE
  /\ m_bufp' = [m_bufp EXCEPT ![d] = None]
  /\ Return(p)
  /\ UNCHANGED <<data, diskVars, stillopen>>

(* update writes a modified super block: fsfupdat.                         *)
FsfupdatStart(p, c) ==
  /\ c.kind = "super" /\ m_bufp[DevOf(c.blk)] # None
  /\ Others(p, {"mount", "umount"}, DevOf(c.blk)) = {}
  /\ Enter(p, c)
  /\ UNCHANGED mntVars

FsfupdatWrite(p) ==
  /\ pc[p] = "iomove" /\ Running(p) /\ call[p].kind = "super"
  /\ \E v \in Values : data' = [data EXCEPT ![bp[p]] = v]
  /\ Strategy(bp[p], BwriteFlags(b_flags[bp[p]]))
  /\ Goto(p, "wwait")
  /\ cur' = p
  /\ UNCHANGED <<b_blk, av, flwanted, call, stage, bp, kept, uerror, wchan, left, mntVars>>

(* fsoff: no file of the file system is in use, but the block device may   *)
(* be open; update starts the delayed writes (the root inode, which fsoff  *)
(* holds locked, is not among the inodes update writes).                   *)
FsoffStart(p, c) ==
  LET d == DevOf(c.blk) IN
  /\ c.kind = "umount" /\ m_bufp[d] # None
  /\ Others(p, {"mount", "umount", "super"}, d) = {}
  /\ Enter(p, c)
  /\ \E open \in BOOLEAN :
       /\ Others(p, Kinds, d) # {} => open
       /\ stillopen' = [stillopen EXCEPT ![p] = open]
  /\ UNCHANGED m_bufp

FsoffFlushed(p) ==
  /\ pc[p] = "bflush" /\ Running(p) /\ call[p].kind = "umount"
  /\ Flushable(call[p]) = {}
  /\ Goto(p, "getblk")
  /\ UNCHANGED <<bufVars, diskVars, call, stage, bp, kept, uerror, wchan, cur, left, mntVars>>

(* It has the super block's buffer; iput(rip) writes the root inode if it  *)
(* has changed since update last found it unlocked.                        *)
FsoffInode(p) ==
  /\ pc[p] = "iomove" /\ Running(p)
  /\ call[p].kind = "umount" /\ stage[p] = "main"
  /\ kept' = [kept EXCEPT ![p] = bp[p]]
  /\ bp' = [bp EXCEPT ![p] = None]
  /\ stage' = [stage EXCEPT ![p] = "ra"]
  /\ Goto(p, "getblk")
  /\ cur' = p
  /\ UNCHANGED <<bufVars, diskVars, call, uerror, wchan, left, mntVars>>

FsoffClean(p) ==
  /\ pc[p] = "iomove" /\ Running(p)
  /\ call[p].kind = "umount" /\ stage[p] = "main"
  /\ stage' = [stage EXCEPT ![p] = "bread"]
  /\ cur' = p
  /\ UNCHANGED <<bufVars, diskVars, pc, call, bp, kept, uerror, wchan, left, mntVars>>

(* fsiupdat: bdwrite, or just brelse if the inode could not be read.       *)
FsoffInodeDone(p) ==
  /\ pc[p] = "iomove" /\ Running(p)
  /\ call[p].kind = "umount" /\ stage[p] = "ra"
  /\ IF "ERROR" \in b_flags[bp[p]]
     THEN Brelse(bp[p], b_flags[bp[p]]) /\ UNCHANGED data
     ELSE /\ Brelse(bp[p], b_flags[bp[p]] \cup {"DELWRI", "DONE"})
          /\ \E v \in Values : data' = [data EXCEPT ![bp[p]] = v]
  /\ bp' = [bp EXCEPT ![p] = kept[p]]
  /\ kept' = [kept EXCEPT ![p] = None]
  /\ stage' = [stage EXCEPT ![p] = "bread"]
  /\ cur' = p
  /\ UNCHANGED <<diskVars, pc, call, uerror, left, mntVars>>

(* Write the super block and wait for the disk (a bitmap file system that  *)
(* is not mounted read-only).                                              *)
FsoffWrite(p) ==
  /\ pc[p] = "iomove" /\ Running(p)
  /\ call[p].kind = "umount" /\ stage[p] = "bread"
  /\ Strategy(bp[p], BwriteFlags(b_flags[bp[p]]) \ {"LOCKED"})
  /\ Goto(p, "wwait")
  /\ cur' = p
  /\ UNCHANGED <<b_blk, av, data, flwanted, call, stage, bp, kept, uerror, wchan, left, mntVars>>

(* Release the super block, unlocked; unless the device is still open,     *)
(* binval everything in core that belongs to it.                           *)
FsoffDone(p) ==
  LET d == DevOf(call[p].blk)
      b == bp[p]
      fl == b_flags[b] \ {"LOCKED"}
      blk == IF "ERROR" \in fl THEN [b_blk EXCEPT ![b] = NODEV] ELSE b_blk
      flags == [b_flags EXCEPT ![b] = BrelseFlags(fl)]
  IN
  /\ pc[p] \in {"iomove", "wrote"} /\ Running(p)
  /\ call[p].kind = "umount" /\ stage[p] = "bread"
  /\ b_blk' = blk
  /\ b_flags' = [c \in Bufs |->
       IF ~stillopen[p] /\ blk[c] # NODEV /\ DevOf(blk[c]) = d
       THEN flags[c] \cup {"INVAL"} ELSE flags[c]]
  /\ av' = [av EXCEPT ![b] = BrelseList(fl)]
  /\ Wakeup(BrelseWakes(b, fl))
  /\ flwanted' = FALSE
  /\ m_bufp' = [m_bufp EXCEPT ![d] = None]
  /\ stillopen' = [stillopen EXCEPT ![p] = FALSE]
  /\ Return(p)
  /\ UNCHANGED <<data, diskVars>>

Enters(p) == \E c \in CallsOf[p] :
  FileCall(p, c) \/ FsonStart(p, c) \/ FsfupdatStart(p, c) \/ FsoffStart(p, c)

(* A buffer cache step other than the bwrite end of fsoff, which is        *)
(* FsoffDone's.                                                            *)
CacheStep(p) ==
  /\ pc[p] = "wrote" => call[p].kind # "umount"
  /\ Proceed(p)
  /\ UNCHANGED mntVars

MountStep(p) ==
  \/ FsonError(p) \/ FsonSuper(p) \/ FsonDone(p) \/ FsonFail(p)
  \/ FsfupdatWrite(p)
  \/ FsoffFlushed(p) \/ FsoffInode(p) \/ FsoffClean(p) \/ FsoffInodeDone(p)
  \/ FsoffWrite(p) \/ FsoffDone(p)

MountNext ==
  \/ \E p \in Procs : CacheStep(p) \/ MountStep(p) \/ Enters(p)
  \/ \E b \in Bufs : Interrupt(b) /\ UNCHANGED mntVars

MountSpec == MountInit /\ [][MountNext]_mountVars

(***************************************************************************)
(* Properties                                                              *)
(***************************************************************************)
(* panic("fsfupdat") and panic("umount") are unreachable: when update or   *)
(* fsoff asks the cache for the super block it gets the buffer the mount   *)
(* table points to.                                                        *)
NoMountPanic ==
  \A p \in Procs :
    (/\ call[p] # None /\ pc[p] = "got"
     /\ call[p].kind = "super" \/ (call[p].kind = "umount" /\ stage[p] = "main"))
    => bp[p] = m_bufp[DevOf(call[p].blk)]

(* The pointer of a mount table entry is good for as long as the entry is  *)
(* there: its buffer holds the super block of the device, is locked in     *)
(* core and valid, and is on no list that getblk reuses buffers from,      *)
(* whatever writes of it fail.  alloc, free and ialloc use it unheld;      *)
(* getblk finds it, so that nothing panics.                                *)
SuperStaysPut ==
  /\ NoMountPanic
  /\ \A d \in Devs : m_bufp[d] # None =>
      LET b == m_bufp[d] IN
      \/ /\ b_blk[b] \in {k \in Blocks : DevOf(k) = d}
         /\ "LOCKED" \in b_flags[b] /\ "INVAL" \notin b_flags[b]
         /\ av[b] \in {"LOCKED", "none"}
      \/ \E p \in Procs : /\ call[p] # None /\ call[p].kind = "umount"
                          /\ DevOf(call[p].blk) = d /\ b \in Owns(p)

(* What the comment on binval says of invalidating buffers in place, "this *)
(* suffices for correctness": a delayed write that waits on a free list is *)
(* found by the next getblk of its block, not passed over for a second     *)
(* buffer read from the disk.                                              *)
DelayedWriteFindable ==
  \A b \in Bufs : Free(b) /\ "DELWRI" \in b_flags[b] => Match(b, b_blk[b])

(* buf.h on the free queues: the LOCKED one is for "buffers which must be  *)
(* kept permanently (super blocks)", empty buffers are "pushed onto the    *)
(* front" of the last one: an invalid free buffer can be reused.           *)
InvalidIsReusable ==
  \A b \in Bufs : "INVAL" \in b_flags[b] => av[b] # "LOCKED"
=============================================================================
