------------------------------ MODULE SwapSpace ------------------------------
(***************************************************************************)
(* Who holds which swap space: sys/vmdrum.c with the system calls that     *)
(* grow, copy, replace and end processes, the swapping of u. areas, and    *)
(* the swap devices of dev/sw.c, over the resource map swapmap.  Nothing   *)
(* here sleeps but exec, between the allocation of the new image's space   *)
(* and the release of the old one's.  Sizes of a process are in clicks,    *)
(* of CTOD disk blocks each, sizes and addresses of swap space in blocks.  *)
(***************************************************************************)
EXTENDS ResourceMap, Sequences, SequencesExt

CONSTANTS
  SwapProcs,   \* the processes
  FirstProc,   \* the one there is at first
  Texts,       \* the slots of the text table
  CTOD,        \* blocks of a click
  DMMIN,       \* the first chunk of a segment, in blocks
  NDMAP,       \* the chunks of a segment at most
  nswdev,      \* swap devices
  nswap,       \* blocks of swap space
  USize,       \* blocks of a u. area
  DataSizes, StackSizes, TextSizes   \* the sizes of segments tried, in clicks

ASSUME SwapConstants ==
  /\ {CTOD, DMMIN, NDMAP, nswdev, nswap, USize} \subseteq Nat \ {0}
  /\ DataSizes \cup StackSizes \cup TextSizes \subseteq Nat /\ FirstProc \in SwapProcs
  /\ DMMAX >= DMMIN /\ nswap > DMMAX

VARIABLES
  swapmap,     \* the resource map
  sw_freed,    \* the devices whose share of the space is in use
  usr,         \* usr[p]: the sizes and maps of a process
  text,        \* text[x]: the chunks of a text segment, <<>> when the slot is free
  lost,        \* what rmfree has discarded
  swpanic      \* the kernel has panicked

swapVars == <<swapmap, sw_freed, usr, text, lost, swpanic>>

zdmap == [dm_size |-> 0, dm_alloc |-> 0, dm_map |-> <<>>]

NoProc == [stat |-> "none", dsize |-> 0, ssize |-> 0, dmap |-> zdmap, smap |-> zdmap,
           cdmap |-> zdmap, csmap |-> zdmap, newd |-> 0, news |-> 0, swaddr |-> 0]

ctod(n) == n * CTOD
dtoc(n) == (n + CTOD - 1) \div CTOD
lesser(a, b) == IF a < b THEN a ELSE b

(* A segment lies in chunks, each twice as large as the one before up to   *)
(* DMMAX; Blk[i] is the size of the i-th and Base[i] where it begins.      *)
Blk[i \in 1 .. NDMAP] == IF i = 1 THEN DMMIN ELSE LET b == Blk[i - 1] IN IF b < DMMAX THEN 2 * b ELSE b
Base[i \in 1 .. NDMAP] == IF i = 1 THEN 0 ELSE Base[i - 1] + Blk[i - 1]

-----------------------------------------------------------------------------
(* What a call works on: the map, what it has lost, a panic, a refusal,    *)
(* and the disk map it changes.                                            *)
Work(map, dm) == [map |-> map, lost |-> {}, panic |-> FALSE, ok |-> TRUE, dm |-> dm]

After(w, r) == [w EXCEPT !.map = r.map, !.lost = @ \cup r.lost, !.panic = @ \/ r.panic]

(* r is what rmalloc returned for the i-th chunk.                          *)
Took(w, i, r) ==
  IF r.addr = 0 THEN [After(w, r) EXCEPT !.ok = FALSE, !.dm.dm_size = Base[i]]
  ELSE [After(w, r) EXCEPT !.dm.dm_alloc = @ + Blk[i], !.dm.dm_map = Append(@, r.addr)]

TakeChunk(w, i) == Took(w, i, Rmalloc(w.map, Blk[i]))

GiveChunk(w, i) ==
  [After(w, Rmfree(w.map, Blk[i], w.dm.dm_map[i]))
     EXCEPT !.dm.dm_map[i] = 0, !.dm.dm_alloc = @ - Blk[i]]

(* The loop of vsexpand: chunks that are missing are allocated, until one  *)
(* cannot be; chunks beyond the size are freed if the segment may shrink.  *)
ChunkStep(w, i, oldalloc, vssize, canshrink) ==
  CASE w.ok /\ Base[i] >= oldalloc /\ Base[i] < vssize -> TakeChunk(w, i)
    [] w.ok /\ Base[i] < oldalloc /\ (vssize = 0 \/ (Base[i] >= vssize /\ canshrink)) -> GiveChunk(w, i)
    [] OTHER -> w

Sized(w, vssize) ==
  [w EXCEPT !.dm.dm_map = SelectSeq(@, LAMBDA a : a # 0), !.dm.dm_size = IF w.ok THEN vssize ELSE @]

Expand(w0, vssize, canshrink) ==
  LET w[i \in 0 .. NDMAP] ==
        IF i = 0 THEN w0 ELSE ChunkStep(w[i - 1], i, w0.dm.dm_alloc, vssize, canshrink)
  IN Sized(w[NDMAP], vssize)

(* vsexpand: when the space runs out the segment gets its old size back.   *)
Resized(w) == [w EXCEPT !.ok = FALSE, !.panic = @ \/ ~w.ok]

VsexpandNoShrink(w0, size, canshrink) ==          \* mutant: what was allocated stays
  LET w == Expand(w0, ctod(size), canshrink)
  IN IF w.ok THEN w ELSE [w EXCEPT !.dm.dm_size = w0.dm.dm_size]

Vsexpand(w0, size, canshrink) ==
  LET w == Expand(w0, ctod(size), canshrink)
  IN IF w.ok THEN w ELSE Resized(Expand([w EXCEPT !.ok = TRUE], ctod(dtoc(w0.dm.dm_size)), TRUE))

(* swpexpand: both segments or neither.  The second argument of the        *)
(* retracting call is in blocks, as dm_size is, and vsexpand takes clicks. *)
RetractAll(ods) == 0                                      \* mutant
RetractTo(ods) == ods

Retracted(w, ods, m2) ==
  LET v == Vsexpand([w EXCEPT !.ok = TRUE], RetractTo(ods), TRUE)
  IN [w |-> [v EXCEPT !.ok = FALSE], m1 |-> v.dm, m2 |-> m2]

SecondDone(w, m1, ods) ==
  IF w.ok THEN [w |-> w, m1 |-> m1, m2 |-> w.dm] ELSE Retracted([w EXCEPT !.dm = m1], ods, w.dm)

FirstDone(w, ods, n2, m2) ==
  IF w.ok THEN SecondDone(Vsexpand([w EXCEPT !.dm = m2], n2, FALSE), w.dm, ods)
  ELSE [w |-> w, m1 |-> w.dm, m2 |-> m2]

Both(map, n1, m1, n2, m2) == FirstDone(Vsexpand(Work(map, m1), n1, FALSE), m1.dm_size, n2, m2)

Exchanged(b) == [b EXCEPT !.m1 = b.m2, !.m2 = b.m1]

Swpexpand(map, ds, ss, dmp, smp) ==
  IF dmp.dm_alloc > ds THEN Exchanged(Both(map, ss, smp, ds, dmp)) ELSE Both(map, ds, dmp, ss, smp)

(* vsxalloc: a text segment in chunks of at most DMMAX, and the page table *)
(* of one that is paged in from its file; vsxfree.                         *)
TextChunks(size, pagi) ==
  [i \in 1 .. (ctod(size) + DMMAX - 1) \div DMMAX |-> lesser(ctod(size) - (i - 1) * DMMAX, DMMAX)]
    \o IF pagi THEN <<ctod(1)>> ELSE <<>>

XTook(w, size, r) ==
  IF r.addr = 0 THEN [After(w, r) EXCEPT !.ok = FALSE] ELSE [After(w, r) EXCEPT !.dm = Append(@, Seg(size, r.addr))]

XTake(w, size) == IF w.ok THEN XTook(w, size, Rmalloc(w.map, size)) ELSE w

XGive(w, seg) == After(w, Rmfree(w.map, seg.m_size, seg.m_addr))

Vsxfree(w) == [FoldLeft(XGive, w, w.dm) EXCEPT !.dm = <<>>]

Vsxalloc(map, size, pagi) ==
  LET w == FoldLeft(XTake, Work(map, <<>>), TextChunks(size, pagi))
  IN IF w.ok THEN w ELSE Vsxfree(w)

(* vrelvm: both segments are freed.                                        *)
Vrelvm(map, u) ==
  Vsexpand([Vsexpand(Work(map, u.dmap), 0, TRUE) EXCEPT !.dm = u.smap], 0, TRUE)

(* swfree: the stripes of a device, the first of them halved for argmap.   *)
SwStripe(w, vsbase) == After(w, Rmfree(w.map, lesser(nswap - vsbase, DMMAX), vsbase))

Stripes(index) == [i \in 1 .. (nswap - index * DMMAX + nswdev * DMMAX - 1) \div (nswdev * DMMAX)
                     |-> (index + (i - 1) * nswdev) * DMMAX]

Swfree(map, index) ==
  IF index = 0
  THEN FoldLeft(SwStripe, Work(Rminit(DMMAX \div 2, DMMAX \div 2), zdmap), Tail(Stripes(0)))
  ELSE FoldLeft(SwStripe, Work(map, zdmap), Stripes(index))

-----------------------------------------------------------------------------
Commit(w) ==
  /\ swapmap' = w.map
  /\ lost' = lost \cup w.lost
  /\ swpanic' = (swpanic \/ w.panic)

InCore(p) == usr[p].stat = "run" /\ usr[p].swaddr = 0

(* r is the outcome of swpexpand in the actions below.                     *)
Resize(p, ds, ss) ==
  \E r \in {Swpexpand(swapmap, ds, ss, usr[p].dmap, usr[p].smap)} :
    LET v == [usr[p] EXCEPT !.dmap = r.m1, !.smap = r.m2]
    IN /\ InCore(p)
       /\ Commit(r.w)
       /\ usr' = [usr EXCEPT ![p] = IF r.w.ok THEN [v EXCEPT !.dsize = ds, !.ssize = ss] ELSE v]
       /\ UNCHANGED <<sw_freed, text>>

Sbreak(p) == \E ds \in DataSizes : Resize(p, ds, usr[p].ssize)
Grow(p) == \E ss \in StackSizes : ss > usr[p].ssize /\ Resize(p, usr[p].dsize, ss)

(* fork: the child's space first; without it, or without a slot for the    *)
(* child, nothing has happened.                                            *)
Fork(p, q) ==
  LET u == usr[p] IN
  \E r \in {Swpexpand(swapmap, u.dsize, u.ssize, zdmap, zdmap)} :
    /\ InCore(p) /\ usr[q].stat = "none"
    /\ Commit(r.w)
    /\ usr' = IF ~r.w.ok THEN usr
              ELSE [usr EXCEPT ![q] = [NoProc EXCEPT !.stat = "run", !.dsize = u.dsize, !.ssize = u.ssize,
                                                     !.dmap = r.m1, !.smap = r.m2]]
    /\ UNCHANGED <<sw_freed, text>>

ForkAgain(p) ==
  \E r \in {Swpexpand(swapmap, usr[p].dsize, usr[p].ssize, zdmap, zdmap)} :
    \E v \in {Vrelvm(r.w.map, [dmap |-> r.m1, smap |-> r.m2])} :
      /\ InCore(p)
      /\ Commit([v EXCEPT !.lost = @ \cup r.w.lost, !.panic = @ \/ r.w.panic])
      /\ UNCHANGED <<sw_freed, usr, text>>

(* exec: space for the new image, while the process has the old one's ...  *)
ExecAlloc(p) ==
  \E ds \in DataSizes, ss \in StackSizes :
    \E r \in {Swpexpand(swapmap, ds, ss, zdmap, zdmap)} :
      /\ InCore(p)
      /\ Commit(r.w)
      /\ usr' = IF ~r.w.ok THEN usr
                ELSE [usr EXCEPT ![p].stat = "exec", ![p].cdmap = r.m1, ![p].csmap = r.m2,
                                 ![p].newd = ds, ![p].news = ss]
      /\ UNCHANGED <<sw_freed, text>>

(* ... which it gives back once its page-outs are done; exit.              *)
ExecCommit(p) ==
  LET u == usr[p]
  IN /\ u.stat = "exec"
     /\ Commit(Vrelvm(swapmap, u))
     /\ usr' = [usr EXCEPT ![p] = [NoProc EXCEPT !.stat = "run", !.dmap = u.cdmap, !.smap = u.csmap,
                                                 !.dsize = u.newd, !.ssize = u.news]]
     /\ UNCHANGED <<sw_freed, text>>

Vexit(p) ==
  /\ InCore(p)
  /\ Commit(Vrelvm(swapmap, usr[p]))
  /\ usr' = [usr EXCEPT ![p] = NoProc]
  /\ UNCHANGED <<sw_freed, text>>

(* vgetswu and vrelswu, for the u. area of a process that is swapped out   *)
(* and in.  (Without space the process is killed.)                         *)
Swapout(p) ==
  \E r \in {Rmalloc(swapmap, USize)} :
    /\ InCore(p) /\ r.addr # 0
    /\ Commit(After(Work(swapmap, zdmap), r))
    /\ usr' = [usr EXCEPT ![p].swaddr = r.addr]
    /\ UNCHANGED <<sw_freed, text>>

Swapin(p) ==
  /\ usr[p].swaddr # 0
  /\ Commit(After(Work(swapmap, zdmap), Rmfree(swapmap, USize, usr[p].swaddr)))
  /\ usr' = [usr EXCEPT ![p].swaddr = 0]
  /\ UNCHANGED <<sw_freed, text>>

Xalloc(x) ==
  \E size \in TextSizes, pagi \in BOOLEAN :
    \E w \in {Vsxalloc(swapmap, size, pagi)} :
      /\ text[x] = <<>>
      /\ Commit(w)
      /\ text' = [text EXCEPT ![x] = w.dm]
      /\ UNCHANGED <<sw_freed, usr>>

Xfree(x) ==
  /\ text[x] # <<>>
  /\ Commit(Vsxfree(Work(swapmap, text[x])))
  /\ text' = [text EXCEPT ![x] = <<>>]
  /\ UNCHANGED <<sw_freed, usr>>

Vswapon(index) ==
  /\ index \notin sw_freed
  /\ Commit(Swfree(swapmap, index))
  /\ sw_freed' = sw_freed \cup {index}
  /\ UNCHANGED <<usr, text>>

SwapInit ==
  /\ swapmap = Swfree(<<>>, 0).map
  /\ sw_freed = {0}
  /\ usr = [[p \in SwapProcs |-> NoProc] EXCEPT ![FirstProc].stat = "run"]
  /\ text = [x \in Texts |-> <<>>]
  /\ lost = Swfree(<<>>, 0).lost
  /\ swpanic = FALSE

SwapNext ==
  \/ \E p \in SwapProcs :
       \/ Sbreak(p) \/ Grow(p) \/ ForkAgain(p) \/ ExecAlloc(p) \/ ExecCommit(p) \/ Vexit(p)
       \/ Swapout(p) \/ Swapin(p) \/ \E q \in SwapProcs : Fork(p, q)
  \/ \E x \in Texts : Xalloc(x) \/ Xfree(x)
  \/ \E index \in 1 .. nswdev - 1 : Vswapon(index)

SwapSpec == SwapInit /\ [][SwapNext]_swapVars

-----------------------------------------------------------------------------
(* Types and the bounds of the arrays.                                     *)
DmapOK(dm) ==
  /\ dm.dm_size \in Nat /\ dm.dm_alloc \in Nat
  /\ dm.dm_map \in Seq(1 .. nswap) /\ Len(dm.dm_map) <= NDMAP

SwapTypeOK ==
  /\ swapmap \in [1 .. Slots -> [m_size : Nat, m_addr : Nat]]
  /\ sw_freed \subseteq 0 .. nswdev - 1
  /\ \A p \in SwapProcs :
       /\ usr[p].stat \in {"none", "run", "exec"}
       /\ {usr[p].dsize, usr[p].ssize, usr[p].newd, usr[p].news} \subseteq DataSizes \cup StackSizes \cup {0}
       /\ usr[p].swaddr \in 0 .. nswap
       /\ DmapOK(usr[p].dmap) /\ DmapOK(usr[p].smap) /\ DmapOK(usr[p].cdmap) /\ DmapOK(usr[p].csmap)
  /\ \A x \in Texts : text[x] \in Seq([m_size : 1 .. DMMAX, m_addr : 1 .. nswap])

(* The map keeps the shape rmalloc and rmfree rely on, whatever is         *)
(* allocated, returned and discarded in whatever order.                    *)
MapWellFormed == WellFormed(swapmap)

(* Every piece of swap space somebody holds.                               *)
Chunks(owner, dm) == {<<owner, i, Seg(Blk[i], dm.dm_map[i])>> : i \in DOMAIN dm.dm_map}

Held ==
  UNION {Chunks(<<p, "d">>, usr[p].dmap) \cup Chunks(<<p, "s">>, usr[p].smap)
           \cup Chunks(<<p, "cd">>, usr[p].cdmap) \cup Chunks(<<p, "cs">>, usr[p].csmap)
           \cup (IF usr[p].swaddr = 0 THEN {} ELSE {<<<<p, "u">>, 1, Seg(USize, usr[p].swaddr)>>})
         : p \in SwapProcs}
    \cup UNION {{<<<<x, "x">>, i, text[x][i]>> : i \in DOMAIN text[x]} : x \in Texts}

SwapUnits == UNION {Units(vs, lesser(nswap - vs, DMMAX)) :
                      vs \in UNION {Range(Stripes(index)) : index \in sw_freed}}
               \ (0 .. DMMAX \div 2 - 1)

(* Every block of the swap devices in use is free, or lost by a full map,  *)
(* or held by exactly one segment: none is given to two of them, and none  *)
(* leaks, whichever step of an allocation fails.                           *)
HeldUnits(h) == Units(h[3].m_addr, h[3].m_size)

SpaceConserved ==
  /\ \A g, h \in Held : g # h => HeldUnits(g) \cap HeldUnits(h) = {}
  /\ LET used == UNION {HeldUnits(h) : h \in Held}
         free == FreeUnits(swapmap)
     IN /\ free \cap used = {} /\ free \cap lost = {} /\ used \cap lost = {}
        /\ free \cup used \cup lost = SwapUnits

(* No piece lies across the boundary between two devices' stripes:         *)
(* swstrategy could not transfer it.                                       *)
WithinStripe ==
  \A h \in Held : (h[3].m_addr % DMMAX) + h[3].m_size <= DMMAX

(* A process has swap space for all of its data and stack, whatever was    *)
(* refused to it, all of it where swstrategy can transfer it (and that of  *)
(* texts and user areas too), and the kernel never panics over it: not in  *)
(* rmalloc, not in rmfree ("bad rmfree"), not in vsexpand, and vstodb      *)
(* finds every page.                                                       *)
Backed(size, dm) == ctod(size) <= dm.dm_size /\ dm.dm_size <= dm.dm_alloc

SwapBacked ==
  /\ ~swpanic
  /\ WithinStripe
  /\ \A p \in SwapProcs : Backed(usr[p].dsize, usr[p].dmap) /\ Backed(usr[p].ssize, usr[p].smap)

(* vmdrum.c: "If space is not available for both, retract and return 0."   *)
(* (h/dmap.h: dm_size is the "current size used by process".)              *)
SwapRetracts ==
  \A p \in SwapProcs :
    usr[p].dmap.dm_size = ctod(usr[p].dsize) /\ usr[p].smap.dm_size = ctod(usr[p].ssize)
=============================================================================
