----------------------------- MODULE ResourceMap -----------------------------
(***************************************************************************)
(* The resource maps of sys/rmap.c, as operators on a map: the free        *)
(* segments of an address space, first one first, in an array of fixed     *)
(* size whose entry after the last segment has size zero.  The map here is *)
(* swapmap, whose addresses are laid out over the swap devices in stripes  *)
(* of DMMAX; every other map is one whose stripe is larger than the map.   *)
(***************************************************************************)
EXTENDS Integers, FiniteSets

CONSTANTS
  Slots,   \* entries of the array, the delimiter's included: mapsize - 1
  DMMAX    \* the stripe

ASSUME MapConstants == Slots \in Nat \ {0, 1} /\ DMMAX \in Nat \ {0}

Seg(size, addr) == [m_size |-> size, m_addr |-> addr]
Empty == Seg(0, 0)

Rminit(size, addr) == [i \in 1 .. Slots |-> IF i = 1 THEN Seg(size, addr) ELSE Empty]

UpTo(seg) == seg.m_addr + seg.m_size
Units(addr, size) == addr .. addr + size - 1

First(S) == CHOOSE i \in S : \A j \in S : i <= j

Delimiter(map) == First({i \in 1 .. Slots : map[i].m_size = 0} \cup {Slots + 1})
Pieces(map) == 1 .. Delimiter(map) - 1
FreeUnits(map) == UNION {Units(map[i].m_addr, map[i].m_size) : i \in Pieces(map)}

(* The entries from i on, the delimiter included, move one down or up.     *)
CloseUp(map, i) ==
  LET d == Delimiter(map) IN [j \in 1 .. Slots |-> IF j \in i .. d - 1 THEN map[j + 1] ELSE map[j]]
MakeRoom(map, i, seg) ==
  LET d == Delimiter(map)
  IN [j \in 1 .. Slots |-> IF j = i THEN seg ELSE IF j \in i + 1 .. d THEN map[j - 1] ELSE map[j]]

(* What the operations return: the map, the result, what the map lost, and *)
(* whether the kernel panics.                                              *)
Done(map, addr) == [map |-> map, addr |-> addr, lost |-> {}, panic |-> FALSE]
Panic(map) == [map |-> map, addr |-> 0, lost |-> {}, panic |-> TRUE]

-----------------------------------------------------------------------------
(* Another segment would leave no room for the delimiter.                  *)
Overflows(map) == Delimiter(map) = Slots

(* rmfree of a segment that touches no other: a new entry; if that fills   *)
(* the array, the segment before the last is discarded.                    *)
NewEntry(map, i, seg) ==
  LET m == MakeRoom(map, i, seg)
  IN IF ~Overflows(map) THEN Done(m, 0)
     ELSE [Done([m EXCEPT ![Slots - 1] = m[Slots], ![Slots] = Empty], 0)
             EXCEPT !.lost = Units(m[Slots - 1].m_addr, m[Slots - 1].m_size)]

AbutsOver(upto, addr) == upto > addr                      \* mutant
Abuts(upto, addr) == upto >= addr

(* rmfree: the segment joins the ones it touches, and may overlap none.    *)
(* i is the first entry behind it, if there is one.                        *)
FreeBefore(map, i, size, addr) ==
  LET left  == i > 1 /\ Abuts(UpTo(map[i - 1]), addr)
      next  == IF left THEN map[i].m_addr # 0 ELSE map[i].m_size # 0
      right == next /\ Abuts(addr + size, map[i].m_addr)
  IN CASE \/ addr <= 0 \/ size <= 0
          \/ left /\ UpTo(map[i - 1]) > addr
          \/ right /\ addr + size > map[i].m_addr
            -> Panic(map)
       [] left /\ ~right -> Done([map EXCEPT ![i - 1].m_size = @ + size], 0)
       [] left /\ right  -> Done(CloseUp([map EXCEPT ![i - 1].m_size = @ + size + map[i].m_size], i), 0)
       [] ~left /\ right -> Done([map EXCEPT ![i] = Seg(@.m_size + size, @.m_addr - size)], 0)
       [] OTHER          -> NewEntry(map, i, Seg(size, addr))

Rmfree(map, size, addr) ==
  FreeBefore(map, First({i \in 1 .. Slots : map[i].m_addr > addr \/ map[i].m_size = 0} \cup {Slots}), size, addr)

(* What of a segment lies before the next stripe, and whether all does.    *)
BeforeStripe(seg) == DMMAX - (seg.m_addr % DMMAX)
Crosses(seg) == BeforeStripe(seg) < seg.m_size

(* rmalloc: the first segment that is large enough; of one that reaches    *)
(* into the next stripe only what lies behind the boundary is used, and    *)
(* the rest of that is given back.                                         *)
Fits(seg, size) == (IF Crosses(seg) THEN seg.m_size - BeforeStripe(seg) ELSE seg.m_size) >= size

TakeFrom(map, i, size) ==
  LET addr == map[i].m_addr + BeforeStripe(map[i])
      rest == UpTo(map[i]) - addr - size
      cut  == [map EXCEPT ![i].m_size = BeforeStripe(map[i])]
      took == [map EXCEPT ![i] = Seg(@.m_size - size, @.m_addr + size)]
  IN CASE ~Crosses(map[i]) ->
            Done(IF map[i].m_size = size THEN CloseUp(map, i) ELSE took, map[i].m_addr)
       [] Crosses(map[i]) /\ rest = 0 -> Done(cut, addr)
       [] Crosses(map[i]) /\ rest # 0 ->
            [Rmfree(cut, rest, addr + size) EXCEPT !.addr = addr]

Rmalloc(map, size) ==
  LET fit == {i \in Pieces(map) : Fits(map[i], size)}
  IN IF size \notin 1 .. DMMAX THEN Panic(map)
     ELSE IF fit = {} THEN Done(map, 0)
     ELSE TakeFrom(map, First(fit), size)

-----------------------------------------------------------------------------
(* A map as its users find it: segments in ascending order that do not     *)
(* touch, a delimiter inside the array, and nothing behind the delimiter,  *)
(* so that the next new entry finds its delimiter there.                   *)
WellFormed(map) ==
  LET d == Delimiter(map)
  IN /\ d <= Slots
     /\ \A i \in 1 .. Slots : IF i < d THEN map[i].m_addr > 0 ELSE map[i] = Empty
     /\ \A i \in 1 .. d - 2 : UpTo(map[i]) < map[i + 1].m_addr
=============================================================================
