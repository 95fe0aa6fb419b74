-------------------------- MODULE StreamPipe_proofs --------------------------
(***************************************************************************)
(* Theorems about a pipe, for any processes and calls, any water marks and *)
(* block sizes.  The lemmas about getq, putq, putbq and flushq come first: *)
(* what they do to the weight of a queue and to its flags.                 *)
(***************************************************************************)
EXTENDS StreamPipe, FiniteSetTheorems, SequenceTheorems, TLAPS

(***************************************************************************)
(* The weight of a queue                                                   *)
(***************************************************************************)
(* A data block has bytes in it, no more than fit.                         *)
DataBlock ==
  {b \in [type : {"data"}, bytes : Seq(Nat), room : 0 .. Cap] :
     Len(b.bytes) \in 1 .. Cap /\ Len(b.bytes) + b.room <= Cap}
Blocks == DataBlock \cup {Delim, Pass}
QueueType == [blocks : Seq(Blocks), flag : SUBSET QFlags]

(* The indices of a queue's blocks are finitely many.                      *)
LEMMA IndicesFinite ==
  ASSUME NEW s \in Seq(Blocks)
  PROVE  /\ IsFiniteSet(Delims(s)) /\ IsFiniteSet(Others(s))
         /\ Cardinality(Delims(s)) \in Nat /\ Cardinality(Others(s)) \in Nat
<1>1. IsFiniteSet(1 .. Len(s))
  BY FS_Interval
<1>2. Delims(s) \subseteq 1 .. Len(s) /\ Others(s) \subseteq 1 .. Len(s)
  BY DEF Delims, Others
<1> QED BY <1>1, <1>2, FS_Subset, FS_CardinalityType

(* Types of the blocks that weigh.                                         *)
LEMMA WeightType ==
  ASSUME QueueAssumption, NEW b \in Blocks
  PROVE  /\ Weight(b) \in Nat \ {0} /\ b.type \in {"data", "delim", "pass"}
         /\ Weight(b) = IF b.type = "delim" THEN DelimWeight ELSE DataWeight
BY DEF QueueAssumption, Weight, Blocks, DataBlock, Delim, Pass

(* The weight of a queue is a number, that of an empty queue zero.         *)
LEMMA CountType ==
  ASSUME QueueAssumption, NEW s \in Seq(Blocks)
  PROVE  Count(s) \in Nat
BY IndicesFinite DEF QueueAssumption, Count

LEMMA CountEmpty ==
  ASSUME QueueAssumption
  PROVE  Count(<<>>) = 0
<1>1. Delims(<<>>) = {} /\ Others(<<>>) = {}
  BY DEF Delims, Others
<1> QED BY <1>1, FS_EmptySet DEF QueueAssumption, Count

(* Distribution, which the provers do not apply by themselves.             *)
LEMMA OneMore ==
  ASSUME NEW d \in Nat, NEW n \in Nat
  PROVE  d * (n + 1) = d * n + d /\ d * n \in Nat
OBVIOUS

(* One block more at the end weighs what it weighs.                        *)
LEMMA CountAppend ==
  ASSUME QueueAssumption, NEW s \in Seq(Blocks), NEW b \in Blocks
  PROVE  Count(Append(s, b)) = Count(s) + Weight(b)
<1> DEFINE n == Len(s) + 1
           t == Append(s, b)
<1>1. /\ t \in Seq(Blocks) /\ Len(t) = n /\ t[n] = b
      /\ \A i \in 1 .. Len(s) : t[i] = s[i]
      /\ DOMAIN t = 1 .. n /\ DOMAIN s = 1 .. Len(s) /\ Len(s) \in Nat
  BY AppendProperties, LenProperties
<1>2. /\ IsFiniteSet(Delims(s)) /\ IsFiniteSet(Others(s))
      /\ Cardinality(Delims(s)) \in Nat /\ Cardinality(Others(s)) \in Nat
  BY IndicesFinite
<1>3. n \notin Delims(s) /\ n \notin Others(s)
  BY <1>1 DEF Delims, Others
<1>4. CASE b.type = "delim"
  <2>1. Delims(t) = Delims(s) \cup {n} /\ Others(t) = Others(s)
    BY <1>1, <1>4 DEF Delims, Others
  <2>2. Cardinality(Delims(t)) = Cardinality(Delims(s)) + 1
    BY <1>2, <1>3, <2>1, FS_AddElement
  <2>3. DelimWeight * Cardinality(Delims(t)) = DelimWeight * Cardinality(Delims(s)) + DelimWeight
    BY <1>2, <2>2, OneMore DEF QueueAssumption
  <2>4. /\ DataWeight * Cardinality(Others(s)) \in Nat
        /\ DelimWeight * Cardinality(Delims(s)) \in Nat /\ DelimWeight \in Nat
    BY <1>2, OneMore DEF QueueAssumption
  <2>5. Count(t) = DataWeight * Cardinality(Others(t)) + DelimWeight * Cardinality(Delims(t))
    BY DEF Count
  <2> HIDE DEF t
  <2>6. Count(t) = Count(s) + DelimWeight
    BY <2>1, <2>3, <2>4, <2>5 DEF Count
  <2> QED BY <1>4, <2>6 DEF Weight, t
<1>5. CASE b.type # "delim"
  <2>1. Delims(t) = Delims(s) /\ Others(t) = Others(s) \cup {n}
    BY <1>1, <1>5 DEF Delims, Others
  <2>2. Cardinality(Others(t)) = Cardinality(Others(s)) + 1
    BY <1>2, <1>3, <2>1, FS_AddElement
  <2>3. DataWeight * Cardinality(Others(t)) = DataWeight * Cardinality(Others(s)) + DataWeight
    BY <1>2, <2>2, OneMore DEF QueueAssumption
  <2>4. /\ DataWeight * Cardinality(Others(s)) \in Nat
        /\ DelimWeight * Cardinality(Delims(s)) \in Nat /\ DataWeight \in Nat
    BY <1>2, OneMore DEF QueueAssumption
  <2>5. Count(t) = DataWeight * Cardinality(Others(t)) + DelimWeight * Cardinality(Delims(t))
    BY DEF Count
  <2> HIDE DEF t
  <2>6. Count(t) = Count(s) + DataWeight
    BY <2>1, <2>3, <2>4, <2>5 DEF Count
  <2> QED BY <1>5, <2>6 DEF Weight, t
<1> QED BY <1>4, <1>5

(* Indices moved by one are as many.                                       *)
LEMMA ShiftedAsMany ==
  ASSUME NEW S \in SUBSET Nat, IsFiniteSet(S), NEW T, T = {i + 1 : i \in S}
  PROVE  IsFiniteSet(T) /\ Cardinality(T) = Cardinality(S)
<1> DEFINE f == [i \in S |-> i + 1]
<1>1. f \in Bijection(S, T)
  BY DEF Bijection, Injection, Surjection, IsInjective
<1>2. ExistsBijection(S, T)
  BY <1>1 DEF ExistsBijection
<1> QED BY <1>2, FS_Bijection

(* One block more at the front likewise.                                   *)
LEMMA CountCons ==
  ASSUME QueueAssumption, NEW s \in Seq(Blocks), NEW b \in Blocks
  PROVE  Count(<<b>> \o s) = Weight(b) + Count(s)
<1> DEFINE t == <<b>> \o s
           D == {i + 1 : i \in Delims(s)}
           O == {i + 1 : i \in Others(s)}
<1>1. /\ t \in Seq(Blocks) /\ Len(t) = Len(s) + 1 /\ t[1] = b
      /\ \A i \in 1 .. Len(s) : t[i + 1] = s[i]
      /\ DOMAIN t = 1 .. Len(s) + 1 /\ DOMAIN s = 1 .. Len(s) /\ Len(s) \in Nat
  <2>1. <<b>> \in Seq(Blocks) /\ Len(<<b>>) = 1 /\ <<b>>[1] = b
    OBVIOUS
  <2>2. /\ t \in Seq(Blocks) /\ Len(t) = 1 + Len(s)
        /\ \A i \in 1 .. 1 + Len(s) : t[i] = IF i <= 1 THEN <<b>>[i] ELSE s[i - 1]
    BY <2>1, ConcatProperties
  <2>3. DOMAIN t = 1 .. Len(t) /\ DOMAIN s = 1 .. Len(s) /\ Len(s) \in Nat
    BY <2>2, LenProperties
  <2> HIDE DEF t
  <2> QED BY <2>1, <2>2, <2>3
<1>2. /\ IsFiniteSet(Delims(s)) /\ IsFiniteSet(Others(s))
      /\ Cardinality(Delims(s)) \in Nat /\ Cardinality(Others(s)) \in Nat
  BY IndicesFinite
<1>3. Delims(s) \subseteq 1 .. Len(s) /\ Others(s) \subseteq 1 .. Len(s)
  BY <1>1 DEF Delims, Others
<1>4. /\ IsFiniteSet(D) /\ Cardinality(D) = Cardinality(Delims(s))
      /\ IsFiniteSet(O) /\ Cardinality(O) = Cardinality(Others(s))
  <2>1. Delims(s) \subseteq Nat /\ Others(s) \subseteq Nat
    BY <1>3
  <2> QED BY <1>2, <2>1, ShiftedAsMany
<1>5. 1 \notin D /\ 1 \notin O
  BY <1>3
<1>6. \A i \in 1 .. Len(s) + 1 : i = 1 \/ i - 1 \in 1 .. Len(s)
  BY <1>1
<1>7. \A i \in 1 .. Len(s) + 1 : i # 1 => t[i] = s[i - 1]
  <2> TAKE i \in 1 .. Len(s) + 1
  <2> HIDE DEF t
  <2>1. i # 1 => i - 1 \in 1 .. Len(s) /\ (i - 1) + 1 = i
    BY <1>1
  <2> QED BY <1>1, <2>1
<1> HIDE DEF t
<1>8. CASE b.type = "delim"
  <2>1. Delims(t) = D \cup {1}
    BY <1>1, <1>3, <1>6, <1>7, <1>8 DEF Delims
  <2>2. Others(t) = O
    <3>1. \A i \in 1 .. Len(s) : i + 1 \in Others(t) <=> i \in Others(s)
      BY <1>1 DEF Others
    <3>2. 1 \notin Others(t) /\ Others(t) \subseteq 1 .. Len(s) + 1
      BY <1>1, <1>8 DEF Others
    <3>3. ASSUME NEW j \in Others(t)
          PROVE  j \in O
      <4>1. j - 1 \in 1 .. Len(s) /\ (j - 1) + 1 = j
        BY <1>1, <3>2
      <4>2. j - 1 \in Others(s)
        BY <3>1, <4>1
      <4> QED BY <4>1, <4>2
    <3>4. ASSUME NEW j \in O
          PROVE  j \in Others(t)
      BY <1>3, <3>1
    <3> QED BY <3>3, <3>4
  <2>3. Cardinality(Delims(t)) = Cardinality(Delims(s)) + 1
    BY <1>4, <1>5, <2>1, FS_AddElement
  <2> HIDE DEF D, O
  <2>4. Count(t) = Count(s) + Weight(b)
    BY <1>2, <1>4, <1>8, <2>2, <2>3 DEF QueueAssumption, Count, Weight
  <2> QED BY <2>4, CountType, WeightType DEF t
<1>9. CASE b.type # "delim"
  <2>1. Delims(t) = D
    BY <1>1, <1>3, <1>6, <1>7, <1>9 DEF Delims
  <2>2. Others(t) = O \cup {1}
    BY <1>1, <1>3, <1>6, <1>7, <1>9 DEF Others
  <2>3. Cardinality(Others(t)) = Cardinality(Others(s)) + 1
    BY <1>4, <1>5, <2>2, FS_AddElement
  <2> HIDE DEF D, O
  <2>4. Count(t) = Count(s) + Weight(b)
    BY <1>2, <1>4, <1>9, <2>1, <2>3 DEF QueueAssumption, Count, Weight
  <2> QED BY <2>4, CountType, WeightType DEF t
<1> QED BY <1>8, <1>9

(***************************************************************************)
(* What the operations do to a queue                                       *)
(***************************************************************************)
(* A queue is full when it has reached its limit; one that a writer may    *)
(* wait for is above its low water mark.                                   *)
QueueOK(q) ==
  /\ q \in QueueType
  /\ "QFULL" \in q.flag <=> Count(q.blocks) >= Limit
  /\ "QWANTW" \in q.flag => Count(q.blocks) > LoLimit
FullIsWanted(q) == "QFULL" \in q.flag => "QWANTW" \in q.flag

(* The blocks behind the first.                                            *)
LEMMA RestOfQueue ==
  ASSUME QueueAssumption, NEW q \in QueueType
  PROVE  /\ Rest(q) \in Seq(Blocks) /\ Count(q.blocks) \in Nat /\ Count(Rest(q)) \in Nat
         /\ q.blocks = <<>> => Rest(q) = <<>> /\ Count(q.blocks) = 0
         /\ q.blocks # <<>> => /\ Head(q.blocks) \in Blocks /\ q.blocks = <<Head(q.blocks)>> \o Rest(q)
                               /\ Len(Rest(q)) = Len(q.blocks) - 1
                               /\ \A i \in 1 .. Len(Rest(q)) : Rest(q)[i] = q.blocks[i + 1]
                               /\ Count(q.blocks) = Weight(Head(q.blocks)) + Count(Rest(q))
<1> DEFINE s == q.blocks
<1>1. s \in Seq(Blocks)
  BY DEF QueueType
<1>2. CASE s = <<>>
  <2>1. Rest(q) = <<>>
    BY <1>2 DEF Rest
  <2> QED BY <1>1, <1>2, <2>1, CountEmpty
<1>3. CASE s # <<>>
  <2>1. Rest(q) = Tail(s)
    BY <1>3 DEF Rest
  <2>2. /\ Head(s) \in Blocks /\ Tail(s) \in Seq(Blocks) /\ Len(Tail(s)) = Len(s) - 1
        /\ \A i \in 1 .. Len(Tail(s)) : Tail(s)[i] = s[i + 1]
    BY <1>1, <1>3, HeadTailProperties
  <2>3. s = <<Head(s)>> \o Tail(s)
    BY <1>1, <1>3
  <2>4. Count(<<Head(s)>> \o Tail(s)) = Weight(Head(s)) + Count(Tail(s))
    BY <2>2, CountCons
  <2>5. Count(s) \in Nat /\ Count(Tail(s)) \in Nat
    BY <1>1, <2>2, CountType
  <2> QED BY <1>3, <2>1, <2>2, <2>3, <2>4, <2>5
<1> QED BY <1>2, <1>3

(* getq: the flag that says that a writer waits goes off only when the     *)
(* writer is enabled.                                                      *)
LEMMA GetqKeeps ==
  ASSUME QueueAssumption, NEW q, QueueOK(q)
  PROVE  /\ QueueOK(Getq(q)) /\ Getq(q).blocks = Rest(q)
         /\ FullIsWanted(q) => FullIsWanted(Getq(q))
         /\ "QWANTW" \in q.flag => "QWANTW" \in Getq(q).flag \/ GetqEnables(q)
<1>1. /\ Rest(q) \in Seq(Blocks) /\ Count(q.blocks) \in Nat /\ Count(Rest(q)) \in Nat
      /\ q.blocks = <<>> => Rest(q) = <<>> /\ Count(q.blocks) = 0
      /\ q.blocks # <<>> => /\ Head(q.blocks) \in Blocks
                            /\ Count(q.blocks) = Weight(Head(q.blocks)) + Count(Rest(q))
  BY RestOfQueue DEF QueueOK
<1>2. q.blocks # <<>> => Weight(Head(q.blocks)) \in Nat \ {0}
  BY <1>1, WeightType
<1>3. Getq(q).blocks = Rest(q) /\ Getq(q) \in QueueType
  BY <1>1 DEF Getq, QueueType, QueueOK
<1>4. "QFULL" \in Getq(q).flag <=> /\ "QFULL" \in q.flag
                                   /\ ~(q.blocks # <<>> /\ Count(Rest(q)) < Limit)
  BY DEF Getq, QFlags
<1>5. "QWANTW" \in Getq(q).flag <=> "QWANTW" \in q.flag /\ ~GetqEnables(q)
  BY DEF Getq, QFlags
<1>6. GetqEnables(q) <=> "QWANTW" \in q.flag /\ Count(Rest(q)) <= LoLimit
  BY DEF GetqEnables
<1> QED BY <1>1, <1>2, <1>3, <1>4, <1>5, <1>6 DEF QueueOK, FullIsWanted, QueueAssumption

(* The end of putq and putbq.                                              *)
LEMMA MarkedKeeps ==
  ASSUME QueueAssumption, NEW q \in QueueType,
         "QFULL" \in q.flag => Count(q.blocks) >= Limit,
         "QWANTW" \in q.flag => Count(q.blocks) > LoLimit
  PROVE  /\ QueueOK(Marked(q)) /\ Marked(q).blocks = q.blocks
         /\ q.flag \subseteq Marked(q).flag
         /\ FullIsWanted(q) => FullIsWanted(Marked(q))
<1>1. Count(q.blocks) \in Nat
  BY CountType DEF QueueType
<1>2. CASE Count(q.blocks) >= Limit
  BY <1>1, <1>2 DEF Marked, QueueOK, QueueType, QFlags, FullIsWanted, QueueAssumption
<1>3. CASE ~(Count(q.blocks) >= Limit)
  BY <1>1, <1>3 DEF Marked, QueueOK, QueueType, QFlags, FullIsWanted, QueueAssumption
<1> QED BY <1>2, <1>3

(* A queue that is not empty is its front and its last block.              *)
LEMMA FrontAndLast ==
  ASSUME NEW s \in Seq(Blocks), s # <<>>
  PROVE  /\ Front(s) \in Seq(Blocks) /\ Last(s) \in Blocks /\ s = Append(Front(s), Last(s))
         /\ Len(Front(s)) = Len(s) - 1 /\ \A i \in 1 .. Len(s) - 1 : Front(s)[i] = s[i]
         /\ Len(s) \in Nat \ {0} /\ s[Len(s)] = Last(s)
<1>1. Len(s) \in Nat \ {0}
  BY EmptySeq, LenProperties
<1>2. /\ Front(s) \in Seq(Blocks) /\ Len(Front(s)) = Len(s) - 1
      /\ \A i \in 1 .. Len(s) - 1 : Front(s)[i] = s[i]
  <2>1. \A i \in 1 .. Len(s) - 1 : s[i] \in Blocks
    BY <1>1, ElementOfSeq
  <2> DEFINE n == Len(s) - 1
  <2>2. n \in Nat /\ n - 1 + 1 = n
    BY <1>1
  <2> HIDE DEF n
  <2>3. \A i \in 1 .. n : 1 + i - 1 = i
    BY <2>2
  <2>4. /\ SubSeq(s, 1, n) \in Seq(Blocks)
        /\ Len(SubSeq(s, 1, n)) = IF 1 <= n THEN n - 1 + 1 ELSE 0
        /\ \A i \in 1 .. n - 1 + 1 : SubSeq(s, 1, n)[i] = s[1 + i - 1]
    BY <2>1, <2>2, SubSeqProperties DEF n
  <2> DEFINE t == SubSeq(s, 1, n)
  <2> HIDE DEF t
  <2>5. t \in Seq(Blocks) /\ Len(t) = n /\ \A i \in 1 .. n : t[i] = s[i]
    BY <2>2, <2>3, <2>4 DEF t
  <2> QED BY <2>5 DEF Front, t, n
<1>3. Last(s) \in Blocks /\ Last(s) = s[Len(s)]
  BY <1>1, ElementOfSeq DEF Last
<1>4. s = Append(Front(s), Last(s))
  <2> DEFINE t == Append(Front(s), Last(s))
  <2>1. /\ t \in Seq(Blocks) /\ Len(t) = Len(Front(s)) + 1
        /\ \A i \in 1 .. Len(Front(s)) : t[i] = Front(s)[i]
        /\ t[Len(Front(s)) + 1] = Last(s)
    BY <1>2, <1>3, AppendProperties
  <2>2. Len(t) = Len(s) /\ \A i \in 1 .. Len(s) : s[i] = t[i]
    BY <1>1, <1>2, <1>3, <2>1
  <2> HIDE DEF t
  <2>3. s = t
    BY <2>1, <2>2, SeqEqual
  <2> QED BY <2>3 DEF t
<1> QED BY <1>1, <1>2, <1>3, <1>4

(* Data that is copied into the last block leaves a data block.            *)
LEMMA MergedIsBlock ==
  ASSUME QueueAssumption, NEW l \in Blocks, NEW b \in Blocks,
         l.type = "data", b.type = "data", Len(b.bytes) <= l.room
  PROVE  /\ Merged(l, b) \in DataBlock /\ Merged(l, b).bytes = l.bytes \o b.bytes
         /\ l \in DataBlock /\ b \in DataBlock
<1>1. l \in DataBlock /\ b \in DataBlock
  BY DEF Blocks, Delim, Pass
<1>2. /\ l.bytes \in Seq(Nat) /\ b.bytes \in Seq(Nat) /\ l.room \in 0 .. Cap /\ b.room \in 0 .. Cap
      /\ Len(l.bytes) \in 1 .. Cap /\ Len(b.bytes) \in 1 .. Cap /\ Len(l.bytes) + l.room <= Cap
      /\ Cap \in Nat
  BY <1>1 DEF DataBlock, QueueAssumption
<1> DEFINE x == l.bytes \o b.bytes
           y == l.room - Len(b.bytes)
<1>3. x \in Seq(Nat) /\ Len(x) = Len(l.bytes) + Len(b.bytes)
  BY <1>2, ConcatProperties
<1>4. Merged(l, b) = [l EXCEPT !.bytes = x, !.room = y]
  BY DEF Merged
<1>5. Len(b.bytes) \in 1 .. Cap /\ Len(l.bytes) \in 1 .. Cap /\ l.room \in 0 .. Cap /\ Cap \in Nat
  BY <1>2
<1>6. y \in 0 .. Cap /\ Len(l.bytes) + Len(b.bytes) + y <= Cap /\ Len(l.bytes) + Len(b.bytes) \in 1 .. Cap
  <2> DEFINE m == Len(b.bytes)
             n == Len(l.bytes)
             r == l.room
  <2>1. m \in 1 .. Cap /\ n \in 1 .. Cap /\ r \in 0 .. Cap /\ Cap \in Nat /\ n + r <= Cap /\ m <= r
    BY <1>2
  <2>2. y = r - m
    OBVIOUS
  <2> HIDE DEF m, n, r, y
  <2>3. y \in 0 .. Cap /\ n + m + y <= Cap /\ n + m \in 1 .. Cap
    BY <2>1, <2>2
  <2> QED BY <2>3 DEF m, n
<1>7. l \in [type : {"data"}, bytes : Seq(Nat), room : 0 .. Cap]
  BY <1>1 DEF DataBlock
<1> HIDE DEF x, y
<1>8. /\ Merged(l, b) \in [type : {"data"}, bytes : Seq(Nat), room : 0 .. Cap]
      /\ Merged(l, b).bytes = x /\ Merged(l, b).room = y
  <2>1. x \in Seq(Nat) /\ y \in 0 .. Cap
    BY <1>3, <1>6
  <2>2. /\ [l EXCEPT !.bytes = x, !.room = y] \in [type : {"data"}, bytes : Seq(Nat), room : 0 .. Cap]
        /\ [l EXCEPT !.bytes = x, !.room = y].bytes = x
        /\ [l EXCEPT !.bytes = x, !.room = y].room = y
    BY <1>7, <2>1
  <2> QED BY <1>4, <2>2, Zenon
<1>9. Merged(l, b) \in DataBlock
  BY <1>3, <1>6, <1>8 DEF DataBlock
<1> QED BY <1>1, <1>8, <1>9 DEF x

(* putq: what a block weighs is added, unless it fits into the last one.   *)
LEMMA PutqKeeps ==
  ASSUME QueueAssumption, NEW q, QueueOK(q), NEW b \in Blocks
  PROVE  LET r == Putq(q, b) IN
         /\ QueueOK(r) /\ q.flag \subseteq r.flag
         /\ r.blocks = IF Merges(q, b) THEN Append(Front(q.blocks), Merged(Last(q.blocks), b))
                       ELSE Append(q.blocks, b)
         /\ Count(q.blocks) <= Count(r.blocks) /\ Count(r.blocks) <= Count(q.blocks) + Weight(b)
         /\ FullIsWanted(q) => FullIsWanted(r)
<1> DEFINE s == IF Merges(q, b) THEN Append(Front(q.blocks), Merged(Last(q.blocks), b))
                ELSE Append(q.blocks, b)
           p == [q EXCEPT !.blocks = s]
<1>1. q.blocks \in Seq(Blocks) /\ Count(q.blocks) \in Nat /\ Weight(b) \in Nat \ {0}
  BY CountType, WeightType DEF QueueOK, QueueType
<1>2. /\ s \in Seq(Blocks) /\ Count(q.blocks) <= Count(s) /\ Count(s) <= Count(q.blocks) + Weight(b)
      /\ Count(s) \in Nat
  <2>1. CASE Merges(q, b)
    <3>1. /\ b.type = "data" /\ q.blocks # <<>>
          /\ Last(q.blocks).type = "data" /\ Len(b.bytes) <= Last(q.blocks).room
      BY <2>1 DEF Merges
    <3>2. /\ Front(q.blocks) \in Seq(Blocks) /\ Last(q.blocks) \in Blocks
          /\ q.blocks = Append(Front(q.blocks), Last(q.blocks))
      BY <1>1, <3>1, FrontAndLast
    <3>3. Merged(Last(q.blocks), b) \in DataBlock
      BY <3>1, <3>2, MergedIsBlock
    <3>4. Merged(Last(q.blocks), b) \in Blocks /\ Merged(Last(q.blocks), b).type = "data"
      BY <3>3 DEF Blocks, DataBlock
    <3>5. /\ Count(Append(Front(q.blocks), Last(q.blocks))) = Count(Front(q.blocks)) + DataWeight
          /\ Count(Append(Front(q.blocks), Merged(Last(q.blocks), b))) = Count(Front(q.blocks)) + DataWeight
      BY <3>1, <3>2, <3>4, CountAppend DEF Weight
    <3>6. Append(Front(q.blocks), Merged(Last(q.blocks), b)) \in Seq(Blocks)
      BY <3>2, <3>4, AppendProperties
    <3>7. s = Append(Front(q.blocks), Merged(Last(q.blocks), b))
      BY <2>1
    <3>8. Count(q.blocks) = Count(Append(Front(q.blocks), Last(q.blocks)))
      BY <3>2, Zenon
    <3> HIDE DEF s
    <3> QED BY <1>1, <3>5, <3>6, <3>7, <3>8
  <2>2. CASE ~Merges(q, b)
    <3>1. Append(q.blocks, b) \in Seq(Blocks) /\ Count(Append(q.blocks, b)) = Count(q.blocks) + Weight(b)
      BY <1>1, CountAppend, AppendProperties
    <3> QED BY <1>1, <2>2, <3>1
  <2> QED BY <2>1, <2>2
<1> HIDE DEF s
<1>3. p \in QueueType /\ p.blocks = s /\ p.flag = q.flag
  BY <1>2 DEF QueueOK, QueueType
<1>4. Putq(q, b) = Marked(p)
  BY DEF Putq, s
<1> HIDE DEF p
<1>5. /\ "QFULL" \in p.flag => Count(p.blocks) >= Limit
      /\ "QWANTW" \in p.flag => Count(p.blocks) > LoLimit
  BY <1>1, <1>2, <1>3 DEF QueueOK, QueueAssumption
<1>6. /\ QueueOK(Marked(p)) /\ Marked(p).blocks = p.blocks
      /\ p.flag \subseteq Marked(p).flag
      /\ FullIsWanted(p) => FullIsWanted(Marked(p))
  BY <1>3, <1>5, MarkedKeeps
<1>7. FullIsWanted(q) => FullIsWanted(p)
  BY <1>3 DEF FullIsWanted
<1> QED BY <1>2, <1>3, <1>4, <1>6, <1>7 DEF s

(* putbq.                                                                  *)
LEMMA PutbqKeeps ==
  ASSUME QueueAssumption, NEW q, QueueOK(q), NEW b \in Blocks
  PROVE  LET r == Putbq(q, b) IN
         /\ QueueOK(r) /\ q.flag \subseteq r.flag
         /\ r.blocks = <<b>> \o q.blocks /\ r.blocks # <<>>
         /\ Count(r.blocks) = Weight(b) + Count(q.blocks)
         /\ Len(r.blocks) = Len(q.blocks) + 1 /\ r.blocks[1] = b
         /\ \A i \in 1 .. Len(q.blocks) : r.blocks[i + 1] = q.blocks[i]
         /\ FullIsWanted(q) => FullIsWanted(r)
<1> DEFINE s == <<b>> \o q.blocks
           p == [q EXCEPT !.blocks = s]
<1>1. q.blocks \in Seq(Blocks) /\ Count(q.blocks) \in Nat /\ Weight(b) \in Nat \ {0}
  BY CountType, WeightType DEF QueueOK, QueueType
<1>2. /\ s \in Seq(Blocks) /\ Count(s) = Weight(b) + Count(q.blocks) /\ Count(s) \in Nat
      /\ Len(s) = Len(q.blocks) + 1 /\ s[1] = b /\ s # <<>>
      /\ \A i \in 1 .. Len(q.blocks) : s[i + 1] = q.blocks[i]
  <2>1. <<b>> \in Seq(Blocks) /\ Len(<<b>>) = 1 /\ <<b>>[1] = b
    OBVIOUS
  <2>2. Len(q.blocks) \in Nat
    BY <1>1, LenProperties
  <2>3. /\ s \in Seq(Blocks) /\ Len(s) = 1 + Len(q.blocks)
        /\ \A i \in 1 .. 1 + Len(q.blocks) : s[i] = IF i <= 1 THEN <<b>>[i] ELSE q.blocks[i - 1]
    BY <1>1, <2>1, ConcatProperties
  <2>4. Count(s) = Weight(b) + Count(q.blocks)
    BY <1>1, CountCons
  <2> HIDE DEF s
  <2>5. s # <<>>
    BY <2>2, <2>3, EmptySeq
  <2>6. \A i \in 1 .. Len(q.blocks) : s[i + 1] = q.blocks[i]
    <3> TAKE i \in 1 .. Len(q.blocks)
    <3>1. i + 1 \in 1 .. 1 + Len(q.blocks) /\ ~(i + 1 <= 1) /\ (i + 1) - 1 = i
      BY <2>2
    <3> QED BY <2>3, <3>1
  <2>7. s[1] = b
    BY <2>1, <2>2, <2>3
  <2> QED BY <1>1, <2>2, <2>3, <2>4, <2>5, <2>6, <2>7
<1> HIDE DEF s
<1>3. p \in QueueType /\ p.blocks = s /\ p.flag = q.flag
  BY <1>2 DEF QueueOK, QueueType
<1>4. Putbq(q, b) = Marked(p)
  BY DEF Putbq, s
<1> HIDE DEF p
<1>5. /\ "QFULL" \in p.flag => Count(p.blocks) >= Limit
      /\ "QWANTW" \in p.flag => Count(p.blocks) > LoLimit
  BY <1>1, <1>2, <1>3 DEF QueueOK, QueueAssumption
<1>6. /\ QueueOK(Marked(p)) /\ Marked(p).blocks = p.blocks
      /\ p.flag \subseteq Marked(p).flag
      /\ FullIsWanted(p) => FullIsWanted(Marked(p))
  BY <1>3, <1>5, MarkedKeeps
<1>7. FullIsWanted(q) => FullIsWanted(p)
  BY <1>3 DEF FullIsWanted
<1> QED BY <1>2, <1>3, <1>4, <1>6, <1>7 DEF s

(* flushq: only the files that are being passed stay, and a writer that    *)
(* waits is enabled if they do not weigh enough.                           *)
NoPass(blocks) == \A i \in 1 .. Len(blocks) : blocks[i].type # "pass"

LEMMA FlushqKeeps ==
  ASSUME QueueAssumption, NEW q, QueueOK(q)
  PROVE  /\ QueueOK(Flushq(q)) /\ Count(Flushq(q).blocks) <= Count(q.blocks)
         /\ \A i \in 1 .. Len(Flushq(q).blocks) : Flushq(q).blocks[i] = Pass
         /\ NoPass(q.blocks) => /\ Flushq(q).blocks = <<>> /\ Flushq(q).flag = {}
                                /\ FlushqEnables(q) <=> "QWANTW" \in q.flag
<1> DEFINE s == q.blocks
           P == {j \in DOMAIN s : s[j].type = "pass"}
           n == Cardinality(P)
           t == [i \in 1 .. n |-> Pass]
           p == [blocks |-> t, flag |-> q.flag \ {"QFULL"}]
<1>1. s \in Seq(Blocks) /\ q.flag \subseteq QFlags /\ DOMAIN s = 1 .. Len(s) /\ Count(s) \in Nat
  BY LenProperties, CountType DEF QueueOK, QueueType
<1>2. /\ IsFiniteSet(Delims(s)) /\ IsFiniteSet(Others(s))
      /\ Cardinality(Delims(s)) \in Nat /\ Cardinality(Others(s)) \in Nat
  BY <1>1, IndicesFinite
<1>3. P \subseteq Others(s)
  BY <1>1 DEF Others
<1>4. n \in Nat /\ IsFiniteSet(P) /\ n <= Cardinality(Others(s))
  BY <1>2, <1>3, FS_Subset, FS_CardinalityType
<1>5. t \in Seq(Blocks) /\ Len(t) = n /\ \A i \in 1 .. n : t[i] = Pass
  <2> HIDE DEF n
  <2> QED BY <1>4 DEF Blocks
<1>6. Count(t) \in Nat /\ Count(t) <= Count(s)
  <2> HIDE DEF n, t
  <2>1. DOMAIN t = 1 .. n
    BY <1>5, LenProperties
  <2>2. Delims(t) = {} /\ Others(t) = 1 .. n
    BY <1>5, <2>1 DEF Delims, Others, Pass
  <2>3. Cardinality(Delims(t)) = 0 /\ Cardinality(Others(t)) = n
    BY <1>4, <2>2, FS_EmptySet, FS_Interval
  <2>4. Count(t) = DataWeight * n + DelimWeight * 0
    BY <2>3 DEF Count
  <2>5. Count(t) = DataWeight * n
    BY <1>4, <2>4 DEF QueueAssumption
  <2>6. DataWeight * n <= DataWeight * Cardinality(Others(s)) /\ DataWeight * n \in Nat
    BY <1>2, <1>4 DEF QueueAssumption
  <2>7. DelimWeight * Cardinality(Delims(s)) \in Nat /\ DataWeight * Cardinality(Others(s)) \in Nat
    BY <1>2 DEF QueueAssumption
  <2>8. Count(s) = DataWeight * Cardinality(Others(s)) + DelimWeight * Cardinality(Delims(s))
    BY DEF Count
  <2> QED BY <2>5, <2>6, <2>7, <2>8
<1> HIDE DEF t
<1>7. Requeued(q) = Marked(p)
  BY DEF Requeued, Passed, t
<1>8. p \in QueueType /\ p.blocks = t /\ p.flag = q.flag \ {"QFULL"}
  BY <1>1, <1>5 DEF QueueType
<1> HIDE DEF p
<1> DEFINE r == Marked(p)
<1>9. CASE Count(t) >= Limit
  <2>1. r.blocks = t /\ r.flag = QFlags /\ r \in QueueType
    BY <1>8, <1>9 DEF Marked, QueueType
  <2>2. NoPass(s) => n = 0
    <3>1. NoPass(s) => P = {}
      BY <1>1 DEF NoPass
    <3> QED BY <3>1, FS_EmptySet
  <2>3. n = 0 => t = <<>>
    BY <1>5, EmptySeq
  <2>4. ~NoPass(s)
    BY <1>9, <2>2, <2>3, CountEmpty DEF QueueAssumption
  <2> HIDE DEF r
  <2>5. /\ Flushq(q).blocks = t /\ Flushq(q).flag = {"QFULL"}
        /\ Flushq(q) \in QueueType
    BY <1>7, <2>1 DEF Flushq, QFlags, QueueType, r
  <2> QED BY <1>5, <1>6, <1>9, <2>4, <2>5 DEF QueueOK
<1>10. CASE ~(Count(t) >= Limit)
  <2>1. r = p
    BY <1>8, <1>10 DEF Marked
  <2>2. NoPass(s) => n = 0
    <3>1. NoPass(s) => P = {}
      BY <1>1 DEF NoPass
    <3> QED BY <3>1, FS_EmptySet
  <2>3. n = 0 => t = <<>>
    BY <1>5, EmptySeq
  <2> HIDE DEF r
  <2>4. /\ Flushq(q).blocks = t /\ Flushq(q).flag = {}
        /\ Flushq(q) \in QueueType
    BY <1>1, <1>7, <1>8, <2>1 DEF Flushq, QFlags, QueueType, r
  <2>5. FlushqEnables(q) <=> "QWANTW" \in q.flag
    BY <1>7, <1>8, <2>1 DEF FlushqEnables, r
  <2> QED BY <1>5, <1>6, <1>10, <2>2, <2>3, <2>4, <2>5 DEF QueueOK
<1> QED BY <1>9, <1>10

(***************************************************************************)
(* Types, and where the processes are                                      *)
(***************************************************************************)
StreamFlags == {"RSLEEP", "WSLEEP", "HUNGUP", "WNBLK"}

EndTypes ==
  /\ queue \in [Ends -> QueueType] /\ sflag \in [Ends -> SUBSET StreamFlags] /\ count \in [Ends -> Int]
  /\ streaming \subseteq Ends /\ linked \in BOOLEAN /\ enabled \subseteq Ends
  /\ fd \in [Ends -> SUBSET Procs] /\ sent \in [Ends -> Nat] /\ starts \in [Ends -> SUBSET Nat]
ProcTypes ==
  /\ pc \in [Procs -> PCs] /\ call \in [Procs -> Call \cup {None}] /\ ucount \in [Procs -> Nat]
  /\ hand \in [Procs -> Blocks \cup {None}] /\ wrote \in [Procs -> BOOLEAN]
  /\ wchan \in [Procs -> Chans \cup {None}] /\ cur \in Procs \cup {None}
  /\ seen \in [Procs -> SUBSET Nat]
QueuesOK == \A e \in Ends : QueueOK(queue[e])

(* What a process has at its place in the code.                            *)
PlaceOK(p) ==
  /\ pc[p] = "user" => call[p] = None /\ ~wrote[p] /\ seen[p] = {} /\ wchan[p] = None
  /\ pc[p] # "user" => call[p] \in CallsOf[p]
  /\ pc[p] \in {"read", "iomove"} => call[p].kind = "read"
  /\ pc[p] \in {"write", "copyin"} => call[p].kind = "write"
  /\ pc[p] = "rcv" => call[p].kind = "rcvfd"
  /\ pc[p] = "ioctl" => call[p].kind \in {"flush", "wnblk", "sndfd"}
  /\ wrote[p] => call[p].kind = "write"
  /\ seen[p] # {} => call[p].kind = "read"
  /\ pc[p] = "copyin" => ucount[p] > 0
  /\ IF pc[p] = "iomove" THEN hand[p] \in DataBlock ELSE hand[p] = None
  /\ wchan[p] # None => \/ pc[p] \in {"read", "rcv"} /\ wchan[p] = Rd(End(p))
                        \/ pc[p] = "write" /\ wchan[p] = Wr(End(p))

TypesInv == EndTypes /\ ProcTypes /\ QueuesOK /\ \A p \in Procs : PlaceOK(p)

(* The two ends.                                                           *)
LEMMA PeerFacts ==
  ASSUME NEW e \in Ends
  PROVE  /\ Peer(e) \in Ends /\ Peer(e) # e /\ Peer(Peer(e)) = e
         /\ \A f \in Ends : f = e \/ f = Peer(e)
<1>1. PICK a \in Ends, b \in Ends : a # b /\ Ends = {a, b}
  BY PipeAssumption
<1>2. ASSUME NEW x \in Ends
      PROVE  Peer(x) \in Ends /\ Peer(x) # x
  <2>1. \E f \in Ends : f # x
    BY <1>1
  <2> QED BY <2>1 DEF Peer
<1> QED BY <1>1, <1>2

(* The channels of a stream head are different, and none of them is None.  *)
LEMMA ChanFacts ==
  ASSUME NEW e \in Ends, NEW f \in Ends
  PROVE  /\ Rd(e) # Wr(f) /\ (Rd(e) = Rd(f) => e = f) /\ (Wr(e) = Wr(f) => e = f)
         /\ Rd(e) # None /\ Wr(e) # None /\ Rd(e) \in Chans /\ Wr(e) \in Chans
<1>1. Rd(e) \in {"read queue", "write queue"} \X Ends /\ Wr(e) \in {"read queue", "write queue"} \X Ends
  BY DEF Rd, Wr
<1>2. Rd(e) # None /\ Wr(e) # None
  BY <1>1, PipeAssumption
<1> QED BY <1>2 DEF Rd, Wr, Chans

(* A call is a record of its kind, its end and its size.                   *)
LEMMA CallFacts ==
  ASSUME NEW p \in Procs, NEW c \in CallsOf[p]
  PROVE  /\ c \in Call /\ c.kind \in Kinds /\ c.end \in Ends /\ c.n \in Nat /\ c # None
<1>1. c \in Call
  BY PipeAssumption
<1> QED BY <1>1, PipeAssumption DEF Call

(* A process inside the kernel is inside a call.                           *)
LEMMA CallOfProc ==
  ASSUME TypesInv, NEW p \in Procs, pc[p] # "user"
  PROVE  /\ call[p] \in CallsOf[p] /\ call[p] \in Call /\ call[p].kind \in Kinds /\ call[p] # None
         /\ End(p) \in Ends /\ call[p].n \in Nat
<1>1. call[p] \in CallsOf[p]
  BY DEF TypesInv, PlaceOK
<1> QED BY <1>1, CallFacts DEF End

(* A wakeup leaves a process where it is.                                  *)
LEMMA WakeupFacts ==
  ASSUME TypesInv, NEW C, Wakeup(C)
  PROVE  /\ wchan' \in [Procs -> Chans \cup {None}]
         /\ \A q \in Procs : wchan'[q] = IF wchan[q] \in C THEN None ELSE wchan[q]
BY DEF Wakeup, TypesInv, ProcTypes

(* A process that a step does not concern keeps its place.                 *)
LEMMA PlaceKept ==
  ASSUME NEW q \in Procs, PlaceOK(q), pc'[q] = pc[q], call'[q] = call[q], hand'[q] = hand[q],
         wrote'[q] = wrote[q], seen'[q] = seen[q], ucount'[q] = ucount[q],
         wchan'[q] \in {wchan[q], None}
  PROVE  PlaceOK(q)'
BY DEF PlaceOK, End

(* The state is well formed at first.                                      *)
LEMMA TypesInit ==
  ASSUME Init
  PROVE  TypesInv
<1>1. Empty \in QueueType /\ QueueOK(Empty)
  BY QueueAssumption, CountEmpty DEF QueueOK, QueueType, Empty, QFlags, QueueAssumption
<1>2. EndTypes
  <2>1. queue \in [Ends -> QueueType]
    BY <1>1 DEF Init
  <2>2. sflag \in [Ends -> SUBSET StreamFlags] /\ count \in [Ends -> Int]
    BY DEF Init
  <2>3. fd \in [Ends -> SUBSET Procs]
    BY DEF Init
  <2>4. sent \in [Ends -> Nat] /\ starts \in [Ends -> SUBSET Nat]
    BY DEF Init
  <2>5. streaming \subseteq Ends /\ linked \in BOOLEAN /\ enabled \subseteq Ends
    BY DEF Init
  <2> QED BY <2>1, <2>2, <2>3, <2>4, <2>5 DEF EndTypes
<1>3. ProcTypes
  BY DEF Init, ProcTypes, PCs
<1>4. QueuesOK
  BY <1>1 DEF Init, QueuesOK
<1>5. \A p \in Procs : PlaceOK(p)
  BY DEF Init, PlaceOK
<1> QED BY <1>2, <1>3, <1>4, <1>5 DEF TypesInv

(* What strput does.                                                       *)
LEMMA StrputFacts ==
  ASSUME TypesInv, NEW e \in Ends, NEW b \in Blocks, Strput(e, b)
  PROVE  /\ queue' = IF linked THEN [queue EXCEPT ![e] = Putq(@, b)] ELSE queue
         /\ queue' \in [Ends -> QueueType] /\ QueuesOK'
         /\ sflag' = IF linked THEN [sflag EXCEPT ![e] = @ \ {"RSLEEP"}] ELSE sflag
         /\ sflag' \in [Ends -> SUBSET StreamFlags]
         /\ wchan' \in [Procs -> Chans \cup {None}]
         /\ \A q \in Procs : wchan'[q] = IF linked /\ "RSLEEP" \in sflag[e] /\ wchan[q] = Rd(e)
                                         THEN None ELSE wchan[q]
<1>1. QueueOK(queue[e])
  BY DEF TypesInv, QueuesOK
<1>2. QueueOK(Putq(queue[e], b))
  BY <1>1, QueueAssumption, PutqKeeps
<1>3. Putq(queue[e], b) \in QueueType
  BY <1>2 DEF QueueOK
<1>4. CASE linked
  <2>1. /\ queue' = [queue EXCEPT ![e] = Putq(@, b)] /\ sflag' = [sflag EXCEPT ![e] = @ \ {"RSLEEP"}]
        /\ Wakeup(IF "RSLEEP" \in sflag[e] THEN {Rd(e)} ELSE {})
    BY <1>4 DEF Strput
  <2>2. queue' \in [Ends -> QueueType] /\ sflag' \in [Ends -> SUBSET StreamFlags]
    BY <1>3, <2>1 DEF TypesInv, EndTypes
  <2>3. QueuesOK'
    BY <1>2, <2>1 DEF TypesInv, EndTypes, QueuesOK
  <2>4. /\ wchan' \in [Procs -> Chans \cup {None}]
        /\ \A q \in Procs : wchan'[q] = IF wchan[q] \in (IF "RSLEEP" \in sflag[e] THEN {Rd(e)} ELSE {})
                                        THEN None ELSE wchan[q]
    BY <2>1, WakeupFacts
  <2> QED BY <1>4, <2>1, <2>2, <2>3, <2>4
<1>5. CASE ~linked
  <2>1. queue' = queue /\ sflag' = sflag /\ wchan' = wchan
    BY <1>5 DEF Strput
  <2> QED BY <1>5, <2>1 DEF TypesInv, EndTypes, ProcTypes, QueuesOK
<1> QED BY <1>4, <1>5

(* The return from a call.                                                 *)
LEMMA ReturnFacts ==
  ASSUME TypesInv, NEW p \in Procs, Return(p), hand' = hand, hand[p] = None,
         wchan' \in [Procs -> Chans \cup {None}], wchan'[p] = None,
         \A q \in Procs : wchan'[q] \in {wchan[q], None}
  PROVE  ProcTypes' /\ \A q \in Procs : PlaceOK(q)'
<1>1. /\ pc' = [pc EXCEPT ![p] = "user"] /\ call' = [call EXCEPT ![p] = None]
      /\ ucount' = [ucount EXCEPT ![p] = 0] /\ wrote' = [wrote EXCEPT ![p] = FALSE]
      /\ seen' = [seen EXCEPT ![p] = {}] /\ cur' = None
  BY DEF Return, Goto
<1>2. ProcTypes'
  BY <1>1 DEF TypesInv, ProcTypes, PCs
<1>3. PlaceOK(p)'
  BY <1>1 DEF TypesInv, ProcTypes, PlaceOK
<1>4. ASSUME NEW q \in Procs, q # p
      PROVE  PlaceOK(q)'
  <2>1. /\ pc'[q] = pc[q] /\ call'[q] = call[q] /\ hand'[q] = hand[q] /\ wrote'[q] = wrote[q]
        /\ seen'[q] = seen[q] /\ ucount'[q] = ucount[q] /\ wchan'[q] \in {wchan[q], None}
    BY <1>1, <1>4 DEF TypesInv, ProcTypes
  <2> QED BY <2>1, PlaceKept DEF TypesInv
<1> QED BY <1>2, <1>3, <1>4
(* What getq and Enable do to the state.                                   *)
LEMMA GetqFacts ==
  ASSUME TypesInv, NEW e \in Ends
  PROVE  /\ [queue EXCEPT ![e] = Getq(@)] \in [Ends -> QueueType]
         /\ \A f \in Ends : QueueOK([queue EXCEPT ![e] = Getq(@)][f])
<1>1. QueueOK(queue[e]) /\ \A f \in Ends : QueueOK(queue[f])
  BY DEF TypesInv, QueuesOK
<1>2. QueueOK(Getq(queue[e]))
  BY <1>1, QueueAssumption, GetqKeeps
<1>3. Getq(queue[e]) \in QueueType
  BY <1>2 DEF QueueOK
<1> QED BY <1>1, <1>2, <1>3 DEF TypesInv, EndTypes

LEMMA EnableFacts ==
  ASSUME TypesInv, NEW e \in Ends, NEW w, Enable(e, w)
  PROVE  enabled' \subseteq Ends /\ enabled' = IF w /\ linked THEN enabled \cup {Peer(e)} ELSE enabled
BY PeerFacts DEF Enable, TypesInv, EndTypes

(* stread at the end of file.                                              *)
LEMMA ReadEofTypes ==
  ASSUME TypesInv, NEW p \in Procs, ReadEof(p)
  PROVE  TypesInv'
<1>1. /\ pc[p] # "user" /\ call[p] \in CallsOf[p] /\ End(p) \in Ends /\ Peer(End(p)) \in Ends
      /\ pc[p] \in PCs /\ call[p] \in Call
  <2>1. pc[p] # "user"
    BY DEF ReadEof
  <2> QED BY <2>1, CallOfProc, PeerFacts DEF TypesInv, ProcTypes
<1>2. /\ queue' \in [Ends -> QueueType] /\ QueuesOK' /\ enabled' \subseteq Ends
  <2>1. queue' = [queue EXCEPT ![End(p)] = Getq(@)] /\ Enable(End(p), GetqEnables(queue[End(p)]))
    BY DEF ReadEof
  <2> QED BY <1>1, <2>1, GetqFacts, EnableFacts DEF QueuesOK
<1>3. EndTypes'
  BY <1>1, <1>2 DEF ReadEof, history, TypesInv, EndTypes, StreamFlags
<1>4. ProcTypes'
  BY <1>1, <1>2 DEF ReadEof, TypesInv, ProcTypes, PCs, Goto, history
<1>5. PlaceOK(p)'
  BY <1>1, <1>2 DEF ReadEof, TypesInv, ProcTypes, PlaceOK, Goto, End, Running, history
<1>6. ASSUME NEW q \in Procs, q # p
      PROVE  PlaceOK(q)'
  <2>1. /\ pc'[q] = pc[q] /\ call'[q] = call[q] /\ hand'[q] = hand[q] /\ wrote'[q] = wrote[q]
        /\ seen'[q] = seen[q] /\ ucount'[q] = ucount[q] /\ wchan'[q] \in {wchan[q], None}
    BY <1>2, <1>6 DEF ReadEof, TypesInv, ProcTypes, Goto, history
  <2> QED BY <2>1, PlaceKept DEF TypesInv
<1> QED BY <1>2, <1>3, <1>4, <1>5, <1>6 DEF TypesInv

(* stread and urcvfile fall asleep.                                        *)
LEMMA ReadSleepTypes ==
  ASSUME TypesInv, NEW p \in Procs, ReadSleep(p)
  PROVE  TypesInv'
<1>1. /\ pc[p] # "user" /\ call[p] \in CallsOf[p] /\ End(p) \in Ends /\ Peer(End(p)) \in Ends
      /\ pc[p] \in PCs /\ call[p] \in Call
  <2>1. pc[p] # "user"
    BY DEF ReadSleep
  <2> QED BY <2>1, CallOfProc, PeerFacts DEF TypesInv, ProcTypes
<1>2. /\ queue' \in [Ends -> QueueType] /\ QueuesOK' /\ enabled' \subseteq Ends
  <2>1. queue' = [queue EXCEPT ![End(p)] = Getq(@)] /\ Enable(End(p), GetqEnables(queue[End(p)]))
    BY DEF ReadSleep
  <2> QED BY <1>1, <2>1, GetqFacts, EnableFacts DEF QueuesOK
<1>3. EndTypes'
  BY <1>1, <1>2 DEF ReadSleep, history, TypesInv, EndTypes, StreamFlags
<1>4. ProcTypes'
  BY <1>1, <1>2, ChanFacts DEF ReadSleep, TypesInv, ProcTypes, PCs, Goto, history
<1>5. PlaceOK(p)'
  BY <1>1, <1>2, ChanFacts DEF ReadSleep, TypesInv, ProcTypes, PlaceOK, Goto, End, Running, history
<1>6. ASSUME NEW q \in Procs, q # p
      PROVE  PlaceOK(q)'
  <2>1. /\ pc'[q] = pc[q] /\ call'[q] = call[q] /\ hand'[q] = hand[q] /\ wrote'[q] = wrote[q]
        /\ seen'[q] = seen[q] /\ ucount'[q] = ucount[q] /\ wchan'[q] \in {wchan[q], None}
    BY <1>2, <1>6 DEF ReadSleep, TypesInv, ProcTypes, Goto, history
  <2> QED BY <2>1, PlaceKept DEF TypesInv
<1> QED BY <1>2, <1>3, <1>4, <1>5, <1>6 DEF TypesInv

(* stread takes a data block.                                              *)
LEMMA ReadDataTypes ==
  ASSUME TypesInv, NEW p \in Procs, ReadData(p)
  PROVE  TypesInv'
<1>1. /\ pc[p] # "user" /\ call[p] \in CallsOf[p] /\ End(p) \in Ends /\ Peer(End(p)) \in Ends
      /\ pc[p] \in PCs /\ call[p] \in Call
  <2>1. pc[p] # "user"
    BY DEF ReadData
  <2> QED BY <2>1, CallOfProc, PeerFacts DEF TypesInv, ProcTypes
<1>2. /\ queue' \in [Ends -> QueueType] /\ QueuesOK' /\ enabled' \subseteq Ends
  <2>1. queue' = [queue EXCEPT ![End(p)] = Getq(@)] /\ Enable(End(p), GetqEnables(queue[End(p)]))
    BY DEF ReadData
  <2> QED BY <1>1, <2>1, GetqFacts, EnableFacts DEF QueuesOK
<1>7. Head(queue[End(p)].blocks) \in DataBlock
  <2>1. queue[End(p)].blocks \in Seq(Blocks)
    BY <1>1 DEF TypesInv, EndTypes, QueueType
  <2>2. queue[End(p)].blocks # <<>> /\ Head(queue[End(p)].blocks).type = "data"
    BY DEF ReadData
  <2>3. Head(queue[End(p)].blocks) \in Blocks
    BY <2>1, <2>2, HeadTailProperties
  <2> QED BY <2>2, <2>3 DEF Blocks, Delim, Pass
<1>3. EndTypes'
  BY <1>1, <1>2 DEF ReadData, history, TypesInv, EndTypes, StreamFlags
<1>4. ProcTypes'
  BY <1>1, <1>2, <1>7 DEF ReadData, TypesInv, ProcTypes, PCs, Goto, history, Blocks
<1>5. PlaceOK(p)'
  BY <1>1, <1>2, <1>7 DEF ReadData, TypesInv, ProcTypes, PlaceOK, Goto, End, Running, history, Blocks
<1>6. ASSUME NEW q \in Procs, q # p
      PROVE  PlaceOK(q)'
  <2>1. /\ pc'[q] = pc[q] /\ call'[q] = call[q] /\ hand'[q] = hand[q] /\ wrote'[q] = wrote[q]
        /\ seen'[q] = seen[q] /\ ucount'[q] = ucount[q] /\ wchan'[q] \in {wchan[q], None}
    BY <1>2, <1>6 DEF ReadData, TypesInv, ProcTypes, Goto, history, Blocks
  <2> QED BY <2>1, PlaceKept DEF TypesInv
<1> QED BY <1>2, <1>3, <1>4, <1>5, <1>6 DEF TypesInv

(* stread takes a delimiter.                                               *)
LEMMA ReadDelimTypes ==
  ASSUME TypesInv, NEW p \in Procs, ReadDelim(p)
  PROVE  TypesInv'
<1>1. /\ pc[p] # "user" /\ call[p] \in CallsOf[p] /\ End(p) \in Ends /\ Peer(End(p)) \in Ends
      /\ pc[p] \in PCs /\ call[p] \in Call
  <2>1. pc[p] # "user"
    BY DEF ReadDelim
  <2> QED BY <2>1, CallOfProc, PeerFacts DEF TypesInv, ProcTypes
<1>2. /\ queue' \in [Ends -> QueueType] /\ QueuesOK' /\ enabled' \subseteq Ends
  <2>1. queue' = [queue EXCEPT ![End(p)] = Getq(@)] /\ Enable(End(p), GetqEnables(queue[End(p)]))
    BY DEF ReadDelim
  <2> QED BY <1>1, <2>1, GetqFacts, EnableFacts DEF QueuesOK
<1>3. EndTypes'
  BY <1>1, <1>2 DEF ReadDelim, history, TypesInv, EndTypes, StreamFlags
<1>4. ProcTypes'
  BY <1>1, <1>2 DEF ReadDelim, TypesInv, ProcTypes, PCs, Goto, history
<1>5. PlaceOK(p)'
  BY <1>1, <1>2 DEF ReadDelim, TypesInv, ProcTypes, PlaceOK, Goto, End, Running, history
<1>6. ASSUME NEW q \in Procs, q # p
      PROVE  PlaceOK(q)'
  <2>1. /\ pc'[q] = pc[q] /\ call'[q] = call[q] /\ hand'[q] = hand[q] /\ wrote'[q] = wrote[q]
        /\ seen'[q] = seen[q] /\ ucount'[q] = ucount[q] /\ wchan'[q] \in {wchan[q], None}
    BY <1>2, <1>6 DEF ReadDelim, TypesInv, ProcTypes, Goto, history
  <2> QED BY <2>1, PlaceKept DEF TypesInv
<1> QED BY <1>2, <1>3, <1>4, <1>5, <1>6 DEF TypesInv

(* stwrite falls asleep.                                                   *)
LEMMA WriteSleepTypes ==
  ASSUME TypesInv, NEW p \in Procs, WriteSleep(p)
  PROVE  TypesInv'
<1>1. /\ pc[p] # "user" /\ call[p] \in CallsOf[p] /\ End(p) \in Ends /\ Peer(End(p)) \in Ends
      /\ pc[p] \in PCs /\ call[p] \in Call
  <2>1. pc[p] # "user"
    BY DEF WriteSleep
  <2> QED BY <2>1, CallOfProc, PeerFacts DEF TypesInv, ProcTypes
<1>2. queue' = queue /\ QueuesOK'
  <2>1. queue' = queue
    BY DEF WriteSleep, endVars
  <2> QED BY <2>1 DEF TypesInv, QueuesOK
<1>3. EndTypes'
  BY <1>1, <1>2 DEF WriteSleep, history, TypesInv, EndTypes, StreamFlags
<1>4. ProcTypes'
  BY <1>1, <1>2, ChanFacts DEF WriteSleep, TypesInv, ProcTypes, PCs, Goto, history
<1>5. PlaceOK(p)'
  BY <1>1, <1>2, ChanFacts DEF WriteSleep, TypesInv, ProcTypes, PlaceOK, Goto, End, Running, history
<1>6. ASSUME NEW q \in Procs, q # p
      PROVE  PlaceOK(q)'
  <2>1. /\ pc'[q] = pc[q] /\ call'[q] = call[q] /\ hand'[q] = hand[q] /\ wrote'[q] = wrote[q]
        /\ seen'[q] = seen[q] /\ ucount'[q] = ucount[q] /\ wchan'[q] \in {wchan[q], None}
    BY <1>2, <1>6 DEF WriteSleep, TypesInv, ProcTypes, Goto, history
  <2> QED BY <2>1, PlaceKept DEF TypesInv
<1> QED BY <1>2, <1>3, <1>4, <1>5, <1>6 DEF TypesInv

(* A nonblocking write ends short.                                         *)
LEMMA WriteBusyTypes ==
  ASSUME TypesInv, NEW p \in Procs, WriteBusy(p)
  PROVE  TypesInv'
<1>1. /\ pc[p] # "user" /\ call[p] \in CallsOf[p] /\ End(p) \in Ends /\ Peer(End(p)) \in Ends
      /\ pc[p] \in PCs /\ call[p] \in Call
  <2>1. pc[p] # "user"
    BY DEF WriteBusy
  <2> QED BY <2>1, CallOfProc, PeerFacts DEF TypesInv, ProcTypes
<1>2. /\ queue' \in [Ends -> QueueType] /\ QueuesOK' /\ sflag' \in [Ends -> SUBSET StreamFlags]
      /\ wchan' \in [Procs -> Chans \cup {None}] /\ \A q \in Procs : wchan'[q] \in {wchan[q], None}
  <2>1. CASE wrote[p]
    <3>1. Strput(Peer(End(p)), Delim) /\ Delim \in Blocks
      BY <2>1 DEF WriteBusy, Blocks
    <3> QED BY <1>1, <3>1, StrputFacts
  <2>2. CASE ~wrote[p]
    <3>1. queue' = queue /\ sflag' = sflag /\ wchan' = wchan
      BY <2>2 DEF WriteBusy
    <3> QED BY <3>1 DEF TypesInv, EndTypes, ProcTypes, QueuesOK
  <2> QED BY <2>1, <2>2 DEF TypesInv, ProcTypes
<1>3. EndTypes'
  BY <1>1, <1>2 DEF WriteBusy, history, TypesInv, EndTypes, StreamFlags
<1>4. ProcTypes'
  BY <1>1, <1>2 DEF WriteBusy, TypesInv, ProcTypes, PCs, Goto, history
<1>5. PlaceOK(p)'
  BY <1>1, <1>2 DEF WriteBusy, TypesInv, ProcTypes, PlaceOK, Goto, End, Running, history
<1>6. ASSUME NEW q \in Procs, q # p
      PROVE  PlaceOK(q)'
  <2>1. /\ pc'[q] = pc[q] /\ call'[q] = call[q] /\ hand'[q] = hand[q] /\ wrote'[q] = wrote[q]
        /\ seen'[q] = seen[q] /\ ucount'[q] = ucount[q] /\ wchan'[q] \in {wchan[q], None}
    BY <1>2, <1>6 DEF WriteBusy, TypesInv, ProcTypes, Goto, history
  <2> QED BY <2>1, PlaceKept DEF TypesInv
<1> QED BY <1>2, <1>3, <1>4, <1>5, <1>6 DEF TypesInv

(* A write to an end that is gone.                                         *)
LEMMA WriteHungupTypes ==
  ASSUME TypesInv, NEW p \in Procs, WriteHungup(p)
  PROVE  TypesInv'
<1>1. /\ pc[p] # "user" /\ call[p] \in CallsOf[p] /\ End(p) \in Ends /\ Peer(End(p)) \in Ends
      /\ pc[p] \in PCs /\ call[p] \in Call
  <2>1. pc[p] # "user"
    BY DEF WriteHungup
  <2> QED BY <2>1, CallOfProc, PeerFacts DEF TypesInv, ProcTypes
<1>2. queue' = queue /\ QueuesOK'
  <2>1. queue' = queue
    BY DEF WriteHungup, endVars
  <2> QED BY <2>1 DEF TypesInv, QueuesOK
<1>3. EndTypes'
  BY <1>1, <1>2 DEF WriteHungup, history, endVars, TypesInv, EndTypes, StreamFlags
<1>4. ProcTypes'
  BY <1>1, <1>2 DEF WriteHungup, TypesInv, ProcTypes, PCs, Goto, history, endVars
<1>5. PlaceOK(p)'
  BY <1>1, <1>2 DEF WriteHungup, TypesInv, ProcTypes, PlaceOK, Goto, End, Running, history, endVars
<1>6. ASSUME NEW q \in Procs, q # p
      PROVE  PlaceOK(q)'
  <2>1. /\ pc'[q] = pc[q] /\ call'[q] = call[q] /\ hand'[q] = hand[q] /\ wrote'[q] = wrote[q]
        /\ seen'[q] = seen[q] /\ ucount'[q] = ucount[q] /\ wchan'[q] \in {wchan[q], None}
    BY <1>2, <1>6 DEF WriteHungup, TypesInv, ProcTypes, Goto, history, endVars
  <2> QED BY <2>1, PlaceKept DEF TypesInv
<1> QED BY <1>2, <1>3, <1>4, <1>5, <1>6 DEF TypesInv

(* The delimiter of a write.                                               *)
LEMMA WriteDelimTypes ==
  ASSUME TypesInv, NEW p \in Procs, WriteDelim(p)
  PROVE  TypesInv'
<1>1. /\ pc[p] # "user" /\ call[p] \in CallsOf[p] /\ End(p) \in Ends /\ Peer(End(p)) \in Ends
      /\ pc[p] \in PCs /\ call[p] \in Call
  <2>1. pc[p] # "user"
    BY DEF WriteDelim
  <2> QED BY <2>1, CallOfProc, PeerFacts DEF TypesInv, ProcTypes
<1>2. /\ queue' \in [Ends -> QueueType] /\ QueuesOK' /\ sflag' \in [Ends -> SUBSET StreamFlags]
      /\ wchan' \in [Procs -> Chans \cup {None}] /\ \A q \in Procs : wchan'[q] \in {wchan[q], None}
  <2>1. Strput(Peer(End(p)), Delim)
    BY DEF WriteDelim
  <2>2. Delim \in Blocks
    BY DEF Blocks
  <2> QED BY <1>1, <2>1, <2>2, StrputFacts
<1>3. EndTypes'
  BY <1>1, <1>2 DEF WriteDelim, history, TypesInv, EndTypes, StreamFlags
<1>4. ProcTypes'
  BY <1>1, <1>2 DEF WriteDelim, TypesInv, ProcTypes, PCs, Goto, history
<1>5. PlaceOK(p)'
  BY <1>1, <1>2 DEF WriteDelim, TypesInv, ProcTypes, PlaceOK, Goto, End, Running, history
<1>6. ASSUME NEW q \in Procs, q # p
      PROVE  PlaceOK(q)'
  <2>1. /\ pc'[q] = pc[q] /\ call'[q] = call[q] /\ hand'[q] = hand[q] /\ wrote'[q] = wrote[q]
        /\ seen'[q] = seen[q] /\ ucount'[q] = ucount[q] /\ wchan'[q] \in {wchan[q], None}
    BY <1>2, <1>6 DEF WriteDelim, TypesInv, ProcTypes, Goto, history
  <2> QED BY <2>1, PlaceKept DEF TypesInv
<1> QED BY <1>2, <1>3, <1>4, <1>5, <1>6 DEF TypesInv

(* stwrite gets a block.                                                   *)
LEMMA WriteAllocTypes ==
  ASSUME TypesInv, NEW p \in Procs, WriteAlloc(p)
  PROVE  TypesInv'
<1>1. /\ pc[p] # "user" /\ call[p] \in CallsOf[p] /\ End(p) \in Ends /\ Peer(End(p)) \in Ends
      /\ pc[p] \in PCs /\ call[p] \in Call
  <2>1. pc[p] # "user"
    BY DEF WriteAlloc
  <2> QED BY <2>1, CallOfProc, PeerFacts DEF TypesInv, ProcTypes
<1>2. queue' = queue /\ QueuesOK'
  <2>1. queue' = queue
    BY DEF WriteAlloc, endVars
  <2> QED BY <2>1 DEF TypesInv, QueuesOK
<1>3. EndTypes'
  BY <1>1, <1>2 DEF WriteAlloc, history, endVars, TypesInv, EndTypes, StreamFlags
<1>4. ProcTypes'
  BY <1>1, <1>2 DEF WriteAlloc, TypesInv, ProcTypes, PCs, Goto, history, endVars
<1>5. PlaceOK(p)'
  BY <1>1, <1>2 DEF WriteAlloc, TypesInv, ProcTypes, PlaceOK, Goto, End, Running, history, endVars
<1>6. ASSUME NEW q \in Procs, q # p
      PROVE  PlaceOK(q)'
  <2>1. /\ pc'[q] = pc[q] /\ call'[q] = call[q] /\ hand'[q] = hand[q] /\ wrote'[q] = wrote[q]
        /\ seen'[q] = seen[q] /\ ucount'[q] = ucount[q] /\ wchan'[q] \in {wchan[q], None}
    BY <1>2, <1>6 DEF WriteAlloc, TypesInv, ProcTypes, Goto, history, endVars
  <2> QED BY <2>1, PlaceKept DEF TypesInv
<1> QED BY <1>2, <1>3, <1>4, <1>5, <1>6 DEF TypesInv

(* stwrite cannot copy.                                                    *)
LEMMA WriteFaultTypes ==
  ASSUME TypesInv, NEW p \in Procs, WriteFault(p)
  PROVE  TypesInv'
<1>1. /\ pc[p] # "user" /\ call[p] \in CallsOf[p] /\ End(p) \in Ends /\ Peer(End(p)) \in Ends
      /\ pc[p] \in PCs /\ call[p] \in Call
  <2>1. pc[p] # "user"
    BY DEF WriteFault
  <2> QED BY <2>1, CallOfProc, PeerFacts DEF TypesInv, ProcTypes
<1>2. queue' = queue /\ QueuesOK'
  <2>1. queue' = queue
    BY DEF WriteFault, endVars
  <2> QED BY <2>1 DEF TypesInv, QueuesOK
<1>3. EndTypes'
  BY <1>1, <1>2 DEF WriteFault, history, endVars, TypesInv, EndTypes, StreamFlags
<1>4. ProcTypes'
  BY <1>1, <1>2 DEF WriteFault, TypesInv, ProcTypes, PCs, Goto, history, endVars
<1>5. PlaceOK(p)'
  BY <1>1, <1>2 DEF WriteFault, TypesInv, ProcTypes, PlaceOK, Goto, End, Running, history, endVars
<1>6. ASSUME NEW q \in Procs, q # p
      PROVE  PlaceOK(q)'
  <2>1. /\ pc'[q] = pc[q] /\ call'[q] = call[q] /\ hand'[q] = hand[q] /\ wrote'[q] = wrote[q]
        /\ seen'[q] = seen[q] /\ ucount'[q] = ucount[q] /\ wchan'[q] \in {wchan[q], None}
    BY <1>2, <1>6 DEF WriteFault, TypesInv, ProcTypes, Goto, history, endVars
  <2> QED BY <2>1, PlaceKept DEF TypesInv
<1> QED BY <1>2, <1>3, <1>4, <1>5, <1>6 DEF TypesInv

(* An ioctl on a stream that is hung up or full.                           *)
LEMMA IoctlErrorTypes ==
  ASSUME TypesInv, NEW p \in Procs, IoctlError(p)
  PROVE  TypesInv'
<1>1. /\ pc[p] # "user" /\ call[p] \in CallsOf[p] /\ End(p) \in Ends /\ Peer(End(p)) \in Ends
      /\ pc[p] \in PCs /\ call[p] \in Call
  <2>1. pc[p] # "user"
    BY DEF IoctlError
  <2> QED BY <2>1, CallOfProc, PeerFacts DEF TypesInv, ProcTypes
<1>2. queue' = queue /\ QueuesOK'
  <2>1. queue' = queue
    BY DEF IoctlError, endVars
  <2> QED BY <2>1 DEF TypesInv, QueuesOK
<1>3. EndTypes'
  BY <1>1, <1>2 DEF IoctlError, history, endVars, TypesInv, EndTypes, StreamFlags
<1>4. ProcTypes'
  BY <1>1, <1>2 DEF IoctlError, TypesInv, ProcTypes, PCs, Goto, history, endVars
<1>5. PlaceOK(p)'
  BY <1>1, <1>2 DEF IoctlError, TypesInv, ProcTypes, PlaceOK, Goto, End, Running, history, endVars
<1>6. ASSUME NEW q \in Procs, q # p
      PROVE  PlaceOK(q)'
  <2>1. /\ pc'[q] = pc[q] /\ call'[q] = call[q] /\ hand'[q] = hand[q] /\ wrote'[q] = wrote[q]
        /\ seen'[q] = seen[q] /\ ucount'[q] = ucount[q] /\ wchan'[q] \in {wchan[q], None}
    BY <1>2, <1>6 DEF IoctlError, TypesInv, ProcTypes, Goto, history, endVars
  <2> QED BY <2>1, PlaceKept DEF TypesInv
<1> QED BY <1>2, <1>3, <1>4, <1>5, <1>6 DEF TypesInv

(* FIOWNBLK.                                                               *)
LEMMA WnblkTypes ==
  ASSUME TypesInv, NEW p \in Procs, Wnblk(p)
  PROVE  TypesInv'
<1>1. /\ pc[p] # "user" /\ call[p] \in CallsOf[p] /\ End(p) \in Ends /\ Peer(End(p)) \in Ends
      /\ pc[p] \in PCs /\ call[p] \in Call
  <2>1. pc[p] # "user"
    BY DEF Wnblk
  <2> QED BY <2>1, CallOfProc, PeerFacts DEF TypesInv, ProcTypes
<1>2. queue' = queue /\ QueuesOK'
  <2>1. queue' = queue
    BY DEF Wnblk, endVars
  <2> QED BY <2>1 DEF TypesInv, QueuesOK
<1>3. EndTypes'
  BY <1>1, <1>2 DEF Wnblk, history, TypesInv, EndTypes, StreamFlags
<1>4. ProcTypes'
  BY <1>1, <1>2 DEF Wnblk, TypesInv, ProcTypes, PCs, Goto, history
<1>5. PlaceOK(p)'
  BY <1>1, <1>2 DEF Wnblk, TypesInv, ProcTypes, PlaceOK, Goto, End, Running, history
<1>6. ASSUME NEW q \in Procs, q # p
      PROVE  PlaceOK(q)'
  <2>1. /\ pc'[q] = pc[q] /\ call'[q] = call[q] /\ hand'[q] = hand[q] /\ wrote'[q] = wrote[q]
        /\ seen'[q] = seen[q] /\ ucount'[q] = ucount[q] /\ wchan'[q] \in {wchan[q], None}
    BY <1>2, <1>6 DEF Wnblk, TypesInv, ProcTypes, Goto, history
  <2> QED BY <2>1, PlaceKept DEF TypesInv
<1> QED BY <1>2, <1>3, <1>4, <1>5, <1>6 DEF TypesInv

(* FIOSNDFD.                                                               *)
LEMMA SendFileTypes ==
  ASSUME TypesInv, NEW p \in Procs, SendFile(p)
  PROVE  TypesInv'
<1>1. /\ pc[p] # "user" /\ call[p] \in CallsOf[p] /\ End(p) \in Ends /\ Peer(End(p)) \in Ends
      /\ pc[p] \in PCs /\ call[p] \in Call
  <2>1. pc[p] # "user"
    BY DEF SendFile
  <2> QED BY <2>1, CallOfProc, PeerFacts DEF TypesInv, ProcTypes
<1>2. /\ queue' \in [Ends -> QueueType] /\ QueuesOK' /\ sflag' \in [Ends -> SUBSET StreamFlags]
      /\ wchan' \in [Procs -> Chans \cup {None}] /\ \A q \in Procs : wchan'[q] \in {wchan[q], None}
  <2>1. Strput(Peer(End(p)), Pass)
    BY DEF SendFile
  <2>2. Pass \in Blocks
    BY DEF Blocks
  <2> QED BY <1>1, <2>1, <2>2, StrputFacts
<1>3. EndTypes'
  BY <1>1, <1>2 DEF SendFile, history, TypesInv, EndTypes, StreamFlags
<1>4. ProcTypes'
  BY <1>1, <1>2 DEF SendFile, TypesInv, ProcTypes, PCs, Goto, history
<1>5. PlaceOK(p)'
  BY <1>1, <1>2 DEF SendFile, TypesInv, ProcTypes, PlaceOK, Goto, End, Running, history
<1>6. ASSUME NEW q \in Procs, q # p
      PROVE  PlaceOK(q)'
  <2>1. /\ pc'[q] = pc[q] /\ call'[q] = call[q] /\ hand'[q] = hand[q] /\ wrote'[q] = wrote[q]
        /\ seen'[q] = seen[q] /\ ucount'[q] = ucount[q] /\ wchan'[q] \in {wchan[q], None}
    BY <1>2, <1>6 DEF SendFile, TypesInv, ProcTypes, Goto, history
  <2> QED BY <2>1, PlaceKept DEF TypesInv
<1> QED BY <1>2, <1>3, <1>4, <1>5, <1>6 DEF TypesInv

(* TIOCFLUSH.                                                              *)
LEMMA FlushTypes ==
  ASSUME TypesInv, NEW p \in Procs, Flush(p)
  PROVE  TypesInv'
<1>1. /\ pc[p] # "user" /\ call[p] \in CallsOf[p] /\ End(p) \in Ends /\ Peer(End(p)) \in Ends
      /\ pc[p] \in PCs /\ call[p] \in Call
  <2>1. pc[p] # "user"
    BY DEF Flush
  <2> QED BY <2>1, CallOfProc, PeerFacts DEF TypesInv, ProcTypes
<1>2. /\ queue' \in [Ends -> QueueType] /\ QueuesOK' /\ enabled' \subseteq Ends
  <2>1. /\ queue' = [e \in Ends |-> IF e = End(p) \/ linked THEN Flushq(queue[e]) ELSE queue[e]]
        /\ enabled' = IF linked THEN {Peer(e) : e \in {f \in Ends : FlushqEnables(queue[f])}} ELSE {}
    BY DEF Flush
  <2>2. \A e \in Ends : QueueOK(queue[e]) /\ QueueOK(Flushq(queue[e]))
    BY QueueAssumption, FlushqKeeps DEF TypesInv, QueuesOK
  <2>3. \A e \in Ends : Flushq(queue[e]) \in QueueType /\ queue[e] \in QueueType
    BY <2>2 DEF QueueOK
  <2> QED BY <2>1, <2>2, <2>3, PeerFacts DEF QueuesOK
<1>3. EndTypes'
  BY <1>1, <1>2 DEF Flush, history, TypesInv, EndTypes, StreamFlags
<1>4. ProcTypes'
  BY <1>1, <1>2 DEF Flush, TypesInv, ProcTypes, PCs, Goto, history
<1>5. PlaceOK(p)'
  BY <1>1, <1>2 DEF Flush, TypesInv, ProcTypes, PlaceOK, Goto, End, Running, history
<1>6. ASSUME NEW q \in Procs, q # p
      PROVE  PlaceOK(q)'
  <2>1. /\ pc'[q] = pc[q] /\ call'[q] = call[q] /\ hand'[q] = hand[q] /\ wrote'[q] = wrote[q]
        /\ seen'[q] = seen[q] /\ ucount'[q] = ucount[q] /\ wchan'[q] \in {wchan[q], None}
    BY <1>2, <1>6 DEF Flush, TypesInv, ProcTypes, Goto, history
  <2> QED BY <2>1, PlaceKept DEF TypesInv
<1> QED BY <1>2, <1>3, <1>4, <1>5, <1>6 DEF TypesInv

(* FIORCVFD.                                                               *)
LEMMA ReceiveFileTypes ==
  ASSUME TypesInv, NEW p \in Procs, ReceiveFile(p)
  PROVE  TypesInv'
<1>1. /\ pc[p] # "user" /\ call[p] \in CallsOf[p] /\ End(p) \in Ends /\ Peer(End(p)) \in Ends
      /\ pc[p] \in PCs /\ call[p] \in Call
  <2>1. pc[p] # "user"
    BY DEF ReceiveFile
  <2> QED BY <2>1, CallOfProc, PeerFacts DEF TypesInv, ProcTypes
<1>2. /\ queue' \in [Ends -> QueueType] /\ QueuesOK' /\ enabled' \subseteq Ends
  <2> DEFINE q == queue[End(p)]
  <2>1. /\ queue' = [queue EXCEPT ![End(p)] =
              IF q.blocks = <<>> \/ Head(q.blocks).type = "pass" THEN Getq(q)
              ELSE Putbq(Getq(q), Head(q.blocks))]
        /\ Enable(End(p), GetqEnables(q))
    BY DEF ReceiveFile
  <2>2. QueueOK(q) /\ q \in QueueType
    BY <1>1 DEF TypesInv, QueuesOK, QueueOK
  <2>3. QueueOK(Getq(q))
    BY <2>2, QueueAssumption, GetqKeeps
  <2>4. q.blocks # <<>> => QueueOK(Putbq(Getq(q), Head(q.blocks)))
    BY <2>2, <2>3, QueueAssumption, RestOfQueue, PutbqKeeps
  <2>5. QueueOK(queue'[End(p)]) /\ \A e \in Ends : e # End(p) => queue'[e] = queue[e]
    BY <1>1, <2>1, <2>3, <2>4 DEF TypesInv, EndTypes
  <2>6. queue'[End(p)] \in QueueType
    BY <2>5 DEF QueueOK
  <2> HIDE DEF q
  <2>7. queue' \in [Ends -> QueueType]
    BY <1>1, <2>1, <2>5, <2>6 DEF TypesInv, EndTypes
  <2>8. QueuesOK'
    BY <2>5 DEF TypesInv, QueuesOK
  <2> QED BY <1>1, <2>1, <2>7, <2>8, EnableFacts
<1>3. EndTypes'
  BY <1>1, <1>2 DEF ReceiveFile, history, TypesInv, EndTypes, StreamFlags
<1>4. ProcTypes'
  BY <1>1, <1>2 DEF ReceiveFile, TypesInv, ProcTypes, PCs, Goto, history
<1>5. PlaceOK(p)'
  BY <1>1, <1>2 DEF ReceiveFile, TypesInv, ProcTypes, PlaceOK, Goto, End, Running, history
<1>6. ASSUME NEW q \in Procs, q # p
      PROVE  PlaceOK(q)'
  <2>1. /\ pc'[q] = pc[q] /\ call'[q] = call[q] /\ hand'[q] = hand[q] /\ wrote'[q] = wrote[q]
        /\ seen'[q] = seen[q] /\ ucount'[q] = ucount[q] /\ wchan'[q] \in {wchan[q], None}
    BY <1>2, <1>6 DEF ReceiveFile, TypesInv, ProcTypes, Goto, history
  <2> QED BY <2>1, PlaceKept DEF TypesInv
<1> QED BY <1>2, <1>3, <1>4, <1>5, <1>6 DEF TypesInv

(* stread meets a file that is passed and puts it back.                    *)
LEMMA ReadPassTypes ==
  ASSUME TypesInv, NEW p \in Procs, ReadPass(p)
  PROVE  TypesInv'
<1>1. /\ pc[p] = "read" /\ wchan[p] = None /\ End(p) \in Ends /\ wchan' = wchan /\ hand' = hand
      /\ hand[p] = None
  <2>1. pc[p] = "read" /\ wchan[p] = None /\ wchan' = wchan /\ hand' = hand
    BY DEF ReadPass, Running
  <2> QED BY <2>1, CallOfProc DEF TypesInv, PlaceOK
<1>2. /\ queue' \in [Ends -> QueueType] /\ QueuesOK' /\ enabled' \subseteq Ends
  <2> DEFINE q == queue[End(p)]
  <2>1. /\ queue' = [queue EXCEPT ![End(p)] = Putbq(Getq(q), Head(q.blocks))]
        /\ Enable(End(p), GetqEnables(q)) /\ q.blocks # <<>>
    BY DEF ReadPass
  <2>2. QueueOK(q) /\ q \in QueueType
    BY <1>1 DEF TypesInv, QueuesOK, QueueOK
  <2>3. QueueOK(Putbq(Getq(q), Head(q.blocks)))
    BY <2>1, <2>2, QueueAssumption, RestOfQueue, GetqKeeps, PutbqKeeps
  <2>4. QueueOK(queue'[End(p)]) /\ \A e \in Ends : e # End(p) => queue'[e] = queue[e]
    BY <1>1, <2>1, <2>3 DEF TypesInv, EndTypes
  <2>5. queue'[End(p)] \in QueueType
    BY <2>4 DEF QueueOK
  <2> HIDE DEF q
  <2>6. queue' \in [Ends -> QueueType]
    BY <1>1, <2>1, <2>4, <2>5 DEF TypesInv, EndTypes
  <2>7. QueuesOK'
    BY <2>4 DEF TypesInv, QueuesOK
  <2> QED BY <1>1, <2>1, <2>6, <2>7, EnableFacts
<1>3. EndTypes'
  BY <1>1, <1>2 DEF ReadPass, TypesInv, EndTypes, StreamFlags
<1>4. Return(p)
  BY DEF ReadPass
<1>5. ProcTypes' /\ \A q \in Procs : PlaceOK(q)'
  BY <1>1, <1>4, ReturnFacts DEF TypesInv, ProcTypes
<1> QED BY <1>2, <1>3, <1>5 DEF TypesInv

(* The elements of a sequence from some place on.                          *)
LEMMA SuffixFacts ==
  ASSUME NEW s \in Seq(Nat), NEW m \in Nat, NEW n \in Nat, m = Len(s), n <= m
  PROVE  /\ SubSeq(s, n + 1, m) \in Seq(Nat) /\ Len(SubSeq(s, n + 1, m)) = m - n
         /\ \A i \in 1 .. m - n : SubSeq(s, n + 1, m)[i] = s[n + i]
<1> DEFINE t == SubSeq(s, n + 1, m)
<1>1. ASSUME NEW i \in n + 1 .. m
      PROVE  s[i] \in Nat
  <2>1. i \in 1 .. Len(s)
    OBVIOUS
  <2> QED BY <2>1, ElementOfSeq
<1>2. n + 1 \in Nat /\ (n + 1 <= m \/ n = m)
  OBVIOUS
<1>3. /\ t \in Seq(Nat) /\ Len(t) = IF n + 1 <= m THEN m - (n + 1) + 1 ELSE 0
      /\ \A i \in 1 .. m - (n + 1) + 1 : t[i] = s[(n + 1) + i - 1]
  BY <1>1, <1>2, SubSeqProperties
<1> HIDE DEF t
<1>4. m - (n + 1) + 1 = m - n /\ \A i \in 1 .. m - n : (n + 1) + i - 1 = n + i
  OBVIOUS
<1>5. Len(t) = m - n
  BY <1>2, <1>3, <1>4
<1>6. \A i \in 1 .. m - n : t[i] = s[n + i]
  BY <1>3, <1>4
<1> QED BY <1>3, <1>5, <1>6 DEF t

(* What is left of a block after n of its bytes.                           *)
Remainder(b, n) == [b EXCEPT !.bytes = SubSeq(b.bytes, n + 1, Len(b.bytes))]

LEMMA RestOfBlock ==
  ASSUME QueueAssumption, NEW b \in DataBlock, NEW n \in 0 .. Len(b.bytes)
  PROVE  /\ Remainder(b, n).bytes \in Seq(Nat) /\ Len(Remainder(b, n).bytes) = Len(b.bytes) - n
         /\ \A i \in 1 .. Len(b.bytes) - n : Remainder(b, n).bytes[i] = b.bytes[n + i]
         /\ Remainder(b, n).bytes = <<>> <=> n = Len(b.bytes)
         /\ Remainder(b, n).bytes # <<>> => Remainder(b, n) \in DataBlock
<1> DEFINE m == Len(b.bytes)
           s == SubSeq(b.bytes, n + 1, m)
           r == Remainder(b, n)
<1>1. /\ b.bytes \in Seq(Nat) /\ m \in 1 .. Cap /\ b.room \in 0 .. Cap /\ m + b.room <= Cap /\ Cap \in Nat
      /\ n \in Nat /\ m \in Nat /\ n <= m /\ m = Len(b.bytes)
  BY DEF DataBlock, QueueAssumption
<1> HIDE DEF m
<1>2. /\ s \in Seq(Nat) /\ Len(s) = m - n /\ \A i \in 1 .. m - n : s[i] = b.bytes[n + i]
  BY <1>1, SuffixFacts
<1> HIDE DEF s
<1>3. b \in [type : {"data"}, bytes : Seq(Nat), room : 0 .. Cap] /\ r = [b EXCEPT !.bytes = s]
  BY DEF DataBlock, s, m, Remainder
<1> HIDE DEF r
<1>4. r \in [type : {"data"}, bytes : Seq(Nat), room : 0 .. Cap] /\ r.bytes = s /\ r.room = b.room
  BY <1>2, <1>3
<1>5. r.bytes = <<>> <=> n = m
  BY <1>1, <1>2, <1>4, EmptySeq
<1>6. r.bytes # <<>> => Len(r.bytes) \in 1 .. Cap /\ Len(r.bytes) + r.room <= Cap
  BY <1>1, <1>2, <1>4, <1>5
<1>7. r.bytes # <<>> => r \in DataBlock
  BY <1>4, <1>6 DEF DataBlock
<1> QED BY <1>2, <1>4, <1>5, <1>7 DEF r, m

(* The smaller of two numbers.                                             *)
LEMMA MinOfTwo ==
  ASSUME NEW m \in Nat, NEW n \in Nat
  PROVE  Min({m, n}) \in {m, n} /\ Min({m, n}) <= m /\ Min({m, n}) <= n
<1>1. \E x \in {m, n} : \A y \in {m, n} : x <= y
  OBVIOUS
<1>2. Min({m, n}) \in {m, n} /\ \A y \in {m, n} : Min({m, n}) <= y
  BY <1>1 DEF Min
<1> QED BY <1>2

(* stread has copied what it wanted of a block.                            *)
LEMMA ReadCopiedTypes ==
  ASSUME TypesInv, NEW p \in Procs, ReadCopied(p)
  PROVE  TypesInv'
<1>1. /\ pc[p] # "user" /\ call[p] \in CallsOf[p] /\ End(p) \in Ends /\ Peer(End(p)) \in Ends
      /\ pc[p] \in PCs /\ call[p] \in Call
  <2>1. pc[p] # "user"
    BY DEF ReadCopied
  <2> QED BY <2>1, CallOfProc, PeerFacts DEF TypesInv, ProcTypes
<1>2. /\ queue' \in [Ends -> QueueType] /\ QueuesOK' /\ ucount' \in [Procs -> Nat]
      /\ seen' \in [Procs -> SUBSET Nat] /\ pc' \in [Procs -> PCs] /\ pc'[p] \in {"exit", "read"}
      /\ \A q \in Procs : q # p => pc'[q] = pc[q] /\ ucount'[q] = ucount[q] /\ seen'[q] = seen[q]
  <2> DEFINE b == hand[p]
             n == Wanted(p)
             r == Remainder(b, n)
  <2>1. b \in DataBlock /\ ucount[p] \in Nat /\ seen[p] \subseteq Nat
    BY DEF ReadCopied, TypesInv, PlaceOK, ProcTypes
  <2>2. b.bytes \in Seq(Nat) /\ Len(b.bytes) \in Nat
    BY <2>1, LenProperties DEF DataBlock
  <2>3. n = Min({ucount[p], Len(b.bytes)})
    BY DEF Wanted
  <2> HIDE DEF n
  <2>4. n \in 0 .. Len(b.bytes) /\ n <= ucount[p] /\ n \in Nat /\ ucount[p] - n \in Nat
    <3>1. n \in {ucount[p], Len(b.bytes)} /\ n <= ucount[p] /\ n <= Len(b.bytes)
      BY <2>1, <2>2, <2>3, MinOfTwo
    <3> QED BY <2>1, <2>2, <3>1
  <2>5. PICK fault \in BOOLEAN :
          /\ ucount' = IF fault THEN ucount ELSE [ucount EXCEPT ![p] = @ - n]
          /\ seen' = IF fault THEN seen ELSE [seen EXCEPT ![p] = @ \cup {b.bytes[i] : i \in 1 .. n}]
          /\ queue' = IF r.bytes = <<>> THEN queue ELSE [queue EXCEPT ![End(p)] = Putbq(@, r)]
          /\ Goto(p, IF fault \/ (r.bytes # <<>> /\ ucount[p] = n) THEN "exit" ELSE "read")
    BY PipeAssumption DEF ReadCopied, n, Remainder
  <2>6. {b.bytes[i] : i \in 1 .. n} \subseteq Nat
    BY <2>2, <2>4, ElementOfSeq
  <2>7. r.bytes # <<>> => r \in Blocks
    BY <2>1, <2>4, QueueAssumption, RestOfBlock DEF Blocks
  <2>8. r.bytes # <<>> => QueueOK(Putbq(queue[End(p)], r))
    BY <1>1, <2>7, QueueAssumption, PutbqKeeps DEF TypesInv, QueuesOK
  <2> HIDE DEF r, b
  <2>9. queue' \in [Ends -> QueueType] /\ QueuesOK'
    BY <1>1, <2>5, <2>8 DEF TypesInv, EndTypes, QueuesOK, QueueOK
  <2> QED BY <2>4, <2>5, <2>6, <2>9 DEF TypesInv, ProcTypes, Goto, PCs
<1>3. EndTypes'
  BY <1>1, <1>2 DEF ReadCopied, TypesInv, EndTypes, StreamFlags
<1>4. ProcTypes'
  BY <1>1, <1>2 DEF ReadCopied, TypesInv, ProcTypes, PCs, Goto
<1>5. PlaceOK(p)'
  BY <1>1, <1>2 DEF ReadCopied, TypesInv, ProcTypes, PlaceOK, Goto, End, Running
<1>6. ASSUME NEW q \in Procs, q # p
      PROVE  PlaceOK(q)'
  <2>1. /\ pc'[q] = pc[q] /\ call'[q] = call[q] /\ hand'[q] = hand[q] /\ wrote'[q] = wrote[q]
        /\ seen'[q] = seen[q] /\ ucount'[q] = ucount[q] /\ wchan'[q] \in {wchan[q], None}
    BY <1>2, <1>6 DEF ReadCopied, TypesInv, ProcTypes, Goto
  <2> QED BY <2>1, PlaceKept DEF TypesInv
<1> QED BY <1>2, <1>3, <1>4, <1>5, <1>6 DEF TypesInv

(* The block of a writer holds the next bytes of its stream.               *)
LEMMA NewBlock ==
  ASSUME QueueAssumption, NEW m \in Nat, NEW n \in 1 .. Cap
  PROVE  LET b == Data([i \in 1 .. n |-> m + i]) IN
         /\ b \in DataBlock /\ b \in Blocks /\ b.type = "data" /\ b.bytes = [i \in 1 .. n |-> m + i]
         /\ Len(b.bytes) = n
<1> DEFINE s == [i \in 1 .. n |-> m + i]
<1>1. s \in Seq(Nat) /\ Len(s) = n /\ n \in Nat /\ Cap \in Nat
  BY DEF QueueAssumption
<1> HIDE DEF s
<1>2. Data(s) \in DataBlock /\ Data(s).type = "data" /\ Data(s).bytes = s
  BY <1>1 DEF Data, DataBlock
<1> QED BY <1>1, <1>2 DEF s, Blocks

(* stwrite puts the block it has filled.                                   *)
LEMMA WritePutTypes ==
  ASSUME TypesInv, NEW p \in Procs, WritePut(p)
  PROVE  TypesInv'
<1>1. /\ pc[p] # "user" /\ call[p] \in CallsOf[p] /\ End(p) \in Ends /\ Peer(End(p)) \in Ends
      /\ pc[p] \in PCs /\ call[p] \in Call
  <2>1. pc[p] # "user"
    BY DEF WritePut
  <2> QED BY <2>1, CallOfProc, PeerFacts DEF TypesInv, ProcTypes
<1>2. /\ queue' \in [Ends -> QueueType] /\ QueuesOK' /\ sflag' \in [Ends -> SUBSET StreamFlags]
      /\ wchan' \in [Procs -> Chans \cup {None}] /\ \A q \in Procs : wchan'[q] \in {wchan[q], None}
      /\ sent' \in [Ends -> Nat] /\ ucount' \in [Procs -> Nat] /\ \A q \in Procs : q # p => ucount'[q] = ucount[q]
  <2> DEFINE f == Peer(End(p))
             n == Min({Cap, ucount[p]})
             s == [i \in 1 .. n |-> sent[f] + i]
  <2>1. /\ Strput(f, Data(s)) /\ sent' = IF linked THEN [sent EXCEPT ![f] = @ + n] ELSE sent
        /\ ucount' = [ucount EXCEPT ![p] = @ - n]
    BY DEF WritePut
  <2>2. ucount[p] \in Nat \ {0} /\ sent[f] \in Nat /\ Cap \in Nat \ {0}
    BY <1>1, QueueAssumption DEF WritePut, TypesInv, ProcTypes, EndTypes, PlaceOK, QueueAssumption
  <2>3. n \in 1 .. Cap /\ n <= ucount[p] /\ n \in Nat /\ ucount[p] - n \in Nat
    <3>1. n \in {Cap, ucount[p]} /\ n <= Cap /\ n <= ucount[p]
      BY <2>2, MinOfTwo
    <3> HIDE DEF n
    <3> QED BY <2>2, <3>1
  <2> HIDE DEF n
  <2>4. Data(s) \in Blocks
    BY <2>2, <2>3, QueueAssumption, NewBlock
  <2>5. /\ queue' \in [Ends -> QueueType] /\ QueuesOK' /\ sflag' \in [Ends -> SUBSET StreamFlags]
        /\ wchan' \in [Procs -> Chans \cup {None}] /\ \A q \in Procs : wchan'[q] \in {wchan[q], None}
    BY <1>1, <2>1, <2>4, StrputFacts
  <2>7. f \in Ends
    BY <1>1
  <2> HIDE DEF s, f
  <2>6. sent' \in [Ends -> Nat] /\ ucount' \in [Procs -> Nat] /\ \A q \in Procs : q # p => ucount'[q] = ucount[q]
    BY <2>1, <2>3, <2>7 DEF TypesInv, ProcTypes, EndTypes
  <2> QED BY <2>5, <2>6
<1>3. EndTypes'
  BY <1>1, <1>2 DEF WritePut, TypesInv, EndTypes, StreamFlags
<1>4. ProcTypes'
  BY <1>1, <1>2 DEF WritePut, TypesInv, ProcTypes, PCs, Goto
<1>5. PlaceOK(p)'
  BY <1>1, <1>2 DEF WritePut, TypesInv, ProcTypes, PlaceOK, Goto, End, Running
<1>6. ASSUME NEW q \in Procs, q # p
      PROVE  PlaceOK(q)'
  <2>1. /\ pc'[q] = pc[q] /\ call'[q] = call[q] /\ hand'[q] = hand[q] /\ wrote'[q] = wrote[q]
        /\ seen'[q] = seen[q] /\ ucount'[q] = ucount[q] /\ wchan'[q] \in {wchan[q], None}
    BY <1>2, <1>6 DEF WritePut, TypesInv, ProcTypes, Goto
  <2> QED BY <2>1, PlaceKept DEF TypesInv
<1> QED BY <1>2, <1>3, <1>4, <1>5, <1>6 DEF TypesInv

(* What stclose does: the last one out seals off the other end.            *)
LEMMA StcloseFacts ==
  ASSUME TypesInv, NEW e \in Ends, NEW n \in Int, Stclose(e, n)
  PROVE  /\ count' = [count EXCEPT ![e] = n] /\ count' \in [Ends -> Int]
         /\ queue' = IF n = 0 THEN [queue EXCEPT ![e] = Empty] ELSE queue
         /\ queue' \in [Ends -> QueueType] /\ QueuesOK'
         /\ sflag' = IF n = 0
                     THEN [f \in Ends |-> IF f = e THEN {}
                             ELSE IF linked THEN sflag[f] \cup {"HUNGUP"} ELSE sflag[f]]
                     ELSE sflag
         /\ sflag' \in [Ends -> SUBSET StreamFlags]
         /\ streaming' = IF n = 0 THEN streaming \ {e} ELSE streaming
         /\ linked' = (linked /\ n # 0) /\ linked' \in BOOLEAN
         /\ wchan' \in [Procs -> Chans \cup {None}]
         /\ \A q \in Procs : wchan'[q] = IF n = 0 /\ linked /\ wchan[q] \in {Rd(Peer(e)), Wr(Peer(e))}
                                         THEN None ELSE wchan[q]
<1>1. Empty \in QueueType /\ QueueOK(Empty)
  BY QueueAssumption, CountEmpty DEF QueueOK, QueueType, Empty, QFlags, QueueAssumption
<1>2. count' = [count EXCEPT ![e] = n]
  BY DEF Stclose
<1>3. count' \in [Ends -> Int]
  BY <1>2 DEF TypesInv, EndTypes
<1>4. CASE n # 0
  <2>1. UNCHANGED <<queue, sflag, streaming, linked, wchan>>
    BY <1>4 DEF Stclose
  <2> QED BY <1>2, <1>3, <1>4, <2>1 DEF TypesInv, EndTypes, ProcTypes, QueuesOK
<1>5. CASE n = 0
  <2>1. /\ streaming' = streaming \ {e} /\ queue' = [queue EXCEPT ![e] = Empty]
        /\ sflag' = [f \in Ends |-> IF f = e THEN {}
                         ELSE IF linked THEN sflag[f] \cup {"HUNGUP"} ELSE sflag[f]]
        /\ Wakeup(IF linked THEN HangupWakes(Peer(e)) ELSE {})
        /\ linked' = FALSE
    BY <1>5 DEF Stclose
  <2>2. queue' \in [Ends -> QueueType] /\ QueuesOK'
    BY <1>1, <2>1 DEF TypesInv, EndTypes, QueuesOK
  <2>3. sflag' \in [Ends -> SUBSET StreamFlags]
    BY <2>1 DEF TypesInv, EndTypes, StreamFlags
  <2>4. /\ wchan' \in [Procs -> Chans \cup {None}]
        /\ \A q \in Procs : wchan'[q] = IF wchan[q] \in (IF linked THEN HangupWakes(Peer(e)) ELSE {})
                                        THEN None ELSE wchan[q]
    BY <2>1, WakeupFacts
  <2>5. linked \in BOOLEAN
    BY DEF TypesInv, EndTypes
  <2>6. \A q \in Procs : wchan'[q] = IF n = 0 /\ linked /\ wchan[q] \in {Rd(Peer(e)), Wr(Peer(e))}
                                         THEN None ELSE wchan[q]
    BY <1>5, <2>4 DEF HangupWakes
  <2> QED BY <1>2, <1>3, <1>5, <2>1, <2>2, <2>3, <2>4, <2>5, <2>6
<1> QED BY <1>4, <1>5

(* stexit.                                                                 *)
LEMMA StexitFacts ==
  ASSUME TypesInv, NEW p \in Procs, Stexit(p)
  PROVE  LET e == End(p)
             n == count[e] - 1
         IN /\ pc[p] = "exit" /\ wchan[p] = None /\ hand[p] = None /\ hand' = hand /\ Return(p)
            /\ e \in Ends /\ count' = [count EXCEPT ![e] = n] /\ count' \in [Ends -> Int]
            /\ enabled' = enabled /\ fd' = fd /\ sent' = sent /\ starts' = starts
            /\ \/ n = 0 /\ Stclose(e, 0)
               \/ UNCHANGED <<queue, sflag, streaming, linked, wchan>>
<1>1. pc[p] = "exit" /\ wchan[p] = None
  BY DEF Stexit, Running
<1>2. hand[p] = None /\ End(p) \in Ends
  BY <1>1, CallOfProc DEF TypesInv, PlaceOK
<1>3. count[End(p)] \in Int
  BY <1>2 DEF TypesInv, EndTypes
<1>4. /\ Return(p) /\ enabled' = enabled /\ fd' = fd /\ hand' = hand /\ sent' = sent /\ starts' = starts
      /\ \/ count[End(p)] = 1 /\ Stclose(End(p), 0)
         \/ count' = [count EXCEPT ![End(p)] = @ - 1] /\ UNCHANGED <<queue, sflag, streaming, linked, wchan>>
  BY DEF Stexit
<1>5. CASE count[End(p)] = 1 /\ Stclose(End(p), 0)
  <2>1. count' = [count EXCEPT ![End(p)] = 0] /\ count' \in [Ends -> Int]
    BY <1>2, <1>5, StcloseFacts
  <2> QED BY <1>1, <1>2, <1>4, <1>5, <2>1
<1>6. CASE count' = [count EXCEPT ![End(p)] = @ - 1] /\ UNCHANGED <<queue, sflag, streaming, linked, wchan>>
  BY <1>1, <1>2, <1>3, <1>4, <1>6 DEF TypesInv, EndTypes
<1> QED BY <1>4, <1>5, <1>6

LEMMA StexitTypes ==
  ASSUME TypesInv, NEW p \in Procs, Stexit(p)
  PROVE  TypesInv'
<1>1. /\ pc[p] = "exit" /\ wchan[p] = None /\ hand[p] = None /\ hand' = hand /\ Return(p)
      /\ End(p) \in Ends /\ count' \in [Ends -> Int]
      /\ enabled' = enabled /\ fd' = fd /\ sent' = sent /\ starts' = starts
      /\ Stclose(End(p), 0) \/ UNCHANGED <<queue, sflag, streaming, linked, wchan>>
  BY StexitFacts
<1>2. /\ queue' \in [Ends -> QueueType] /\ QueuesOK' /\ sflag' \in [Ends -> SUBSET StreamFlags]
      /\ streaming' \subseteq Ends /\ linked' \in BOOLEAN /\ wchan' \in [Procs -> Chans \cup {None}]
      /\ \A q \in Procs : wchan'[q] \in {wchan[q], None}
  <2>1. CASE Stclose(End(p), 0)
    BY <1>1, <2>1, StcloseFacts DEF TypesInv, EndTypes
  <2>2. CASE UNCHANGED <<queue, sflag, streaming, linked, wchan>>
    BY <2>2 DEF TypesInv, EndTypes, ProcTypes, QueuesOK
  <2> QED BY <1>1, <2>1, <2>2
<1>3. EndTypes'
  BY <1>1, <1>2 DEF TypesInv, EndTypes
<1>4. wchan'[p] = None
  BY <1>1, <1>2
<1>5. ProcTypes' /\ \A q \in Procs : PlaceOK(q)'
  BY <1>1, <1>2, <1>4, ReturnFacts
<1> QED BY <1>2, <1>3, <1>5 DEF TypesInv

(* stenter.                                                                *)
LEMMA StenterTypes ==
  ASSUME TypesInv, NEW p \in Procs, NEW c \in CallsOf[p], Stenter(p, c)
  PROVE  TypesInv'
<1>1. /\ c \in Call /\ c.kind \in Kinds /\ c.end \in Ends /\ c.n \in Nat /\ Peer(c.end) \in Ends
      /\ c.kind # "close"
  BY CallFacts, PeerFacts DEF Stenter
<1>2. /\ pc[p] = "user" /\ wchan[p] = None /\ hand[p] = None /\ ~wrote[p] /\ seen[p] = {}
      /\ pc' = [pc EXCEPT ![p] = Entry(c.kind)] /\ call' = [call EXCEPT ![p] = c]
      /\ hand' = hand /\ wrote' = wrote /\ seen' = seen /\ wchan' = wchan
      /\ ucount' = [ucount EXCEPT ![p] = c.n]
  BY DEF Stenter, TypesInv, PlaceOK, Goto
<1>3. /\ Entry(c.kind) \in {"read", "write", "rcv", "ioctl"}
      /\ Entry(c.kind) = "read" <=> c.kind = "read"
      /\ Entry(c.kind) = "write" <=> c.kind = "write"
      /\ Entry(c.kind) = "rcv" <=> c.kind = "rcvfd"
  BY <1>1 DEF Entry, Kinds
<1>4. QueuesOK' /\ queue' = queue
  <2>1. queue' = queue
    BY DEF Stenter
  <2> QED BY <2>1 DEF TypesInv, QueuesOK
<1>5. EndTypes'
  <2>1. count' \in [Ends -> Int]
    BY <1>1 DEF Stenter, TypesInv, EndTypes
  <2>2. starts' \in [Ends -> SUBSET Nat]
    <3>1. sent[Peer(c.end)] \in Nat /\ starts \in [Ends -> SUBSET Nat]
      BY <1>1 DEF TypesInv, EndTypes
    <3>2. starts' = IF c.kind = "write"
                    THEN [starts EXCEPT ![Peer(c.end)] = @ \cup {sent[Peer(c.end)]}] ELSE starts
      BY DEF Stenter
    <3> QED BY <1>1, <3>1, <3>2
  <2> QED BY <2>1, <2>2 DEF Stenter, TypesInv, EndTypes
<1>6. ProcTypes'
  <2>1. /\ pc' \in [Procs -> PCs] /\ call' \in [Procs -> Call \cup {None}] /\ ucount' \in [Procs -> Nat]
    BY <1>1, <1>2, <1>3 DEF TypesInv, ProcTypes, PCs
  <2>2. cur' \in Procs \cup {None}
    BY DEF Stenter
  <2> QED BY <1>2, <2>1, <2>2 DEF TypesInv, ProcTypes
<1>7. PlaceOK(p)'
  <2>1. pc'[p] = Entry(c.kind) /\ call'[p] = c
    BY <1>2 DEF TypesInv, ProcTypes
  <2> QED BY <1>1, <1>2, <1>3, <2>1 DEF PlaceOK, Kinds
<1>8. ASSUME NEW q \in Procs, q # p
      PROVE  PlaceOK(q)'
  <2>1. /\ pc'[q] = pc[q] /\ call'[q] = call[q] /\ hand'[q] = hand[q] /\ wrote'[q] = wrote[q]
        /\ seen'[q] = seen[q] /\ ucount'[q] = ucount[q] /\ wchan'[q] \in {wchan[q], None}
    BY <1>2, <1>8 DEF TypesInv, ProcTypes
  <2> QED BY <2>1, PlaceKept DEF TypesInv
<1> QED BY <1>4, <1>5, <1>6, <1>7, <1>8 DEF TypesInv

(* close.                                                                  *)
LEMMA CloseTypes ==
  ASSUME TypesInv, NEW p \in Procs, NEW c \in CallsOf[p], Close(p, c)
  PROVE  TypesInv'
<1>1. c.end \in Ends
  BY CallFacts
<1>2. count[c.end] \in Int
  BY <1>1 DEF TypesInv, EndTypes
<1>3. /\ fd' = [fd EXCEPT ![c.end] = @ \ {p}]
      /\ enabled' = enabled /\ pc' = pc /\ call' = call /\ ucount' = ucount /\ hand' = hand
      /\ wrote' = wrote /\ cur' = cur /\ sent' = sent /\ starts' = starts /\ seen' = seen
      /\ Stclose(c.end, count[c.end]) \/ UNCHANGED <<queue, sflag, count, streaming, linked, wchan>>
  BY DEF Close, history
<1>4. /\ queue' \in [Ends -> QueueType] /\ QueuesOK' /\ sflag' \in [Ends -> SUBSET StreamFlags]
      /\ streaming' \subseteq Ends /\ linked' \in BOOLEAN /\ wchan' \in [Procs -> Chans \cup {None}]
      /\ count' \in [Ends -> Int]
      /\ \A q \in Procs : wchan'[q] \in {wchan[q], None}
  <2>1. CASE Stclose(c.end, count[c.end])
    <3> DEFINE n == count[c.end]
               e == c.end
    <3>1. n \in Int /\ e \in Ends /\ Stclose(e, n)
      BY <1>1, <1>2, <2>1
    <3> HIDE DEF n, e
    <3> QED BY <3>1, StcloseFacts DEF TypesInv, EndTypes
  <2>2. CASE UNCHANGED <<queue, sflag, count, streaming, linked, wchan>>
    BY <2>2 DEF TypesInv, EndTypes, ProcTypes, QueuesOK
  <2> QED BY <1>3, <2>1, <2>2
<1>5. EndTypes'
  BY <1>1, <1>3, <1>4 DEF TypesInv, EndTypes
<1>6. ProcTypes'
  BY <1>3, <1>4 DEF TypesInv, ProcTypes
<1>7. \A q \in Procs : PlaceOK(q)'
  BY <1>3, <1>4, PlaceKept DEF TypesInv
<1> QED BY <1>4, <1>5, <1>6, <1>7 DEF TypesInv

(* A signal.                                                               *)
LEMMA SignalTypes ==
  ASSUME TypesInv, NEW p \in Procs, Signal(p)
  PROVE  TypesInv'
<1>1. /\ pc[p] # "user" /\ hand[p] = None /\ wchan[p] # None /\ call[p] \in CallsOf[p]
      /\ pc' = [pc EXCEPT ![p] = "exit"] /\ wchan' = [wchan EXCEPT ![p] = None] /\ cur' = p
      /\ UNCHANGED <<queue, sflag, count, streaming, linked, enabled, fd, call, ucount, hand, wrote,
                     sent, starts, seen>>
  BY DEF Signal, Goto, endVars, history, TypesInv, PlaceOK
<1>2. EndTypes' /\ QueuesOK'
  BY <1>1 DEF TypesInv, EndTypes, QueuesOK
<1>3. ProcTypes'
  BY <1>1 DEF TypesInv, ProcTypes, PCs
<1>4. PlaceOK(p)'
  BY <1>1 DEF TypesInv, ProcTypes, PlaceOK
<1>5. ASSUME NEW q \in Procs, q # p
      PROVE  PlaceOK(q)'
  <2>1. pc'[q] = pc[q] /\ wchan'[q] \in {wchan[q], None}
    BY <1>1, <1>5 DEF TypesInv, ProcTypes
  <2> QED BY <1>1, <2>1, PlaceKept DEF TypesInv
<1> QED BY <1>2, <1>3, <1>4, <1>5 DEF TypesInv

(* stwsrv.                                                                 *)
LEMMA StwsrvTypes ==
  ASSUME TypesInv, NEW e \in Ends, Stwsrv(e)
  PROVE  TypesInv'
<1>1. /\ enabled' = enabled \ {e} /\ sflag' = [sflag EXCEPT ![e] = @ \ {"WSLEEP"}]
      /\ Wakeup(IF "WSLEEP" \in sflag[e] THEN {Wr(e)} ELSE {})
      /\ UNCHANGED <<queue, count, streaming, linked, fd, pc, call, ucount, hand, wrote, cur,
                     sent, starts, seen>>
  BY DEF Stwsrv, history
<1>2. /\ wchan' \in [Procs -> Chans \cup {None}]
      /\ \A q \in Procs : wchan'[q] \in {wchan[q], None}
  BY <1>1, WakeupFacts
<1>3. EndTypes' /\ QueuesOK'
  BY <1>1 DEF TypesInv, EndTypes, QueuesOK
<1>4. ProcTypes'
  BY <1>1, <1>2 DEF TypesInv, ProcTypes
<1>5. \A q \in Procs : PlaceOK(q)'
  BY <1>1, <1>2, PlaceKept DEF TypesInv
<1> QED BY <1>3, <1>4, <1>5 DEF TypesInv

(* Every step keeps the types.                                             *)
LEMMA TypesStep ==
  ASSUME TypesInv, [Next]_vars
  PROVE  TypesInv'
<1>1. ASSUME NEW p \in Procs, Proceed(p)
      PROVE  TypesInv'
  <2>1. CASE Stread(p)
    BY <2>1, ReadEofTypes, ReadSleepTypes, ReadDataTypes, ReadDelimTypes, ReadPassTypes,
       ReadCopiedTypes DEF Stread
  <2>2. CASE Stwrite(p)
    BY <2>2, WriteSleepTypes, WriteBusyTypes, WriteHungupTypes, WriteDelimTypes, WriteAllocTypes,
       WritePutTypes, WriteFaultTypes DEF Stwrite
  <2>3. CASE Stioctl(p)
    BY <2>3, IoctlErrorTypes, FlushTypes, WnblkTypes, SendFileTypes, ReceiveFileTypes DEF Stioctl
  <2>4. CASE Stexit(p)
    BY <2>4, StexitTypes
  <2> QED BY <1>1, <2>1, <2>2, <2>3, <2>4 DEF Proceed
<1>2. ASSUME NEW p \in Procs, Enter(p)
      PROVE  TypesInv'
  BY <1>2, StenterTypes, CloseTypes DEF Enter
<1>3. CASE UNCHANGED vars
  BY <1>3 DEF vars, endVars, procVars, history, TypesInv, EndTypes, ProcTypes, QueuesOK, PlaceOK, End
<1> QED BY <1>1, <1>2, <1>3, SignalTypes, StwsrvTypes DEF Next

(***************************************************************************)
(* Who is inside, who sleeps, and which ends are linked                    *)
(***************************************************************************)
(* A process that is inside the routines of an end has it open.            *)
OpenInv == \A p \in Procs : pc[p] # "user" => p \in fd[End(p)]

(* At least those who are inside count.                                    *)
CountInv == \A e \in Ends : Cardinality(Inside(e)) <= count[e]

(* HUNGUP says that the other end is gone; nobody is inside a stream that  *)
(* is gone.                                                                *)
LinkInv ==
  \A e \in Ends :
    /\ e \in streaming => ("HUNGUP" \in sflag[e] <=> ~linked)
    /\ e \notin streaming => ~linked /\ Inside(e) = {}

(* A process that sleeps is known to its stream head, and both ends are    *)
(* there.                                                                  *)
SleepInv ==
  \A p \in Procs, e \in Ends :
    /\ wchan[p] = Rd(e) => "RSLEEP" \in sflag[e] /\ linked
    /\ wchan[p] = Wr(e) => "WSLEEP" \in sflag[e] /\ linked

PipeInv == TypesInv /\ OpenInv /\ CountInv /\ LinkInv /\ SleepInv

(* Those inside are finitely many.                                         *)
LEMMA InsideFinite ==
  ASSUME NEW e \in Ends
  PROVE  Inside(e) \subseteq Procs /\ IsFiniteSet(Inside(e)) /\ Cardinality(Inside(e)) \in Nat
<1>1. Inside(e) \subseteq Procs /\ IsFiniteSet(Procs)
  BY PipeAssumption DEF Inside
<1> QED BY <1>1, FS_Subset, FS_CardinalityType

LEMMA PipeInit ==
  ASSUME Init
  PROVE  PipeInv
<1>1. TypesInv
  BY TypesInit
<1>2. \A e \in Ends : Inside(e) = {} /\ count[e] = 0
  BY DEF Init, Inside
<1>3. CountInv
  BY <1>2, FS_EmptySet DEF CountInv
<1>4. OpenInv /\ LinkInv
  BY <1>2 DEF Init, OpenInv, LinkInv
<1>5. SleepInv
  BY ChanFacts DEF Init, SleepInv
<1> QED BY <1>1, <1>3, <1>4, <1>5 DEF PipeInv

(* A step in which nobody enters or leaves, and nobody closes.             *)
InnerStep ==
  /\ UNCHANGED <<count, streaming, linked, fd, call>>
  /\ \A q \in Procs : pc'[q] = "user" <=> pc[q] = "user"
  /\ \A e \in Ends : "HUNGUP" \in sflag'[e] <=> "HUNGUP" \in sflag[e]

LEMMA InnerKeeps ==
  ASSUME PipeInv, TypesInv', InnerStep, SleepInv'
  PROVE  PipeInv'
<1>1. \A e \in Ends : Inside(e)' = Inside(e)
  BY DEF InnerStep, Inside, End
<1>2. OpenInv' /\ CountInv' /\ LinkInv'
  BY <1>1 DEF PipeInv, OpenInv, CountInv, LinkInv, InnerStep, End
<1> QED BY <1>2 DEF PipeInv

(* Nobody falls asleep, and the flags of those who sleep stay.             *)
LEMMA QuietSleep ==
  ASSUME PipeInv, UNCHANGED <<sflag, linked>>, \A q \in Procs : wchan'[q] \in {wchan[q], None}
  PROVE  SleepInv'
BY ChanFacts DEF PipeInv, SleepInv

(* strput wakes all who sleep for the queue.                               *)
LEMMA StrputSleep ==
  ASSUME PipeInv, NEW e \in Ends, NEW b \in Blocks, Strput(e, b), linked' = linked
  PROVE  SleepInv' /\ \A f \in Ends : "HUNGUP" \in sflag'[f] <=> "HUNGUP" \in sflag[f]
<1>1. /\ sflag' = IF linked THEN [sflag EXCEPT ![e] = @ \ {"RSLEEP"}] ELSE sflag
      /\ \A q \in Procs : wchan'[q] = IF linked /\ "RSLEEP" \in sflag[e] /\ wchan[q] = Rd(e)
                                         THEN None ELSE wchan[q]
  BY StrputFacts DEF PipeInv
<1>2. sflag \in [Ends -> SUBSET StreamFlags]
  BY DEF PipeInv, TypesInv, EndTypes
<1>3. \A f \in Ends : /\ "HUNGUP" \in sflag'[f] <=> "HUNGUP" \in sflag[f]
                      /\ "WSLEEP" \in sflag'[f] <=> "WSLEEP" \in sflag[f]
                      /\ f # e => sflag'[f] = sflag[f]
  BY <1>1, <1>2
<1>4. ASSUME NEW p \in Procs, NEW f \in Ends, wchan'[p] = Rd(f)
      PROVE  "RSLEEP" \in sflag'[f] /\ linked'
  <2>1. wchan[p] = Rd(f) /\ Rd(f) # None
    BY <1>1, <1>4, ChanFacts
  <2>2. "RSLEEP" \in sflag[f] /\ linked
    BY <2>1 DEF PipeInv, SleepInv
  <2> QED BY <1>1, <1>3, <1>4, <2>1, <2>2, ChanFacts
<1>5. ASSUME NEW p \in Procs, NEW f \in Ends, wchan'[p] = Wr(f)
      PROVE  "WSLEEP" \in sflag'[f] /\ linked'
  <2>1. wchan[p] = Wr(f)
    BY <1>1, <1>5, ChanFacts
  <2> QED BY <1>3, <2>1 DEF PipeInv, SleepInv
<1> QED BY <1>3, <1>4, <1>5 DEF SleepInv

(* The steps of stread, stwrite and stioctl.                               *)
LEMMA ReadInner ==
  ASSUME PipeInv, TypesInv', NEW p \in Procs,
         ReadEof(p) \/ ReadData(p) \/ ReadDelim(p) \/ ReadCopied(p) \/ ReceiveFile(p)
  PROVE  PipeInv' /\ sflag' = sflag /\ wchan' = wchan /\ linked' = linked /\ enabled \subseteq enabled'
<1>1. /\ pc[p] # "user" /\ End(p) \in Ends /\ pc \in [Procs -> PCs]
  <2>1. pc[p] # "user"
    BY DEF ReadEof, ReadData, ReadDelim, ReadCopied, ReceiveFile
  <2> QED BY <2>1, CallOfProc DEF PipeInv, TypesInv, ProcTypes
<1>2. /\ UNCHANGED <<sflag, wchan, count, streaming, linked, fd, call>>
      /\ \E l \in PCs \ {"user"} : Goto(p, l)
      /\ enabled' = enabled \/ \E w \in BOOLEAN : Enable(End(p), w)
  <2>1. CASE ReadEof(p) \/ ReadData(p) \/ ReadDelim(p) \/ ReceiveFile(p)
    <3>1. GetqEnables(queue[End(p)]) \in BOOLEAN
      BY DEF GetqEnables
    <3> QED BY <2>1, <3>1 DEF ReadEof, ReadData, ReadDelim, ReceiveFile, PCs
  <2>2. CASE ReadCopied(p)
    <3>1. \E fault, done \in BOOLEAN : Goto(p, IF fault \/ done THEN "exit" ELSE "read")
      BY <2>2, PipeAssumption DEF ReadCopied
    <3>2. \E l \in PCs \ {"user"} : Goto(p, l)
      BY <3>1 DEF PCs
    <3> QED BY <2>2, <3>2 DEF ReadCopied
  <2> QED BY <2>1, <2>2
<1>3. InnerStep
  BY <1>1, <1>2 DEF InnerStep, Goto
<1>4. SleepInv'
  BY <1>2, QuietSleep
<1> QED BY <1>2, <1>3, <1>4, InnerKeeps DEF Enable

LEMMA ReadSleepInner ==
  ASSUME PipeInv, TypesInv', NEW p \in Procs, ReadSleep(p)
  PROVE  PipeInv' /\ linked
<1>1. /\ pc[p] # "user" /\ End(p) \in Ends /\ p \in Inside(End(p))
      /\ sflag \in [Ends -> SUBSET StreamFlags] /\ wchan \in [Procs -> Chans \cup {None}]
  <2>1. pc[p] # "user"
    BY DEF ReadSleep
  <2> QED BY <2>1, CallOfProc DEF PipeInv, TypesInv, EndTypes, ProcTypes, Inside
<1>2. /\ sflag' = [sflag EXCEPT ![End(p)] = @ \cup {"RSLEEP"}]
      /\ wchan' = [wchan EXCEPT ![p] = Rd(End(p))] /\ "HUNGUP" \notin sflag[End(p)]
      /\ UNCHANGED <<count, streaming, linked, fd, pc, call>>
  BY DEF ReadSleep
<1>3. linked
  BY <1>1, <1>2 DEF PipeInv, LinkInv
<1>4. InnerStep
  BY <1>1, <1>2 DEF InnerStep
<1>5. SleepInv'
  <2>1. \A q \in Procs : wchan'[q] = IF q = p THEN Rd(End(p)) ELSE wchan[q]
    BY <1>1, <1>2
  <2>2. \A e \in Ends : /\ sflag[e] \subseteq sflag'[e] /\ "RSLEEP" \in sflag'[End(p)]
    BY <1>1, <1>2
  <2> QED BY <1>1, <1>2, <1>3, <2>1, <2>2, ChanFacts DEF SleepInv, PipeInv
<1> QED BY <1>3, <1>4, <1>5, InnerKeeps

LEMMA WriteSleepInner ==
  ASSUME PipeInv, TypesInv', NEW p \in Procs, WriteSleep(p)
  PROVE  PipeInv' /\ linked
<1>1. /\ pc[p] # "user" /\ End(p) \in Ends /\ p \in Inside(End(p))
      /\ sflag \in [Ends -> SUBSET StreamFlags] /\ wchan \in [Procs -> Chans \cup {None}]
  <2>1. pc[p] # "user"
    BY DEF WriteSleep
  <2> QED BY <2>1, CallOfProc DEF PipeInv, TypesInv, EndTypes, ProcTypes, Inside
<1>2. /\ sflag' = [sflag EXCEPT ![End(p)] = @ \cup {"WSLEEP"}] /\ linked
      /\ wchan' = [wchan EXCEPT ![p] = Wr(End(p))]
      /\ UNCHANGED <<count, streaming, linked, fd, pc, call>>
  BY DEF WriteSleep, Full
<1>3. InnerStep
  BY <1>1, <1>2 DEF InnerStep
<1>4. SleepInv'
  <2>1. \A q \in Procs : wchan'[q] = IF q = p THEN Wr(End(p)) ELSE wchan[q]
    BY <1>1, <1>2
  <2>2. \A e \in Ends : /\ sflag[e] \subseteq sflag'[e] /\ "WSLEEP" \in sflag'[End(p)]
    BY <1>1, <1>2
  <2> QED BY <1>1, <1>2, <2>1, <2>2, ChanFacts DEF SleepInv, PipeInv
<1> QED BY <1>2, <1>3, <1>4, InnerKeeps

(* The block that a step puts with strput, if it puts one.                 *)
PutStep(p, b) ==
  /\ Strput(Peer(End(p)), b) /\ UNCHANGED <<count, streaming, linked, enabled, fd, call>>
  /\ \E l \in PCs \ {"user"} : Goto(p, l)

LEMMA PutInner ==
  ASSUME PipeInv, TypesInv', NEW p \in Procs, pc[p] # "user", NEW b \in Blocks, PutStep(p, b)
  PROVE  PipeInv'
<1>1. End(p) \in Ends /\ Peer(End(p)) \in Ends /\ pc \in [Procs -> PCs]
  BY CallOfProc, PeerFacts DEF PipeInv, TypesInv, ProcTypes
<1>2. SleepInv' /\ \A f \in Ends : "HUNGUP" \in sflag'[f] <=> "HUNGUP" \in sflag[f]
  BY <1>1, StrputSleep DEF PutStep
<1>3. InnerStep
  BY <1>1, <1>2 DEF PutStep, InnerStep, Goto
<1> QED BY <1>2, <1>3, InnerKeeps

(* Which steps put which block.                                            *)
LEMMA Puts ==
  ASSUME TypesInv, NEW p \in Procs
  PROVE  /\ WriteDelim(p) => pc[p] = "write" /\ PutStep(p, Delim)
         /\ WriteBusy(p) /\ wrote[p] => pc[p] = "write" /\ PutStep(p, Delim)
         /\ SendFile(p) => pc[p] = "ioctl" /\ PutStep(p, Pass)
         /\ WritePut(p) => LET f == Peer(End(p))
                               n == Min({Cap, ucount[p]})
                               b == Data([i \in 1 .. n |-> sent[f] + i])
                           IN /\ pc[p] = "copyin" /\ PutStep(p, b) /\ n \in 1 .. Cap /\ n <= ucount[p]
                              /\ b \in DataBlock /\ b \in Blocks /\ b.type = "data"
                              /\ b.bytes = [i \in 1 .. n |-> sent[f] + i] /\ Len(b.bytes) = n
                              /\ f \in Ends
         /\ Delim \in Blocks /\ Pass \in Blocks
<1>1. Delim \in Blocks /\ Pass \in Blocks
  BY DEF Blocks
<1>2. WriteDelim(p) => pc[p] = "write" /\ PutStep(p, Delim)
  BY DEF WriteDelim, PutStep, PCs
<1>3. WriteBusy(p) /\ wrote[p] => pc[p] = "write" /\ PutStep(p, Delim)
  BY DEF WriteBusy, PutStep, PCs
<1>4. SendFile(p) => pc[p] = "ioctl" /\ PutStep(p, Pass)
  BY DEF SendFile, PutStep, PCs
<1>5. ASSUME WritePut(p)
      PROVE  LET f == Peer(End(p))
                 n == Min({Cap, ucount[p]})
                 b == Data([i \in 1 .. n |-> sent[f] + i])
             IN /\ pc[p] = "copyin" /\ PutStep(p, b) /\ n \in 1 .. Cap /\ n <= ucount[p]
                /\ b \in DataBlock /\ b \in Blocks /\ b.type = "data"
                /\ b.bytes = [i \in 1 .. n |-> sent[f] + i] /\ Len(b.bytes) = n
                /\ f \in Ends
  <2> DEFINE f == Peer(End(p))
             n == Min({Cap, ucount[p]})
             b == Data([i \in 1 .. n |-> sent[f] + i])
  <2>1. pc[p] = "copyin" /\ PutStep(p, b)
    BY <1>5 DEF WritePut, PutStep, PCs
  <2>2. f \in Ends
    BY <2>1, CallOfProc, PeerFacts
  <2>3. ucount[p] \in Nat \ {0} /\ sent[f] \in Nat /\ Cap \in Nat \ {0}
    BY <2>1, <2>2, QueueAssumption DEF TypesInv, ProcTypes, EndTypes, PlaceOK, QueueAssumption
  <2>4. n \in 1 .. Cap /\ n <= ucount[p]
    <3>1. n \in {Cap, ucount[p]} /\ n <= Cap /\ n <= ucount[p]
      BY <2>3, MinOfTwo
    <3> HIDE DEF n
    <3> QED BY <2>3, <3>1
  <2>5. /\ b \in DataBlock /\ b \in Blocks /\ b.type = "data"
        /\ b.bytes = [i \in 1 .. n |-> sent[f] + i] /\ Len(b.bytes) = n
    <3> HIDE DEF n, f
    <3> QED BY <2>3, <2>4, QueueAssumption, NewBlock
  <2> QED BY <2>1, <2>2, <2>4, <2>5
<1> QED BY <1>1, <1>2, <1>3, <1>4, <1>5

(* A step that puts nothing and wakes nobody.                              *)
StillStep(p) ==
  /\ UNCHANGED <<count, streaming, linked, fd, call, sflag>>
  /\ (\E l \in PCs \ {"user"} : Goto(p, l)) /\ \A q \in Procs : wchan'[q] \in {wchan[q], None}

LEMMA StillInner ==
  ASSUME PipeInv, TypesInv', NEW p \in Procs, pc[p] # "user", StillStep(p)
  PROVE  PipeInv'
<1>1. pc \in [Procs -> PCs]
  BY DEF PipeInv, TypesInv, ProcTypes
<1>2. InnerStep
  BY <1>1 DEF StillStep, InnerStep, Goto
<1> QED BY <1>2, QuietSleep, InnerKeeps DEF StillStep

LEMMA Stills ==
  ASSUME TypesInv, NEW p \in Procs,
         \/ WriteHungup(p) \/ WriteAlloc(p) \/ WriteFault(p) \/ IoctlError(p) \/ Flush(p) \/ Signal(p)
         \/ WriteBusy(p) /\ ~wrote[p]
  PROVE  pc[p] # "user" /\ StillStep(p)
<1>1. \/ WriteHungup(p) \/ WriteAlloc(p) \/ WriteFault(p) \/ IoctlError(p) \/ Flush(p)
      \/ WriteBusy(p) /\ ~wrote[p]
      => pc[p] # "user" /\ StillStep(p)
  BY DEF StillStep, WriteHungup, WriteAlloc, WriteFault, IoctlError, Flush, WriteBusy, PCs, endVars
<1>2. Signal(p) => pc[p] # "user" /\ StillStep(p)
  BY DEF StillStep, Signal, PCs, endVars, TypesInv, PlaceOK, ProcTypes
<1> QED BY <1>1, <1>2

LEMMA WnblkInner ==
  ASSUME PipeInv, TypesInv', NEW p \in Procs, Wnblk(p)
  PROVE  PipeInv' /\ wchan' = wchan
<1>1. /\ pc[p] # "user" /\ wchan' = wchan /\ UNCHANGED <<count, streaming, linked, fd, call>>
      /\ pc' = [pc EXCEPT ![p] = "exit"]
      /\ \E set \in {{}, {"WNBLK"}} : sflag' = [sflag EXCEPT ![End(p)] = (@ \ {"WNBLK"}) \cup set]
  BY DEF Wnblk, Goto
<1>2. sflag \in [Ends -> SUBSET StreamFlags] /\ pc \in [Procs -> PCs]
  BY DEF PipeInv, TypesInv, EndTypes, ProcTypes
<1>3. \A e \in Ends : \A x \in {"HUNGUP", "RSLEEP", "WSLEEP"} : x \in sflag'[e] <=> x \in sflag[e]
  BY <1>1, <1>2
<1>4. InnerStep
  BY <1>1, <1>2, <1>3 DEF InnerStep
<1>5. SleepInv'
  BY <1>1, <1>3 DEF SleepInv, PipeInv
<1> QED BY <1>1, <1>4, <1>5, InnerKeeps

LEMMA StwsrvInner ==
  ASSUME PipeInv, TypesInv', NEW e \in Ends, Stwsrv(e)
  PROVE  PipeInv' /\ \A q \in Procs : wchan'[q] = IF wchan[q] = Wr(e) THEN None ELSE wchan[q]
<1>1. /\ enabled' = enabled \ {e} /\ sflag' = [sflag EXCEPT ![e] = @ \ {"WSLEEP"}]
      /\ Wakeup(IF "WSLEEP" \in sflag[e] THEN {Wr(e)} ELSE {})
      /\ UNCHANGED <<queue, count, streaming, linked, fd, pc, call>>
  BY DEF Stwsrv
<1>2. sflag \in [Ends -> SUBSET StreamFlags]
  BY DEF PipeInv, TypesInv, EndTypes
<1>3. \A q \in Procs : wchan'[q] = IF wchan[q] = Wr(e) THEN None ELSE wchan[q]
  <2>1. \A q \in Procs : wchan'[q] = IF wchan[q] \in (IF "WSLEEP" \in sflag[e] THEN {Wr(e)} ELSE {})
                                     THEN None ELSE wchan[q]
    BY <1>1, WakeupFacts DEF PipeInv
  <2> QED BY <2>1 DEF PipeInv, SleepInv
<1>4. InnerStep
  BY <1>1, <1>2 DEF InnerStep
<1>5. SleepInv'
  <2>1. ASSUME NEW p \in Procs, NEW f \in Ends
        PROVE  /\ wchan'[p] = Rd(f) => "RSLEEP" \in sflag'[f] /\ linked'
               /\ wchan'[p] = Wr(f) => "WSLEEP" \in sflag'[f] /\ linked'
    <3>1. "RSLEEP" \in sflag'[f] <=> "RSLEEP" \in sflag[f]
      BY <1>1, <1>2
    <3>2. f # e => sflag'[f] = sflag[f]
      BY <1>1, <1>2
    <3> QED BY <1>1, <1>3, <3>1, <3>2, ChanFacts DEF PipeInv, SleepInv
  <2> QED BY <2>1 DEF SleepInv
<1> QED BY <1>3, <1>4, <1>5, InnerKeeps

(* The steps by which a process enters or leaves.                          *)
LEMMA LeaveInside ==
  ASSUME TypesInv, NEW p \in Procs, pc[p] # "user", Return(p), NEW e \in Ends, e = End(p)
  PROVE  /\ Inside(e)' = Inside(e) \ {p} /\ p \in Inside(e)
         /\ \A f \in Ends : f # e => Inside(f)' = Inside(f)
         /\ Cardinality(Inside(e)') = Cardinality(Inside(e)) - 1
<1>2. \A q \in Procs : q # p => pc'[q] = pc[q] /\ call'[q] = call[q]
  BY DEF Return, Goto, TypesInv, ProcTypes
<1>3. pc'[p] = "user"
  BY DEF Return, Goto, TypesInv, ProcTypes
<1>4. p \in Inside(e) /\ Inside(e)' = Inside(e) \ {p}
  BY <1>2, <1>3 DEF Inside, End
<1>5. \A f \in Ends : f # e => Inside(f)' = Inside(f)
  BY <1>2, <1>3 DEF Inside, End
<1>6. Cardinality(Inside(e) \ {p}) = Cardinality(Inside(e)) - 1
  BY <1>4, InsideFinite, FS_RemoveElement
<1> QED BY <1>4, <1>5, <1>6

LEMMA ReturnOpen ==
  ASSUME TypesInv, NEW p \in Procs, Return(p), OpenInv, fd' = fd
  PROVE  OpenInv'
<1>1. \A q \in Procs : q # p => pc'[q] = pc[q] /\ call'[q] = call[q]
  BY DEF Return, Goto, TypesInv, ProcTypes
<1>2. pc'[p] = "user"
  BY DEF Return, Goto, TypesInv, ProcTypes
<1> QED BY <1>1, <1>2 DEF OpenInv, End

LEMMA ReadPassInner ==
  ASSUME PipeInv, TypesInv', NEW p \in Procs, ReadPass(p)
  PROVE  PipeInv' /\ wchan' = wchan /\ enabled \subseteq enabled'
<1>1. /\ pc[p] # "user" /\ Return(p) /\ UNCHANGED <<sflag, count, streaming, linked, fd, wchan>>
      /\ Enable(End(p), GetqEnables(queue[End(p)]))
  BY DEF ReadPass
<1>2. PICK e \in Ends : e = End(p)
  BY <1>1, CallOfProc DEF PipeInv
<1>3. CountInv'
  <2>1. \A f \in Ends : Cardinality(Inside(f)) \in Nat /\ count[f] \in Int
    BY InsideFinite DEF PipeInv, TypesInv, EndTypes
  <2>2. /\ Cardinality(Inside(e)') = Cardinality(Inside(e)) - 1
        /\ \A f \in Ends : f # e => Inside(f)' = Inside(f)
    BY <1>1, <1>2, LeaveInside DEF PipeInv
  <2>3. \A f \in Ends : Cardinality(Inside(f)') <= count[f]
    BY <2>1, <2>2 DEF PipeInv, CountInv
  <2> QED BY <1>1, <2>3 DEF CountInv
<1>4. OpenInv'
  BY <1>1, ReturnOpen DEF PipeInv
<1>5. LinkInv'
  <2>1. \A f \in Ends : Inside(f)' \subseteq Inside(f)
    BY <1>1, <1>2, LeaveInside DEF PipeInv
  <2> QED BY <1>1, <2>1 DEF PipeInv, LinkInv
<1>6. SleepInv'
  BY <1>1, QuietSleep
<1> QED BY <1>1, <1>3, <1>4, <1>5, <1>6 DEF PipeInv, Enable

(* An end at which nobody is inside goes, and everybody who sleeps at the  *)
(* other end is woken.                                                     *)
LEMMA GoneKeeps ==
  ASSUME PipeInv, TypesInv', NEW e \in Ends, Stclose(e, 0), Inside(e)' = {},
         \A f \in Ends : Inside(f)' \subseteq Inside(f)
  PROVE  LinkInv' /\ SleepInv'
<1>1. /\ sflag' = [f \in Ends |-> IF f = e THEN {}
                             ELSE IF linked THEN sflag[f] \cup {"HUNGUP"} ELSE sflag[f]]
      /\ streaming' = streaming \ {e} /\ linked' = FALSE
      /\ \A q \in Procs : wchan'[q] = IF linked /\ wchan[q] \in {Rd(Peer(e)), Wr(Peer(e))}
                                      THEN None ELSE wchan[q]
  BY StcloseFacts DEF PipeInv
<1>2. ASSUME NEW f \in Ends, f \in streaming'
      PROVE  "HUNGUP" \in sflag'[f] <=> ~linked'
  BY <1>1, <1>2 DEF PipeInv, LinkInv
<1>3. ASSUME NEW q \in Procs, NEW f \in Ends
      PROVE  wchan'[q] # Rd(f) /\ wchan'[q] # Wr(f)
  <2>1. SUFFICES ASSUME wchan'[q] = Rd(f) \/ wchan'[q] = Wr(f)
                 PROVE  FALSE
    OBVIOUS
  <2>2. wchan[q] = wchan'[q] /\ wchan'[q] # None
    BY <1>1, <2>1, ChanFacts
  <2>3. linked
    BY <2>1, <2>2 DEF PipeInv, SleepInv
  <2>4. f # Peer(e) /\ f = e
    BY <1>1, <2>1, <2>2, <2>3, PeerFacts
  <2>5. pc'[q] # "user" /\ End(q)' = f
    <3>1. PlaceOK(q)'
      BY DEF TypesInv
    <3>2. pc'[q] # "user" /\ wchan'[q] \in {Rd(End(q)'), Wr(End(q)')}
      BY <2>2, <3>1 DEF PlaceOK
    <3>3. End(q)' \in Ends
      <4>1. call'[q] \in CallsOf[q]
        BY <3>1, <3>2 DEF PlaceOK
      <4> QED BY <4>1, CallFacts DEF End
    <3> QED BY <2>1, <3>2, <3>3, ChanFacts
  <2>6. q \in Inside(e)'
    BY <2>4, <2>5 DEF Inside
  <2> QED BY <2>6
<1>4. ASSUME NEW f \in Ends, f \notin streaming'
      PROVE  ~linked' /\ Inside(f)' = {}
  <2>1. CASE f = e
    BY <1>1, <2>1
  <2>2. CASE f # e
    <3>1. f \notin streaming /\ Inside(f) = {}
      BY <1>1, <1>4, <2>2 DEF PipeInv, LinkInv
    <3> QED BY <1>1, <3>1, <2>2
  <2> QED BY <2>1, <2>2
<1> QED BY <1>2, <1>3, <1>4 DEF LinkInv, SleepInv

LEMMA StexitInner ==
  ASSUME PipeInv, TypesInv', NEW p \in Procs, Stexit(p)
  PROVE  PipeInv' /\ \A q \in Procs : wchan'[q] \in {wchan[q], None}
<1>1. PICK e \in Ends : e = End(p)
  BY StexitFacts DEF PipeInv
<1>2. /\ pc[p] # "user" /\ Return(p) /\ fd' = fd
      /\ count' = [count EXCEPT ![e] = count[e] - 1] /\ count \in [Ends -> Int]
      /\ \/ count[e] - 1 = 0 /\ Stclose(e, 0)
         \/ UNCHANGED <<queue, sflag, streaming, linked, wchan>>
  BY <1>1, StexitFacts DEF PipeInv, TypesInv, EndTypes
<1>3. /\ Inside(e)' = Inside(e) \ {p} /\ p \in Inside(e)
      /\ \A f \in Ends : f # e => Inside(f)' = Inside(f)
      /\ Cardinality(Inside(e)') = Cardinality(Inside(e)) - 1
  BY <1>1, <1>2, LeaveInside DEF PipeInv
<1>4. \A f \in Ends : Cardinality(Inside(f)) \in Nat /\ IsFiniteSet(Inside(f))
  BY InsideFinite
<1>5. CountInv'
  <2>1. \A f \in Ends : /\ Cardinality(Inside(f)) <= count[f] /\ count[f] \in Int
                        /\ count'[f] = IF f = e THEN count[e] - 1 ELSE count[f]
    BY <1>2 DEF PipeInv, CountInv
  <2>2. \A f \in Ends : f # e => Cardinality(Inside(f)') = Cardinality(Inside(f))
    BY <1>3, Zenon
  <2>3. Cardinality(Inside(e)') = Cardinality(Inside(e)) - 1
    BY <1>3
  <2>4. \A f \in Ends : Cardinality(Inside(f)') <= count'[f]
    BY <1>4, <2>1, <2>2, <2>3
  <2> QED BY <2>4 DEF CountInv
<1>6. OpenInv'
  BY <1>2, ReturnOpen DEF PipeInv
<1>7. \A f \in Ends : Inside(f)' \subseteq Inside(f)
  BY <1>3
<1>8. CASE count[e] - 1 = 0 /\ Stclose(e, 0)
  <2>1. IsFiniteSet(Inside(e)') /\ Cardinality(Inside(e)') = 0
    <3>1. IsFiniteSet(Inside(e)')
      BY <1>3, <1>4, FS_RemoveElement
    <3>2. Cardinality(Inside(e)') \in Nat
      BY <3>1, FS_CardinalityType
    <3>3. Cardinality(Inside(e)') <= count'[e] /\ count'[e] = 0
      BY <1>2, <1>3, <1>4, <1>8 DEF PipeInv, CountInv
    <3> QED BY <3>1, <3>2, <3>3
  <2>2. Inside(e)' = {}
    BY <2>1, FS_EmptySet
  <2>3. LinkInv' /\ SleepInv'
    BY <1>7, <1>8, <2>2, GoneKeeps
  <2>4. \A q \in Procs : wchan'[q] \in {wchan[q], None}
    BY <1>8, StcloseFacts DEF PipeInv
  <2> QED BY <1>5, <1>6, <2>3, <2>4 DEF PipeInv
<1>9. CASE UNCHANGED <<queue, sflag, streaming, linked, wchan>>
  <2>1. LinkInv'
    BY <1>7, <1>9 DEF PipeInv, LinkInv
  <2>2. SleepInv'
    BY <1>9, QuietSleep
  <2> QED BY <1>5, <1>6, <1>9, <2>1, <2>2 DEF PipeInv
<1> QED BY <1>2, <1>8, <1>9

LEMMA StenterInner ==
  ASSUME PipeInv, TypesInv', NEW p \in Procs, NEW c \in CallsOf[p], Stenter(p, c)
  PROVE  PipeInv'
<1>1. c.kind \in Kinds /\ c.end \in Ends /\ c.kind # "close"
  BY CallFacts DEF Stenter
<1>2. /\ pc[p] = "user" /\ p \in fd[c.end] /\ c.end \in streaming
      /\ count' = [count EXCEPT ![c.end] = @ + 1] /\ count \in [Ends -> Int]
      /\ pc' = [pc EXCEPT ![p] = Entry(c.kind)] /\ call' = [call EXCEPT ![p] = c]
      /\ UNCHANGED <<sflag, streaming, linked, fd, wchan>>
      /\ pc \in [Procs -> PCs] /\ call \in [Procs -> Call \cup {None}]
  BY DEF Stenter, Goto, PipeInv, TypesInv, EndTypes, ProcTypes
<1>3. Entry(c.kind) # "user"
  BY <1>1 DEF Entry, Kinds
<1>4. pc'[p] # "user" /\ call'[p] = c /\ \A q \in Procs : q # p => pc'[q] = pc[q] /\ call'[q] = call[q]
  BY <1>2, <1>3
<1> DEFINE e == c.end
<1>5. Inside(e)' = Inside(e) \cup {p} /\ p \notin Inside(e) /\ \A f \in Ends : f # e => Inside(f)' = Inside(f)
  BY <1>1, <1>2, <1>4 DEF Inside, End
<1>6. e \in Ends
  BY <1>1
<1>7. count' = [count EXCEPT ![e] = count[e] + 1] /\ e \in streaming
  BY <1>2
<1> HIDE DEF e
<1>8. CountInv'
  <2>1. \A f \in Ends : Cardinality(Inside(f)) \in Nat /\ IsFiniteSet(Inside(f))
    BY InsideFinite
  <2>2. Cardinality(Inside(e)') = Cardinality(Inside(e)) + 1
    BY <1>5, <1>6, <2>1, FS_AddElement
  <2>3. \A f \in Ends : /\ Cardinality(Inside(f)) <= count[f] /\ count[f] \in Int
                        /\ count'[f] = IF f = e THEN count[e] + 1 ELSE count[f]
    BY <1>2, <1>6, <1>7 DEF PipeInv, CountInv
  <2>4. \A f \in Ends : f # e => Cardinality(Inside(f)') = Cardinality(Inside(f))
    BY <1>5, Zenon
  <2>5. \A f \in Ends : Cardinality(Inside(f)') <= count'[f]
    BY <2>1, <2>2, <2>3, <2>4
  <2> QED BY <2>5 DEF CountInv
<1>9. OpenInv'
  BY <1>2, <1>4 DEF PipeInv, OpenInv, End
<1>10. LinkInv'
  BY <1>2, <1>5, <1>6, <1>7 DEF PipeInv, LinkInv
<1>11. SleepInv'
  BY <1>2, QuietSleep
<1> QED BY <1>8, <1>9, <1>10, <1>11 DEF PipeInv

LEMMA CloseInner ==
  ASSUME PipeInv, TypesInv', NEW p \in Procs, NEW c \in CallsOf[p], Close(p, c)
  PROVE  PipeInv' /\ \A q \in Procs : wchan'[q] \in {wchan[q], None}
<1>1. PICK e \in Ends : e = c.end
  BY CallFacts
<1>2. /\ pc[p] = "user" /\ fd' = [fd EXCEPT ![e] = @ \ {p}] /\ fd \in [Ends -> SUBSET Procs]
      /\ count[e] \in Int /\ pc' = pc /\ call' = call
      /\ \/ fd[e] = {p} /\ Stclose(e, count[e])
         \/ UNCHANGED <<queue, sflag, count, streaming, linked, wchan>>
  BY <1>1 DEF Close, PipeInv, TypesInv, EndTypes
<1>3. \A f \in Ends : Inside(f)' = Inside(f)
  BY <1>2 DEF Inside, End
<1>4. OpenInv'
  <2>1. \A q \in Procs : pc[q] # "user" => q # p /\ q \in fd[End(q)]
    BY <1>2 DEF PipeInv, OpenInv
  <2>2. \A q \in Procs : q # p => \A f \in Ends : q \in fd[f] => q \in fd'[f]
    BY <1>2
  <2>3. \A q \in Procs : pc[q] # "user" => End(q) \in Ends
    BY CallOfProc DEF PipeInv
  <2> QED BY <1>2, <2>1, <2>2, <2>3 DEF OpenInv, End
<1>5. CASE fd[e] = {p} /\ Stclose(e, count[e])
  <2>1. Inside(e) = {}
    BY <1>2, <1>5 DEF PipeInv, OpenInv, Inside
  <2>2. count' = [count EXCEPT ![e] = count[e]] /\ \A q \in Procs : wchan'[q] \in {wchan[q], None}
    <3> DEFINE n == count[e]
    <3>1. n \in Int /\ Stclose(e, n) /\ TypesInv
      BY <1>2, <1>5 DEF PipeInv
    <3> HIDE DEF n
    <3>2. count' = [count EXCEPT ![e] = n] /\ \A q \in Procs : wchan'[q] \in {wchan[q], None}
      BY <3>1, StcloseFacts
    <3> QED BY <3>2 DEF n
  <2>3. CountInv'
    BY <1>3, <2>2 DEF PipeInv, CountInv, TypesInv, EndTypes
  <2>4. CASE count[e] = 0
    <3>1. Stclose(e, 0) /\ Inside(e)' = {} /\ \A f \in Ends : Inside(f)' \subseteq Inside(f)
      BY <1>3, <1>5, <2>1, <2>4
    <3>2. LinkInv' /\ SleepInv'
      BY <3>1, GoneKeeps
    <3> QED BY <1>4, <2>2, <2>3, <3>2 DEF PipeInv
  <2>5. CASE count[e] # 0
    <3>1. UNCHANGED <<queue, sflag, streaming, linked, wchan>>
      BY <1>5, <2>5 DEF Stclose
    <3>2. LinkInv'
      BY <1>3, <3>1 DEF PipeInv, LinkInv
    <3>3. SleepInv'
      BY <3>1, QuietSleep
    <3> QED BY <1>4, <2>2, <2>3, <3>2, <3>3 DEF PipeInv
  <2> QED BY <2>4, <2>5
<1>6. CASE UNCHANGED <<queue, sflag, count, streaming, linked, wchan>>
  <2>1. LinkInv' /\ CountInv'
    BY <1>3, <1>6 DEF PipeInv, LinkInv, CountInv
  <2>2. SleepInv'
    BY <1>6, QuietSleep
  <2> QED BY <1>4, <1>6, <2>1, <2>2 DEF PipeInv
<1> QED BY <1>2, <1>5, <1>6

(* Every step keeps the invariant.                                         *)
LEMMA PipeStep ==
  ASSUME PipeInv, [Next]_vars
  PROVE  PipeInv'
<1>1. TypesInv'
  BY TypesStep DEF PipeInv
<1>2. TypesInv
  BY DEF PipeInv
<1>3. ASSUME NEW p \in Procs, Proceed(p)
      PROVE  PipeInv'
  <2>1. CASE Stread(p)
    BY <1>1, <2>1, ReadInner, ReadSleepInner, ReadPassInner DEF Stread
  <2>2. CASE Stwrite(p)
    <3>1. CASE WriteSleep(p)
      BY <1>1, <3>1, WriteSleepInner
    <3>2. CASE (WriteBusy(p) /\ ~wrote[p]) \/ WriteHungup(p) \/ WriteAlloc(p) \/ WriteFault(p)
      BY <1>1, <1>2, <3>2, Stills, StillInner
    <3>3. CASE (WriteBusy(p) /\ wrote[p]) \/ WriteDelim(p)
      BY <1>1, <1>2, <3>3, Puts, PutInner
    <3>4. CASE WritePut(p)
      <4>1. \E b \in Blocks : PutStep(p, b) /\ pc[p] # "user"
        BY <1>2, <3>4, Puts
      <4> QED BY <1>1, <4>1, PutInner
    <3> QED BY <2>2, <3>1, <3>2, <3>3, <3>4 DEF Stwrite
  <2>3. CASE Stioctl(p)
    <3>1. CASE IoctlError(p) \/ Flush(p)
      BY <1>1, <1>2, <3>1, Stills, StillInner
    <3>2. CASE SendFile(p)
      BY <1>1, <1>2, <3>2, Puts, PutInner
    <3> QED BY <1>1, <2>3, <3>1, <3>2, WnblkInner, ReadInner DEF Stioctl
  <2>4. CASE Stexit(p)
    BY <1>1, <2>4, StexitInner
  <2> QED BY <1>3, <2>1, <2>2, <2>3, <2>4 DEF Proceed
<1>4. ASSUME NEW p \in Procs, Enter(p)
      PROVE  PipeInv'
  BY <1>1, <1>4, StenterInner, CloseInner DEF Enter
<1>5. ASSUME NEW p \in Procs, Signal(p)
      PROVE  PipeInv'
  BY <1>1, <1>2, <1>5, Stills, StillInner
<1>6. ASSUME NEW e \in Ends, Stwsrv(e)
      PROVE  PipeInv'
  BY <1>1, <1>6, StwsrvInner
<1>7. CASE UNCHANGED vars
  <2>1. \A e \in Ends : Inside(e)' = Inside(e)
    BY <1>7 DEF vars, endVars, procVars, Inside, End
  <2> QED BY <1>1, <1>7, <2>1 DEF vars, endVars, procVars, PipeInv, OpenInv, CountInv, LinkInv,
                              SleepInv, End
<1> QED BY <1>3, <1>4, <1>5, <1>6, <1>7 DEF Next

(* The invariant of the pipe: types and places, who has an end open while  *)
(* in a call, how many are inside at least, what a sealed pipe has lost,   *)
(* and who is asleep where, for any calls, signals and failing copies.     *)
THEOREM PipeInvariant == Spec => []PipeInv
<1>1. PipeInv /\ [Next]_vars => PipeInv'
  BY PipeStep
<1> QED BY <1>1, PipeInit, PTL DEF Spec

(***************************************************************************)
(* No wakeup is lost                                                       *)
(***************************************************************************)
(* Nobody flushes; no files are passed; an end has one reader.  flushq     *)
(* clears QWANTW also when the files that it puts back fill the queue, and *)
(* a reader puts blocks back without a wakeup: there wakeups are lost.     *)
NoFlush   == \A p \in Procs : \A c \in CallsOf[p] : c.kind # "flush"
NoPassing == \A p \in Procs : \A c \in CallsOf[p] : c.kind # "sndfd"
Reads     == {"read", "rcvfd"}
OneReader ==
  \A p, q \in Procs : \A c \in CallsOf[p], d \in CallsOf[q] :
    c.kind \in Reads /\ d.kind \in Reads /\ c.end = d.end => p = q

(* What a step does to the queues: a full queue has a writer waiting, and  *)
(* the flag that says so goes off only when the writer is enabled, or when *)
(* the pipe is cut.                                                        *)
QueuesKept ==
  \A f \in Ends :
    /\ FullIsWanted(queue[f]) => FullIsWanted(queue'[f])
    /\ linked' /\ "QWANTW" \in queue[f].flag => "QWANTW" \in queue'[f].flag \/ Peer(f) \in enabled'
    /\ NoPassing /\ NoPass(queue[f].blocks) => NoPass(queue'[f].blocks)

(* Blocks none of which passes a file stay such.                           *)
LEMMA NoPassRest ==
  ASSUME NEW q \in QueueType, NoPass(q.blocks)
  PROVE  NoPass(Rest(q)) /\ (q.blocks # <<>> => Head(q.blocks).type # "pass")
<1>1. /\ Rest(q) \in Seq(Blocks)
      /\ q.blocks = <<>> => Rest(q) = <<>>
      /\ q.blocks # <<>> => /\ Len(Rest(q)) = Len(q.blocks) - 1
                            /\ \A i \in 1 .. Len(Rest(q)) : Rest(q)[i] = q.blocks[i + 1]
  BY QueueAssumption, RestOfQueue
<1>2. q.blocks \in Seq(Blocks) /\ Len(q.blocks) \in Nat
  BY LenProperties DEF QueueType
<1>3. CASE q.blocks = <<>>
  BY <1>1, <1>3 DEF NoPass
<1>4. CASE q.blocks # <<>>
  <2>1. Len(q.blocks) # 0 /\ Head(q.blocks) = q.blocks[1]
    BY <1>2, <1>4, EmptySeq, HeadTailProperties
  <2>2. Head(q.blocks).type # "pass"
    BY <1>2, <2>1 DEF NoPass
  <2>3. \A i \in 1 .. Len(Rest(q)) : i + 1 \in 1 .. Len(q.blocks)
    BY <1>1, <1>2, <1>4
  <2> QED BY <1>1, <1>4, <2>2, <2>3 DEF NoPass
<1> QED BY <1>3, <1>4

LEMMA NoPassPutq ==
  ASSUME NEW q, QueueOK(q), NEW b \in Blocks, NoPass(q.blocks), b.type # "pass"
  PROVE  NoPass(Putq(q, b).blocks)
<1>1. q.blocks \in Seq(Blocks)
  BY DEF QueueOK, QueueType
<1>2. CASE Merges(q, b)
  <2> DEFINE s == Front(q.blocks)
             l == Last(q.blocks)
             x == Merged(l, b)
             t == Append(s, x)
  <2>1. /\ b.type = "data" /\ q.blocks # <<>> /\ l.type = "data" /\ Len(b.bytes) <= l.room
    BY <1>2 DEF Merges
  <2>2. /\ s \in Seq(Blocks) /\ l \in Blocks /\ Len(s) = Len(q.blocks) - 1
        /\ \A i \in 1 .. Len(q.blocks) - 1 : s[i] = q.blocks[i]
        /\ Len(q.blocks) \in Nat \ {0}
    BY <1>1, <2>1, FrontAndLast
  <2>3. x \in DataBlock
    BY <2>1, <2>2, QueueAssumption, MergedIsBlock
  <2>4. x \in Blocks /\ x.type = "data"
    BY <2>3 DEF Blocks, DataBlock
  <2> HIDE DEF x, s, l
  <2>5. /\ t \in Seq(Blocks) /\ Len(t) = Len(s) + 1 /\ \A i \in 1 .. Len(s) : t[i] = s[i]
        /\ t[Len(s) + 1] = x
    BY <2>2, <2>4, AppendProperties
  <2>6. Putq(q, b).blocks = t
    BY <1>2, QueueAssumption, PutqKeeps DEF t, s, l, x
  <2> HIDE DEF t
  <2>7. NoPass(t)
    BY <2>2, <2>4, <2>5 DEF NoPass
  <2> QED BY <2>6, <2>7
<1>3. CASE ~Merges(q, b)
  <2>1. Putq(q, b).blocks = Append(q.blocks, b)
    BY <1>3, QueueAssumption, PutqKeeps
  <2>2. /\ Len(Append(q.blocks, b)) = Len(q.blocks) + 1 /\ Len(q.blocks) \in Nat
        /\ \A i \in 1 .. Len(q.blocks) : Append(q.blocks, b)[i] = q.blocks[i]
        /\ Append(q.blocks, b)[Len(q.blocks) + 1] = b
    BY <1>1, AppendProperties, LenProperties
  <2> QED BY <2>1, <2>2 DEF NoPass
<1> QED BY <1>2, <1>3

LEMMA NoPassPutbq ==
  ASSUME NEW q, QueueOK(q), NEW b \in Blocks, NoPass(q.blocks), b.type # "pass"
  PROVE  NoPass(Putbq(q, b).blocks)
<1> DEFINE s == Putbq(q, b).blocks
<1>1. /\ Len(s) = Len(q.blocks) + 1 /\ s[1] = b
      /\ \A i \in 1 .. Len(q.blocks) : s[i + 1] = q.blocks[i]
  BY QueueAssumption, PutbqKeeps
<1>2. Len(q.blocks) \in Nat
  BY LenProperties DEF QueueOK, QueueType
<1> HIDE DEF s
<1>3. ASSUME NEW i \in 1 .. Len(s)
      PROVE  s[i].type # "pass"
  <2>1. i = 1 \/ (i - 1 \in 1 .. Len(q.blocks) /\ (i - 1) + 1 = i)
    BY <1>1, <1>2
  <2> QED BY <1>1, <2>1 DEF NoPass
<1> QED BY <1>3 DEF NoPass, s

(* getq and then, for a reader that puts it back, putbq.                   *)
LEMMA GetqQueues ==
  ASSUME TypesInv, NEW e \in Ends, NEW q, q = queue[e], NEW r, queue' = [queue EXCEPT ![e] = r],
         Enable(e, GetqEnables(q)), linked' = linked,
         \/ r = Getq(q)
         \/ q.blocks # <<>> /\ r = Putbq(Getq(q), Head(q.blocks))
  PROVE  QueuesKept /\ enabled \subseteq enabled'
<1>1. QueueOK(q) /\ q \in QueueType
  BY DEF TypesInv, QueuesOK, QueueOK
<1>2. /\ QueueOK(Getq(q)) /\ Getq(q).blocks = Rest(q)
      /\ FullIsWanted(q) => FullIsWanted(Getq(q))
      /\ "QWANTW" \in q.flag => "QWANTW" \in Getq(q).flag \/ GetqEnables(q)
  BY <1>1, QueueAssumption, GetqKeeps
<1>3. q.blocks # <<>> => LET s == Putbq(Getq(q), Head(q.blocks)) IN
        /\ FullIsWanted(Getq(q)) => FullIsWanted(s)
        /\ Getq(q).flag \subseteq s.flag
  BY <1>1, <1>2, QueueAssumption, RestOfQueue, PutbqKeeps
<1>4. NoPass(q.blocks) => NoPass(Getq(q).blocks) /\ (q.blocks # <<>> => Head(q.blocks).type # "pass")
  BY <1>1, <1>2, NoPassRest
<1>5. NoPass(q.blocks) => NoPass(r.blocks)
  BY <1>1, <1>2, <1>4, QueueAssumption, RestOfQueue, NoPassPutbq
<1>6. /\ FullIsWanted(q) => FullIsWanted(r)
      /\ "QWANTW" \in q.flag => "QWANTW" \in r.flag \/ GetqEnables(q)
  BY <1>2, <1>3
<1>7. queue'[e] = r /\ \A f \in Ends : f # e => queue'[f] = queue[f]
  BY DEF TypesInv, EndTypes
<1>8. /\ enabled' \subseteq Ends
      /\ enabled' = IF GetqEnables(q) /\ linked THEN enabled \cup {Peer(e)} ELSE enabled
  BY EnableFacts
<1> QED BY <1>5, <1>6, <1>7, <1>8 DEF QueuesKept

LEMMA SameQueues ==
  ASSUME queue' = queue
  PROVE  QueuesKept
BY DEF QueuesKept

LEMMA StrputQueues ==
  ASSUME TypesInv, NEW e \in Ends, NEW b \in Blocks, Strput(e, b), linked' = linked, enabled' = enabled,
         NoPassing => b.type # "pass"
  PROVE  QueuesKept
<1>1. /\ queue' = IF linked THEN [queue EXCEPT ![e] = Putq(@, b)] ELSE queue
      /\ queue \in [Ends -> QueueType] /\ QueueOK(queue[e])
  BY StrputFacts DEF TypesInv, EndTypes, QueuesOK
<1>2. /\ queue[e].flag \subseteq Putq(queue[e], b).flag
      /\ FullIsWanted(queue[e]) => FullIsWanted(Putq(queue[e], b))
  BY <1>1, QueueAssumption, PutqKeeps
<1>3. NoPassing /\ NoPass(queue[e].blocks) => NoPass(Putq(queue[e], b).blocks)
  BY <1>1, NoPassPutq
<1>4. /\ \A f \in Ends : f # e => queue'[f] = queue[f]
      /\ queue'[e] = IF linked THEN Putq(queue[e], b) ELSE queue[e]
  BY <1>1
<1>5. CASE linked
  BY <1>2, <1>3, <1>4, <1>5 DEF QueuesKept
<1>6. CASE ~linked
  <2>1. queue' = queue
    BY <1>1, <1>6
  <2> QED BY <2>1, SameQueues
<1> QED BY <1>5, <1>6

LEMMA CopiedQueues ==
  ASSUME TypesInv, NEW p \in Procs, ReadCopied(p)
  PROVE  QueuesKept
<1> DEFINE b == hand[p]
           n == Wanted(p)
           r == Remainder(b, n)
<1>1. /\ pc[p] = "iomove" /\ linked' = linked /\ enabled' = enabled
      /\ queue' = IF r.bytes = <<>> THEN queue ELSE [queue EXCEPT ![End(p)] = Putbq(@, r)]
  BY DEF ReadCopied, Remainder
<1>2. b \in DataBlock /\ ucount[p] \in Nat /\ End(p) \in Ends
  BY <1>1, CallOfProc DEF TypesInv, PlaceOK, ProcTypes
<1>3. n \in 0 .. Len(b.bytes)
  <2>1. Len(b.bytes) \in Nat
    BY <1>2, LenProperties DEF DataBlock
  <2>2. n \in {ucount[p], Len(b.bytes)} /\ n <= Len(b.bytes)
    BY <1>2, <2>1, MinOfTwo DEF Wanted
  <2> HIDE DEF n
  <2> QED BY <1>2, <2>1, <2>2
<1> HIDE DEF n, b
<1>4. r.bytes # <<>> => r \in DataBlock
  BY <1>2, <1>3, QueueAssumption, RestOfBlock
<1> HIDE DEF r
<1>5. CASE r.bytes # <<>>
  <2>1. r \in Blocks /\ r.type # "pass" /\ QueueOK(queue[End(p)]) /\ queue \in [Ends -> QueueType]
    BY <1>2, <1>4, <1>5 DEF Blocks, DataBlock, TypesInv, EndTypes, QueuesOK
  <2>2. /\ queue[End(p)].flag \subseteq Putbq(queue[End(p)], r).flag
        /\ FullIsWanted(queue[End(p)]) => FullIsWanted(Putbq(queue[End(p)], r))
    BY <2>1, QueueAssumption, PutbqKeeps
  <2>3. NoPass(queue[End(p)].blocks) => NoPass(Putbq(queue[End(p)], r).blocks)
    BY <2>1, NoPassPutbq
  <2>4. PICK e \in Ends : e = End(p)
    BY <1>2
  <2>5. queue' = [queue EXCEPT ![e] = Putbq(@, r)]
    BY <1>1, <1>5, <2>4
  <2>6. (\A f \in Ends : f # e => queue'[f] = queue[f]) /\ queue'[e] = Putbq(queue[e], r)
    BY <2>1, <2>5
  <2> QED BY <2>2, <2>3, <2>4, <2>6 DEF QueuesKept
<1> QED BY <1>1, <1>5 DEF QueuesKept

LEMMA FlushQueues ==
  ASSUME TypesInv, NEW p \in Procs, Flush(p), \A f \in Ends : NoPass(queue[f].blocks)
  PROVE  QueuesKept
<1>1. /\ linked' = linked
      /\ queue' = [e \in Ends |-> IF e = End(p) \/ linked THEN Flushq(queue[e]) ELSE queue[e]]
      /\ enabled' = IF linked THEN {Peer(e) : e \in {f \in Ends : FlushqEnables(queue[f])}} ELSE {}
  BY DEF Flush
<1>2. ASSUME NEW f \in Ends
      PROVE  /\ Flushq(queue[f]).blocks = <<>> /\ Flushq(queue[f]).flag = {}
             /\ FlushqEnables(queue[f]) <=> "QWANTW" \in queue[f].flag
  BY QueueAssumption, FlushqKeeps DEF TypesInv, QueuesOK
<1>3. \A f \in Ends : NoPass(Flushq(queue[f]).blocks) /\ FullIsWanted(Flushq(queue[f]))
  BY <1>2 DEF NoPass, FullIsWanted
<1> QED BY <1>1, <1>2, <1>3 DEF QueuesKept

LEMMA StcloseQueues ==
  ASSUME TypesInv, NEW e \in Ends, NEW n \in Int, Stclose(e, n), enabled' = enabled
  PROVE  QueuesKept
<1>1. /\ queue' = IF n = 0 THEN [queue EXCEPT ![e] = Empty] ELSE queue
      /\ linked' = (linked /\ n # 0)
  BY StcloseFacts
<1>2. NoPass(Empty.blocks) /\ FullIsWanted(Empty)
  BY DEF NoPass, FullIsWanted, Empty
<1>3. \A f \in Ends : queue'[f] = queue[f] \/ (queue'[f] = Empty /\ ~linked')
  BY <1>1 DEF TypesInv, EndTypes
<1> QED BY <1>2, <1>3 DEF QueuesKept

(* What keeps the wakeups: every full queue has a writer waiting, and a    *)
(* writer that sleeps is waiting, or about to be woken.                    *)
WantInv == \A f \in Ends : FullIsWanted(queue[f])
PassInv == NoPassing => \A f \in Ends : NoPass(queue[f].blocks)
WakeInv ==
  \A p \in Procs, e \in Ends :
    wchan[p] = Wr(e) => e \in enabled \/ "QWANTW" \in queue[Peer(e)].flag

LostNone == PassInv /\ (NoFlush \/ NoPassing => WantInv /\ WakeInv)

(* Steps that keep the queues, and after which no new process sleeps for   *)
(* room.                                                                   *)
LEMMA KeptWakes ==
  ASSUME LostNone, SleepInv', QueuesKept, enabled \subseteq enabled',
         \A q \in Procs, e \in Ends : wchan'[q] = Wr(e) => wchan[q] = Wr(e)
  PROVE  LostNone'
<1>1. PassInv'
  BY DEF LostNone, PassInv, QueuesKept
<1>2. WantInv => WantInv'
  BY DEF WantInv, QueuesKept
<1>3. ASSUME WakeInv, NEW q \in Procs, NEW e \in Ends, wchan'[q] = Wr(e)
      PROVE  e \in enabled' \/ "QWANTW" \in queue'[Peer(e)].flag
  <2>1. Peer(e) \in Ends /\ Peer(Peer(e)) = e
    BY PeerFacts
  <2>2. linked' /\ (e \in enabled \/ "QWANTW" \in queue[Peer(e)].flag)
    BY <1>3 DEF SleepInv, WakeInv
  <2> QED BY <2>1, <2>2 DEF QueuesKept
<1>4. WakeInv => WakeInv'
  BY <1>3 DEF WakeInv
<1> QED BY <1>1, <1>2, <1>4 DEF LostNone

LEMMA LostNoneInit ==
  ASSUME Init
  PROVE  LostNone
<1>1. \A f \in Ends : queue[f] = Empty
  BY DEF Init
<1>2. NoPass(Empty.blocks) /\ FullIsWanted(Empty)
  BY DEF NoPass, FullIsWanted, Empty
<1>3. WakeInv
  BY ChanFacts DEF Init, WakeInv
<1> QED BY <1>1, <1>2, <1>3 DEF LostNone, PassInv, WantInv

(* A step after which at most the same processes sleep.                    *)
LEMMA SameSleepers ==
  ASSUME \A q \in Procs : wchan'[q] \in {wchan[q], None}
  PROVE  \A q \in Procs, e \in Ends : wchan'[q] = Wr(e) => wchan[q] = Wr(e)
BY ChanFacts

LEMMA LostNoneStep ==
  ASSUME PipeInv, LostNone, [Next]_vars
  PROVE  LostNone'
<1>1. PipeInv' /\ TypesInv /\ SleepInv'
  BY PipeStep DEF PipeInv
<1>2. ASSUME NEW p \in Procs, \/ ReadEof(p) \/ ReadData(p) \/ ReadDelim(p) \/ ReadPass(p)
                              \/ ReceiveFile(p) \/ ReadSleep(p)
      PROVE  LostNone'
  <2>1. PICK q : q = queue[End(p)]
    OBVIOUS
  <2>2. /\ \E r : /\ queue' = [queue EXCEPT ![End(p)] = r]
                  /\ \/ r = Getq(q)
                     \/ q.blocks # <<>> /\ r = Putbq(Getq(q), Head(q.blocks))
        /\ Enable(End(p), GetqEnables(q)) /\ linked' = linked /\ pc[p] # "user"
        /\ wchan' = wchan \/ wchan' = [wchan EXCEPT ![p] = Rd(End(p))]
    BY <1>2, <2>1 DEF ReadEof, ReadData, ReadDelim, ReadPass, ReceiveFile, ReadSleep
  <2>3. End(p) \in Ends /\ wchan \in [Procs -> Chans \cup {None}]
    BY <1>1, <2>2, CallOfProc DEF TypesInv, ProcTypes
  <2>4. QueuesKept /\ enabled \subseteq enabled'
    BY <1>1, <2>1, <2>2, <2>3, GetqQueues
  <2>5. \A s \in Procs, e \in Ends : wchan'[s] = Wr(e) => wchan[s] = Wr(e)
    BY <2>2, <2>3, ChanFacts
  <2> QED BY <1>1, <2>4, <2>5, KeptWakes
<1>3. ASSUME NEW p \in Procs, ReadCopied(p)
      PROVE  LostNone'
  BY <1>1, <1>3, CopiedQueues, KeptWakes DEF ReadCopied
<1>4. ASSUME NEW p \in Procs, NEW b \in Blocks, PutStep(p, b), NoPassing => b.type # "pass", pc[p] # "user"
      PROVE  LostNone'
  <2>1. Peer(End(p)) \in Ends
    BY <1>1, <1>4, CallOfProc, PeerFacts
  <2>2. QueuesKept /\ enabled' = enabled
    BY <1>1, <1>4, <2>1, StrputQueues DEF PutStep
  <2>3. \A q \in Procs : wchan'[q] \in {wchan[q], None}
    BY <1>1, <1>4, <2>1, StrputFacts DEF PutStep
  <2> QED BY <1>1, <2>2, <2>3, SameSleepers, KeptWakes
<1>5. ASSUME NEW p \in Procs, WriteDelim(p) \/ (WriteBusy(p) /\ wrote[p]) \/ WritePut(p) \/ SendFile(p)
      PROVE  LostNone'
  <2>1. CASE WriteDelim(p) \/ (WriteBusy(p) /\ wrote[p])
    <3>1. Delim \in Blocks /\ PutStep(p, Delim) /\ pc[p] # "user" /\ Delim.type # "pass"
      BY <1>1, <2>1, Puts DEF Delim
    <3> QED BY <1>4, <3>1
  <2>2. CASE WritePut(p)
    <3>1. \E b \in Blocks : PutStep(p, b) /\ b.type = "data" /\ pc[p] # "user"
      BY <1>1, <2>2, Puts
    <3> QED BY <1>4, <3>1
  <2>3. CASE SendFile(p)
    <3>1. Pass \in Blocks /\ PutStep(p, Pass) /\ pc[p] # "user"
      BY <1>1, <2>3, Puts
    <3>2. call[p] \in CallsOf[p] /\ call[p].kind = "sndfd"
      BY <1>1, <2>3, <3>1, CallOfProc DEF SendFile
    <3>3. ~NoPassing
      BY <3>2 DEF NoPassing
    <3> QED BY <1>4, <3>1, <3>3
  <2> QED BY <1>5, <2>1, <2>2, <2>3
<1>6. ASSUME NEW p \in Procs, \/ WriteHungup(p) \/ WriteAlloc(p) \/ WriteFault(p) \/ IoctlError(p)
                              \/ (WriteBusy(p) /\ ~wrote[p]) \/ Signal(p) \/ Wnblk(p)
      PROVE  LostNone'
  <2>1. queue' = queue /\ enabled' = enabled
    BY <1>6 DEF WriteHungup, WriteAlloc, WriteFault, IoctlError, WriteBusy, Signal, Wnblk, endVars
  <2>2. \A q \in Procs : wchan'[q] \in {wchan[q], None}
    BY <1>1, <1>6, Stills DEF StillStep, Wnblk
  <2>3. QueuesKept
    BY <2>1, SameQueues
  <2> QED BY <1>1, <2>1, <2>2, <2>3, SameSleepers, KeptWakes
<1>7. ASSUME NEW p \in Procs, WriteSleep(p)
      PROVE  LostNone'
  <2>1. /\ queue' = queue /\ enabled' = enabled /\ wchan' = [wchan EXCEPT ![p] = Wr(End(p))]
        /\ "QFULL" \in queue[Peer(End(p))].flag /\ pc[p] # "user"
    BY <1>7 DEF WriteSleep, Full
  <2>2. End(p) \in Ends /\ wchan \in [Procs -> Chans \cup {None}] /\ Peer(End(p)) \in Ends
    BY <1>1, <2>1, CallOfProc, PeerFacts DEF TypesInv, ProcTypes
  <2>3. WantInv => "QWANTW" \in queue[Peer(End(p))].flag
    BY <2>1, <2>2 DEF WantInv, FullIsWanted
  <2>4. WantInv /\ WakeInv => WakeInv'
    BY <2>1, <2>2, <2>3, ChanFacts DEF WakeInv
  <2> QED BY <2>1, <2>4 DEF LostNone, PassInv, WantInv
<1>8. ASSUME NEW p \in Procs, Flush(p)
      PROVE  LostNone'
  <2>1. wchan' = wchan /\ enabled = {} /\ pc[p] # "user" /\ call[p].kind = "flush"
    BY <1>8 DEF Flush, Running
  <2>2. call[p] \in CallsOf[p]
    BY <1>1, <2>1, CallOfProc
  <2>3. ~NoFlush
    BY <2>1, <2>2 DEF NoFlush
  <2>4. CASE NoPassing
    <3>1. QueuesKept
      BY <1>1, <1>8, <2>4, FlushQueues DEF LostNone, PassInv
    <3> QED BY <1>1, <2>1, <3>1, KeptWakes
  <2>5. CASE ~NoPassing
    BY <2>3, <2>5 DEF LostNone, PassInv
  <2> QED BY <2>4, <2>5
<1>9. ASSUME NEW p \in Procs, Stexit(p)
      PROVE  LostNone'
  <2>1. QueuesKept /\ enabled' = enabled
    <3>1. /\ End(p) \in Ends /\ enabled' = enabled
          /\ Stclose(End(p), 0) \/ UNCHANGED <<queue, sflag, streaming, linked, wchan>>
      BY <1>1, <1>9, StexitFacts
    <3>2. CASE Stclose(End(p), 0)
      BY <1>1, <3>1, <3>2, StcloseQueues
    <3>3. CASE UNCHANGED <<queue, sflag, streaming, linked, wchan>>
      <4>1. queue' = queue
        BY <3>3
      <4> QED BY <3>1, <4>1, SameQueues
    <3> QED BY <3>1, <3>2, <3>3
  <2>2. \A q \in Procs : wchan'[q] \in {wchan[q], None}
    BY <1>1, <1>9, StexitInner DEF PipeInv
  <2> QED BY <1>1, <2>1, <2>2, SameSleepers, KeptWakes
<1>10. ASSUME NEW p \in Procs, NEW c \in CallsOf[p], Stenter(p, c)
      PROVE  LostNone'
  BY <1>10 DEF Stenter, LostNone, PassInv, WantInv, WakeInv
<1>11. ASSUME NEW p \in Procs, NEW c \in CallsOf[p], Close(p, c)
      PROVE  LostNone'
  <2>1. QueuesKept /\ enabled' = enabled
    <3>1. /\ c.end \in Ends /\ enabled' = enabled
          /\ Stclose(c.end, count[c.end]) \/ UNCHANGED <<queue, linked>>
      BY <1>11, CallFacts DEF Close
    <3>2. CASE Stclose(c.end, count[c.end])
      <4> DEFINE n == count[c.end]
      <4>1. n \in Int /\ Stclose(c.end, n)
        BY <1>1, <3>1, <3>2 DEF TypesInv, EndTypes
      <4> HIDE DEF n
      <4> QED BY <1>1, <3>1, <4>1, StcloseQueues
    <3>3. CASE UNCHANGED <<queue, linked>>
      <4>1. queue' = queue
        BY <3>3
      <4> QED BY <3>1, <4>1, SameQueues
    <3> QED BY <3>1, <3>2, <3>3
  <2>2. \A q \in Procs : wchan'[q] \in {wchan[q], None}
    BY <1>1, <1>11, CloseInner DEF PipeInv
  <2> QED BY <1>1, <2>1, <2>2, SameSleepers, KeptWakes
<1>12. ASSUME NEW e \in Ends, Stwsrv(e)
      PROVE  LostNone'
  <2>1. queue' = queue /\ enabled' = enabled \ {e}
    BY <1>12 DEF Stwsrv
  <2>2. \A q \in Procs : wchan'[q] = IF wchan[q] = Wr(e) THEN None ELSE wchan[q]
    BY <1>1, <1>12, StwsrvInner DEF PipeInv
  <2>3. WakeInv => WakeInv'
    BY <2>1, <2>2, ChanFacts DEF WakeInv
  <2> QED BY <2>1, <2>3 DEF LostNone, PassInv, WantInv
<1>13. CASE UNCHANGED vars
  BY <1>13 DEF vars, endVars, procVars, LostNone, PassInv, WantInv, WakeInv
<1>14. ASSUME NEW p \in Procs, Proceed(p)
      PROVE  LostNone'
  <2>1. CASE Stread(p)
    BY <1>2, <1>3, <2>1 DEF Stread
  <2>2. CASE Stwrite(p)
    <3>1. WriteBusy(p) => LostNone'
      <4>1. CASE wrote[p]
        BY <1>5, <4>1
      <4>2. CASE ~wrote[p]
        BY <1>6, <4>2
      <4> QED BY <4>1, <4>2
    <3>2. WriteDelim(p) \/ WritePut(p) => LostNone'
      BY <1>5
    <3>3. WriteHungup(p) \/ WriteAlloc(p) \/ WriteFault(p) => LostNone'
      BY <1>6
    <3> QED BY <1>7, <2>2, <3>1, <3>2, <3>3 DEF Stwrite
  <2>3. CASE Stioctl(p)
    BY <1>2, <1>5, <1>6, <1>8, <2>3 DEF Stioctl
  <2> QED BY <1>9, <1>14, <2>1, <2>2, <2>3 DEF Proceed
<1> QED BY <1>6, <1>10, <1>11, <1>12, <1>13, <1>14 DEF Next, Enter

(* No wakeup is lost to a writer, unless files are passed and the stream   *)
(* is flushed.                                                             *)
THEOREM NoWriterLost ==
  ASSUME NoFlush \/ NoPassing
  PROVE  Spec => []WritersWillWake
<1>1. ASSUME PipeInv, LostNone, NoFlush \/ NoPassing
      PROVE  WritersWillWake
  <2>1. SUFFICES ASSUME NEW p \in Procs, NEW e \in Ends, wchan[p] = Wr(e)
                 PROVE  LET f == Peer(e) IN
                        /\ "WSLEEP" \in sflag[e] /\ "HUNGUP" \notin sflag[e] /\ linked
                        /\ e \in enabled \/ ("QWANTW" \in queue[f].flag /\ Count(queue[f].blocks) > LoLimit)
    BY DEF WritersWillWake
  <2>2. Peer(e) \in Ends
    BY PeerFacts
  <2>3. "WSLEEP" \in sflag[e] /\ linked
    BY <1>1, <2>1 DEF PipeInv, SleepInv
  <2>4. e \in streaming
    BY <1>1, <2>3 DEF PipeInv, LinkInv
  <2>5. "HUNGUP" \notin sflag[e]
    BY <1>1, <2>3, <2>4 DEF PipeInv, LinkInv
  <2>6. e \in enabled \/ "QWANTW" \in queue[Peer(e)].flag
    BY <1>1, <2>1 DEF LostNone, WakeInv
  <2>7. "QWANTW" \in queue[Peer(e)].flag => Count(queue[Peer(e)].blocks) > LoLimit
    BY <1>1, <2>2 DEF PipeInv, TypesInv, QueuesOK, QueueOK
  <2> QED BY <2>3, <2>5, <2>6, <2>7
<1>2. ASSUME Init
      PROVE  PipeInv /\ LostNone
  BY <1>2, PipeInit, LostNoneInit
<1>3. ASSUME PipeInv /\ LostNone, [Next]_vars
      PROVE  (PipeInv /\ LostNone)'
  BY <1>3, PipeStep, LostNoneStep
<1>4. PipeInv /\ LostNone => WritersWillWake
  BY <1>1
<1> QED BY <1>2, <1>3, <1>4, PTL DEF Spec

(* No wakeup is lost to the reader of an end: while it sleeps the queue is *)
(* empty.                                                                  *)
ReaderInv == \A p \in Procs, e \in Ends : wchan[p] = Rd(e) => queue[e].blocks = <<>>

LEMMA EmptyStays ==
  ASSUME ReaderInv, \A e \in Ends : queue[e].blocks = <<>> => queue'[e].blocks = <<>>,
         \A q \in Procs : wchan'[q] \in {wchan[q], None}
  PROVE  ReaderInv'
BY ChanFacts DEF ReaderInv

LEMMA StcloseEmpties ==
  ASSUME TypesInv, NEW e \in Ends, NEW n \in Int, Stclose(e, n)
  PROVE  /\ \A f \in Ends : queue[f].blocks = <<>> => queue'[f].blocks = <<>>
         /\ \A q \in Procs : wchan'[q] \in {wchan[q], None}
<1>1. queue' = IF n = 0 THEN [queue EXCEPT ![e] = Empty] ELSE queue
  BY StcloseFacts
<1>2. \A q \in Procs : wchan'[q] \in {wchan[q], None}
  BY StcloseFacts
<1>3. \A f \in Ends : (f = e /\ n = 0 => queue'[f] = Empty) /\ (~(f = e /\ n = 0) => queue'[f] = queue[f])
  BY <1>1 DEF TypesInv, EndTypes
<1> QED BY <1>2, <1>3 DEF Empty

LEMMA ReaderStep ==
  ASSUME PipeInv, ReaderInv, OneReader, [Next]_vars
  PROVE  ReaderInv'
<1>1. TypesInv /\ \A e \in Ends : QueueOK(queue[e]) /\ queue[e] \in QueueType
  BY DEF PipeInv, TypesInv, QueuesOK, QueueOK
<1>2. ASSUME NEW p \in Procs, \/ ReadEof(p) \/ ReadData(p) \/ ReadDelim(p) \/ ReadPass(p)
                              \/ ReceiveFile(p) \/ ReadSleep(p)
      PROVE  ReaderInv'
  <2>1. pc[p] # "user"
    BY <1>2 DEF ReadEof, ReadData, ReadDelim, ReadPass, ReceiveFile, ReadSleep
  <2>2. PICK e \in Ends : e = End(p)
    BY <1>1, <2>1, CallOfProc
  <2>3. \A f \in Ends : f # e => queue'[f] = queue[f]
    BY <1>2, <2>2 DEF ReadEof, ReadData, ReadDelim, ReadPass, ReceiveFile, ReadSleep, PipeInv,
                      TypesInv, EndTypes
  <2>4. queue[e].blocks = <<>> => queue'[e] = Getq(queue[e])
    BY <1>2, <2>2 DEF ReadEof, ReadData, ReadDelim, ReadPass, ReceiveFile, ReadSleep, PipeInv,
                      TypesInv, EndTypes
  <2>5. queue[e].blocks = <<>> => Getq(queue[e]).blocks = <<>>
    BY <1>1, QueueAssumption, GetqKeeps, RestOfQueue
  <2>6. \A f \in Ends : queue[f].blocks = <<>> => queue'[f].blocks = <<>>
    BY <2>3, <2>4, <2>5
  <2>7. CASE ReadSleep(p)
    <3>1. wchan' = [wchan EXCEPT ![p] = Rd(e)] /\ queue[e].blocks = <<>> /\ wchan \in [Procs -> Chans \cup {None}]
      BY <1>1, <2>2, <2>7 DEF ReadSleep, TypesInv, ProcTypes
    <3> QED BY <2>6, <3>1, ChanFacts DEF ReaderInv
  <2>8. CASE ~ReadSleep(p)
    <3>1. wchan' = wchan
      BY <1>2, <2>8 DEF ReadEof, ReadData, ReadDelim, ReadPass, ReceiveFile
    <3> QED BY <2>6, <3>1, EmptyStays
  <2> QED BY <2>7, <2>8
<1>3. ASSUME NEW p \in Procs, ReadCopied(p)
      PROVE  ReaderInv'
  <2>1. /\ pc[p] = "iomove" /\ wchan[p] = None /\ wchan' = wchan
        /\ queue' = queue \/ \E r : queue' = [queue EXCEPT ![End(p)] = r]
    BY <1>3 DEF ReadCopied, Running
  <2>2. PICK e \in Ends : e = End(p)
    BY <1>1, <2>1, CallOfProc
  <2>3. \A f \in Ends : f # e => queue'[f] = queue[f]
    BY <2>1, <2>2 DEF PipeInv, TypesInv, EndTypes
  <2>4. call[p] \in CallsOf[p] /\ call[p].kind = "read" /\ call[p].end = e
    BY <1>1, <2>1, <2>2, CallOfProc DEF TypesInv, PlaceOK, End
  <2>5. ASSUME NEW q \in Procs, wchan[q] = Rd(e)
        PROVE  FALSE
    <3>1. PlaceOK(q) /\ wchan[q] # None
      BY <1>1, <2>5, ChanFacts DEF TypesInv
    <3>2. pc[q] # "user"
      BY <3>1 DEF PlaceOK
    <3>3. End(q) \in Ends /\ call[q] \in CallsOf[q]
      BY <1>1, <3>2, CallOfProc
    <3>4. pc[q] \in {"read", "rcv"} /\ End(q) = e
      BY <2>5, <3>1, <3>3, ChanFacts DEF PlaceOK
    <3>5. call[q].kind \in Reads /\ call[q].end = e
      BY <3>1, <3>4 DEF PlaceOK, Reads, End
    <3>6. p = q
      BY <2>4, <3>3, <3>5 DEF OneReader, Reads
    <3> QED BY <2>1, <3>1, <3>6
  <2> QED BY <2>1, <2>3, <2>5 DEF ReaderInv
<1>4. ASSUME NEW p \in Procs, NEW b \in Blocks, PutStep(p, b), pc[p] # "user"
      PROVE  ReaderInv'
  <2>1. PICK f \in Ends : f = Peer(End(p))
    BY <1>1, <1>4, CallOfProc, PeerFacts
  <2>2. /\ queue' = IF linked THEN [queue EXCEPT ![f] = Putq(@, b)] ELSE queue
        /\ \A q \in Procs : wchan'[q] = IF linked /\ "RSLEEP" \in sflag[f] /\ wchan[q] = Rd(f)
                                         THEN None ELSE wchan[q]
    BY <1>1, <1>4, <2>1, StrputFacts DEF PutStep
  <2>3. \A q \in Procs : linked => wchan'[q] # Rd(f)
    BY <2>2, ChanFacts DEF PipeInv, SleepInv
  <2>4. \A e \in Ends : ~linked \/ e # f => queue'[e] = queue[e]
    BY <2>2 DEF PipeInv, TypesInv, EndTypes
  <2>5. \A q \in Procs, e \in Ends : wchan'[q] = Rd(e) => wchan[q] = Rd(e)
    BY <2>2, ChanFacts
  <2> QED BY <2>3, <2>4, <2>5 DEF ReaderInv
<1>5. ASSUME NEW p \in Procs, WriteDelim(p) \/ (WriteBusy(p) /\ wrote[p]) \/ WritePut(p) \/ SendFile(p)
      PROVE  ReaderInv'
  <2>1. \E b \in Blocks : PutStep(p, b) /\ pc[p] # "user"
    BY <1>1, <1>5, Puts
  <2> QED BY <1>4, <2>1
<1>6. ASSUME NEW p \in Procs, \/ WriteHungup(p) \/ WriteAlloc(p) \/ WriteFault(p) \/ IoctlError(p)
                              \/ (WriteBusy(p) /\ ~wrote[p]) \/ Signal(p) \/ Wnblk(p)
      PROVE  ReaderInv'
  <2>1. queue' = queue
    BY <1>6 DEF WriteHungup, WriteAlloc, WriteFault, IoctlError, WriteBusy, Signal, Wnblk, endVars
  <2>2. \A q \in Procs : wchan'[q] \in {wchan[q], None}
    BY <1>1, <1>6, Stills DEF StillStep, Wnblk
  <2> QED BY <2>1, <2>2, EmptyStays
<1>7. ASSUME NEW p \in Procs, WriteSleep(p)
      PROVE  ReaderInv'
  <2>1. queue' = queue /\ wchan' = [wchan EXCEPT ![p] = Wr(End(p))] /\ pc[p] # "user"
    BY <1>7 DEF WriteSleep
  <2>2. End(p) \in Ends /\ wchan \in [Procs -> Chans \cup {None}]
    BY <1>1, <2>1, CallOfProc DEF TypesInv, ProcTypes
  <2> QED BY <2>1, <2>2, ChanFacts DEF ReaderInv
<1>8. ASSUME NEW p \in Procs, Flush(p)
      PROVE  ReaderInv'
  <2>1. /\ queue' = [e \in Ends |-> IF e = End(p) \/ linked THEN Flushq(queue[e]) ELSE queue[e]]
        /\ wchan' = wchan
    BY <1>8 DEF Flush
  <2>2. ASSUME NEW f \in Ends, queue[f].blocks = <<>>
        PROVE  queue'[f].blocks = <<>>
    <3>1. NoPass(queue[f].blocks)
      BY <2>2 DEF NoPass
    <3>2. Flushq(queue[f]).blocks = <<>>
      BY <1>1, <3>1, QueueAssumption, FlushqKeeps
    <3> QED BY <2>1, <2>2, <3>2
  <2> QED BY <2>1, <2>2, EmptyStays
<1>9. ASSUME NEW p \in Procs, Stexit(p)
      PROVE  ReaderInv'
  <2>1. End(p) \in Ends /\ (Stclose(End(p), 0) \/ UNCHANGED <<queue, sflag, streaming, linked, wchan>>)
    BY <1>1, <1>9, StexitFacts
  <2>2. CASE Stclose(End(p), 0)
    BY <1>1, <2>1, <2>2, StcloseEmpties, EmptyStays
  <2>3. CASE UNCHANGED <<queue, sflag, streaming, linked, wchan>>
    BY <2>3 DEF ReaderInv
  <2> QED BY <2>1, <2>2, <2>3
<1>10. ASSUME NEW p \in Procs, NEW c \in CallsOf[p], Stenter(p, c)
      PROVE  ReaderInv'
  BY <1>10 DEF Stenter, ReaderInv
<1>11. ASSUME NEW p \in Procs, NEW c \in CallsOf[p], Close(p, c)
      PROVE  ReaderInv'
  <2>1. c.end \in Ends /\ (Stclose(c.end, count[c.end]) \/ UNCHANGED <<queue, wchan>>)
    BY <1>11, CallFacts DEF Close
  <2>2. CASE Stclose(c.end, count[c.end])
    <3> DEFINE n == count[c.end]
    <3>1. n \in Int /\ Stclose(c.end, n)
      BY <1>1, <2>1, <2>2 DEF TypesInv, EndTypes
    <3> HIDE DEF n
    <3> QED BY <1>1, <2>1, <3>1, StcloseEmpties, EmptyStays
  <2>3. CASE UNCHANGED <<queue, wchan>>
    BY <2>3 DEF ReaderInv
  <2> QED BY <2>1, <2>2, <2>3
<1>12. ASSUME NEW e \in Ends, Stwsrv(e)
      PROVE  ReaderInv'
  <2>1. queue' = queue
    BY <1>12 DEF Stwsrv
  <2>2. \A q \in Procs : wchan'[q] \in {wchan[q], None}
    BY <1>1, <1>12, WakeupFacts DEF Stwsrv
  <2> QED BY <2>1, <2>2, EmptyStays
<1>13. CASE UNCHANGED vars
  BY <1>13 DEF vars, endVars, procVars, ReaderInv
<1>14. ASSUME NEW p \in Procs, Proceed(p)
      PROVE  ReaderInv'
  <2>1. CASE Stread(p)
    BY <1>2, <1>3, <2>1 DEF Stread
  <2>2. CASE Stwrite(p)
    <3>1. WriteBusy(p) => ReaderInv'
      <4>1. CASE wrote[p]
        BY <1>5, <4>1
      <4>2. CASE ~wrote[p]
        BY <1>6, <4>2
      <4> QED BY <4>1, <4>2
    <3> QED BY <1>5, <1>6, <1>7, <2>2, <3>1 DEF Stwrite
  <2>3. CASE Stioctl(p)
    BY <1>2, <1>5, <1>6, <1>8, <2>3 DEF Stioctl
  <2> QED BY <1>9, <1>14, <2>1, <2>2, <2>3 DEF Proceed
<1> QED BY <1>6, <1>10, <1>11, <1>12, <1>13, <1>14 DEF Next, Enter

(* No wakeup is lost to the reader of an end, when it has only one.        *)
THEOREM NoReaderLost ==
  ASSUME OneReader
  PROVE  Spec => []ReadersWillWake
<1>1. PipeInv /\ ReaderInv => ReadersWillWake
  <2>1. SUFFICES ASSUME PipeInv, ReaderInv, NEW p \in Procs, NEW e \in Ends, wchan[p] = Rd(e)
                 PROVE  "RSLEEP" \in sflag[e] /\ queue[e].blocks = <<>> /\ "HUNGUP" \notin sflag[e] /\ linked
    BY DEF ReadersWillWake
  <2>2. "RSLEEP" \in sflag[e] /\ linked /\ queue[e].blocks = <<>>
    BY <2>1 DEF PipeInv, SleepInv, ReaderInv
  <2>3. e \in streaming
    BY <2>1, <2>2 DEF PipeInv, LinkInv
  <2> QED BY <2>1, <2>2, <2>3 DEF PipeInv, LinkInv
<1>2. Init => PipeInv /\ ReaderInv
  <2>1. Init => ReaderInv
    BY DEF Init, ReaderInv, Empty
  <2> QED BY <2>1, PipeInit
<1>3. PipeInv /\ ReaderInv /\ [Next]_vars => PipeInv' /\ ReaderInv'
  BY PipeStep, ReaderStep
<1> QED BY <1>1, <1>2, <1>3, PTL DEF Spec

(***************************************************************************)
(* Who is inside is counted, when no files are passed                      *)
(***************************************************************************)
CountExact == \A e \in Ends : count[e] = Cardinality(Inside(e))

LEMMA CountStep ==
  ASSUME PipeInv, PassInv, NoPassing, CountExact, [Next]_vars
  PROVE  CountExact'
<1>1. TypesInv /\ count \in [Ends -> Int] /\ pc \in [Procs -> PCs]
  BY DEF PipeInv, TypesInv, EndTypes, ProcTypes
<1>2. ASSUME count' = count, \A e \in Ends : Inside(e)' = Inside(e)
      PROVE  CountExact'
  BY <1>2, Zenon DEF CountExact
<1>3. ASSUME NEW p \in Procs, pc[p] # "user", count' = count, call' = call, \E l \in PCs \ {"user"} : Goto(p, l)
      PROVE  CountExact'
  <2>1. \A e \in Ends : Inside(e)' = Inside(e)
    BY <1>1, <1>3 DEF Inside, End, Goto
  <2> QED BY <1>2, <1>3, <2>1
<1>4. ASSUME NEW p \in Procs, ReadPass(p)
      PROVE  FALSE
  <2> DEFINE q == queue[End(p)]
  <2>1. pc[p] # "user" /\ q.blocks # <<>> /\ Head(q.blocks).type = "pass"
    BY <1>4 DEF ReadPass
  <2>2. q \in QueueType /\ NoPass(q.blocks)
    BY <1>1, <2>1, CallOfProc DEF TypesInv, EndTypes, PassInv
  <2> QED BY <2>1, <2>2, NoPassRest
<1>5. ASSUME NEW p \in Procs, Stexit(p)
      PROVE  CountExact'
  <2>1. PICK e \in Ends : e = End(p)
    BY <1>1, <1>5, StexitFacts
  <2>2. pc[p] # "user" /\ Return(p) /\ count' = [count EXCEPT ![e] = count[e] - 1]
    BY <1>1, <1>5, <2>1, StexitFacts
  <2>3. /\ \A f \in Ends : f # e => Inside(f)' = Inside(f)
        /\ Cardinality(Inside(e)') = Cardinality(Inside(e)) - 1
    BY <1>1, <2>1, <2>2, LeaveInside
  <2>4. \A f \in Ends : f # e => Cardinality(Inside(f)') = Cardinality(Inside(f))
    BY <2>3, Zenon
  <2>5. \A f \in Ends : /\ count[f] = Cardinality(Inside(f))
                        /\ count'[f] = IF f = e THEN count[e] - 1 ELSE count[f]
    BY <1>1, <2>2 DEF CountExact
  <2>6. \A f \in Ends : count'[f] = Cardinality(Inside(f)')
    BY <2>3, <2>4, <2>5
  <2> QED BY <2>6 DEF CountExact
<1>6. ASSUME NEW p \in Procs, NEW c \in CallsOf[p], Stenter(p, c)
      PROVE  CountExact'
  <2>1. PICK e \in Ends : e = c.end
    BY CallFacts
  <2>2. /\ pc[p] = "user" /\ c.kind \in Kinds /\ c.kind # "close"
        /\ count' = [count EXCEPT ![e] = count[e] + 1]
        /\ pc' = [pc EXCEPT ![p] = Entry(c.kind)] /\ call' = [call EXCEPT ![p] = c]
        /\ call \in [Procs -> Call \cup {None}]
    BY <1>1, <1>6, <2>1, CallFacts DEF Stenter, Goto, TypesInv, ProcTypes
  <2>3. Entry(c.kind) # "user"
    BY <2>2 DEF Entry, Kinds
  <2>4. /\ Inside(e)' = Inside(e) \cup {p} /\ p \notin Inside(e)
        /\ \A f \in Ends : f # e => Inside(f)' = Inside(f)
    BY <1>1, <2>1, <2>2, <2>3 DEF Inside, End
  <2>5. Cardinality(Inside(e)') = Cardinality(Inside(e)) + 1
    BY <2>4, InsideFinite, FS_AddElement
  <2>6. \A f \in Ends : f # e => Cardinality(Inside(f)') = Cardinality(Inside(f))
    BY <2>4, Zenon
  <2>7. \A f \in Ends : /\ count[f] = Cardinality(Inside(f))
                        /\ count'[f] = IF f = e THEN count[e] + 1 ELSE count[f]
    BY <1>1, <2>2 DEF CountExact
  <2>8. \A f \in Ends : count'[f] = Cardinality(Inside(f)')
    BY <2>5, <2>6, <2>7
  <2> QED BY <2>8 DEF CountExact
<1>7. ASSUME NEW p \in Procs, NEW c \in CallsOf[p], Close(p, c)
      PROVE  CountExact'
  <2>1. pc' = pc /\ call' = call /\ c.end \in Ends
        /\ (Stclose(c.end, count[c.end]) \/ count' = count)
    BY <1>7, CallFacts DEF Close
  <2>2. count' = count
    BY <1>1, <2>1 DEF Stclose
  <2>3. \A e \in Ends : Inside(e)' = Inside(e)
    BY <2>1 DEF Inside, End
  <2> QED BY <1>2, <2>2, <2>3
<1>8. ASSUME NEW e \in Ends, Stwsrv(e)
      PROVE  CountExact'
  <2>1. count' = count /\ \A f \in Ends : Inside(f)' = Inside(f)
    BY <1>8 DEF Stwsrv, Inside, End
  <2> QED BY <1>2, <2>1
<1>9. CASE UNCHANGED vars
  <2>1. count' = count /\ \A f \in Ends : Inside(f)' = Inside(f)
    BY <1>9 DEF vars, endVars, procVars, Inside, End
  <2> QED BY <1>2, <2>1
<1>10. ASSUME NEW p \in Procs, Proceed(p)
      PROVE  CountExact'
  <2>1. CASE ReadEof(p) \/ ReadData(p) \/ ReadDelim(p) \/ ReceiveFile(p)
    BY <1>3, <2>1 DEF ReadEof, ReadData, ReadDelim, ReceiveFile, PCs
  <2>2. CASE ReadSleep(p) \/ WriteSleep(p)
    <3>1. count' = count /\ \A f \in Ends : Inside(f)' = Inside(f)
      BY <2>2 DEF ReadSleep, WriteSleep, Inside, End
    <3> QED BY <1>2, <3>1
  <2>3. CASE ReadCopied(p)
    <3>1. \E fault, done \in BOOLEAN : Goto(p, IF fault \/ done THEN "exit" ELSE "read")
      BY <2>3, PipeAssumption DEF ReadCopied
    <3>2. \E l \in PCs \ {"user"} : Goto(p, l)
      BY <3>1 DEF PCs
    <3> QED BY <1>3, <2>3, <3>2 DEF ReadCopied
  <2>4. CASE WriteDelim(p) \/ (WriteBusy(p) /\ wrote[p]) \/ WritePut(p) \/ SendFile(p)
    <3>1. \E b \in Blocks : PutStep(p, b) /\ pc[p] # "user"
      BY <1>1, <2>4, Puts
    <3> QED BY <1>3, <3>1 DEF PutStep
  <2>5. CASE \/ WriteHungup(p) \/ WriteAlloc(p) \/ WriteFault(p) \/ IoctlError(p) \/ Flush(p)
             \/ (WriteBusy(p) /\ ~wrote[p])
    <3>1. pc[p] # "user" /\ StillStep(p)
      BY <1>1, <2>5, Stills
    <3> QED BY <1>3, <3>1 DEF StillStep
  <2>6. CASE Wnblk(p)
    BY <1>3, <2>6 DEF Wnblk, PCs
  <2>7. CASE Stread(p)
    BY <1>4, <2>1, <2>2, <2>3, <2>7 DEF Stread
  <2>8. CASE Stwrite(p)
    <3>1. WriteBusy(p) => (WriteBusy(p) /\ wrote[p]) \/ (WriteBusy(p) /\ ~wrote[p])
      OBVIOUS
    <3> QED BY <2>2, <2>4, <2>5, <2>8, <3>1 DEF Stwrite
  <2>9. CASE Stioctl(p)
    BY <2>1, <2>4, <2>5, <2>6, <2>9 DEF Stioctl
  <2> QED BY <1>5, <1>10, <2>7, <2>8, <2>9 DEF Proceed
<1>11. ASSUME NEW p \in Procs, Signal(p)
      PROVE  CountExact'
  <2>1. pc[p] # "user" /\ StillStep(p)
    BY <1>1, <1>11, Stills
  <2> QED BY <1>3, <2>1 DEF StillStep
<1> QED BY <1>6, <1>7, <1>8, <1>9, <1>10, <1>11 DEF Next, Enter

(* stdata.count is the number of processes inside, when no files are       *)
(* passed: stread returns without stexit when it meets one.                *)
THEOREM CountRight ==
  ASSUME NoPassing
  PROVE  Spec => []CountIsInside
<1>1. CountExact => CountIsInside
  BY DEF CountExact, CountIsInside
<1>2. Init => PipeInv /\ LostNone /\ CountExact
  <2>1. Init => CountExact
    <3>1. Init => \A e \in Ends : Inside(e) = {} /\ count[e] = 0
      BY DEF Init, Inside
    <3> QED BY <3>1, FS_EmptySet DEF CountExact
  <2> QED BY <2>1, PipeInit, LostNoneInit
<1>3. PipeInv /\ LostNone /\ CountExact /\ [Next]_vars => PipeInv' /\ LostNone' /\ CountExact'
  BY PipeStep, LostNoneStep, CountStep DEF LostNone
<1> QED BY <1>1, <1>2, <1>3, PTL DEF Spec

(***************************************************************************)
(* The bytes of a queue and of a block in a reader's hand, in the order in *)
(* which they are delivered                                                *)
(***************************************************************************)
BytesIn(b) == {b.bytes[i] : i \in 1 .. Len(b.bytes)}

(* The bytes of blocks that are made, merged or cut.                       *)
LEMMA BytesOfNone ==
  BytesIn(Delim) = {} /\ BytesIn(Pass) = {}
BY DEF BytesIn, Delim, Pass

LEMMA BytesMerged ==
  ASSUME NEW l \in Blocks, NEW b \in Blocks, l.type = "data", b.type = "data", Len(b.bytes) <= l.room
  PROVE  BytesIn(Merged(l, b)) \subseteq BytesIn(l) \cup BytesIn(b)
<1> DEFINE s == l.bytes
           t == b.bytes
           u == s \o t
<1>1. Merged(l, b).bytes = u /\ s \in Seq(Nat) /\ t \in Seq(Nat)
  BY QueueAssumption, MergedIsBlock DEF DataBlock
<1>2. /\ Len(u) = Len(s) + Len(t) /\ Len(s) \in Nat /\ Len(t) \in Nat
      /\ \A i \in 1 .. Len(s) + Len(t) : u[i] = IF i <= Len(s) THEN s[i] ELSE t[i - Len(s)]
  BY <1>1, ConcatProperties, LenProperties
<1> HIDE DEF u
<1>3. ASSUME NEW i \in 1 .. Len(u)
      PROVE  \/ \E k \in 1 .. Len(s) : u[i] = s[k]
             \/ \E k \in 1 .. Len(t) : u[i] = t[k]
  <2> HIDE DEF s, t
  <2>0. i \in 1 .. Len(s) + Len(t)
    BY <1>2
  <2>1. CASE i <= Len(s)
    <3>1. i \in 1 .. Len(s) /\ u[i] = s[i]
      BY <1>2, <2>0, <2>1
    <3> QED BY <3>1
  <2>2. CASE ~(i <= Len(s))
    <3>1. i - Len(s) \in 1 .. Len(t) /\ u[i] = t[i - Len(s)]
      BY <1>2, <2>0, <2>2
    <3> QED BY <3>1
  <2> QED BY <2>1, <2>2
<1> QED BY <1>1, <1>3 DEF BytesIn

LEMMA BytesRemain ==
  ASSUME NEW b \in DataBlock, NEW n \in 0 .. Len(b.bytes)
  PROVE  BytesIn(Remainder(b, n)) \subseteq BytesIn(b) /\ {b.bytes[i] : i \in 1 .. n} \subseteq BytesIn(b)
<1>1. /\ Len(Remainder(b, n).bytes) = Len(b.bytes) - n
      /\ \A i \in 1 .. Len(b.bytes) - n : Remainder(b, n).bytes[i] = b.bytes[n + i]
      /\ Len(b.bytes) \in Nat
  BY QueueAssumption, RestOfBlock, LenProperties DEF DataBlock
<1>2. \A i \in 1 .. Len(b.bytes) - n : n + i \in 1 .. Len(b.bytes)
  BY <1>1
<1>3. 1 .. n \subseteq 1 .. Len(b.bytes)
  BY <1>1
<1> QED BY <1>1, <1>2, <1>3 DEF BytesIn

(* The bytes that are delivered in front of a queue are its piece 0; those *)
(* of its i-th block are piece i.  There is no delimiter among the blocks  *)
(* i to j.  A byte trails when no delimiter is behind it.                  *)
Piece(F, B, i) == IF i = 0 THEN F ELSE BytesIn(B[i])
Open(B, i, j) == \A k \in i .. j : k = 0 \/ B[k].type # "delim"
Trails(F, B, x) == \E i \in 0 .. Len(B) : Open(B, i, Len(B)) /\ x \in Piece(F, B, i)

(* Bytes of one write, when writes started at S, and pieces that are such  *)
(* unless a delimiter is between them.                                     *)
Together(S, X, Y) == \A x \in X, y \in Y, m \in S : x <= m <=> y <= m
Line(F, B, S) ==
  \A i, j \in 0 .. Len(B) : i <= j /\ Open(B, i, j) => Together(S, Piece(F, B, i), Piece(F, B, j))

(* Two bytes of a line that no delimiter separates.                        *)
Next2(F, B, x, y) ==
  \E i, j \in 0 .. Len(B) : i <= j /\ Open(B, i, j) /\ \/ x \in Piece(F, B, i) /\ y \in Piece(F, B, j)
                                                       \/ y \in Piece(F, B, i) /\ x \in Piece(F, B, j)

(* A line whose bytes come from another, with no delimiter less, is one.   *)
LEMMA LineFrom ==
  ASSUME NEW F, NEW B, NEW G, NEW C, NEW S, Line(F, B, S),
         ASSUME NEW i \in 0 .. Len(C), NEW j \in 0 .. Len(C), i <= j, Open(C, i, j),
                NEW x \in Piece(G, C, i), NEW y \in Piece(G, C, j)
         PROVE  Next2(F, B, x, y)
  PROVE  Line(G, C, S)
BY DEF Line, Next2, Together

(* A part of what is in front may go.                                      *)
LEMMA LineLess ==
  ASSUME NEW F, NEW B, NEW S, Line(F, B, S), NEW G, G \subseteq F
  PROVE  Line(G, B, S) /\ \A x : Trails(G, B, x) => Trails(F, B, x)
<1>1. \A i \in 0 .. Len(B) : Piece(G, B, i) \subseteq Piece(F, B, i)
  BY DEF Piece
<1> QED BY <1>1 DEF Line, Together, Trails

(* The first block is taken: what is in front of the rest is what was in   *)
(* front of the block and the block itself, or nothing.                    *)
LEMMA LineTake ==
  ASSUME NEW q \in QueueType, NEW F, NEW S, Line(F, q.blocks, S), q.blocks # <<>>, NEW G,
         G \subseteq F \cup BytesIn(Head(q.blocks)), Head(q.blocks).type = "delim" => G = {}
  PROVE  Line(G, Rest(q), S) /\ \A x : Trails(G, Rest(q), x) => Trails(F, q.blocks, x)
<1> DEFINE B == q.blocks
           C == Rest(q)
<1>1. /\ Len(C) = Len(B) - 1 /\ Len(B) \in Nat /\ Len(C) \in Nat /\ Head(B) = B[1]
      /\ \A i \in 1 .. Len(C) : C[i] = B[i + 1]
  <2>1. /\ C \in Seq(Blocks) /\ B \in Seq(Blocks) /\ Len(C) = Len(B) - 1
        /\ \A i \in 1 .. Len(C) : C[i] = B[i + 1]
    BY QueueAssumption, RestOfQueue DEF QueueType
  <2>2. Len(B) \in Nat /\ Len(C) \in Nat
    BY <2>1, LenProperties
  <2>3. Head(B) = B[1]
    BY <2>1, HeadTailProperties
  <2> QED BY <2>1, <2>2, <2>3
<1>2. ASSUME NEW x \in Piece(G, C, 0)
      PROVE  \E k \in {0, 1} : x \in Piece(F, B, k)
  BY <1>1, <1>2 DEF Piece
<1>3. ASSUME NEW i \in 1 .. Len(C)
      PROVE  Piece(G, C, i) = Piece(F, B, i + 1) /\ i + 1 \in 0 .. Len(B)
  BY <1>1 DEF Piece
<1>4. ASSUME NEW i \in 0 .. Len(C), NEW j \in 0 .. Len(C), Open(C, i, j), i # 0 \/ B[1].type # "delim"
      PROVE  Open(B, i + 1, j + 1)
  <2>1. SUFFICES ASSUME NEW k \in i + 1 .. j + 1
                 PROVE  k = 0 \/ B[k].type # "delim"
    BY DEF Open
  <2>2. CASE k = 1
    BY <1>1, <1>4, <2>1, <2>2
  <2>3. CASE k # 1
    <3>1. k - 1 \in 1 .. Len(C) /\ k - 1 \in i .. j /\ (k - 1) + 1 = k
      BY <1>1, <2>1, <2>3
    <3>2. C[k - 1].type # "delim"
      BY <1>4, <3>1 DEF Open
    <3> QED BY <1>1, <3>1, <3>2
  <2> QED BY <2>2, <2>3
<1>5. ASSUME NEW j \in 0 .. Len(C), Open(C, 0, j), B[1].type # "delim"
      PROVE  \A k \in {0, 1} : Open(B, k, j + 1) /\ k \in 0 .. Len(B) /\ k <= j + 1
  <2>1. Open(B, 1, j + 1)
    <3>1. Open(B, 0 + 1, j + 1)
      BY <1>1, <1>4, <1>5
    <3> QED BY <3>1
  <2> QED BY <1>1, <2>1 DEF Open
<1>6. Piece(G, C, 0) # {} => B[1].type # "delim"
  BY <1>1 DEF Piece
<1> HIDE DEF B, C
<1>7. ASSUME NEW i \in 0 .. Len(C), NEW j \in 0 .. Len(C), i <= j, Open(C, i, j),
             NEW x \in Piece(G, C, i), NEW y \in Piece(G, C, j)
      PROVE  Next2(F, B, x, y)
  <2>1. CASE i # 0
    <3>1. /\ i \in 1 .. Len(C) /\ j \in 1 .. Len(C) /\ i + 1 <= j + 1 /\ Open(B, i + 1, j + 1)
      BY <1>1, <1>4, <1>7, <2>1
    <3>2. /\ x \in Piece(F, B, i + 1) /\ i + 1 \in 0 .. Len(B)
          /\ y \in Piece(F, B, j + 1) /\ j + 1 \in 0 .. Len(B)
      BY <1>3, <3>1
    <3> QED BY <3>1, <3>2 DEF Next2
  <2>2. CASE i = 0 /\ j # 0
    <3>1. PICK k \in {0, 1} : x \in Piece(F, B, k)
      BY <1>2, <2>2
    <3>2. Open(B, k, j + 1) /\ k \in 0 .. Len(B) /\ k <= j + 1
      BY <1>5, <1>6, <1>7, <2>2
    <3>3. j \in 1 .. Len(C)
      BY <1>1, <2>2
    <3>4. y \in Piece(F, B, j + 1) /\ j + 1 \in 0 .. Len(B)
      BY <1>3, <3>3
    <3> QED BY <3>1, <3>2, <3>4 DEF Next2
  <2>3. CASE i = 0 /\ j = 0
    <3>1. PICK k \in {0, 1} : x \in Piece(F, B, k)
      BY <1>2, <2>3
    <3>2. PICK l \in {0, 1} : y \in Piece(F, B, l)
      BY <1>2, <2>3
    <3>3. B[1].type # "delim" /\ Open(C, 0, 0) /\ 0 \in 0 .. Len(C)
      BY <1>1, <1>6, <1>7, <2>3
    <3>4. /\ Open(B, 0, 0 + 1) /\ Open(B, 1, 0 + 1) /\ 1 \in 0 .. Len(B) /\ 0 \in 0 .. Len(B)
      BY <1>5, <3>3
    <3>5. Open(B, 0, 0) /\ Open(B, 0, 1) /\ Open(B, 1, 1)
      BY <3>4 DEF Open
    <3>6. k <= l \/ l <= k
      OBVIOUS
    <3>7. CASE k <= l
      <4>1. Open(B, k, l)
        BY <3>5, <3>7
      <4> QED BY <3>1, <3>2, <3>4, <3>7, <4>1 DEF Next2
    <3>8. CASE l <= k
      <4>1. Open(B, l, k)
        BY <3>5, <3>8
      <4> QED BY <3>1, <3>2, <3>4, <3>8, <4>1 DEF Next2
    <3> QED BY <3>6, <3>7, <3>8
  <2> QED BY <2>1, <2>2, <2>3
<1>8. Line(G, C, S)
  <2>1. Line(F, B, S)
    BY DEF B
  <2> QED BY <1>7, <2>1, LineFrom
<1>9. ASSUME NEW x, Trails(G, C, x)
      PROVE  Trails(F, B, x)
  <2>1. PICK i \in 0 .. Len(C) : Open(C, i, Len(C)) /\ x \in Piece(G, C, i)
    BY <1>9 DEF Trails
  <2>2. Len(C) \in 0 .. Len(C) /\ Len(C) + 1 = Len(B)
    BY <1>1
  <2>3. CASE i = 0
    <3>1. PICK k \in {0, 1} : x \in Piece(F, B, k)
      BY <1>2, <2>1, <2>3
    <3>2. B[1].type # "delim"
      BY <1>6, <2>1, <2>3
    <3>3. Open(B, k, Len(C) + 1) /\ k \in 0 .. Len(B)
      BY <1>5, <2>1, <2>2, <2>3, <3>2
    <3> QED BY <2>2, <3>1, <3>3 DEF Trails
  <2>4. CASE i # 0
    <3>1. i \in 1 .. Len(C)
      BY <1>1, <2>4
    <3>2. Open(B, i + 1, Len(C) + 1)
      BY <1>4, <2>1, <2>2, <2>4
    <3>3. x \in Piece(F, B, i + 1) /\ i + 1 \in 0 .. Len(B)
      BY <1>3, <2>1, <3>1
    <3> QED BY <2>2, <3>2, <3>3 DEF Trails
  <2> QED BY <2>3, <2>4
<1> QED BY <1>8, <1>9 DEF B, C

(* A block is put back: its bytes were in front.                           *)
LEMMA LineGive ==
  ASSUME NEW B \in Seq(Blocks), NEW F, NEW S, Line(F, B, S), NEW G, NEW r, G \cup BytesIn(r) \subseteq F,
         NEW C, Len(C) = Len(B) + 1, C[1] = r, \A i \in 1 .. Len(B) : C[i + 1] = B[i]
  PROVE  Line(G, C, S) /\ \A x : Trails(G, C, x) => Trails(F, B, x)
<1> DEFINE src(i) == IF i = 0 THEN 0 ELSE i - 1
<1>1. Len(B) \in Nat
  BY LenProperties
<1>2. ASSUME NEW i \in 0 .. Len(C)
      PROVE  src(i) \in 0 .. Len(B) /\ Piece(G, C, i) \subseteq Piece(F, B, src(i))
  <2>1. CASE i \in {0, 1}
    BY <1>1, <2>1 DEF Piece
  <2>2. CASE i \notin {0, 1}
    <3>1. i - 1 \in 1 .. Len(B) /\ (i - 1) + 1 = i /\ i - 1 # 0 /\ src(i) = i - 1
      BY <1>1, <2>2
    <3>2. C[i] = B[i - 1]
      BY <3>1
    <3> QED BY <3>1, <3>2 DEF Piece
  <2> QED BY <2>1, <2>2
<1>3. ASSUME NEW i \in 0 .. Len(C), NEW j \in 0 .. Len(C), i <= j, Open(C, i, j)
      PROVE  Open(B, src(i), src(j)) /\ src(i) <= src(j)
  <2>1. src(i) <= src(j)
    BY <1>1, <1>3
  <2>2. SUFFICES ASSUME NEW k \in src(i) .. src(j), k # 0
                 PROVE  B[k].type # "delim"
    BY <2>1 DEF Open
  <2>3. k \in 1 .. Len(B) /\ k + 1 \in i .. j /\ k + 1 # 0
    BY <1>1, <1>3, <2>2
  <2>4. C[k + 1].type # "delim"
    BY <1>3, <2>3 DEF Open
  <2> QED BY <2>3, <2>4
<1>4. src(Len(C)) = Len(B) /\ Len(C) \in 0 .. Len(C) /\ \A i \in 0 .. Len(C) : i <= Len(C)
  BY <1>1
<1> HIDE DEF src
<1>5. Line(G, C, S)
  <2>1. ASSUME NEW i \in 0 .. Len(C), NEW j \in 0 .. Len(C), i <= j, Open(C, i, j),
               NEW x \in Piece(G, C, i), NEW y \in Piece(G, C, j)
        PROVE  Next2(F, B, x, y)
    BY <1>2, <1>3, <2>1 DEF Next2
  <2> QED BY <2>1, LineFrom
<1>6. ASSUME NEW x, Trails(G, C, x)
      PROVE  Trails(F, B, x)
  <2>1. PICK i \in 0 .. Len(C) : Open(C, i, Len(C)) /\ x \in Piece(G, C, i)
    BY <1>6 DEF Trails
  <2>2. Open(B, src(i), Len(B)) /\ src(i) \in 0 .. Len(B) /\ x \in Piece(F, B, src(i))
    BY <1>2, <1>3, <1>4, <2>1
  <2> QED BY <2>2 DEF Trails
<1> QED BY <1>5, <1>6

(* putq: the last block is the one that is put, or the one that was the    *)
(* last, with the other one's bytes behind its own.                        *)
LEMMA PutqBlocks ==
  ASSUME NEW q, QueueOK(q), NEW b \in Blocks
  PROVE  LET B == q.blocks
             C == Putq(q, b).blocks
             N == Len(B)
             K == Len(C)
         IN
         /\ C \in Seq(Blocks) /\ K \in Nat \ {0} /\ K - 1 <= N /\ N <= K
         /\ \A i \in 1 .. K - 1 : C[i] = B[i]
         /\ \/ K = N + 1 /\ C[K] = b
            \/ /\ K = N /\ B[N].type = "data" /\ C[K].type = "data" /\ b.type = "data"
               /\ BytesIn(C[K]) \subseteq BytesIn(B[N]) \cup BytesIn(b)
<1> DEFINE B == q.blocks
           C == Putq(q, b).blocks
           N == Len(B)
           K == Len(C)
<1>0. B \in Seq(Blocks) /\ N \in Nat
  BY LenProperties DEF QueueOK, QueueType
<1>1. /\ C \in Seq(Blocks) /\ K \in Nat \ {0} /\ K - 1 <= N /\ N <= K
      /\ \A i \in 1 .. K - 1 : C[i] = B[i]
      /\ \/ K = N + 1 /\ C[K] = b
         \/ /\ K = N /\ B[N].type = "data" /\ C[K].type = "data" /\ b.type = "data"
            /\ BytesIn(C[K]) \subseteq BytesIn(B[N]) \cup BytesIn(b)
  <2>1. CASE Merges(q, b)
    <3> DEFINE s == Front(B)
               l == Last(B)
               x == Merged(l, b)
    <3>1. /\ b.type = "data" /\ B # <<>> /\ l.type = "data" /\ Len(b.bytes) <= l.room
      BY <2>1 DEF Merges
    <3>2. /\ s \in Seq(Blocks) /\ l \in Blocks /\ Len(s) = N - 1
          /\ \A i \in 1 .. N - 1 : s[i] = B[i]
          /\ N \in Nat \ {0} /\ B[N] = l
      BY <1>0, <3>1, FrontAndLast
    <3>3. x \in DataBlock /\ BytesIn(x) \subseteq BytesIn(l) \cup BytesIn(b)
      BY <3>1, <3>2, QueueAssumption, MergedIsBlock, BytesMerged
    <3>4. x \in Blocks /\ x.type = "data"
      BY <3>3 DEF Blocks, DataBlock
    <3>5. C = Append(s, x)
      BY <2>1, QueueAssumption, PutqKeeps
    <3> HIDE DEF C, s, x, l, B
    <3>6. /\ C \in Seq(Blocks) /\ Len(C) = Len(s) + 1 /\ \A i \in 1 .. Len(s) : C[i] = s[i]
          /\ C[Len(s) + 1] = x
      BY <3>2, <3>4, <3>5, AppendProperties
    <3>7. K = N /\ C[K] = x /\ \A i \in 1 .. K - 1 : C[i] = B[i]
      BY <3>2, <3>6
    <3> QED BY <3>1, <3>2, <3>3, <3>4, <3>6, <3>7
  <2>2. CASE ~Merges(q, b)
    <3>1. C = Append(B, b)
      BY <2>2, QueueAssumption, PutqKeeps
    <3> HIDE DEF C, B
    <3>2. /\ C \in Seq(Blocks) /\ K = N + 1 /\ C[N + 1] = b /\ \A i \in 1 .. N : C[i] = B[i]
      BY <1>0, <3>1, AppendProperties
    <3>3. K - 1 = N /\ K \in Nat \ {0} /\ K - 1 <= N /\ N <= K
      BY <1>0, <3>2
    <3>4. \A i \in 1 .. K - 1 : C[i] = B[i]
      BY <3>2, <3>3
    <3> QED BY <3>2, <3>3, <3>4
  <2> QED BY <2>1, <2>2
<1> QED BY <1>1

(* A block is put: it belongs to what no delimiter separates it from, and  *)
(* after a delimiter nothing trails.                                       *)
LEMMA LinePut ==
  ASSUME NEW q, QueueOK(q), NEW F, NEW S, Line(F, q.blocks, S), NEW b \in Blocks,
         Together(S, BytesIn(b), BytesIn(b)),
         \A x, y, m : Trails(F, q.blocks, x) /\ y \in BytesIn(b) /\ m \in S => (x <= m <=> y <= m)
  PROVE  /\ Line(F, Putq(q, b).blocks, S)
         /\ \A x : Trails(F, Putq(q, b).blocks, x)
                     => b.type # "delim" /\ (Trails(F, q.blocks, x) \/ x \in BytesIn(b))
<1> DEFINE B == q.blocks
           C == Putq(q, b).blocks
           N == Len(B)
           K == Len(C)
<1>1. B \in Seq(Blocks) /\ N \in Nat
  BY LenProperties DEF QueueOK, QueueType
<1>2. /\ C \in Seq(Blocks) /\ K \in Nat \ {0} /\ K - 1 <= N /\ N <= K
      /\ \A i \in 1 .. K - 1 : C[i] = B[i]
      /\ \/ K = N + 1 /\ C[K] = b
         \/ /\ K = N /\ B[N].type = "data" /\ C[K].type = "data" /\ b.type = "data"
            /\ BytesIn(C[K]) \subseteq BytesIn(B[N]) \cup BytesIn(b)
  BY PutqBlocks
<1> HIDE DEF B, C
(* A piece of the new line that is not its last is one of the old line.    *)
<1>3. ASSUME NEW i \in 0 .. K, i # K
      PROVE  i \in 0 .. N /\ Piece(F, C, i) = Piece(F, B, i)
  <2>1. i \in 0 .. N /\ (i # 0 => i \in 1 .. K - 1)
    BY <1>1, <1>2, <1>3
  <2> QED BY <1>2, <2>1 DEF Piece
<1>4. ASSUME NEW i \in 0 .. K, NEW j \in 0 .. K, Open(C, i, j), i <= j, j # K
      PROVE  Open(B, i, j)
  <2>1. \A k \in i .. j : k = 0 \/ k \in 1 .. K - 1
    BY <1>2, <1>4
  <2> QED BY <1>2, <1>4, <2>1 DEF Open
(* What is open up to the last block was open up to the end.               *)
<1>5. ASSUME NEW i \in 0 .. K, Open(C, i, K)
      PROVE  /\ b.type # "delim"
             /\ i # K \/ K = N => Open(B, i, N)
  <2>1. C[K].type # "delim"
    BY <1>2, <1>5 DEF Open
  <2>2. b.type # "delim"
    BY <1>2, <2>1
  <2>3. SUFFICES ASSUME i # K \/ K = N, NEW k \in i .. N, k # 0
                 PROVE  B[k].type # "delim"
    BY <2>2 DEF Open
  <2>4. k \in 1 .. K /\ k \in i .. K
    BY <1>1, <1>2, <2>3
  <2>5. CASE k \in 1 .. K - 1
    <3>1. C[k].type # "delim"
      BY <1>5, <2>4, <2>5 DEF Open
    <3> QED BY <1>2, <2>5, <3>1
  <2>6. CASE k = K
    BY <1>1, <1>2, <2>3, <2>6
  <2> QED BY <1>2, <2>4, <2>5, <2>6
(* A byte of the last piece is one of b, or one of the last piece of B.    *)
<1>6. ASSUME NEW x \in Piece(F, C, K)
      PROVE  x \in BytesIn(b) \/ (K = N /\ x \in Piece(F, B, N))
  BY <1>2, <1>6 DEF Piece
<1>7. ASSUME NEW i \in 0 .. K, NEW x \in Piece(F, C, i), Open(C, i, K)
      PROVE  b.type # "delim" /\ (x \in BytesIn(b) \/ Trails(F, B, x))
  <2>1. CASE i # K
    <3>1. i \in 0 .. N /\ x \in Piece(F, B, i) /\ Open(B, i, N) /\ b.type # "delim"
      BY <1>3, <1>5, <1>7, <2>1
    <3> QED BY <3>1 DEF Trails
  <2>2. CASE i = K
    <3>1. b.type # "delim" /\ (K = N => Open(B, N, N) /\ N \in 0 .. N)
      BY <1>1, <1>5, <1>7, <2>2
    <3> QED BY <1>6, <1>7, <2>2, <3>1 DEF Trails
  <2> QED BY <2>1, <2>2
<1>8. ASSUME NEW x, Trails(F, C, x)
      PROVE  b.type # "delim" /\ (Trails(F, B, x) \/ x \in BytesIn(b))
  BY <1>7, <1>8 DEF Trails
<1>9. Line(F, C, S)
  <2>1. SUFFICES ASSUME NEW i \in 0 .. K, NEW j \in 0 .. K, i <= j, Open(C, i, j),
                        NEW x \in Piece(F, C, i), NEW y \in Piece(F, C, j), NEW m \in S
                 PROVE  x <= m <=> y <= m
    BY DEF Line, Together
  <2>2. CASE j # K
    <3>1. i # K
      BY <1>2, <2>1, <2>2
    <3>2. /\ i \in 0 .. N /\ j \in 0 .. N /\ x \in Piece(F, B, i) /\ y \in Piece(F, B, j)
      BY <1>3, <2>1, <2>2, <3>1
    <3>3. Open(B, i, j)
      BY <1>4, <2>1, <2>2
    <3> QED BY <2>1, <3>2, <3>3 DEF Line, Together, B
  <2>3. CASE j = K /\ i # K
    <3>1. /\ i \in 0 .. N /\ x \in Piece(F, B, i) /\ Open(B, i, N)
      BY <1>3, <1>5, <2>1, <2>3
    <3>2. Trails(F, B, x)
      BY <3>1 DEF Trails
    <3>3. y \in BytesIn(b) \/ (K = N /\ y \in Piece(F, B, N))
      BY <1>6, <2>1, <2>3
    <3>4. N \in 0 .. N /\ i <= N
      BY <1>1, <3>1
    <3> QED BY <2>1, <3>1, <3>2, <3>3, <3>4 DEF Line, Together, B
  <2>4. CASE j = K /\ i = K
    <3>1. /\ x \in BytesIn(b) \/ (K = N /\ x \in Piece(F, B, N))
          /\ y \in BytesIn(b) \/ (K = N /\ y \in Piece(F, B, N))
      BY <1>6, <2>1, <2>4
    <3>2. K = N => Open(B, N, N) /\ N \in 0 .. N /\ N <= N
      BY <1>1, <1>5, <2>1, <2>4
    <3>3. /\ K = N /\ x \in Piece(F, B, N) => Trails(F, B, x)
          /\ K = N /\ y \in Piece(F, B, N) => Trails(F, B, y)
      BY <3>2 DEF Trails
    <3> QED BY <2>1, <3>1, <3>2, <3>3 DEF Line, Together, B
  <2> QED BY <2>2, <2>3, <2>4
<1> QED BY <1>8, <1>9 DEF B, C

(* An empty queue, and a write that starts behind all there is.            *)
LEMMA LineEmpty ==
  ASSUME NEW F, NEW S, Together(S, F, F)
  PROVE  Line(F, <<>>, S)
<1>1. \A i \in 0 .. Len(<<>>) : Piece(F, <<>>, i) = F
  BY DEF Piece
<1> QED BY <1>1 DEF Line

LEMMA LineStart ==
  ASSUME NEW F, NEW B, NEW S, Line(F, B, S), NEW m \in Nat,
         \A i \in 0 .. Len(B) : \A x \in Piece(F, B, i) : x <= m
  PROVE  Line(F, B, S \cup {m})
BY DEF Line, Together

(***************************************************************************)
(* What the steps do to the bytes                                          *)
(***************************************************************************)
(* The writers of an end are one process, and so are its readers; copying  *)
(* succeeds and writers are not interrupted.                               *)
Writes == {"write", "sndfd"}
OneWriter ==
  \A p, q \in Procs : \A c \in CallsOf[p], d \in CallsOf[q] :
    c.kind \in Writes /\ d.kind \in Writes /\ c.end = d.end => p = q
WritesEnd ==
  Faults = FALSE /\ \A p \in Signals : \A c \in CallsOf[p] : c.kind # "write"

(* A step that takes no block and puts none, starts no call and copies     *)
(* nothing; an end that is shut down is emptied.                           *)
Quiet ==
  /\ UNCHANGED <<sent, starts>> /\ (linked' => linked)
  /\ \A f \in Ends : \/ queue'[f].blocks = queue[f].blocks
                     \/ queue'[f].blocks = <<>> /\ ~linked'
  /\ \A q \in Procs :
       \/ pc'[q] = "user" /\ seen'[q] = {} /\ ~wrote'[q]
       \/ /\ pc[q] # "user" /\ call'[q] = call[q] /\ seen'[q] = seen[q] /\ ucount'[q] = ucount[q]
          /\ wrote'[q] = wrote[q] /\ hand'[q] = hand[q]
          /\ pc'[q] \in {pc[q], "exit"} \/ (pc[q] = "write" /\ pc'[q] = "copyin" /\ WriteAlloc(q))

(* The steps of this kind.                                                 *)
QuietStep(p) ==
  \/ ReadEof(p) \/ ReadSleep(p) \/ ReadPass(p) \/ WriteSleep(p) \/ WriteHungup(p) \/ WriteAlloc(p)
  \/ WriteFault(p) \/ IoctlError(p) \/ Wnblk(p) \/ Signal(p) \/ (WriteBusy(p) /\ ~wrote[p])
  \/ Stexit(p)
  \/ ReceiveFile(p) /\ (queue[End(p)].blocks # <<>> => Head(queue[End(p)].blocks).type # "pass")

(* A block that is taken and put back leaves the queue as it was.          *)
LEMMA BackAgain ==
  ASSUME NEW q, QueueOK(q), q.blocks # <<>>
  PROVE  Putbq(Getq(q), Head(q.blocks)).blocks = q.blocks
<1>1. /\ Head(q.blocks) \in Blocks /\ q.blocks = <<Head(q.blocks)>> \o Rest(q)
      /\ QueueOK(Getq(q)) /\ Getq(q).blocks = Rest(q)
  BY QueueAssumption, RestOfQueue, GetqKeeps DEF QueueOK
<1>2. Putbq(Getq(q), Head(q.blocks)).blocks = <<Head(q.blocks)>> \o Getq(q).blocks
  BY <1>1, QueueAssumption, PutbqKeeps
<1> QED BY <1>1, <1>2, Zenon

LEMMA NothingTaken ==
  ASSUME NEW q, QueueOK(q), q.blocks = <<>>
  PROVE  Getq(q).blocks = q.blocks
<1>1. Getq(q).blocks = Rest(q) /\ Rest(q) = <<>>
  BY QueueAssumption, RestOfQueue, GetqKeeps DEF QueueOK
<1> QED BY <1>1

(* stclose empties an end, or leaves the queues alone.                     *)
LEMMA StcloseBlocks ==
  ASSUME TypesInv, NEW e \in Ends, NEW n \in Int, Stclose(e, n)
  PROVE  /\ linked' => linked
         /\ \A f \in Ends : \/ queue'[f].blocks = queue[f].blocks
                            \/ queue'[f].blocks = <<>> /\ ~linked'
<1>1. /\ queue' = IF n = 0 THEN [queue EXCEPT ![e] = Empty] ELSE queue
      /\ linked' = (linked /\ n # 0)
  BY StcloseFacts
<1>2. \A f \in Ends : queue'[f] = queue[f] \/ (queue'[f] = Empty /\ ~linked')
  BY <1>1 DEF TypesInv, EndTypes
<1>3. Empty.blocks = <<>>
  BY DEF Empty
<1>4. linked' => linked
  BY <1>1
<1> QED BY <1>2, <1>3, <1>4

LEMMA QuietSteps ==
  ASSUME TypesInv, NEW p \in Procs, QuietStep(p)
  PROVE  Quiet
<1> DEFINE e == End(p)
           q == queue[e]
           Same == \A f \in Ends : queue'[f].blocks = queue[f].blocks
<1>1. /\ pc[p] # "user" /\ pc \in [Procs -> PCs] /\ call \in [Procs -> Call \cup {None}]
      /\ ucount \in [Procs -> Nat] /\ wrote \in [Procs -> BOOLEAN] /\ seen \in [Procs -> SUBSET Nat]
  <2>1. pc[p] # "user"
    <3>1. Signal(p) => pc[p] # "user"
      BY DEF Signal, TypesInv, PlaceOK
    <3>2. ~Signal(p) => pc[p] # "user"
      BY DEF QuietStep, ReadEof, ReadSleep, ReadPass, WriteSleep, WriteHungup, WriteAlloc, WriteFault,
             IoctlError, Wnblk, WriteBusy, Stexit, ReceiveFile
    <3> QED BY <3>1, <3>2
  <2> QED BY <2>1 DEF TypesInv, ProcTypes
<1>2. e \in Ends /\ QueueOK(q) /\ queue \in [Ends -> QueueType]
  BY <1>1, CallOfProc DEF TypesInv, EndTypes, QueuesOK
<1>3. ASSUME NEW r, r.blocks = q.blocks, queue' = [queue EXCEPT ![e] = r]
      PROVE  Same
  BY <1>2, <1>3
<1>4. ASSUME \/ ReadEof(p) \/ ReadSleep(p) \/ ReadPass(p)
             \/ ReceiveFile(p) /\ (q.blocks # <<>> => Head(q.blocks).type # "pass")
      PROVE  Same
  <2>1. \/ q.blocks = <<>> /\ queue' = [queue EXCEPT ![e] = Getq(q)]
        \/ q.blocks # <<>> /\ queue' = [queue EXCEPT ![e] = Putbq(Getq(q), Head(q.blocks))]
    BY <1>4 DEF ReadEof, ReadSleep, ReadPass, ReceiveFile
  <2> QED BY <1>2, <1>3, <2>1, BackAgain, NothingTaken
<1>5. ASSUME QuietStep(p), ~Stexit(p)
      PROVE  Same
  <2>1. CASE WriteSleep(p) \/ WriteHungup(p) \/ WriteAlloc(p) \/ WriteFault(p) \/ IoctlError(p)
             \/ Wnblk(p) \/ Signal(p)
    BY <2>1 DEF WriteSleep, WriteHungup, WriteAlloc, WriteFault, IoctlError, Wnblk, Signal, endVars
  <2>2. CASE WriteBusy(p) /\ ~wrote[p]
    BY <2>2 DEF WriteBusy
  <2>3. CASE \/ ReadEof(p) \/ ReadSleep(p) \/ ReadPass(p)
             \/ ReceiveFile(p) /\ (q.blocks # <<>> => Head(q.blocks).type # "pass")
    BY <1>4, <2>3
  <2> QED BY <1>5, <2>1, <2>2, <2>3 DEF QuietStep
<1>6. ASSUME QuietStep(p), ~Stexit(p)
      PROVE  linked' = linked
  BY <1>6 DEF QuietStep, ReadEof, ReadSleep, ReadPass, WriteSleep, WriteHungup, WriteAlloc, WriteFault,
              IoctlError, Wnblk, Signal, WriteBusy, ReceiveFile, endVars
<1>7. /\ linked' => linked
      /\ \A f \in Ends : \/ queue'[f].blocks = queue[f].blocks
                         \/ queue'[f].blocks = <<>> /\ ~linked'
  <2>1. CASE Stexit(p)
    <3>1. End(p) \in Ends /\ (Stclose(End(p), 0) \/ UNCHANGED <<queue, sflag, streaming, linked, wchan>>)
      BY <2>1, StexitFacts
    <3>2. CASE Stclose(End(p), 0)
      BY <3>1, <3>2, StcloseBlocks
    <3> QED BY <3>1, <3>2
  <2>2. CASE ~Stexit(p)
    BY <1>5, <1>6, <2>2
  <2> QED BY <2>1, <2>2
<1>8. UNCHANGED <<sent, starts>>
  BY DEF QuietStep, ReadEof, ReadSleep, ReadPass, WriteSleep, WriteHungup, WriteAlloc, WriteFault,
         IoctlError, Wnblk, Signal, WriteBusy, ReceiveFile, Stexit, history, endVars
<1>9. \/ Return(p) /\ hand' = hand
      \/ /\ UNCHANGED <<call, seen, ucount, wrote, hand>>
         /\ pc' = pc \/ Goto(p, "exit") \/ (Goto(p, "copyin") /\ WriteAlloc(p))
  BY DEF QuietStep, ReadEof, ReadSleep, ReadPass, WriteSleep, WriteHungup, WriteAlloc, WriteFault,
         IoctlError, Wnblk, Signal, WriteBusy, ReceiveFile, Stexit, history, endVars
<1>10. \A s \in Procs :
         \/ pc'[s] = "user" /\ seen'[s] = {} /\ ~wrote'[s]
         \/ /\ pc[s] # "user" /\ call'[s] = call[s] /\ seen'[s] = seen[s] /\ ucount'[s] = ucount[s]
            /\ wrote'[s] = wrote[s] /\ hand'[s] = hand[s]
            /\ pc'[s] \in {pc[s], "exit"} \/ (pc[s] = "write" /\ pc'[s] = "copyin" /\ WriteAlloc(s))
  <2>1. \A s \in Procs : pc[s] = "user" => seen[s] = {} /\ ~wrote[s]
    BY DEF TypesInv, PlaceOK
  <2>2. CASE Return(p) /\ hand' = hand
    BY <1>1, <2>1, <2>2 DEF Return, Goto
  <2>3. CASE UNCHANGED <<call, seen, ucount, wrote, hand>> /\ (pc' = pc \/ Goto(p, "exit"))
    BY <1>1, <2>1, <2>3 DEF Goto
  <2>4. CASE UNCHANGED <<call, seen, ucount, wrote, hand>> /\ Goto(p, "copyin") /\ WriteAlloc(p)
    <3>1. pc[p] = "write"
      BY <2>4 DEF WriteAlloc
    <3> QED BY <1>1, <2>1, <2>4, <3>1 DEF Goto
  <2> QED BY <1>9, <2>2, <2>3, <2>4
<1> QED BY <1>7, <1>8, <1>10 DEF Quiet

(* Steps in which no process moves.                                        *)
LEMMA QuietOthers ==
  ASSUME TypesInv, \/ \E p \in Procs : \E c \in CallsOf[p] : Close(p, c)
                   \/ \E e \in Ends : Stwsrv(e)
                   \/ UNCHANGED vars
  PROVE  Quiet
<1>1. UNCHANGED <<sent, starts, pc, call, seen, ucount, wrote, hand>>
  BY DEF Close, Stwsrv, vars, procVars, history
<1>2. \A s \in Procs : pc[s] = "user" => seen[s] = {} /\ ~wrote[s]
  BY DEF TypesInv, PlaceOK
<1>3. /\ linked' => linked
      /\ \A f \in Ends : \/ queue'[f].blocks = queue[f].blocks
                         \/ queue'[f].blocks = <<>> /\ ~linked'
  <2>1. ASSUME NEW p \in Procs, NEW c \in CallsOf[p], Close(p, c), Stclose(c.end, count[c.end])
        PROVE  /\ linked' => linked
               /\ \A f \in Ends : \/ queue'[f].blocks = queue[f].blocks
                                  \/ queue'[f].blocks = <<>> /\ ~linked'
    <3> DEFINE n == count[c.end]
    <3>1. c.end \in Ends /\ n \in Int /\ Stclose(c.end, n)
      BY <2>1, CallFacts DEF TypesInv, EndTypes
    <3> HIDE DEF n
    <3> QED BY <3>1, StcloseBlocks
  <2>2. \/ queue' = queue /\ linked' = linked
        \/ \E p \in Procs : \E c \in CallsOf[p] : Close(p, c) /\ Stclose(c.end, count[c.end])
    BY DEF Close, Stwsrv, vars, endVars
  <2> QED BY <2>1, <2>2
<1> QED BY <1>1, <1>2, <1>3 DEF Quiet

(* A block is taken.                                                       *)
Takes(p) ==
  \/ ReadData(p) \/ ReadDelim(p)
  \/ /\ ReceiveFile(p) /\ queue[End(p)].blocks # <<>> /\ Head(queue[End(p)].blocks).type = "pass"

LEMMA TakeFacts ==
  ASSUME TypesInv, NEW p \in Procs, Takes(p), NEW e \in Ends, e = End(p)
  PROVE  LET q == queue[e] IN
         /\ q.blocks # <<>> /\ QueueOK(q) /\ queue'[e].blocks = Rest(q)
         /\ \A f \in Ends : f # e => queue'[f] = queue[f]
         /\ UNCHANGED <<sent, starts, linked, call, seen, ucount, wrote>>
         /\ pc[p] \in {"read", "rcv"} /\ call[p].kind \in Reads
         /\ \A s \in Procs : s # p => pc'[s] = pc[s] /\ hand'[s] = hand[s]
         /\ \/ /\ pc[p] = "read" /\ pc'[p] = "iomove" /\ hand'[p] = Head(q.blocks)
               /\ Head(q.blocks).type = "data"
            \/ pc'[p] = "exit" /\ hand' = hand /\ Head(q.blocks).type # "data"
<1> DEFINE q == queue[e]
<1>1. QueueOK(q) /\ queue \in [Ends -> QueueType] /\ pc \in [Procs -> PCs]
      /\ hand \in [Procs -> Blocks \cup {None}]
  BY DEF TypesInv, EndTypes, ProcTypes, QueuesOK
<1>2. Getq(q).blocks = Rest(q)
  BY <1>1, QueueAssumption, GetqKeeps
<1>3. /\ q.blocks # <<>> /\ queue' = [queue EXCEPT ![e] = Getq(q)] /\ pc[p] \in {"read", "rcv"}
      /\ UNCHANGED <<sent, starts, linked, call, seen, ucount, wrote>>
      /\ \/ /\ pc[p] = "read" /\ Goto(p, "iomove") /\ hand' = [hand EXCEPT ![p] = Head(q.blocks)]
            /\ Head(q.blocks).type = "data"
         \/ Goto(p, "exit") /\ hand' = hand /\ Head(q.blocks).type # "data"
  BY DEF Takes, ReadData, ReadDelim, ReceiveFile, history
<1>4. call[p].kind \in Reads
  BY <1>3 DEF TypesInv, PlaceOK, Reads
<1>5. queue'[e].blocks = Rest(q) /\ \A f \in Ends : f # e => queue'[f] = queue[f]
  BY <1>1, <1>2, <1>3
<1>6. /\ \A s \in Procs : s # p => pc'[s] = pc[s] /\ hand'[s] = hand[s]
      /\ \/ pc[p] = "read" /\ pc'[p] = "iomove" /\ hand'[p] = Head(q.blocks) /\ Head(q.blocks).type = "data"
         \/ pc'[p] = "exit" /\ hand' = hand /\ Head(q.blocks).type # "data"
  BY <1>1, <1>3 DEF Goto
<1> QED BY <1>1, <1>3, <1>4, <1>5, <1>6

(* A block is copied out, and what is left of it goes back.                *)
LEMMA CopyFacts ==
  ASSUME TypesInv, NEW p \in Procs, ReadCopied(p), NEW e \in Ends, e = End(p)
  PROVE  /\ pc[p] = "iomove" /\ pc'[p] \in {"read", "exit"} /\ call[p].kind \in Reads
         /\ hand[p] \in DataBlock /\ hand'[p] = None
         /\ UNCHANGED <<sent, starts, linked, call, wrote>>
         /\ \A s \in Procs : s # p => pc'[s] = pc[s] /\ hand'[s] = hand[s] /\ seen'[s] = seen[s]
                                      /\ ucount'[s] = ucount[s]
         /\ seen'[p] \subseteq seen[p] \cup BytesIn(hand[p])
         /\ \A f \in Ends : f # e => queue'[f] = queue[f]
         /\ \/ queue'[e] = queue[e]
            \/ \E r \in DataBlock : /\ BytesIn(r) \subseteq BytesIn(hand[p])
                                    /\ queue'[e] = Putbq(queue[e], r)
<1> DEFINE b == hand[p]
           n == Wanted(p)
           r == Remainder(b, n)
<1>1. /\ pc[p] = "iomove" /\ hand' = [hand EXCEPT ![p] = None]
      /\ UNCHANGED <<sent, starts, linked, call, wrote>>
  BY DEF ReadCopied
<1>2. b \in DataBlock /\ ucount[p] \in Nat /\ call[p].kind \in Reads
  BY <1>1 DEF TypesInv, PlaceOK, ProcTypes, Reads
<1>3. n \in 0 .. Len(b.bytes)
  <2>1. Len(b.bytes) \in Nat
    BY <1>2, LenProperties DEF DataBlock
  <2>2. n \in {ucount[p], Len(b.bytes)} /\ n <= Len(b.bytes)
    BY <1>2, <2>1, MinOfTwo DEF Wanted
  <2> HIDE DEF n
  <2> QED BY <1>2, <2>1, <2>2
<1>4. PICK fault \in BOOLEAN :
        /\ ucount' = IF fault THEN ucount ELSE [ucount EXCEPT ![p] = @ - n]
        /\ seen' = IF fault THEN seen ELSE [seen EXCEPT ![p] = @ \cup {b.bytes[i] : i \in 1 .. n}]
        /\ queue' = IF r.bytes = <<>> THEN queue ELSE [queue EXCEPT ![e] = Putbq(@, r)]
        /\ Goto(p, IF fault \/ (r.bytes # <<>> /\ ucount[p] = n) THEN "exit" ELSE "read")
  BY PipeAssumption DEF ReadCopied, Remainder
<1> HIDE DEF n
<1>5. /\ BytesIn(r) \subseteq BytesIn(b) /\ {b.bytes[i] : i \in 1 .. n} \subseteq BytesIn(b)
      /\ r.bytes # <<>> => r \in DataBlock
  BY <1>2, <1>3, BytesRemain, QueueAssumption, RestOfBlock
<1> HIDE DEF r, b
<1>6. /\ pc \in [Procs -> PCs] /\ seen \in [Procs -> SUBSET Nat] /\ ucount \in [Procs -> Nat]
      /\ hand \in [Procs -> Blocks \cup {None}] /\ queue \in [Ends -> QueueType]
  BY DEF TypesInv, EndTypes, ProcTypes
<1>7. /\ \A f \in Ends : f # e => queue'[f] = queue[f]
      /\ queue'[e] = queue[e] \/ (r \in DataBlock /\ queue'[e] = Putbq(queue[e], r))
  BY <1>4, <1>5, <1>6
<1>8. /\ pc'[p] \in {"read", "exit"}
      /\ \A s \in Procs : s # p => pc'[s] = pc[s] /\ hand'[s] = hand[s]
  BY <1>1, <1>4, <1>6 DEF Goto
<1>9. /\ \A s \in Procs : s # p => seen'[s] = seen[s] /\ ucount'[s] = ucount[s]
      /\ seen'[p] \subseteq seen[p] \cup BytesIn(b)
  BY <1>4, <1>5, <1>6
<1>10. hand'[p] = None
  BY <1>1, <1>6
<1> QED BY <1>1, <1>2, <1>5, <1>7, <1>8, <1>9, <1>10 DEF b

(* A block is put; only the writer of one gets on with its call.           *)
LEMMA PutFacts ==
  ASSUME TypesInv, NEW p \in Procs, pc[p] # "user", NEW b \in Blocks, PutStep(p, b), NEW f \in Ends, f = Peer(End(p))
  PROVE  /\ QueueOK(queue[f]) /\ queue'[f] = IF linked THEN Putq(queue[f], b) ELSE queue[f]
         /\ \A g \in Ends : g # f => queue'[g] = queue[g]
         /\ linked' = linked /\ call' = call
<1>1. queue' = IF linked THEN [queue EXCEPT ![f] = Putq(@, b)] ELSE queue
  BY StrputFacts DEF PutStep
<1>2. queue \in [Ends -> QueueType] /\ QueueOK(queue[f])
  BY DEF TypesInv, EndTypes, QueuesOK
<1> QED BY <1>1, <1>2 DEF PutStep

(* The steps that end a record, or pass a file.                            *)
Closes(p) == WriteDelim(p) \/ (WriteBusy(p) /\ wrote[p]) \/ SendFile(p)

LEMMA CloseFacts ==
  ASSUME TypesInv, NEW p \in Procs, Closes(p)
  PROVE  /\ pc[p] \in {"write", "ioctl"} /\ call[p].kind \in Writes /\ pc' = [pc EXCEPT ![p] = "exit"]
         /\ UNCHANGED <<sent, starts, seen, ucount, wrote, hand>>
         /\ \E b \in Blocks : /\ PutStep(p, b) /\ BytesIn(b) = {} /\ b.type # "data"
                              /\ b.type = "delim" <=> ~SendFile(p)
<1>1. \/ ~SendFile(p) /\ pc[p] = "write" /\ PutStep(p, Delim)
      \/ SendFile(p) /\ pc[p] = "ioctl" /\ PutStep(p, Pass)
  BY Puts DEF Closes, WriteDelim, WriteBusy, SendFile
<1>2. /\ UNCHANGED <<sent, starts, seen, ucount, wrote, hand>> /\ pc' = [pc EXCEPT ![p] = "exit"]
  BY DEF Closes, WriteDelim, WriteBusy, SendFile, history, Goto
<1>3. call[p].kind \in Writes
  <2>1. SendFile(p) => call[p].kind = "sndfd"
    BY DEF SendFile
  <2> QED BY <1>1, <2>1 DEF TypesInv, PlaceOK, Writes
<1>4. Delim.type = "delim" /\ Pass.type = "pass" /\ Delim \in Blocks /\ Pass \in Blocks
  BY DEF Delim, Pass, Blocks
<1> QED BY <1>1, <1>2, <1>3, <1>4, BytesOfNone

LEMMA WrittenFacts ==
  ASSUME TypesInv, NEW p \in Procs, WritePut(p), NEW f \in Ends, f = Peer(End(p))
  PROVE  \E n \in 1 .. Cap : \E b \in Blocks :
           /\ pc[p] = "copyin" /\ call[p].kind \in Writes /\ PutStep(p, b) /\ n <= ucount[p]
           /\ b.type = "data" /\ BytesIn(b) = sent[f] + 1 .. sent[f] + n
           /\ sent' = IF linked THEN [sent EXCEPT ![f] = @ + n] ELSE sent
           /\ ucount' = [ucount EXCEPT ![p] = @ - n] /\ wrote' = [wrote EXCEPT ![p] = TRUE]
           /\ pc' = [pc EXCEPT ![p] = "write"] /\ UNCHANGED <<starts, seen, hand>>
<1> DEFINE n == Min({Cap, ucount[p]})
           b == Data([i \in 1 .. n |-> sent[f] + i])
<1>1. /\ pc[p] = "copyin" /\ PutStep(p, b) /\ n \in 1 .. Cap /\ n <= ucount[p]
      /\ b \in Blocks /\ b.type = "data"
      /\ b.bytes = [i \in 1 .. n |-> sent[f] + i] /\ Len(b.bytes) = n
  BY Puts
<1>2. /\ sent' = IF linked THEN [sent EXCEPT ![f] = @ + n] ELSE sent
      /\ ucount' = [ucount EXCEPT ![p] = @ - n] /\ wrote' = [wrote EXCEPT ![p] = TRUE]
      /\ pc' = [pc EXCEPT ![p] = "write"] /\ UNCHANGED <<starts, seen, hand>>
  BY DEF WritePut, Goto
<1>3. call[p].kind \in Writes
  BY <1>1 DEF TypesInv, PlaceOK, Writes
<1> HIDE DEF n, b
<1>4. BytesIn(b) = sent[f] + 1 .. sent[f] + n
  <2>1. sent[f] \in Nat /\ n \in Nat
    BY <1>1, QueueAssumption DEF TypesInv, EndTypes, QueueAssumption
  <2>2. \A i \in 1 .. n : b.bytes[i] = sent[f] + i
    BY <1>1
  <2>3. ASSUME NEW x \in sent[f] + 1 .. sent[f] + n
        PROVE  x \in BytesIn(b)
    <3>1. x - sent[f] \in 1 .. n /\ sent[f] + (x - sent[f]) = x
      BY <2>1
    <3> QED BY <1>1, <2>2, <3>1 DEF BytesIn
  <2>4. ASSUME NEW i \in 1 .. n
        PROVE  b.bytes[i] \in sent[f] + 1 .. sent[f] + n
    BY <2>1, <2>2
  <2> QED BY <1>1, <2>3, <2>4 DEF BytesIn
<1> QED BY <1>1, <1>2, <1>3, <1>4

(***************************************************************************)
(* The bytes that are on their way have been sent, and a write gets no     *)
(* further than it said.                                                   *)
(***************************************************************************)
Upto(B, n) == \A i \in 1 .. Len(B) : BytesIn(B[i]) \subseteq 1 .. n
Writing(p) == pc[p] \in {"write", "copyin"}
ProcBytes(p) ==
  /\ pc[p] = "iomove" => BytesIn(hand[p]) \subseteq 1 .. sent[End(p)]
  /\ pc[p] # "user" => seen[p] \subseteq 1 .. sent[End(p)]
  /\ Writing(p) => sent[Peer(End(p))] + ucount[p] <= MaxBytes
ByteInv ==
  /\ \A e \in Ends : /\ sent[e] <= MaxBytes /\ starts[e] \subseteq 0 .. sent[e]
                     /\ Upto(queue[e].blocks, sent[e])
  /\ \A p \in Procs : ProcBytes(p)

LEMMA UptoRest ==
  ASSUME NEW q \in QueueType, q.blocks # <<>>, NEW n, Upto(q.blocks, n)
  PROVE  Upto(Rest(q), n) /\ BytesIn(Head(q.blocks)) \subseteq 1 .. n
<1>1. /\ q.blocks \in Seq(Blocks) /\ Rest(q) \in Seq(Blocks) /\ Len(Rest(q)) = Len(q.blocks) - 1
      /\ \A i \in 1 .. Len(Rest(q)) : Rest(q)[i] = q.blocks[i + 1]
  BY QueueAssumption, RestOfQueue DEF QueueType
<1>2. Len(q.blocks) \in Nat \ {0} /\ Head(q.blocks) = q.blocks[1]
  BY <1>1, EmptySeq, LenProperties, HeadTailProperties
<1>3. \A i \in 1 .. Len(Rest(q)) : i + 1 \in 1 .. Len(q.blocks)
  BY <1>1, <1>2
<1>4. BytesIn(Head(q.blocks)) \subseteq 1 .. n
  <2>1. 1 \in 1 .. Len(q.blocks)
    BY <1>2
  <2> QED BY <1>2, <2>1 DEF Upto
<1>5. ASSUME NEW i \in 1 .. Len(Rest(q))
      PROVE  BytesIn(Rest(q)[i]) \subseteq 1 .. n
  BY <1>1, <1>3, <1>5 DEF Upto
<1> QED BY <1>4, <1>5 DEF Upto

LEMMA UptoPutbq ==
  ASSUME NEW q, QueueOK(q), NEW b \in Blocks, NEW n, Upto(q.blocks, n), BytesIn(b) \subseteq 1 .. n
  PROVE  Upto(Putbq(q, b).blocks, n)
<1> DEFINE s == Putbq(q, b).blocks
<1>1. /\ Len(s) = Len(q.blocks) + 1 /\ s[1] = b
      /\ \A i \in 1 .. Len(q.blocks) : s[i + 1] = q.blocks[i]
  BY QueueAssumption, PutbqKeeps
<1>2. Len(q.blocks) \in Nat
  BY LenProperties DEF QueueOK, QueueType
<1> HIDE DEF s
<1>3. ASSUME NEW i \in 1 .. Len(s)
      PROVE  BytesIn(s[i]) \subseteq 1 .. n
  <2>1. i = 1 \/ (i - 1 \in 1 .. Len(q.blocks) /\ (i - 1) + 1 = i)
    BY <1>1, <1>2
  <2> QED BY <1>1, <2>1 DEF Upto
<1> QED BY <1>3 DEF Upto, s

LEMMA UptoPutq ==
  ASSUME NEW q, QueueOK(q), NEW b \in Blocks, NEW n, Upto(q.blocks, n), BytesIn(b) \subseteq 1 .. n
  PROVE  Upto(Putq(q, b).blocks, n)
<1> DEFINE B == q.blocks
           C == Putq(q, b).blocks
           N == Len(B)
           K == Len(C)
<1>1. /\ K \in Nat \ {0} /\ K - 1 <= N /\ N <= K /\ N \in Nat
      /\ \A i \in 1 .. K - 1 : C[i] = B[i]
      /\ \/ K = N + 1 /\ C[K] = b
         \/ K = N /\ BytesIn(C[K]) \subseteq BytesIn(B[N]) \cup BytesIn(b)
  BY PutqBlocks, LenProperties DEF QueueOK, QueueType
<1> HIDE DEF B, C
<1>2. ASSUME NEW i \in 1 .. K
      PROVE  BytesIn(C[i]) \subseteq 1 .. n
  <2>1. CASE i # K
    <3>1. i \in 1 .. K - 1 /\ i \in 1 .. N
      BY <1>1, <2>1
    <3> QED BY <1>1, <3>1 DEF Upto, B
  <2>2. CASE i = K
    <3>1. K = N => N \in 1 .. N
      BY <1>1
    <3>2. K = N => BytesIn(B[N]) \subseteq 1 .. n
      BY <3>1 DEF Upto, B
    <3> QED BY <1>1, <2>2, <3>2
  <2> QED BY <2>1, <2>2
<1> QED BY <1>2 DEF Upto, C

LEMMA UptoMore ==
  ASSUME NEW B, NEW m \in Nat, NEW n \in Nat, m <= n, Upto(B, m)
  PROVE  Upto(B, n)
<1>1. 1 .. m \subseteq 1 .. n
  OBVIOUS
<1> QED BY <1>1 DEF Upto

LEMMA UptoFlushq ==
  ASSUME NEW q, QueueOK(q), NEW n
  PROVE  Upto(Flushq(q).blocks, n)
BY QueueAssumption, FlushqKeeps, BytesOfNone DEF Upto

(* Steps that start nothing and send nothing.                              *)
LEMMA BytesFrom ==
  ASSUME ByteInv, UNCHANGED <<sent, starts>>,
         \A e \in Ends : Upto(queue'[e].blocks, sent[e]),
         \A q \in Procs : pc'[q] # "user" =>
           /\ End(q)' = End(q) /\ seen'[q] \subseteq 1 .. sent[End(q)]
           /\ pc'[q] = "iomove" => BytesIn(hand'[q]) \subseteq 1 .. sent[End(q)]
           /\ pc'[q] \in {"write", "copyin"} => Writing(q) /\ ucount'[q] = ucount[q]
  PROVE  ByteInv'
<1>1. \A q \in Procs : ProcBytes(q)'
  BY DEF ByteInv, ProcBytes, Writing
<1> QED BY <1>1 DEF ByteInv

LEMMA QuietBytes ==
  ASSUME TypesInv, ByteInv, Quiet
  PROVE  ByteInv'
<1>1. UNCHANGED <<sent, starts>>
  BY DEF Quiet
<1>2. \A e \in Ends : Upto(queue'[e].blocks, sent[e])
  BY DEF Quiet, ByteInv, Upto
<1>3. \A q \in Procs : pc'[q] # "user" =>
           /\ End(q)' = End(q) /\ seen'[q] \subseteq 1 .. sent[End(q)]
           /\ pc'[q] = "iomove" => BytesIn(hand'[q]) \subseteq 1 .. sent[End(q)]
           /\ pc'[q] \in {"write", "copyin"} => Writing(q) /\ ucount'[q] = ucount[q]
  BY DEF Quiet, ByteInv, ProcBytes, Writing, End
<1> QED BY <1>1, <1>2, <1>3, BytesFrom

LEMMA TakeBytes ==
  ASSUME TypesInv, ByteInv, NEW p \in Procs, Takes(p)
  PROVE  ByteInv'
<1>1. PICK e \in Ends : e = End(p)
  <2>1. pc[p] # "user"
    BY DEF Takes, ReadData, ReadDelim, ReceiveFile
  <2> QED BY <2>1, CallOfProc
<1>2. /\ queue[e].blocks # <<>> /\ QueueOK(queue[e]) /\ queue'[e].blocks = Rest(queue[e])
      /\ \A f \in Ends : f # e => queue'[f] = queue[f]
      /\ UNCHANGED <<sent, starts, linked, call, seen, ucount, wrote>>
      /\ pc[p] \in {"read", "rcv"}
      /\ \A s \in Procs : s # p => pc'[s] = pc[s] /\ hand'[s] = hand[s]
      /\ \/ pc'[p] = "iomove" /\ hand'[p] = Head(queue[e].blocks)
         \/ pc'[p] = "exit" /\ hand' = hand
  BY <1>1, TakeFacts
<1>3. Upto(Rest(queue[e]), sent[e]) /\ BytesIn(Head(queue[e].blocks)) \subseteq 1 .. sent[e]
  BY <1>2, UptoRest DEF ByteInv, QueueOK
<1>4. \A f \in Ends : Upto(queue'[f].blocks, sent[f])
  BY <1>2, <1>3 DEF ByteInv
<1>5. \A q \in Procs : pc'[q] # "user" =>
           /\ End(q)' = End(q) /\ seen'[q] \subseteq 1 .. sent[End(q)]
           /\ pc'[q] = "iomove" => BytesIn(hand'[q]) \subseteq 1 .. sent[End(q)]
           /\ pc'[q] \in {"write", "copyin"} => Writing(q) /\ ucount'[q] = ucount[q]
  BY <1>1, <1>2, <1>3 DEF ByteInv, ProcBytes, Writing, End
<1> QED BY <1>2, <1>4, <1>5, BytesFrom

LEMMA CopyBytes ==
  ASSUME TypesInv, ByteInv, NEW p \in Procs, ReadCopied(p)
  PROVE  ByteInv'
<1>1. PICK e \in Ends : e = End(p)
  <2>1. pc[p] # "user"
    BY DEF ReadCopied
  <2> QED BY <2>1, CallOfProc
<1>2. /\ pc[p] = "iomove" /\ pc'[p] \in {"read", "exit"}
      /\ UNCHANGED <<sent, starts, linked, call, wrote>>
      /\ \A s \in Procs : s # p => pc'[s] = pc[s] /\ hand'[s] = hand[s] /\ seen'[s] = seen[s]
                                   /\ ucount'[s] = ucount[s]
      /\ seen'[p] \subseteq seen[p] \cup BytesIn(hand[p])
      /\ \A f \in Ends : f # e => queue'[f] = queue[f]
      /\ \/ queue'[e] = queue[e]
         \/ \E r \in DataBlock : /\ BytesIn(r) \subseteq BytesIn(hand[p])
                                 /\ queue'[e] = Putbq(queue[e], r)
  BY <1>1, CopyFacts
<1>3. BytesIn(hand[p]) \subseteq 1 .. sent[e] /\ seen[p] \subseteq 1 .. sent[e]
  BY <1>1, <1>2 DEF ByteInv, ProcBytes
<1>4. \A f \in Ends : Upto(queue'[f].blocks, sent[f])
  <2>1. ASSUME NEW r \in DataBlock, BytesIn(r) \subseteq BytesIn(hand[p])
        PROVE  Upto(Putbq(queue[e], r).blocks, sent[e])
    <3>1. r \in Blocks /\ BytesIn(r) \subseteq 1 .. sent[e] /\ QueueOK(queue[e]) /\ Upto(queue[e].blocks, sent[e])
      BY <1>3, <2>1 DEF Blocks, TypesInv, QueuesOK, ByteInv
    <3> QED BY <3>1, UptoPutbq
  <2> QED BY <1>2, <2>1 DEF ByteInv
<1>5. \A q \in Procs : pc'[q] # "user" =>
           /\ End(q)' = End(q) /\ seen'[q] \subseteq 1 .. sent[End(q)]
           /\ pc'[q] = "iomove" => BytesIn(hand'[q]) \subseteq 1 .. sent[End(q)]
           /\ pc'[q] \in {"write", "copyin"} => Writing(q) /\ ucount'[q] = ucount[q]
  BY <1>1, <1>2, <1>3 DEF ByteInv, ProcBytes, Writing, End
<1> QED BY <1>2, <1>4, <1>5, BytesFrom

LEMMA CloseBytes ==
  ASSUME TypesInv, ByteInv, NEW p \in Procs, Closes(p)
  PROVE  ByteInv'
<1>1. /\ pc[p] # "user" /\ pc' = [pc EXCEPT ![p] = "exit"] /\ pc \in [Procs -> PCs]
      /\ UNCHANGED <<sent, starts, seen, ucount, wrote, hand>>
  BY CloseFacts DEF TypesInv, ProcTypes
<1>2. PICK b \in Blocks : PutStep(p, b) /\ BytesIn(b) = {}
  BY CloseFacts
<1>3. PICK f \in Ends : f = Peer(End(p))
  BY <1>1, CallOfProc, PeerFacts
<1>4. /\ QueueOK(queue[f]) /\ queue'[f] = IF linked THEN Putq(queue[f], b) ELSE queue[f]
      /\ \A g \in Ends : g # f => queue'[g] = queue[g]
      /\ call' = call
  BY <1>1, <1>2, <1>3, PutFacts
<1>5. \A e \in Ends : Upto(queue'[e].blocks, sent[e])
  BY <1>2, <1>4, UptoPutq DEF ByteInv
<1>6. \A q \in Procs : pc'[q] # "user" =>
           /\ End(q)' = End(q) /\ seen'[q] \subseteq 1 .. sent[End(q)]
           /\ pc'[q] = "iomove" => BytesIn(hand'[q]) \subseteq 1 .. sent[End(q)]
           /\ pc'[q] \in {"write", "copyin"} => Writing(q) /\ ucount'[q] = ucount[q]
  BY <1>1, <1>4 DEF ByteInv, ProcBytes, Writing, End
<1> QED BY <1>1, <1>5, <1>6, BytesFrom

LEMMA FlushBytes ==
  ASSUME TypesInv, ByteInv, NEW p \in Procs, Flush(p)
  PROVE  ByteInv'
<1>1. /\ queue' = [e \in Ends |-> IF e = End(p) \/ linked THEN Flushq(queue[e]) ELSE queue[e]]
      /\ pc' = [pc EXCEPT ![p] = "exit"] /\ pc[p] # "user" /\ pc \in [Procs -> PCs]
      /\ UNCHANGED <<sent, starts, seen, ucount, wrote, hand, call>>
  BY DEF Flush, Goto, history, TypesInv, ProcTypes
<1>2. \A e \in Ends : Upto(queue'[e].blocks, sent[e])
  BY <1>1, UptoFlushq DEF TypesInv, QueuesOK, ByteInv
<1>3. \A q \in Procs : pc'[q] # "user" =>
           /\ End(q)' = End(q) /\ seen'[q] \subseteq 1 .. sent[End(q)]
           /\ pc'[q] = "iomove" => BytesIn(hand'[q]) \subseteq 1 .. sent[End(q)]
           /\ pc'[q] \in {"write", "copyin"} => Writing(q) /\ ucount'[q] = ucount[q]
  BY <1>1 DEF ByteInv, ProcBytes, Writing, End
<1> QED BY <1>1, <1>2, <1>3, BytesFrom

(* Those who write to an end are one process, those who read it another.   *)
LEMMA TheWriter ==
  ASSUME TypesInv, OneWriter, NEW p \in Procs, NEW q \in Procs, pc[p] # "user", pc[q] # "user",
         call[p].kind \in Writes, call[q].kind \in Writes, End(p) = End(q)
  PROVE  p = q
<1>1. call[p] \in CallsOf[p] /\ call[q] \in CallsOf[q] /\ call[p].end = call[q].end
  BY CallOfProc DEF End
<1> QED BY <1>1 DEF OneWriter

LEMMA TheReader ==
  ASSUME TypesInv, OneReader, NEW p \in Procs, NEW q \in Procs, pc[p] # "user", pc[q] # "user",
         call[p].kind \in Reads, call[q].kind \in Reads, End(p) = End(q)
  PROVE  p = q
<1>1. call[p] \in CallsOf[p] /\ call[q] \in CallsOf[q] /\ call[p].end = call[q].end
  BY CallOfProc DEF End
<1> QED BY <1>1 DEF OneReader

LEMMA WrittenBytes ==
  ASSUME TypesInv, ByteInv, OneWriter, NEW p \in Procs, WritePut(p)
  PROVE  ByteInv'
<1>1. pc[p] = "copyin" /\ pc[p] # "user"
  BY DEF WritePut
<1>2. PICK e \in Ends, f \in Ends : e = End(p) /\ f = Peer(e) /\ e = Peer(f)
  BY <1>1, CallOfProc, PeerFacts
<1>3. PICK n \in 1 .. Cap, b \in Blocks :
           /\ call[p].kind \in Writes /\ PutStep(p, b) /\ n <= ucount[p]
           /\ BytesIn(b) = sent[f] + 1 .. sent[f] + n
           /\ sent' = IF linked THEN [sent EXCEPT ![f] = @ + n] ELSE sent
           /\ ucount' = [ucount EXCEPT ![p] = @ - n] /\ wrote' = [wrote EXCEPT ![p] = TRUE]
           /\ pc' = [pc EXCEPT ![p] = "write"] /\ UNCHANGED <<starts, seen, hand>>
  BY <1>2, WrittenFacts
<1>4. /\ QueueOK(queue[f]) /\ queue'[f] = IF linked THEN Putq(queue[f], b) ELSE queue[f]
      /\ \A g \in Ends : g # f => queue'[g] = queue[g]
      /\ call' = call
  BY <1>1, <1>2, <1>3, PutFacts
<1>5. /\ n \in Nat /\ ucount[p] \in Nat /\ pc \in [Procs -> PCs] /\ ucount \in [Procs -> Nat]
      /\ sent \in [Ends -> Nat] /\ MaxBytes \in Nat /\ sent[f] + ucount[p] <= MaxBytes
  <2>1. /\ ucount[p] \in Nat /\ pc \in [Procs -> PCs] /\ ucount \in [Procs -> Nat]
        /\ sent \in [Ends -> Nat] /\ MaxBytes \in Nat /\ Cap \in Nat
    BY QueueAssumption, PipeAssumption DEF TypesInv, ProcTypes, EndTypes, QueueAssumption
  <2>2. ProcBytes(p) /\ Writing(p)
    BY <1>1 DEF ByteInv, Writing
  <2>3. sent[f] + ucount[p] <= MaxBytes
    BY <1>2, <2>2 DEF ProcBytes
  <2> QED BY <2>1, <2>3
<1>6. /\ \A g \in Ends : sent'[g] \in Nat /\ sent[g] <= sent'[g] /\ sent[g] \in Nat
      /\ \A g \in Ends : g # f => sent'[g] = sent[g]
      /\ sent'[f] = IF linked THEN sent[f] + n ELSE sent[f]
  BY <1>3, <1>5
<1>7. ASSUME NEW g \in Ends
      PROVE  sent'[g] <= MaxBytes /\ starts'[g] \subseteq 0 .. sent'[g] /\ Upto(queue'[g].blocks, sent'[g])
  <2>1. sent[g] <= MaxBytes /\ starts[g] \subseteq 0 .. sent[g] /\ Upto(queue[g].blocks, sent[g])
    BY DEF ByteInv
  <2>2. Upto(queue[g].blocks, sent'[g])
    BY <1>6, <2>1, UptoMore
  <2>3. starts'[g] \subseteq 0 .. sent'[g]
    BY <1>3, <1>6, <2>1
  <2>4. sent'[g] <= MaxBytes
    BY <1>3, <1>5, <1>6, <2>1
  <2>5. CASE g = f /\ linked
    <3>1. BytesIn(b) \subseteq 1 .. sent'[f]
      BY <1>3, <1>5, <1>6, <2>5
    <3> QED BY <1>4, <2>2, <2>3, <2>4, <2>5, <3>1, UptoPutq
  <2>6. CASE ~(g = f /\ linked)
    BY <1>4, <2>2, <2>3, <2>4, <2>6
  <2> QED BY <2>5, <2>6
<1>8. ASSUME NEW q \in Procs
      PROVE  ProcBytes(q)'
  <2>1. ProcBytes(q) /\ End(q)' = End(q) /\ seen'[q] = seen[q] /\ hand'[q] = hand[q]
    BY <1>3, <1>4 DEF ByteInv, End
  <2>2. pc'[q] = IF q = p THEN "write" ELSE pc[q]
    BY <1>3, <1>5
  <2>3. pc'[q] # "user" => pc[q] # "user" /\ End(q) \in Ends
    BY <1>1, <2>2, CallOfProc
  <2>4. pc'[q] # "user" => 1 .. sent[End(q)] \subseteq 1 .. sent'[End(q)]
    BY <1>6, <2>3
  <2>5. /\ pc'[q] = "iomove" => BytesIn(hand'[q]) \subseteq 1 .. sent'[End(q)]
        /\ pc'[q] # "user" => seen'[q] \subseteq 1 .. sent'[End(q)]
    BY <2>1, <2>2, <2>3, <2>4 DEF ProcBytes
  <2>6. ASSUME pc'[q] \in {"write", "copyin"}
        PROVE  sent'[Peer(End(q))] + ucount'[q] <= MaxBytes
    <3>1. CASE q = p
      <4>1. ucount'[q] = ucount[p] - n /\ Peer(End(q)) = f
        BY <1>2, <1>3, <1>5, <3>1
      <4> QED BY <1>3, <1>5, <1>6, <4>1
    <3>2. CASE q # p
      <4>1. /\ pc[q] \in {"write", "copyin"} /\ ucount'[q] = ucount[q] /\ End(q) \in Ends
        BY <1>3, <1>5, <2>2, <2>3, <2>6, <3>2
      <4>2. call[q].kind \in Writes /\ pc[q] # "user"
        BY <4>1 DEF TypesInv, PlaceOK, Writes
      <4>3. End(q) # e
        BY <1>1, <1>2, <1>3, <3>2, <4>2, TheWriter
      <4>4. Peer(End(q)) # f /\ Peer(End(q)) \in Ends
        BY <1>2, <4>1, <4>3, PeerFacts
      <4>5. sent[Peer(End(q))] + ucount[q] <= MaxBytes
        BY <2>1, <4>1 DEF ProcBytes, Writing
      <4> QED BY <1>6, <4>1, <4>4, <4>5
    <3> QED BY <3>1, <3>2
  <2> QED BY <2>1, <2>5, <2>6 DEF ProcBytes, Writing
<1> QED BY <1>7, <1>8 DEF ByteInv

(* What stenter does.                                                      *)
LEMMA EnterFacts ==
  ASSUME TypesInv, NEW p \in Procs, NEW c \in CallsOf[p], Stenter(p, c)
  PROVE  /\ pc[p] = "user" /\ seen[p] = {} /\ ~wrote[p] /\ c.end \in Ends /\ Peer(c.end) \in Ends
         /\ c.end \in streaming
         /\ UNCHANGED <<queue, linked, sent, seen, hand, wrote>>
         /\ pc'[p] \in {"read", "write", "rcv", "ioctl"} /\ call'[p] = c /\ ucount'[p] = c.n
         /\ pc'[p] = "write" <=> c.kind = "write"
         /\ pc'[p] = "read" <=> c.kind = "read"
         /\ \A q \in Procs : q # p => pc'[q] = pc[q] /\ call'[q] = call[q] /\ ucount'[q] = ucount[q]
         /\ c.kind = "write" => sent[Peer(c.end)] + c.n <= MaxBytes
         /\ starts' = IF c.kind = "write"
                      THEN [starts EXCEPT ![Peer(c.end)] = @ \cup {sent[Peer(c.end)]}] ELSE starts
<1>1. /\ c.kind \in Kinds /\ c.kind # "close" /\ c.end \in Ends /\ Peer(c.end) \in Ends
  BY CallFacts, PeerFacts DEF Stenter
<1>2. /\ pc[p] = "user" /\ seen[p] = {} /\ ~wrote[p] /\ c.end \in streaming
      /\ pc' = [pc EXCEPT ![p] = Entry(c.kind)] /\ call' = [call EXCEPT ![p] = c]
      /\ ucount' = [ucount EXCEPT ![p] = c.n]
      /\ UNCHANGED <<queue, linked, sent, seen, hand, wrote>>
      /\ c.kind = "write" => sent[Peer(c.end)] + c.n <= MaxBytes
      /\ starts' = IF c.kind = "write"
                   THEN [starts EXCEPT ![Peer(c.end)] = @ \cup {sent[Peer(c.end)]}] ELSE starts
  BY DEF Stenter, Goto, TypesInv, PlaceOK
<1>3. /\ Entry(c.kind) \in {"read", "write", "rcv", "ioctl"}
      /\ Entry(c.kind) = "write" <=> c.kind = "write"
      /\ Entry(c.kind) = "read" <=> c.kind = "read"
  BY <1>1 DEF Entry, Kinds
<1>4. /\ pc \in [Procs -> PCs] /\ call \in [Procs -> Call \cup {None}] /\ ucount \in [Procs -> Nat]
  BY DEF TypesInv, ProcTypes
<1> QED BY <1>1, <1>2, <1>3, <1>4

LEMMA EnterBytes ==
  ASSUME TypesInv, ByteInv, NEW p \in Procs, NEW c \in CallsOf[p], Stenter(p, c)
  PROVE  ByteInv'
<1>1. PICK e \in Ends, f \in Ends : e = c.end /\ f = Peer(e)
  BY EnterFacts
<1>2. /\ pc[p] = "user" /\ seen[p] = {}
      /\ UNCHANGED <<queue, sent, seen, hand>>
      /\ pc'[p] \in {"read", "write", "rcv", "ioctl"} /\ call'[p] = c /\ ucount'[p] = c.n
      /\ pc'[p] = "write" <=> c.kind = "write"
      /\ \A q \in Procs : q # p => pc'[q] = pc[q] /\ call'[q] = call[q] /\ ucount'[q] = ucount[q]
      /\ c.kind = "write" => sent[f] + c.n <= MaxBytes
      /\ starts' = IF c.kind = "write" THEN [starts EXCEPT ![f] = @ \cup {sent[f]}] ELSE starts
  BY <1>1, EnterFacts
<1>3. \A g \in Ends : starts'[g] \subseteq 0 .. sent[g]
  <2>1. sent[f] \in 0 .. sent[f] /\ starts \in [Ends -> SUBSET Nat]
    BY DEF TypesInv, EndTypes
  <2> QED BY <1>2, <2>1 DEF ByteInv
<1>4. ASSUME NEW q \in Procs
      PROVE  ProcBytes(q)'
  <2>1. CASE q = p
    <3>1. End(q)' = e
      BY <1>1, <1>2, <2>1 DEF End
    <3> QED BY <1>1, <1>2, <2>1, <3>1 DEF ProcBytes, Writing
  <2>2. CASE q # p
    <3>1. End(q)' = End(q)
      BY <1>2, <2>2 DEF End
    <3> QED BY <1>2, <2>2, <3>1 DEF ProcBytes, Writing, ByteInv
  <2> QED BY <2>1, <2>2
<1> QED BY <1>2, <1>3, <1>4 DEF ByteInv

(* Every step is of one of these kinds.                                    *)
Quietly ==
  \/ \E p \in Procs : QuietStep(p)
  \/ \E p \in Procs : \E c \in CallsOf[p] : Close(p, c)
  \/ \E e \in Ends : Stwsrv(e)
  \/ UNCHANGED vars

LEMMA QuietAlways ==
  ASSUME TypesInv, Quietly
  PROVE  Quiet
BY QuietSteps, QuietOthers DEF Quietly

LEMMA KindsOfSteps ==
  ASSUME TypesInv, [Next]_vars
  PROVE  \/ Quietly
         \/ \E p \in Procs : \/ Takes(p) \/ ReadCopied(p) \/ Closes(p) \/ WritePut(p)
                             \/ Flush(p) \/ \E c \in CallsOf[p] : Stenter(p, c)
<1>1. ASSUME NEW p \in Procs, Proceed(p)
      PROVE  QuietStep(p) \/ Takes(p) \/ ReadCopied(p) \/ Closes(p) \/ WritePut(p) \/ Flush(p)
  <2>1. CASE Stread(p)
    BY <2>1 DEF Stread, QuietStep, Takes
  <2>2. CASE Stwrite(p)
    BY <2>2 DEF Stwrite, QuietStep, Closes
  <2>3. CASE Stioctl(p)
    BY <2>3 DEF Stioctl, QuietStep, Closes, Takes
  <2>4. CASE Stexit(p)
    BY <2>4 DEF QuietStep
  <2> QED BY <1>1, <2>1, <2>2, <2>3, <2>4 DEF Proceed
<1>2. ASSUME NEW p \in Procs, Signal(p)
      PROVE  Quietly
  BY <1>2 DEF QuietStep, Quietly
<1> QED BY <1>1, <1>2 DEF Next, Enter, Quietly

LEMMA BytesStep ==
  ASSUME TypesInv, ByteInv, OneWriter, [Next]_vars
  PROVE  ByteInv'
BY KindsOfSteps, QuietAlways, QuietBytes, TakeBytes, CopyBytes, CloseBytes, WrittenBytes, FlushBytes, EnterBytes

LEMMA BytesInit ==
  ASSUME Init
  PROVE  ByteInv
<1>1. \A e \in Ends : queue[e].blocks = <<>> /\ sent[e] = 0 /\ starts[e] = {}
  BY DEF Init, Empty
<1>2. \A p \in Procs : pc[p] = "user"
  BY DEF Init
<1>3. \A p \in Procs : ProcBytes(p)
  BY <1>2 DEF ProcBytes, Writing
<1>4. ASSUME NEW e \in Ends
      PROVE  /\ sent[e] <= MaxBytes /\ starts[e] \subseteq 0 .. sent[e] /\ Upto(queue[e].blocks, sent[e])
  <2>1. 1 .. Len(<<>>) = {}
    OBVIOUS
  <2>2. Upto(queue[e].blocks, sent[e])
    BY <1>1, <2>1 DEF Upto
  <2>3. sent[e] <= MaxBytes /\ starts[e] \subseteq 0 .. sent[e]
    <3>1. MaxBytes \in Nat
      BY PipeAssumption
    <3>2. 0 <= MaxBytes
      BY <3>1
    <3> QED BY <1>1, <3>2
  <2> QED BY <2>2, <2>3
<1> QED BY <1>3, <1>4 DEF ByteInv

(* A sequence whose elements belong to a set is a sequence over the set.   *)
LEMMA SeqOfParts ==
  ASSUME NEW S, NEW T, NEW s \in Seq(S), \A i \in 1 .. Len(s) : s[i] \in T
  PROVE  s \in Seq(T)
<1>1. Len(s) \in Nat /\ s \in [1 .. Len(s) -> S]
  BY LenProperties
<1>2. s \in [1 .. Len(s) -> T]
  BY <1>1
<1> QED BY <1>1, <1>2, SeqDef

(* A block whose bytes have been sent.                                     *)
LEMMA BlockOfBytes ==
  ASSUME NEW b \in Blocks, BytesIn(b) \subseteq 1 .. MaxBytes
  PROVE  b \in Block
<1>1. b.bytes \in Seq(Nat)
  <2>1. CASE b \in DataBlock
    BY <2>1 DEF DataBlock
  <2>2. CASE b \in {Delim, Pass}
    <3>1. b.bytes = <<>>
      BY <2>2 DEF Delim, Pass
    <3> QED BY <3>1
  <2> QED BY <2>1, <2>2 DEF Blocks
<1>2. \A i \in 1 .. Len(b.bytes) : b.bytes[i] \in 1 .. MaxBytes
  BY DEF BytesIn
<1>3. b.bytes \in Seq(1 .. MaxBytes)
  BY <1>1, <1>2, SeqOfParts
<1>4. CASE b \in DataBlock
  <2>1. b \in [type : {"data"}, bytes : Seq(Nat), room : 0 .. Cap]
    BY <1>4 DEF DataBlock
  <2> QED BY <1>3, <2>1 DEF Block
<1>5. CASE b \in {Delim, Pass}
  BY <1>3, <1>5, QueueAssumption DEF Block, Delim, Pass, QueueAssumption
<1> QED BY <1>4, <1>5 DEF Blocks

(* The types of the pipe, when an end has one writer.                      *)
THEOREM TypeCorrect ==
  ASSUME OneWriter
  PROVE  Spec => []TypeOK
<1>1. ASSUME PipeInv, ByteInv
      PROVE  TypeOK
  <2>1. TypesInv /\ EndTypes /\ ProcTypes
    BY <1>1 DEF PipeInv, TypesInv
  <2>2. ASSUME NEW e \in Ends
        PROVE  /\ queue[e].blocks \in Seq(Block) /\ queue[e].flag \subseteq QFlags
               /\ \A i \in 1 .. Len(queue[e].blocks) :
                    LET b == queue[e].blocks[i] IN
                    b.type = "data" => Len(b.bytes) \in 1 .. Cap /\ Len(b.bytes) + b.room <= Cap
               /\ sent[e] \in 0 .. MaxBytes /\ starts[e] \subseteq 0 .. MaxBytes
    <3> DEFINE B == queue[e].blocks
    <3>1. B \in Seq(Blocks) /\ queue[e].flag \subseteq QFlags /\ Len(B) \in Nat
      BY <2>1, LenProperties DEF EndTypes, QueueType
    <3>2. sent[e] \in Nat /\ sent[e] <= MaxBytes /\ starts[e] \subseteq 0 .. sent[e] /\ Upto(B, sent[e])
          /\ MaxBytes \in Nat
      BY <1>1, <2>1, PipeAssumption DEF ByteInv, EndTypes
    <3>3. ASSUME NEW i \in 1 .. Len(B)
          PROVE  /\ B[i] \in Block
                 /\ B[i].type = "data" => Len(B[i].bytes) \in 1 .. Cap /\ Len(B[i].bytes) + B[i].room <= Cap
      <4>1. B[i] \in Blocks /\ BytesIn(B[i]) \subseteq 1 .. MaxBytes
        BY <3>1, <3>2, ElementOfSeq DEF Upto
      <4> DEFINE b == B[i]
      <4>2. b \in Blocks /\ BytesIn(b) \subseteq 1 .. MaxBytes
        BY <4>1
      <4> HIDE DEF b
      <4>3. b \in Block
        BY <4>2, BlockOfBytes
      <4>4. b.type = "data" => Len(b.bytes) \in 1 .. Cap /\ Len(b.bytes) + b.room <= Cap
        BY <4>2 DEF Blocks, DataBlock, Delim, Pass
      <4> QED BY <4>3, <4>4 DEF b
    <3>4. B \in Seq(Block)
      <4> HIDE DEF B
      <4> QED BY <3>1, <3>3, SeqOfParts
    <3> QED BY <3>1, <3>2, <3>3, <3>4
  <2>3. /\ sflag \in [Ends -> SUBSET {"RSLEEP", "WSLEEP", "HUNGUP", "WNBLK"}]
        /\ fd \in [Ends -> SUBSET Procs]
        /\ streaming \subseteq Ends /\ linked \in BOOLEAN /\ enabled \subseteq Ends
        /\ pc \in [Procs -> PCs] /\ ucount \in [Procs -> Nat] /\ wrote \in [Procs -> BOOLEAN]
        /\ cur \in Procs \cup {None}
    BY <2>1 DEF EndTypes, ProcTypes, StreamFlags
  <2>4. count \in [Ends -> Nat]
    <3>1. \A e \in Ends : count[e] \in Int /\ Cardinality(Inside(e)) \in Nat /\ Cardinality(Inside(e)) <= count[e]
      BY <1>1, <2>1, InsideFinite DEF EndTypes, PipeInv, CountInv
    <3>2. \A e \in Ends : count[e] \in Nat
      BY <3>1
    <3> QED BY <2>1, <3>2 DEF EndTypes
  <2>5. ASSUME NEW p \in Procs
        PROVE  /\ call[p] \in IF pc[p] = "user" THEN {None} ELSE CallsOf[p]
               /\ IF pc[p] = "iomove" THEN hand[p] \in Block ELSE hand[p] = None
               /\ wchan[p] \in Chans \cup {None} /\ seen[p] \subseteq 1 .. MaxBytes
    <3>1. PlaceOK(p) /\ ProcBytes(p) /\ wchan[p] \in Chans \cup {None}
      BY <1>1, <2>1 DEF TypesInv, ByteInv, ProcTypes
    <3>2. pc[p] # "user" => /\ End(p) \in Ends /\ sent[End(p)] \in Nat /\ sent[End(p)] <= MaxBytes
                            /\ 1 .. sent[End(p)] \subseteq 1 .. MaxBytes
      <4>1. MaxBytes \in Nat
        BY PipeAssumption
      <4>2. ASSUME pc[p] # "user"
            PROVE  /\ End(p) \in Ends /\ sent[End(p)] \in Nat /\ sent[End(p)] <= MaxBytes
        <5>1. End(p) \in Ends
          BY <2>1, <4>2, CallOfProc
        <5> QED BY <1>1, <2>1, <5>1 DEF ByteInv, EndTypes
      <4> QED BY <4>1, <4>2
    <3>3. pc[p] = "iomove" => hand[p] \in Block
      BY <3>1, <3>2, BlockOfBytes DEF ProcBytes, PlaceOK, Blocks
    <3> QED BY <3>1, <3>2, <3>3 DEF PlaceOK, ProcBytes
  <2> QED BY <2>2, <2>3, <2>4, <2>5 DEF TypeOK
<1>2. ASSUME PipeInv, ByteInv, [Next]_vars
      PROVE  PipeInv' /\ ByteInv'
  <2>1. TypesInv
    BY <1>2 DEF PipeInv
  <2> QED BY <1>2, <2>1, PipeStep, BytesStep
<1>3. Init => PipeInv /\ ByteInv
  BY PipeInit, BytesInit
<1> QED BY <1>1, <1>2, <1>3, PTL DEF Spec

(***************************************************************************)
(* How far a queue passes its limit, when an end has one writer and one    *)
(* reader                                                                  *)
(***************************************************************************)
(* What the queue weighs, with the block that its reader may put back.     *)
InHand(e) == IF \E p \in Procs : pc[p] = "iomove" /\ End(p) = e THEN DataWeight ELSE 0
Load(e) == Count(queue[e].blocks) + InHand(e)

(* A writer that copies has found room, and one that has put a block has   *)
(* put only that since.                                                    *)
WriterRoom(p) ==
  /\ pc[p] = "copyin" => Load(Peer(End(p))) < Limit + DataWeight
  /\ pc[p] = "write" /\ wrote[p] => Load(Peer(End(p))) < Limit + 2 * DataWeight
BoundInv ==
  /\ \A e \in Ends : Load(e) < Limit + 2 * DataWeight + DelimWeight
  /\ \A p \in Procs : WriterRoom(p)

LEMMA LoadTypes ==
  ASSUME TypesInv, NEW e \in Ends
  PROVE  /\ Count(queue[e].blocks) \in Nat /\ InHand(e) \in {0, DataWeight} /\ Load(e) \in Nat
         /\ Load(e) = Count(queue[e].blocks) + InHand(e) /\ InHand(e) <= DataWeight
         /\ Limit \in Nat /\ DataWeight \in Nat \ {0} /\ DelimWeight \in Nat \ {0}
<1>1. Limit \in Nat /\ DataWeight \in Nat \ {0} /\ DelimWeight \in Nat \ {0}
  BY QueueAssumption DEF QueueAssumption
<1>2. InHand(e) \in {0, DataWeight}
  BY DEF InHand
<1>3. Count(queue[e].blocks) \in Nat
  BY QueueAssumption, CountType DEF TypesInv, EndTypes, QueueType
<1> QED BY <1>1, <1>2, <1>3 DEF Load

(* The same in the next state.                                             *)
LEMMA LoadTypesNext ==
  ASSUME TypesInv', NEW e \in Ends
  PROVE  /\ Count(queue'[e].blocks) \in Nat /\ InHand(e)' \in {0, DataWeight} /\ Load(e)' \in Nat
         /\ Load(e)' = Count(queue'[e].blocks) + InHand(e)' /\ InHand(e)' <= DataWeight
<1>1. DataWeight \in Nat \ {0}
  BY QueueAssumption DEF QueueAssumption
<1>2. InHand(e)' \in {0, DataWeight}
  BY DEF InHand
<1>3. Count(queue'[e].blocks) \in Nat
  BY QueueAssumption, CountType DEF TypesInv, EndTypes, QueueType
<1> QED BY <1>1, <1>2, <1>3 DEF Load

(* The hands at an end do not fill when nobody there starts to copy.       *)
LEMMA HandsFall ==
  ASSUME TypesInv, NEW e \in Ends,
         \A q \in Procs : pc'[q] = "iomove" /\ End(q)' = e => pc[q] = "iomove" /\ End(q) = e
  PROVE  InHand(e)' <= InHand(e)
<1>1. DataWeight \in Nat
  BY QueueAssumption DEF QueueAssumption
<1> QED BY <1>1 DEF InHand

(* Steps in which the loads fall.                                          *)
LEMMA LoadsFall ==
  ASSUME TypesInv, TypesInv', BoundInv, \A e \in Ends : Load(e)' <= Load(e),
         \A q \in Procs : /\ pc'[q] = "copyin" =>
                               \/ pc[q] = "copyin" /\ call'[q] = call[q]
                               \/ call'[q] = call[q] /\ pc[q] # "user"
                                  /\ Load(Peer(End(q))) < Limit + DataWeight
                          /\ pc'[q] = "write" /\ wrote'[q] =>
                               pc[q] = "write" /\ wrote[q] /\ call'[q] = call[q]
  PROVE  BoundInv'
<1>1. ASSUME NEW e \in Ends
      PROVE  Load(e)' \in Nat /\ Load(e) \in Nat /\ Load(e)' <= Load(e)
  BY <1>1, LoadTypes, LoadTypesNext
<1>2. Limit \in Nat /\ DataWeight \in Nat /\ DelimWeight \in Nat
  BY QueueAssumption DEF QueueAssumption
<1>3. ASSUME NEW e \in Ends
      PROVE  Load(e)' < Limit + 2 * DataWeight + DelimWeight
  <2>1. Load(e) < Limit + 2 * DataWeight + DelimWeight
    BY DEF BoundInv
  <2> QED BY <1>1, <1>2, <2>1
<1>4. ASSUME NEW q \in Procs
      PROVE  WriterRoom(q)'
  <2>1. CASE pc'[q] = "copyin" \/ (pc'[q] = "write" /\ wrote'[q])
    <3>1. pc[q] # "user" /\ call'[q] = call[q]
      BY <2>1
    <3>2. PICK f \in Ends : f = Peer(End(q))
      BY <3>1, CallOfProc, PeerFacts
    <3>3. Peer(End(q))' = f
      BY <3>1, <3>2 DEF End
    <3>4. WriterRoom(q)
      BY DEF BoundInv
    <3>5. pc'[q] = "copyin" => Load(f) < Limit + DataWeight
      BY <3>2, <3>4 DEF WriterRoom
    <3>6. pc'[q] = "write" /\ wrote'[q] => Load(f) < Limit + 2 * DataWeight
      BY <3>2, <3>4 DEF WriterRoom
    <3>7. /\ pc'[q] = "copyin" => Load(f)' < Limit + DataWeight
          /\ pc'[q] = "write" /\ wrote'[q] => Load(f)' < Limit + 2 * DataWeight
      BY <1>1, <1>2, <3>5, <3>6
    <3>8. Load(Peer(End(q)))' = Load(f)'
      BY <3>3
    <3> QED BY <3>7, <3>8 DEF WriterRoom
  <2>2. CASE ~(pc'[q] = "copyin" \/ (pc'[q] = "write" /\ wrote'[q]))
    BY <2>2 DEF WriterRoom
  <2> QED BY <2>1, <2>2
<1> QED BY <1>3, <1>4 DEF BoundInv

(* Whoever finds a queue not full finds room in it.                        *)
LEMMA RoomFound ==
  ASSUME PipeInv, NEW p \in Procs, pc[p] # "user", NEW f \in Ends, f = Peer(End(p)),
         ~Full(End(p)), "HUNGUP" \notin sflag[End(p)]
  PROVE  linked /\ Count(queue[f].blocks) < Limit /\ Load(f) < Limit + DataWeight
<1>0. TypesInv
  BY DEF PipeInv
<1>1. End(p) \in Ends /\ p \in Inside(End(p))
  BY <1>0, CallOfProc DEF Inside
<1>2. linked
  BY <1>1 DEF PipeInv, LinkInv
<1>3. "QFULL" \notin queue[f].flag /\ QueueOK(queue[f])
  BY <1>0, <1>2 DEF Full, TypesInv, QueuesOK
<1>4. ~(Count(queue[f].blocks) >= Limit)
  BY <1>3 DEF QueueOK
<1>5. Count(queue[f].blocks) \in Nat /\ InHand(f) <= DataWeight /\ InHand(f) \in {0, DataWeight}
      /\ Load(f) = Count(queue[f].blocks) + InHand(f) /\ Limit \in Nat /\ DataWeight \in Nat
  BY <1>0, LoadTypes
<1> QED BY <1>2, <1>4, <1>5

LEMMA QuietBound ==
  ASSUME PipeInv, TypesInv', BoundInv, Quiet
  PROVE  BoundInv'
<1>0. TypesInv
  BY DEF PipeInv
<1>1. ASSUME NEW e \in Ends
      PROVE  Load(e)' <= Load(e)
  <2>1. InHand(e)' <= InHand(e)
    BY <1>0, HandsFall DEF Quiet, End
  <2>2. Count(queue'[e].blocks) <= Count(queue[e].blocks)
    <3>1. Count(queue[e].blocks) \in Nat
      BY <1>0, LoadTypes
    <3>2. queue'[e].blocks = queue[e].blocks \/ queue'[e].blocks = <<>>
      BY DEF Quiet
    <3> QED BY <3>1, <3>2, QueueAssumption, CountEmpty
  <2>3. /\ Count(queue[e].blocks) \in Nat /\ InHand(e) \in Nat /\ Load(e) = Count(queue[e].blocks) + InHand(e)
        /\ Count(queue'[e].blocks) \in Nat /\ InHand(e)' \in Nat
        /\ Load(e)' = Count(queue'[e].blocks) + InHand(e)'
    BY <1>0, LoadTypes, LoadTypesNext
  <2> QED BY <2>1, <2>2, <2>3
<1>2. ASSUME NEW q \in Procs
      PROVE  /\ pc'[q] = "copyin" =>
                  \/ pc[q] = "copyin" /\ call'[q] = call[q]
                  \/ call'[q] = call[q] /\ pc[q] # "user"
                     /\ Load(Peer(End(q))) < Limit + DataWeight
             /\ pc'[q] = "write" /\ wrote'[q] => pc[q] = "write" /\ wrote[q] /\ call'[q] = call[q]
  <2>1. /\ pc'[q] = "copyin" => \/ pc[q] = "copyin" /\ call'[q] = call[q]
                                \/ call'[q] = call[q] /\ pc[q] = "write" /\ WriteAlloc(q)
        /\ pc'[q] = "write" /\ wrote'[q] => pc[q] = "write" /\ wrote[q] /\ call'[q] = call[q]
    BY DEF Quiet
  <2>2. ASSUME pc[q] = "write", WriteAlloc(q)
        PROVE  Load(Peer(End(q))) < Limit + DataWeight
    <3>1. pc[q] # "user" /\ ~Full(End(q)) /\ "HUNGUP" \notin sflag[End(q)]
      BY <2>2 DEF WriteAlloc
    <3>2. PICK f \in Ends : f = Peer(End(q))
      BY <1>0, <3>1, CallOfProc, PeerFacts
    <3>3. Load(f) < Limit + DataWeight
      BY <3>1, <3>2, RoomFound
    <3> QED BY <3>2, <3>3
  <2> QED BY <2>1, <2>2
<1> QED BY <1>0, <1>1, <1>2, LoadsFall

LEMMA TakeBound ==
  ASSUME TypesInv, TypesInv', BoundInv, NEW p \in Procs, Takes(p)
  PROVE  BoundInv'
<1>1. PICK e \in Ends : e = End(p)
  <2>1. pc[p] # "user"
    BY DEF Takes, ReadData, ReadDelim, ReceiveFile
  <2> QED BY <2>1, CallOfProc
<1>2. LET q == queue[e] IN
      /\ q.blocks # <<>> /\ QueueOK(q) /\ queue'[e].blocks = Rest(q)
      /\ \A f \in Ends : f # e => queue'[f] = queue[f]
      /\ UNCHANGED <<linked, call, wrote>>
      /\ pc[p] \in {"read", "rcv"}
      /\ \A s \in Procs : s # p => pc'[s] = pc[s]
      /\ \/ pc'[p] = "iomove" /\ Head(q.blocks).type = "data"
         \/ pc'[p] = "exit"
  BY <1>1, TakeFacts
<1>3. LET q == queue[e] IN
      /\ Head(q.blocks) \in Blocks /\ Count(q.blocks) = Weight(Head(q.blocks)) + Count(Rest(q))
      /\ Count(Rest(q)) \in Nat /\ Weight(Head(q.blocks)) \in Nat
      /\ Head(q.blocks).type = "data" => Weight(Head(q.blocks)) = DataWeight
  BY <1>2, QueueAssumption, RestOfQueue, WeightType DEF QueueOK
<1>4. ASSUME NEW f \in Ends
      PROVE  Load(f)' <= Load(f)
  <2>1. /\ Count(queue[f].blocks) \in Nat /\ InHand(f) \in Nat /\ Load(f) = Count(queue[f].blocks) + InHand(f)
        /\ Count(queue'[f].blocks) \in Nat /\ InHand(f)' \in Nat /\ DataWeight \in Nat
        /\ Load(f)' = Count(queue'[f].blocks) + InHand(f)' /\ InHand(f)' <= DataWeight
    BY LoadTypes, LoadTypesNext
  <2>2. CASE f = e /\ pc'[p] = "iomove"
    <3>1. Head(queue[e].blocks).type = "data"
      BY <1>2, <2>2
    <3>2. Count(queue[f].blocks) = DataWeight + Count(queue'[f].blocks)
      BY <1>2, <1>3, <2>2, <3>1
    <3> QED BY <2>1, <3>2
  <2>3. CASE ~(f = e /\ pc'[p] = "iomove")
    <3>1. \A q \in Procs : pc'[q] = "iomove" /\ End(q)' = f => pc[q] = "iomove" /\ End(q) = f
      BY <1>1, <1>2, <2>3 DEF End
    <3>2. InHand(f)' <= InHand(f)
      BY <3>1, HandsFall
    <3>3. Count(queue'[f].blocks) <= Count(queue[f].blocks)
      <4>1. CASE f = e
        <5>1. /\ Count(queue[f].blocks) = Weight(Head(queue[f].blocks)) + Count(queue'[f].blocks)
              /\ Weight(Head(queue[f].blocks)) \in Nat
          BY <1>2, <1>3, <4>1
        <5> QED BY <2>1, <5>1
      <4>2. CASE f # e
        BY <1>2, <2>1, <4>2
      <4> QED BY <4>1, <4>2
    <3> QED BY <2>1, <3>2, <3>3
  <2> QED BY <2>2, <2>3
<1>5. \A q \in Procs : /\ pc'[q] = "copyin" => pc[q] = "copyin" /\ call'[q] = call[q]
                       /\ pc'[q] = "write" /\ wrote'[q] => pc[q] = "write" /\ wrote[q] /\ call'[q] = call[q]
  BY <1>2
<1> QED BY <1>4, <1>5, LoadsFall

LEMMA CopyBound ==
  ASSUME TypesInv, TypesInv', BoundInv, OneReader, NEW p \in Procs, ReadCopied(p)
  PROVE  BoundInv'
<1>1. PICK e \in Ends : e = End(p)
  <2>1. pc[p] # "user"
    BY DEF ReadCopied
  <2> QED BY <2>1, CallOfProc
<1>2. /\ pc[p] = "iomove" /\ pc'[p] \in {"read", "exit"} /\ call[p].kind \in Reads
      /\ UNCHANGED <<linked, call, wrote>>
      /\ \A s \in Procs : s # p => pc'[s] = pc[s]
      /\ \A f \in Ends : f # e => queue'[f] = queue[f]
      /\ \/ queue'[e] = queue[e]
         \/ \E r \in DataBlock : queue'[e] = Putbq(queue[e], r)
  BY <1>1, CopyFacts
<1>3. ASSUME NEW f \in Ends
      PROVE  Load(f)' <= Load(f)
  <2>1. /\ Count(queue[f].blocks) \in Nat /\ InHand(f) \in Nat /\ Load(f) = Count(queue[f].blocks) + InHand(f)
        /\ Count(queue'[f].blocks) \in Nat /\ InHand(f)' \in Nat /\ DataWeight \in Nat
        /\ Load(f)' = Count(queue'[f].blocks) + InHand(f)' /\ InHand(f)' <= DataWeight
    BY LoadTypes, LoadTypesNext
  <2>2. CASE f = e
    <3>1. InHand(f) = DataWeight
      BY <1>1, <1>2, <2>2 DEF InHand
    <3>2. ASSUME NEW q \in Procs, pc'[q] = "iomove", End(q)' = f
          PROVE  FALSE
      <4>1. q # p /\ pc[q] = "iomove" /\ End(q) = f
        BY <1>2, <3>2 DEF End
      <4>2. call[q].kind \in Reads
        BY <4>1 DEF TypesInv, PlaceOK, Reads
      <4> QED BY <1>1, <1>2, <2>2, <4>1, <4>2, TheReader
    <3>3. InHand(f)' = 0
      BY <3>2 DEF InHand
    <3>4. Count(queue'[f].blocks) <= DataWeight + Count(queue[f].blocks)
      <4>1. ASSUME NEW r \in DataBlock, queue'[e] = Putbq(queue[e], r)
            PROVE  Count(queue'[e].blocks) = DataWeight + Count(queue[e].blocks)
        <5>1. r \in Blocks /\ QueueOK(queue[e]) /\ r.type = "data"
          BY <4>1 DEF Blocks, TypesInv, QueuesOK, DataBlock
        <5>2. Weight(r) = DataWeight
          BY <5>1, QueueAssumption, WeightType
        <5> QED BY <4>1, <5>1, <5>2, QueueAssumption, PutbqKeeps
      <4>2. queue'[e] = queue[e] \/ Count(queue'[e].blocks) = DataWeight + Count(queue[e].blocks)
        BY <1>2, <4>1
      <4> QED BY <2>1, <2>2, <4>2
    <3> QED BY <2>1, <3>1, <3>3, <3>4
  <2>3. CASE f # e
    <3>1. \A q \in Procs : pc'[q] = "iomove" /\ End(q)' = f => pc[q] = "iomove" /\ End(q) = f
      BY <1>2 DEF End
    <3>2. InHand(f)' <= InHand(f)
      BY <3>1, HandsFall
    <3>3. Count(queue'[f].blocks) = Count(queue[f].blocks)
      BY <1>2, <2>3
    <3> QED BY <2>1, <3>2, <3>3
  <2> QED BY <2>2, <2>3
<1>4. \A q \in Procs : /\ pc'[q] = "copyin" => pc[q] = "copyin" /\ call'[q] = call[q]
                       /\ pc'[q] = "write" /\ wrote'[q] => pc[q] = "write" /\ wrote[q] /\ call'[q] = call[q]
  BY <1>2
<1> QED BY <1>3, <1>4, LoadsFall

(* A writer puts a block into a queue that takes it.                       *)
LEMMA PutBound ==
  ASSUME TypesInv, TypesInv', BoundInv, OneWriter, NEW p \in Procs, pc[p] # "user",
         call[p].kind \in Writes, NEW b \in Blocks, PutStep(p, b), NEW f \in Ends, f = Peer(End(p)),
         linked => Load(f) + Weight(b) < Limit + 2 * DataWeight + DelimWeight,
         pc'[p] \in {"exit", "write"}, \A q \in Procs : q # p => wrote'[q] = wrote[q],
         pc'[p] = "write" => Load(f) + Weight(b) < Limit + 2 * DataWeight
  PROVE  BoundInv'
<1>1. /\ QueueOK(queue[f]) /\ queue'[f] = IF linked THEN Putq(queue[f], b) ELSE queue[f]
      /\ \A g \in Ends : g # f => queue'[g] = queue[g]
      /\ linked' = linked /\ call' = call
  BY PutFacts
<1>2. \A q \in Procs : q # p => pc'[q] = pc[q]
  BY DEF PutStep, Goto, TypesInv, ProcTypes
<1>3. Weight(b) \in Nat /\ Limit \in Nat /\ DataWeight \in Nat \ {0} /\ DelimWeight \in Nat \ {0}
  BY WeightType, QueueAssumption DEF QueueAssumption
<1>4. ASSUME NEW g \in Ends
      PROVE  /\ Load(g) \in Nat /\ Load(g)' \in Nat
             /\ Load(g)' <= Load(g) \/ (g = f /\ linked /\ Load(g)' <= Load(f) + Weight(b))
  <2>1. /\ Count(queue[g].blocks) \in Nat /\ InHand(g) \in Nat /\ Load(g) = Count(queue[g].blocks) + InHand(g)
        /\ Count(queue'[g].blocks) \in Nat /\ InHand(g)' \in Nat
        /\ Load(g)' = Count(queue'[g].blocks) + InHand(g)' /\ Load(g) \in Nat /\ Load(g)' \in Nat
    BY LoadTypes, LoadTypesNext, <1>3
  <2>2. InHand(g)' <= InHand(g)
    <3>1. \A q \in Procs : pc'[q] = "iomove" /\ End(q)' = g => pc[q] = "iomove" /\ End(q) = g
      BY <1>1, <1>2 DEF End
    <3> QED BY <3>1, HandsFall
  <2>3. CASE g = f /\ linked
    <3>1. Count(queue'[g].blocks) <= Count(queue[g].blocks) + Weight(b)
      BY <1>1, <2>3, QueueAssumption, PutqKeeps
    <3> QED BY <1>3, <2>1, <2>2, <2>3, <3>1
  <2>4. CASE ~(g = f /\ linked)
    <3>1. Count(queue'[g].blocks) = Count(queue[g].blocks)
      BY <1>1, <2>4
    <3> QED BY <2>1, <2>2, <3>1
  <2> QED BY <2>3, <2>4
<1>5. ASSUME NEW g \in Ends
      PROVE  Load(g)' < Limit + 2 * DataWeight + DelimWeight
  <2>1. Load(g) < Limit + 2 * DataWeight + DelimWeight
    BY DEF BoundInv
  <2>2. CASE Load(g)' <= Load(g)
    BY <1>3, <1>4, <2>1, <2>2
  <2>3. CASE g = f /\ linked /\ Load(g)' <= Load(f) + Weight(b)
    BY <1>3, <1>4, <2>3
  <2> QED BY <1>4, <2>2, <2>3
<1>6. ASSUME NEW q \in Procs
      PROVE  WriterRoom(q)'
  <2>1. CASE q = p
    <3>1. Peer(End(q))' = f
      BY <1>1, <2>1 DEF End
    <3>2. pc'[q] = "write" => Load(f)' < Limit + 2 * DataWeight
      BY <1>3, <1>4, <2>1
    <3>3. Load(Peer(End(q)))' = Load(f)'
      BY <3>1
    <3> QED BY <2>1, <3>2, <3>3 DEF WriterRoom
  <2>2. CASE q # p /\ (pc[q] = "copyin" \/ (pc[q] = "write" /\ wrote[q]))
    <3>1. pc[q] # "user" /\ call[q].kind \in Writes
      BY <2>2 DEF TypesInv, PlaceOK, Writes
    <3>2. End(q) # End(p)
      BY <2>2, <3>1, TheWriter
    <3>3. PICK g \in Ends : g = Peer(End(q))
      BY <3>1, CallOfProc, PeerFacts
    <3>4. g # f
      BY <3>1, <3>2, <3>3, CallOfProc, PeerFacts
    <3>5. Peer(End(q))' = g
      BY <1>1, <3>3 DEF End
    <3>6. Load(Peer(End(q)))' = Load(g)' /\ Load(g)' <= Load(g) /\ Load(g) \in Nat /\ Load(g)' \in Nat
      BY <1>4, <3>4, <3>5
    <3>7. /\ pc[q] = "copyin" => Load(g) < Limit + DataWeight
          /\ pc[q] = "write" /\ wrote[q] => Load(g) < Limit + 2 * DataWeight
      BY <3>3 DEF BoundInv, WriterRoom
    <3>8. /\ pc[q] = "copyin" => Load(g)' < Limit + DataWeight
          /\ pc[q] = "write" /\ wrote[q] => Load(g)' < Limit + 2 * DataWeight
      BY <1>3, <3>6, <3>7
    <3> QED BY <1>2, <2>2, <3>6, <3>8 DEF WriterRoom
  <2>3. CASE q # p /\ ~(pc[q] = "copyin" \/ (pc[q] = "write" /\ wrote[q]))
    BY <1>2, <2>3 DEF WriterRoom
  <2> QED BY <2>1, <2>2, <2>3
<1> QED BY <1>5, <1>6 DEF BoundInv

LEMMA CloseBound ==
  ASSUME PipeInv, TypesInv', BoundInv, OneWriter, NEW p \in Procs, Closes(p)
  PROVE  BoundInv'
<1>0. TypesInv
  BY DEF PipeInv
<1>1. /\ pc[p] # "user" /\ call[p].kind \in Writes /\ pc' = [pc EXCEPT ![p] = "exit"] /\ wrote' = wrote
  BY <1>0, CloseFacts
<1>2. PICK b \in Blocks : PutStep(p, b) /\ (b.type = "delim" <=> ~SendFile(p))
  BY <1>0, CloseFacts
<1>3. PICK f \in Ends : f = Peer(End(p))
  BY <1>0, <1>1, CallOfProc, PeerFacts
<1>4. /\ Weight(b) = IF SendFile(p) THEN DataWeight ELSE DelimWeight
      /\ Limit \in Nat /\ DataWeight \in Nat \ {0} /\ DelimWeight \in Nat \ {0} /\ Load(f) \in Nat
  BY <1>0, <1>2, QueueAssumption, WeightType, LoadTypes
<1>5. Load(f) + Weight(b) < Limit + 2 * DataWeight + DelimWeight
  <2>1. CASE WriteBusy(p) /\ wrote[p]
    <3>1. pc[p] = "write" /\ ~SendFile(p)
      BY <2>1 DEF WriteBusy, SendFile
    <3>2. Load(f) < Limit + 2 * DataWeight
      BY <1>3, <2>1, <3>1 DEF BoundInv, WriterRoom
    <3> QED BY <1>4, <3>1, <3>2
  <2>2. CASE WriteDelim(p) \/ SendFile(p)
    <3>1. ~Full(End(p)) /\ "HUNGUP" \notin sflag[End(p)]
      BY <2>2 DEF WriteDelim, SendFile
    <3>2. Load(f) < Limit + DataWeight
      BY <1>1, <1>3, <3>1, RoomFound
    <3> QED BY <1>4, <3>2
  <2> QED BY <2>1, <2>2 DEF Closes
<1>6. pc'[p] = "exit"
  BY <1>0, <1>1 DEF TypesInv, ProcTypes
<1> QED BY <1>0, <1>1, <1>2, <1>3, <1>5, <1>6, PutBound

LEMMA WrittenBound ==
  ASSUME TypesInv, TypesInv', BoundInv, OneWriter, NEW p \in Procs, WritePut(p)
  PROVE  BoundInv'
<1>1. PICK f \in Ends : f = Peer(End(p))
  <2>1. pc[p] # "user"
    BY DEF WritePut
  <2> QED BY <2>1, CallOfProc, PeerFacts
<1>2. PICK b \in Blocks :
        /\ pc[p] = "copyin" /\ call[p].kind \in Writes /\ PutStep(p, b) /\ b.type = "data"
        /\ wrote' = [wrote EXCEPT ![p] = TRUE] /\ pc' = [pc EXCEPT ![p] = "write"]
  BY <1>1, WrittenFacts
<1>3. Weight(b) = DataWeight /\ Load(f) < Limit + DataWeight
  BY <1>1, <1>2, QueueAssumption, WeightType DEF BoundInv, WriterRoom
<1>4. Limit \in Nat /\ DataWeight \in Nat \ {0} /\ DelimWeight \in Nat \ {0} /\ Load(f) \in Nat
  BY LoadTypes
<1>5. /\ Load(f) + Weight(b) < Limit + 2 * DataWeight
      /\ Load(f) + Weight(b) < Limit + 2 * DataWeight + DelimWeight
  BY <1>3, <1>4
<1>6. pc'[p] = "write" /\ \A q \in Procs : q # p => wrote'[q] = wrote[q]
  BY <1>2 DEF TypesInv, ProcTypes
<1> QED BY <1>1, <1>2, <1>5, <1>6, PutBound

LEMMA FlushBound ==
  ASSUME TypesInv, TypesInv', BoundInv, NEW p \in Procs, Flush(p)
  PROVE  BoundInv'
<1>1. /\ queue' = [e \in Ends |-> IF e = End(p) \/ linked THEN Flushq(queue[e]) ELSE queue[e]]
      /\ pc' = [pc EXCEPT ![p] = "exit"] /\ pc[p] # "user" /\ pc \in [Procs -> PCs]
      /\ UNCHANGED <<wrote, call>>
  BY DEF Flush, Goto, TypesInv, ProcTypes
<1>2. ASSUME NEW e \in Ends
      PROVE  Load(e)' <= Load(e)
  <2>1. /\ Count(queue[e].blocks) \in Nat /\ InHand(e) \in Nat /\ Load(e) = Count(queue[e].blocks) + InHand(e)
        /\ Count(queue'[e].blocks) \in Nat /\ InHand(e)' \in Nat
        /\ Load(e)' = Count(queue'[e].blocks) + InHand(e)'
    BY LoadTypes, LoadTypesNext
  <2>2. InHand(e)' <= InHand(e)
    <3>1. \A q \in Procs : pc'[q] = "iomove" /\ End(q)' = e => pc[q] = "iomove" /\ End(q) = e
      BY <1>1 DEF End
    <3> QED BY <3>1, HandsFall
  <2>3. Count(queue'[e].blocks) <= Count(queue[e].blocks)
    <3>1. QueueOK(queue[e]) /\ queue'[e] \in {queue[e], Flushq(queue[e])}
      BY <1>1 DEF TypesInv, QueuesOK
    <3>2. Count(Flushq(queue[e]).blocks) <= Count(queue[e].blocks)
      BY <3>1, QueueAssumption, FlushqKeeps
    <3> QED BY <2>1, <3>1, <3>2
  <2> QED BY <2>1, <2>2, <2>3
<1>3. \A q \in Procs : /\ pc'[q] = "copyin" => pc[q] = "copyin" /\ call'[q] = call[q]
                       /\ pc'[q] = "write" /\ wrote'[q] => pc[q] = "write" /\ wrote[q] /\ call'[q] = call[q]
  BY <1>1
<1> QED BY <1>2, <1>3, LoadsFall

LEMMA EnterBound ==
  ASSUME TypesInv, TypesInv', BoundInv, NEW p \in Procs, NEW c \in CallsOf[p], Stenter(p, c)
  PROVE  BoundInv'
<1>1. /\ pc'[p] \in {"read", "write", "rcv", "ioctl"} /\ ~wrote[p] /\ wrote' = wrote /\ queue' = queue
      /\ \A q \in Procs : q # p => pc'[q] = pc[q] /\ call'[q] = call[q]
  BY EnterFacts
<1>2. ASSUME NEW e \in Ends
      PROVE  Load(e)' <= Load(e)
  <2>1. /\ Count(queue[e].blocks) \in Nat /\ InHand(e) \in Nat /\ Load(e) = Count(queue[e].blocks) + InHand(e)
        /\ Count(queue'[e].blocks) \in Nat /\ InHand(e)' \in Nat
        /\ Load(e)' = Count(queue'[e].blocks) + InHand(e)'
    BY LoadTypes, LoadTypesNext
  <2>2. InHand(e)' <= InHand(e)
    <3>1. \A q \in Procs : pc'[q] = "iomove" /\ End(q)' = e => pc[q] = "iomove" /\ End(q) = e
      BY <1>1 DEF End
    <3> QED BY <3>1, HandsFall
  <2>3. Count(queue'[e].blocks) = Count(queue[e].blocks)
    BY <1>1
  <2> QED BY <2>1, <2>2, <2>3
<1>3. \A q \in Procs : /\ pc'[q] = "copyin" => pc[q] = "copyin" /\ call'[q] = call[q]
                       /\ pc'[q] = "write" /\ wrote'[q] => pc[q] = "write" /\ wrote[q] /\ call'[q] = call[q]
  BY <1>1
<1> QED BY <1>2, <1>3, LoadsFall

LEMMA BoundInit ==
  ASSUME Init
  PROVE  BoundInv
<1>1. /\ \A e \in Ends : Count(queue[e].blocks) = 0 /\ InHand(e) = 0
      /\ \A p \in Procs : pc[p] = "user"
  BY QueueAssumption, CountEmpty DEF Init, Empty, InHand
<1>2. Limit \in Nat /\ DataWeight \in Nat \ {0} /\ DelimWeight \in Nat \ {0}
  BY QueueAssumption DEF QueueAssumption
<1>3. \A p \in Procs : WriterRoom(p)
  BY <1>1 DEF WriterRoom
<1>4. \A e \in Ends : Load(e) < Limit + 2 * DataWeight + DelimWeight
  BY <1>1, <1>2 DEF Load
<1> QED BY <1>3, <1>4 DEF BoundInv

LEMMA BoundStep ==
  ASSUME PipeInv, BoundInv, OneWriter, OneReader, [Next]_vars
  PROVE  BoundInv'
<1>1. TypesInv /\ TypesInv'
  BY PipeStep DEF PipeInv
<1> QED BY <1>1, KindsOfSteps, QuietAlways, QuietBound, TakeBound, CopyBound, CloseBound, WrittenBound,
           FlushBound, EnterBound

(* A queue passes its limit by no more than the writer's block, the block  *)
(* that the reader puts back and a delimiter, when an end has one writer   *)
(* and one reader.                                                         *)
THEOREM BoundHolds ==
  ASSUME OneWriter, OneReader
  PROVE  Spec => []QueueBounded
<1>1. ASSUME PipeInv, BoundInv
      PROVE  QueueBounded
  <2>1. ASSUME NEW e \in Ends
        PROVE  Count(queue[e].blocks) < Limit + 2 * DataWeight + DelimWeight
    <3>1. /\ Count(queue[e].blocks) \in Nat /\ InHand(e) \in Nat /\ Load(e) = Count(queue[e].blocks) + InHand(e)
          /\ Limit \in Nat /\ DataWeight \in Nat /\ DelimWeight \in Nat
      BY <1>1, LoadTypes DEF PipeInv
    <3>2. Load(e) < Limit + 2 * DataWeight + DelimWeight
      BY <1>1 DEF BoundInv
    <3> QED BY <3>1, <3>2
  <2> QED BY <2>1 DEF QueueBounded
<1>2. ASSUME PipeInv, BoundInv, [Next]_vars
      PROVE  PipeInv' /\ BoundInv'
  BY <1>2, PipeStep, BoundStep
<1>3. Init => PipeInv /\ BoundInv
  BY PipeInit, BoundInit
<1> QED BY <1>1, <1>2, <1>3, PTL DEF Spec

(***************************************************************************)
(* Records stay apart, when an end has one writer and one reader, nobody   *)
(* flushes and every write runs to its end                                 *)
(***************************************************************************)
(* The bytes that the reads at an end have in hand or have delivered are   *)
(* in front of its queue.                                                  *)
Held(p) ==
  CASE pc[p] = "read"   -> seen[p]
    [] pc[p] = "iomove" -> seen[p] \cup BytesIn(hand[p])
    [] OTHER            -> {}
Share(p, e) == IF pc[p] # "user" /\ End(p) = e THEN Held(p) ELSE {}
Ahead(e) == UNION {Share(p, e) : p \in Procs}

(* What trails belongs to the write that is going on.                      *)
HasWriter(e) == \E p \in Procs : Writing(p) /\ wrote[p] /\ End(p) = Peer(e)
Current(e, x) == HasWriter(e) /\ \A m \in starts[e] : m < x
SeenTogether(p) == pc[p] # "user" => Together(starts[End(p)], seen[p], seen[p])
RecordInv ==
  /\ \A e \in Ends : /\ Line(Ahead(e), queue[e].blocks, starts[e])
                     /\ linked => \A x : Trails(Ahead(e), queue[e].blocks, x) => Current(e, x)
  /\ \A p \in Procs : SeenTogether(p)

(* Only the reader of an end has bytes in front of its queue.              *)
LEMMA HeldFacts ==
  ASSUME TypesInv, NEW p \in Procs, NEW e \in Ends
  PROVE  /\ Share(p, e) # {} => /\ pc[p] # "user" /\ End(p) = e /\ call[p].kind \in Reads
                                /\ pc[p] \in {"read", "iomove"}
         /\ Share(p, e) \subseteq Ahead(e)
<1>1. Share(p, e) \subseteq Ahead(e)
  BY DEF Ahead
<1>2. Share(p, e) # {} => pc[p] \in {"read", "iomove"} /\ End(p) = e
  BY DEF Share, Held
<1> QED BY <1>1, <1>2 DEF TypesInv, PlaceOK, Reads

(* What is in front does not grow when no process gets more.               *)
LEMMA AheadFalls ==
  ASSUME NEW e \in Ends, \A q \in Procs : Share(q, e)' \subseteq Share(q, e)
  PROVE  Ahead(e)' \subseteq Ahead(e)
BY DEF Ahead

(* A process that goes on with what it has, or with nothing.               *)
LEMMA ShareFalls ==
  ASSUME NEW q \in Procs, NEW e \in Ends,
         \/ pc'[q] \notin {"read", "iomove"}
         \/ call'[q] = call[q] /\ pc'[q] = pc[q] /\ seen'[q] = seen[q] /\ hand'[q] = hand[q]
         \/ seen'[q] = {} /\ pc'[q] = "read"
  PROVE  Share(q, e)' \subseteq Share(q, e)
<1>1. CASE pc'[q] \notin {"read", "iomove"}
  BY <1>1 DEF Share, Held
<1>2. CASE call'[q] = call[q] /\ pc'[q] = pc[q] /\ seen'[q] = seen[q] /\ hand'[q] = hand[q]
  BY <1>2 DEF Share, Held, End
<1>3. CASE seen'[q] = {} /\ pc'[q] = "read"
  BY <1>3 DEF Share, Held
<1> QED BY <1>1, <1>2, <1>3

(* The write that is going on goes on.                                     *)
LEMMA StillCurrent ==
  ASSUME NEW e \in Ends, NEW x, Current(e, x), starts'[e] = starts[e],
         \A q \in Procs : Writing(q) /\ wrote[q] /\ End(q) = Peer(e)
                            => pc'[q] \in {"write", "copyin"} /\ wrote'[q] /\ call'[q] = call[q]
  PROVE  Current(e, x)'
BY DEF Current, HasWriter, Writing, End

(* An end whose queue and readers are left alone.                          *)
EndKept(e) ==
  /\ Line(Ahead(e), queue[e].blocks, starts[e])
  /\ linked => \A x : Trails(Ahead(e), queue[e].blocks, x) => Current(e, x)

LEMMA EndLess ==
  ASSUME RecordInv, NEW e \in Ends, Ahead(e)' \subseteq Ahead(e), queue'[e].blocks = queue[e].blocks,
         starts'[e] = starts[e], linked' => linked,
         linked' => \A q \in Procs : Writing(q) /\ wrote[q] /\ End(q) = Peer(e)
                            => pc'[q] \in {"write", "copyin"} /\ wrote'[q] /\ call'[q] = call[q]
  PROVE  EndKept(e)'
<1>1. /\ Line(Ahead(e), queue[e].blocks, starts[e])
      /\ linked => \A x : Trails(Ahead(e), queue[e].blocks, x) => Current(e, x)
  BY DEF RecordInv
<1> DEFINE G == Ahead(e)'
<1>2. G \subseteq Ahead(e)
  OBVIOUS
<1> HIDE DEF G
<1>3. /\ Line(G, queue[e].blocks, starts[e])
      /\ \A x : Trails(G, queue[e].blocks, x) => Trails(Ahead(e), queue[e].blocks, x)
  BY <1>1, <1>2, LineLess
<1>4. Line(Ahead(e)', queue'[e].blocks, starts'[e])
  BY <1>3 DEF G
<1>5. ASSUME linked', NEW x, Trails(Ahead(e)', queue'[e].blocks, x)
      PROVE  Current(e, x)'
  <2>1. Current(e, x)
    BY <1>1, <1>3, <1>5 DEF G
  <2> QED BY <1>5, <2>1, StillCurrent
<1> QED BY <1>4, <1>5 DEF EndKept, Line, Trails, Piece, Open, Together

(* What is in front of a line is of one write.                             *)
LEMMA LineFront ==
  ASSUME NEW F, NEW B \in Seq(Blocks), NEW S, Line(F, B, S)
  PROVE  Together(S, F, F)
<1>1. 0 \in 0 .. Len(B)
  BY LenProperties
<1>2. Open(B, 0, 0) /\ Piece(F, B, 0) = F
  BY DEF Open, Piece
<1> QED BY <1>1, <1>2 DEF Line

(* A writer that has put a block does not leave a pipe that is whole       *)
(* without a word.                                                         *)
LEMMA WritersStay ==
  ASSUME PipeInv, WritesEnd, Quietly, linked', NEW q \in Procs, Writing(q), wrote[q]
  PROVE  pc'[q] \in {"write", "copyin"} /\ wrote'[q] /\ call'[q] = call[q]
<1>0. TypesInv /\ pc \in [Procs -> PCs] /\ wrote \in [Procs -> BOOLEAN] /\ call \in [Procs -> Call \cup {None}]
  BY DEF PipeInv, TypesInv, ProcTypes
<1>1. pc[q] \in {"write", "copyin"} /\ pc[q] # "user" /\ call[q].kind = "write"
  BY <1>0 DEF Writing, TypesInv, PlaceOK
<1>2. CASE ~\E p \in Procs : QuietStep(p)
  <2>1. UNCHANGED <<pc, wrote, call>>
    BY <1>2 DEF Quietly, Close, Stwsrv, vars, procVars
  <2> QED BY <1>1, <2>1
<1>3. ASSUME NEW p \in Procs, QuietStep(p)
      PROVE  pc'[q] \in {"write", "copyin"} /\ wrote'[q] /\ call'[q] = call[q]
  <2>1. \/ pc' = [pc EXCEPT ![p] = "user"] /\ call' = [call EXCEPT ![p] = None]
           /\ wrote' = [wrote EXCEPT ![p] = FALSE]
        \/ /\ UNCHANGED <<call, wrote>>
           /\ \/ pc' = pc \/ pc' = [pc EXCEPT ![p] = "exit"] \/ pc' = [pc EXCEPT ![p] = "copyin"]
    BY <1>3 DEF QuietStep, ReadEof, ReadSleep, ReadPass, WriteSleep, WriteHungup, WriteAlloc, WriteFault,
         IoctlError, Wnblk, Signal, WriteBusy, ReceiveFile, Stexit, Return, Goto
  <2>2. CASE p # q
    BY <1>0, <1>1, <2>1, <2>2
  <2>3. CASE p = q
    <3>1. ~WriteFault(p) /\ ~Signal(p)
      <4>1. call[q] \in CallsOf[q] /\ Faults = FALSE
        BY <1>0, <1>1, CallOfProc DEF WritesEnd
      <4> QED BY <1>1, <2>3, <4>1 DEF WriteFault, Signal, WritesEnd
    <3>2. ~WriteHungup(p)
      <4>1. ASSUME WriteHungup(p)
            PROVE  FALSE
        <5>1. linked' = linked /\ "HUNGUP" \in sflag[End(p)]
          BY <4>1 DEF WriteHungup, endVars
        <5>2. End(p) \in Ends /\ p \in Inside(End(p))
          BY <1>0, <1>1, <2>3, CallOfProc DEF Inside
        <5> QED BY <5>1, <5>2 DEF PipeInv, LinkInv
      <4> QED BY <4>1
    <3>3. WriteSleep(p) \/ WriteAlloc(p)
      BY <1>1, <1>3, <2>3, <3>1, <3>2 DEF QuietStep, ReadEof, ReadSleep, ReadPass, IoctlError, Wnblk,
         WriteBusy, ReceiveFile, Stexit
    <3>4. UNCHANGED <<call, wrote>> /\ (pc' = pc \/ pc' = [pc EXCEPT ![p] = "copyin"])
      BY <3>3 DEF WriteSleep, WriteAlloc, Goto
    <3> QED BY <1>0, <1>1, <2>3, <3>4
  <2> QED BY <2>2, <2>3
<1> QED BY <1>2, <1>3

LEMMA QuietRecords ==
  ASSUME PipeInv, WritesEnd, RecordInv, Quietly
  PROVE  RecordInv'
<1>0. TypesInv
  BY DEF PipeInv
<1>1. Quiet
  BY <1>0, QuietAlways
<1>2. ASSUME NEW e \in Ends
      PROVE  Ahead(e)' \subseteq Ahead(e)
  <2>1. ASSUME NEW q \in Procs
        PROVE  Share(q, e)' \subseteq Share(q, e)
    <3>1. \/ pc'[q] \notin {"read", "iomove"}
          \/ call'[q] = call[q] /\ pc'[q] = pc[q] /\ seen'[q] = seen[q] /\ hand'[q] = hand[q]
      BY <1>1 DEF Quiet
    <3> QED BY <3>1, ShareFalls
  <2> QED BY <2>1, AheadFalls
<1>3. ASSUME NEW e \in Ends
      PROVE  EndKept(e)'
  <2>1. starts'[e] = starts[e] /\ (linked' => linked)
    BY <1>1 DEF Quiet
  <2>2. linked' => \A q \in Procs : Writing(q) /\ wrote[q] /\ End(q) = Peer(e)
                            => pc'[q] \in {"write", "copyin"} /\ wrote'[q] /\ call'[q] = call[q]
    BY WritersStay
  <2>3. CASE queue'[e].blocks = queue[e].blocks
    BY <1>2, <2>1, <2>2, <2>3, EndLess
  <2>4. CASE queue'[e].blocks = <<>> /\ ~linked'
    <3> DEFINE G == Ahead(e)'
    <3>1. Line(Ahead(e), queue[e].blocks, starts[e]) /\ G \subseteq Ahead(e)
      BY <1>2 DEF RecordInv
    <3> HIDE DEF G
    <3>2. Line(G, queue[e].blocks, starts[e])
      BY <3>1, LineLess
    <3>3. Together(starts[e], G, G)
      BY <1>0, <3>2, LineFront DEF TypesInv, EndTypes, QueueType
    <3>4. Line(G, <<>>, starts[e])
      BY <3>3, LineEmpty
    <3>5. Line(Ahead(e)', queue'[e].blocks, starts'[e])
      BY <2>1, <2>4, <3>4 DEF G
    <3> QED BY <2>4, <3>5 DEF EndKept, Line, Piece, Open, Together
  <2> QED BY <1>1, <2>3, <2>4 DEF Quiet
<1>4. ASSUME NEW q \in Procs
      PROVE  SeenTogether(q)'
  <2>1. SeenTogether(q) /\ starts' = starts
    BY <1>1 DEF RecordInv, Quiet
  <2>2. \/ pc'[q] = "user"
        \/ pc[q] # "user" /\ call'[q] = call[q] /\ seen'[q] = seen[q]
    BY <1>1 DEF Quiet
  <2> QED BY <2>1, <2>2 DEF SeenTogether, End, Together
<1> QED BY <1>3, <1>4 DEF RecordInv, EndKept

(* Another process of the readers' kind at an end holds nothing.           *)
LEMMA OnlyReader ==
  ASSUME TypesInv, OneReader, NEW p \in Procs, NEW e \in Ends, pc[p] # "user", End(p) = e,
         call[p].kind \in Reads
  PROVE  Ahead(e) = Share(p, e)
<1>1. \A q \in Procs : Share(q, e) # {} => q = p
  BY HeldFacts, TheReader
<1> QED BY <1>1 DEF Ahead

LEMMA TakeRecords ==
  ASSUME TypesInv, OneReader, RecordInv, NEW p \in Procs, Takes(p)
  PROVE  RecordInv'
<1>1. PICK e \in Ends : e = End(p)
  <2>1. pc[p] # "user"
    BY DEF Takes, ReadData, ReadDelim, ReceiveFile
  <2> QED BY <2>1, CallOfProc
<1>2. /\ queue[e].blocks # <<>> /\ QueueOK(queue[e]) /\ queue'[e].blocks = Rest(queue[e])
      /\ \A f \in Ends : f # e => queue'[f] = queue[f]
      /\ UNCHANGED <<sent, starts, linked, call, seen, ucount, wrote>>
      /\ pc[p] \in {"read", "rcv"} /\ call[p].kind \in Reads
      /\ \A s \in Procs : s # p => pc'[s] = pc[s] /\ hand'[s] = hand[s]
      /\ \/ /\ pc[p] = "read" /\ pc'[p] = "iomove" /\ hand'[p] = Head(queue[e].blocks)
            /\ Head(queue[e].blocks).type = "data"
         \/ pc'[p] = "exit" /\ hand' = hand /\ Head(queue[e].blocks).type # "data"
  BY <1>1, TakeFacts
<1>3. ASSUME NEW q \in Procs, NEW f \in Ends, ~(q = p /\ f = e)
      PROVE  Share(q, f)' \subseteq Share(q, f)
  <2>1. CASE q = p
    BY <1>1, <1>2, <1>3, <2>1 DEF Share, End
  <2>2. CASE q # p
    <3>1. call'[q] = call[q] /\ pc'[q] = pc[q] /\ seen'[q] = seen[q] /\ hand'[q] = hand[q]
      BY <1>2, <2>2
    <3> QED BY <3>1, ShareFalls
  <2> QED BY <2>1, <2>2
<1>4. ASSUME NEW f \in Ends
      PROVE  \A q \in Procs : Writing(q) /\ wrote[q] /\ End(q) = Peer(f)
                            => pc'[q] \in {"write", "copyin"} /\ wrote'[q] /\ call'[q] = call[q]
  BY <1>2 DEF Writing
<1>5. ASSUME NEW f \in Ends, f # e
      PROVE  EndKept(f)'
  <2>1. Ahead(f)' \subseteq Ahead(f)
    BY <1>3, <1>5, AheadFalls
  <2> QED BY <1>2, <1>4, <1>5, <2>1, EndLess
<1>6. EndKept(e)'
  <2> DEFINE F == Ahead(e)
             G == Ahead(e)'
             q == queue[e]
  <2>1. /\ Line(F, q.blocks, starts[e])
        /\ linked => \A x : Trails(F, q.blocks, x) => Current(e, x)
    BY DEF RecordInv
  <2>2. F = Share(p, e)
    BY <1>1, <1>2, OnlyReader
  <2>3. \A s \in Procs : s # p => Share(s, e)' = {}
    <3>1. \A s \in Procs : s # p => Share(s, e) = {}
      BY <1>1, <1>2, HeldFacts, TheReader
    <3> QED BY <1>3, <3>1
  <2>4. G = Share(p, e)'
    BY <2>3 DEF Ahead
  <2>5. Share(p, e)' \subseteq F \cup BytesIn(Head(q.blocks))
        /\ (Head(q.blocks).type # "data" => Share(p, e)' = {})
    <3>1. CASE pc'[p] = "iomove"
      <4>1. F = seen[p]
        BY <1>1, <1>2, <2>2, <3>1 DEF Share, Held
      <4>2. Share(p, e)' \subseteq seen[p] \cup BytesIn(Head(q.blocks))
        BY <1>2, <3>1 DEF Share, Held
      <4> QED BY <1>2, <3>1, <4>1, <4>2
    <3>2. CASE pc'[p] = "exit"
      <4>1. Share(p, e)' = {}
        BY <3>2 DEF Share, Held
      <4> QED BY <4>1
    <3> QED BY <1>2, <3>1, <3>2
  <2>6. /\ G \subseteq F \cup BytesIn(Head(q.blocks))
        /\ Head(q.blocks).type = "delim" => G = {}
    BY <2>4, <2>5
  <2>7. q \in QueueType /\ q.blocks # <<>>
    BY <1>2 DEF QueueOK
  <2> HIDE DEF F, G, q
  <2>8. Line(G, Rest(q), starts[e]) /\ \A x : Trails(G, Rest(q), x) => Trails(F, q.blocks, x)
    BY <2>1, <2>6, <2>7, LineTake
  <2>9. /\ Line(Ahead(e)', queue'[e].blocks, starts'[e])
        /\ \A x : Trails(Ahead(e)', queue'[e].blocks, x) => Trails(F, q.blocks, x)
    BY <1>2, <2>8 DEF G, q
  <2>10. ASSUME linked', NEW x, Trails(Ahead(e)', queue'[e].blocks, x)
         PROVE  Current(e, x)'
    <3>1. Current(e, x)
      BY <1>2, <2>1, <2>9, <2>10
    <3> QED BY <1>2, <1>4, <3>1, StillCurrent
  <2> QED BY <2>9, <2>10 DEF EndKept, Line, Trails, Piece, Open, Together
<1>7. ASSUME NEW q \in Procs
      PROVE  SeenTogether(q)'
  <2>1. SeenTogether(q) /\ starts' = starts /\ seen'[q] = seen[q] /\ End(q)' = End(q)
        /\ (pc'[q] # "user" => pc[q] # "user")
    BY <1>2 DEF RecordInv, End
  <2> QED BY <2>1 DEF SeenTogether, Together
<1> QED BY <1>5, <1>6, <1>7 DEF RecordInv, EndKept

LEMMA CopyRecords ==
  ASSUME TypesInv, OneReader, RecordInv, NEW p \in Procs, ReadCopied(p)
  PROVE  RecordInv'
<1>1. PICK e \in Ends : e = End(p)
  <2>1. pc[p] # "user"
    BY DEF ReadCopied
  <2> QED BY <2>1, CallOfProc
<1>2. /\ pc[p] = "iomove" /\ pc'[p] \in {"read", "exit"} /\ call[p].kind \in Reads
      /\ hand[p] \in DataBlock
      /\ UNCHANGED <<sent, starts, linked, call, wrote>>
      /\ \A s \in Procs : s # p => pc'[s] = pc[s] /\ hand'[s] = hand[s] /\ seen'[s] = seen[s]
      /\ seen'[p] \subseteq seen[p] \cup BytesIn(hand[p])
      /\ \A f \in Ends : f # e => queue'[f] = queue[f]
      /\ \/ queue'[e] = queue[e]
         \/ \E r \in DataBlock : /\ BytesIn(r) \subseteq BytesIn(hand[p])
                                 /\ queue'[e] = Putbq(queue[e], r)
  BY <1>1, CopyFacts
<1>3. Ahead(e) = seen[p] \cup BytesIn(hand[p])
  <2>1. Ahead(e) = Share(p, e)
    BY <1>1, <1>2, OnlyReader
  <2> QED BY <1>1, <1>2, <2>1 DEF Share, Held
<1>4. ASSUME NEW q \in Procs, NEW f \in Ends
      PROVE  Share(q, f)' \subseteq Share(q, f)
  <2>1. CASE q = p
    <3>1. CASE f = e
      <4>1. Share(q, f)' \subseteq seen'[p]
        BY <1>2, <2>1 DEF Share, Held
      <4>2. Share(q, f) = seen[p] \cup BytesIn(hand[p])
        BY <1>1, <1>2, <2>1, <3>1 DEF Share, Held
      <4> QED BY <1>2, <4>1, <4>2
    <3>2. CASE f # e
      BY <1>1, <1>2, <2>1, <3>2 DEF Share, End
    <3> QED BY <3>1, <3>2
  <2>2. CASE q # p
    <3>1. call'[q] = call[q] /\ pc'[q] = pc[q] /\ seen'[q] = seen[q] /\ hand'[q] = hand[q]
      BY <1>2, <2>2
    <3> QED BY <3>1, ShareFalls
  <2> QED BY <2>1, <2>2
<1>5. ASSUME NEW f \in Ends
      PROVE  /\ Ahead(f)' \subseteq Ahead(f)
             /\ \A q \in Procs : Writing(q) /\ wrote[q] /\ End(q) = Peer(f)
                            => pc'[q] \in {"write", "copyin"} /\ wrote'[q] /\ call'[q] = call[q]
  <2>1. Ahead(f)' \subseteq Ahead(f)
    BY <1>4, AheadFalls
  <2>2. ASSUME NEW q \in Procs, Writing(q), wrote[q]
        PROVE  pc'[q] \in {"write", "copyin"} /\ wrote'[q] /\ call'[q] = call[q]
    BY <1>2, <2>2 DEF Writing
  <2> QED BY <2>1, <2>2
<1>6. ASSUME NEW f \in Ends, queue'[f].blocks = queue[f].blocks
      PROVE  EndKept(f)'
  BY <1>2, <1>5, <1>6, EndLess
<1>7. ASSUME NEW r \in DataBlock, BytesIn(r) \subseteq BytesIn(hand[p]), queue'[e] = Putbq(queue[e], r)
      PROVE  EndKept(e)'
  <2> DEFINE F == Ahead(e)
             G == Ahead(e)'
             B == queue[e].blocks
             C == queue'[e].blocks
  <2>1. /\ Line(F, B, starts[e])
        /\ linked => \A x : Trails(F, B, x) => Current(e, x)
    BY DEF RecordInv
  <2>2. G \cup BytesIn(r) \subseteq F
    BY <1>3, <1>5, <1>7
  <2>3. B \in Seq(Blocks) /\ QueueOK(queue[e]) /\ r \in Blocks
    BY DEF TypesInv, QueuesOK, EndTypes, QueueType, Blocks
  <2>4. Len(C) = Len(B) + 1 /\ C[1] = r /\ \A i \in 1 .. Len(B) : C[i + 1] = B[i]
    <3> DEFINE D == Putbq(queue[e], r).blocks
    <3>1. Len(D) = Len(B) + 1 /\ D[1] = r /\ \A i \in 1 .. Len(B) : D[i + 1] = B[i]
      BY <2>3, QueueAssumption, PutbqKeeps
    <3>2. C = D
      BY <1>7
    <3> HIDE DEF B, C, D
    <3> QED BY <3>1, <3>2
  <2> HIDE DEF F, G, B, C
  <2>5. Line(G, C, starts[e]) /\ \A x : Trails(G, C, x) => Trails(F, B, x)
    BY <2>1, <2>2, <2>3, <2>4, LineGive
  <2>6. /\ Line(Ahead(e)', queue'[e].blocks, starts'[e])
        /\ \A x : Trails(Ahead(e)', queue'[e].blocks, x) => Trails(F, B, x)
    BY <1>2, <2>5 DEF G, C
  <2>7. ASSUME linked', NEW x, Trails(Ahead(e)', queue'[e].blocks, x)
        PROVE  Current(e, x)'
    <3>1. Current(e, x)
      BY <1>2, <2>1, <2>6, <2>7
    <3> QED BY <1>2, <1>5, <3>1, StillCurrent
  <2> QED BY <2>6, <2>7 DEF EndKept, Line, Trails, Piece, Open, Together
<1>8. \A f \in Ends : EndKept(f)'
  BY <1>2, <1>6, <1>7
<1>9. ASSUME NEW q \in Procs
      PROVE  SeenTogether(q)'
  <2>1. CASE q = p
    <3>1. Together(starts[e], Ahead(e), Ahead(e))
      <4>1. Line(Ahead(e), queue[e].blocks, starts[e]) /\ queue[e].blocks \in Seq(Blocks)
        BY DEF RecordInv, TypesInv, EndTypes, QueueType
      <4> QED BY <4>1, LineFront
    <3>2. seen'[q] \subseteq Ahead(e) /\ starts' = starts /\ End(q)' = e
      BY <1>1, <1>2, <1>3, <2>1 DEF End
    <3>3. Together(starts[e], seen'[q], seen'[q])
      BY <3>1, <3>2 DEF Together
    <3> QED BY <3>2, <3>3 DEF SeenTogether, Together
  <2>2. CASE q # p
    <3>1. SeenTogether(q) /\ starts' = starts /\ seen'[q] = seen[q] /\ End(q)' = End(q) /\ pc'[q] = pc[q]
      BY <1>2, <2>2 DEF RecordInv, End
    <3> QED BY <3>1 DEF SeenTogether, Together
  <2> QED BY <2>1, <2>2
<1> QED BY <1>8, <1>9 DEF RecordInv, EndKept

(* A writer's step: the reads go on as they were.                          *)
LEMMA WriterShares ==
  ASSUME TypesInv, NEW p \in Procs, pc[p] # "user", call[p].kind \in Writes, pc'[p] # "user",
         call' = call, seen' = seen, hand' = hand, \A q \in Procs : q # p => pc'[q] = pc[q],
         pc'[p] \in {"write", "exit"}, starts' = starts
  PROVE  /\ \A e \in Ends : Ahead(e)' \subseteq Ahead(e)
         /\ RecordInv => \A q \in Procs : SeenTogether(q)'
<1>1. ASSUME NEW e \in Ends, NEW q \in Procs
      PROVE  Share(q, e)' \subseteq Share(q, e)
  BY ShareFalls
<1>2. ASSUME RecordInv, NEW q \in Procs
      PROVE  SeenTogether(q)'
  <2>1. SeenTogether(q) /\ starts' = starts /\ seen'[q] = seen[q] /\ End(q)' = End(q)
        /\ (pc'[q] # "user" => pc[q] # "user")
    BY <1>2 DEF RecordInv, End
  <2> QED BY <2>1 DEF SeenTogether, Together
<1> QED BY <1>1, <1>2, AheadFalls

(* Every byte at an end has been sent there.                               *)
LEMMA BytesBounded ==
  ASSUME TypesInv, ByteInv, NEW e \in Ends, NEW i \in 0 .. Len(queue[e].blocks)
  PROVE  Piece(Ahead(e), queue[e].blocks, i) \subseteq 1 .. sent[e]
<1>1. Len(queue[e].blocks) \in Nat
  BY LenProperties DEF TypesInv, EndTypes, QueueType
<1>2. CASE i # 0
  <2>1. i \in 1 .. Len(queue[e].blocks)
    BY <1>1, <1>2
  <2> QED BY <1>2, <2>1 DEF Piece, ByteInv, Upto
<1>3. CASE i = 0
  <2>1. ASSUME NEW q \in Procs
        PROVE  Share(q, e) \subseteq 1 .. sent[e]
    BY DEF Share, Held, ByteInv, ProcBytes
  <2>2. Ahead(e) \subseteq 1 .. sent[e]
    BY <2>1 DEF Ahead
  <2> QED BY <1>3, <2>2 DEF Piece
<1> QED BY <1>2, <1>3

(* A block is put: what belongs to the write that trails goes with it.     *)
LEMMA PutLine ==
  ASSUME TypesInv, ByteInv, RecordInv, NEW p \in Procs, pc[p] # "user", NEW b \in Blocks, PutStep(p, b),
         NEW f \in Ends, f = Peer(End(p)), Ahead(f)' \subseteq Ahead(f), starts' = starts, linked,
         \A y \in BytesIn(b), m \in starts[f] : m < y
  PROVE  /\ Line(Ahead(f)', queue'[f].blocks, starts'[f])
         /\ \A x : Trails(Ahead(f)', queue'[f].blocks, x)
                     => b.type # "delim" /\ (Current(f, x) \/ x \in BytesIn(b))
<1> DEFINE F == Ahead(f)
           G == Ahead(f)'
           q == queue[f]
           S == starts[f]
           C == Putq(q, b).blocks
<1>1. QueueOK(q) /\ queue'[f].blocks = C
  BY PutFacts
<1>2. Line(F, q.blocks, S) /\ \A x : Trails(F, q.blocks, x) => Current(f, x)
  BY DEF RecordInv
<1>3. S \subseteq Nat /\ \A y \in BytesIn(b) : y \in Nat
  <2>1. starts \in [Ends -> SUBSET Nat]
    BY DEF TypesInv, EndTypes
  <2>2. CASE b \in DataBlock
    <3>1. b.bytes \in Seq(Nat)
      BY <2>2 DEF DataBlock
    <3> QED BY <2>1, <3>1, ElementOfSeq DEF BytesIn
  <2>3. CASE b \in {Delim, Pass}
    BY <2>1, <2>3, BytesOfNone
  <2> QED BY <2>2, <2>3 DEF Blocks
<1>4. Together(S, BytesIn(b), BytesIn(b))
  <2>1. ASSUME NEW x \in BytesIn(b), NEW m \in S
        PROVE  ~(x <= m)
    <3>1. m < x /\ x \in Nat /\ m \in Nat
      BY <1>3
    <3> QED BY <3>1
  <2> QED BY <2>1 DEF Together
<1>5. ASSUME NEW x, NEW y, NEW m, Trails(F, q.blocks, x), y \in BytesIn(b), m \in S
      PROVE  x <= m <=> y <= m
  <2>1. x \in 1 .. sent[f] /\ sent[f] \in Nat
    BY <1>5, BytesBounded DEF Trails, TypesInv, EndTypes
  <2>2. m < x /\ m < y /\ y \in Nat /\ m \in Nat
    BY <1>2, <1>3, <1>5 DEF Current
  <2> QED BY <2>1, <2>2
<1> HIDE DEF F, q, S
<1>6. /\ Line(F, C, S)
      /\ \A x : Trails(F, C, x) => b.type # "delim" /\ (Trails(F, q.blocks, x) \/ x \in BytesIn(b))
  BY <1>1, <1>2, <1>4, <1>5, LinePut
<1>7. G \subseteq F
  BY DEF F
<1> HIDE DEF G, C
<1>8. /\ Line(G, C, S)
      /\ \A x : Trails(G, C, x) => b.type # "delim" /\ (Current(f, x) \/ x \in BytesIn(b))
  BY <1>2, <1>6, <1>7, LineLess
<1> QED BY <1>1, <1>8 DEF G, S

LEMMA CloseRecords ==
  ASSUME TypesInv, ByteInv, OneWriter, RecordInv, NEW p \in Procs, Closes(p)
  PROVE  RecordInv'
<1>1. /\ pc[p] # "user" /\ call[p].kind \in Writes /\ pc' = [pc EXCEPT ![p] = "exit"]
      /\ pc \in [Procs -> PCs] /\ UNCHANGED <<sent, starts, seen, ucount, wrote, hand>>
  BY CloseFacts DEF TypesInv, ProcTypes
<1>2. PICK b \in Blocks : /\ PutStep(p, b) /\ BytesIn(b) = {} /\ (b.type = "delim" <=> ~SendFile(p))
  BY CloseFacts
<1>3. PICK f \in Ends : f = Peer(End(p)) /\ End(p) = Peer(f)
  BY <1>1, CallOfProc, PeerFacts
<1>4. /\ queue'[f] = IF linked THEN Putq(queue[f], b) ELSE queue[f]
      /\ \A g \in Ends : g # f => queue'[g] = queue[g]
      /\ linked' = linked /\ call' = call
  BY <1>1, <1>2, <1>3, PutFacts
<1>5. /\ \A e \in Ends : Ahead(e)' \subseteq Ahead(e)
      /\ \A q \in Procs : SeenTogether(q)'
  BY <1>1, <1>4, WriterShares
<1>6. ASSUME NEW e \in Ends, e # f \/ ~linked
      PROVE  EndKept(e)'
  <2>1. queue'[e].blocks = queue[e].blocks
    BY <1>4, <1>6
  <2>2. ASSUME linked', NEW q \in Procs, Writing(q), wrote[q], End(q) = Peer(e)
        PROVE  pc'[q] \in {"write", "copyin"} /\ wrote'[q] /\ call'[q] = call[q]
    <3>1. q # p
      BY <1>3, <1>4, <1>6, <2>2, PeerFacts
    <3> QED BY <1>1, <1>4, <2>2, <3>1 DEF Writing
  <2> QED BY <1>1, <1>4, <1>5, <2>1, <2>2, EndLess
<1>7. ASSUME linked
      PROVE  EndKept(f)'
  <2>1. /\ Line(Ahead(f)', queue'[f].blocks, starts'[f])
        /\ \A x : Trails(Ahead(f)', queue'[f].blocks, x) => b.type # "delim" /\ Current(f, x)
    BY <1>1, <1>2, <1>3, <1>5, <1>7, PutLine
  <2>2. ASSUME NEW x, Trails(Ahead(f)', queue'[f].blocks, x)
        PROVE  FALSE
    <3>1. SendFile(p) /\ HasWriter(f)
      BY <1>2, <2>1, <2>2 DEF Current
    <3>2. PICK q \in Procs : Writing(q) /\ End(q) = End(p)
      BY <1>3, <3>1 DEF HasWriter
    <3>3. pc[q] # "user" /\ call[q].kind \in Writes
      BY <3>2 DEF Writing, TypesInv, PlaceOK, Writes
    <3>4. q = p
      BY <1>1, <3>2, <3>3, TheWriter
    <3> QED BY <3>1, <3>2, <3>4 DEF SendFile, Writing
  <2> QED BY <2>1, <2>2 DEF EndKept, Line, Trails, Piece, Open, Together
<1> QED BY <1>5, <1>6, <1>7 DEF RecordInv, EndKept

LEMMA WrittenRecords ==
  ASSUME TypesInv, ByteInv, RecordInv, NEW p \in Procs, WritePut(p)
  PROVE  RecordInv'
<1>1. pc[p] = "copyin" /\ pc[p] # "user"
  BY DEF WritePut
<1>2. PICK f \in Ends : f = Peer(End(p)) /\ End(p) = Peer(f)
  BY <1>1, CallOfProc, PeerFacts
<1>3. PICK n \in 1 .. Cap, b \in Blocks :
        /\ call[p].kind \in Writes /\ PutStep(p, b)
        /\ BytesIn(b) = sent[f] + 1 .. sent[f] + n
        /\ wrote' = [wrote EXCEPT ![p] = TRUE]
        /\ pc' = [pc EXCEPT ![p] = "write"] /\ UNCHANGED <<starts, seen, hand>>
  <2>1. \E n \in 1 .. Cap : \E b \in Blocks :
           /\ pc[p] = "copyin" /\ call[p].kind \in Writes /\ PutStep(p, b) /\ n <= ucount[p]
           /\ b.type = "data" /\ BytesIn(b) = sent[f] + 1 .. sent[f] + n
           /\ sent' = IF linked THEN [sent EXCEPT ![f] = @ + n] ELSE sent
           /\ ucount' = [ucount EXCEPT ![p] = @ - n] /\ wrote' = [wrote EXCEPT ![p] = TRUE]
           /\ pc' = [pc EXCEPT ![p] = "write"] /\ UNCHANGED <<starts, seen, hand>>
    BY <1>2, WrittenFacts
  <2> QED BY <2>1
<1>4. /\ queue'[f] = IF linked THEN Putq(queue[f], b) ELSE queue[f]
      /\ \A g \in Ends : g # f => queue'[g] = queue[g]
      /\ linked' = linked /\ call' = call
  BY <1>1, <1>2, <1>3, PutFacts
<1>5. pc \in [Procs -> PCs] /\ wrote \in [Procs -> BOOLEAN]
  BY DEF TypesInv, ProcTypes
<1>6. /\ \A e \in Ends : Ahead(e)' \subseteq Ahead(e)
      /\ \A q \in Procs : SeenTogether(q)'
  <2>1. pc'[p] = "write" /\ \A q \in Procs : q # p => pc'[q] = pc[q]
    BY <1>3, <1>5
  <2> QED BY <1>1, <1>3, <1>4, <2>1, WriterShares
<1>7. ASSUME NEW q \in Procs, Writing(q), wrote[q]
      PROVE  pc'[q] \in {"write", "copyin"} /\ wrote'[q] /\ call'[q] = call[q]
  BY <1>3, <1>4, <1>5, <1>7 DEF Writing
<1>8. ASSUME NEW e \in Ends, e # f \/ ~linked
      PROVE  EndKept(e)'
  <2>1. queue'[e].blocks = queue[e].blocks
    BY <1>4, <1>8
  <2> QED BY <1>3, <1>4, <1>6, <1>7, <2>1, EndLess
<1>9. ASSUME linked
      PROVE  EndKept(f)'
  <2>1. \A y \in BytesIn(b), m \in starts[f] : m < y
    <3>1. sent[f] \in Nat /\ starts[f] \subseteq 0 .. sent[f] /\ Cap \in Nat
      BY QueueAssumption DEF TypesInv, EndTypes, ByteInv, QueueAssumption
    <3> QED BY <1>3, <3>1
  <2>2. /\ Line(Ahead(f)', queue'[f].blocks, starts'[f])
        /\ \A x : Trails(Ahead(f)', queue'[f].blocks, x) => Current(f, x) \/ x \in BytesIn(b)
    BY <1>1, <1>2, <1>3, <1>6, <1>9, <2>1, PutLine
  <2>3. ASSUME NEW x, Trails(Ahead(f)', queue'[f].blocks, x)
        PROVE  Current(f, x)'
    <3>1. \A m \in starts'[f] : m < x
      BY <1>3, <2>1, <2>2, <2>3 DEF Current
    <3>2. pc'[p] \in {"write", "copyin"} /\ wrote'[p] /\ call'[p] = call[p]
      BY <1>3, <1>4, <1>5
    <3>3. HasWriter(f)'
      BY <1>2, <3>2 DEF HasWriter, Writing, End
    <3> QED BY <3>1, <3>3 DEF Current
  <2> QED BY <2>2, <2>3 DEF EndKept, Line, Trails, Piece, Open, Together
<1> QED BY <1>6, <1>8, <1>9 DEF RecordInv, EndKept

LEMMA EnterRecords ==
  ASSUME TypesInv, ByteInv, OneWriter, RecordInv, NEW p \in Procs, NEW c \in CallsOf[p], Stenter(p, c)
  PROVE  RecordInv'
<1>1. PICK e \in Ends, f \in Ends : e = c.end /\ f = Peer(e) /\ Peer(f) = e
  BY EnterFacts, PeerFacts
<1>2. /\ pc[p] = "user" /\ seen[p] = {} /\ ~wrote[p]
      /\ UNCHANGED <<queue, linked, sent, seen, hand, wrote>>
      /\ pc'[p] \in {"read", "write", "rcv", "ioctl"} /\ call'[p] = c
      /\ \A q \in Procs : q # p => pc'[q] = pc[q] /\ call'[q] = call[q]
      /\ starts' = IF c.kind = "write" THEN [starts EXCEPT ![f] = @ \cup {sent[f]}] ELSE starts
  BY <1>1, EnterFacts
<1>3. starts \in [Ends -> SUBSET Nat] /\ sent \in [Ends -> Nat]
  BY DEF TypesInv, EndTypes
<1>4. ASSUME NEW g \in Ends
      PROVE  Ahead(g)' \subseteq Ahead(g)
  <2>1. ASSUME NEW q \in Procs
        PROVE  Share(q, g)' \subseteq Share(q, g)
    <3>1. \/ pc'[q] \notin {"read", "iomove"}
          \/ call'[q] = call[q] /\ pc'[q] = pc[q] /\ seen'[q] = seen[q] /\ hand'[q] = hand[q]
          \/ seen'[q] = {} /\ pc'[q] = "read"
      BY <1>2
    <3> QED BY <3>1, ShareFalls
  <2> QED BY <2>1, AheadFalls
<1>5. ASSUME NEW g \in Ends, starts'[g] = starts[g]
      PROVE  EndKept(g)'
  <2>1. \A q \in Procs : Writing(q) /\ wrote[q] /\ End(q) = Peer(g)
                            => pc'[q] \in {"write", "copyin"} /\ wrote'[q] /\ call'[q] = call[q]
    BY <1>2 DEF Writing
  <2> QED BY <1>2, <1>4, <1>5, <2>1, EndLess
<1>6. ASSUME c.kind = "write"
      PROVE  EndKept(f)'
  <2> DEFINE G == Ahead(f)'
             B == queue[f].blocks
             m == sent[f]
             T == starts[f] \cup {m}
  <2>1. /\ Line(Ahead(f), B, starts[f])
        /\ linked => \A x : Trails(Ahead(f), B, x) => Current(f, x)
    BY DEF RecordInv
  <2>2. \A i \in 0 .. Len(B) : \A x \in Piece(Ahead(f), B, i) : x <= m
    <3>1. ASSUME NEW i \in 0 .. Len(B), NEW x \in Piece(Ahead(f), B, i)
          PROVE  x <= m
      <4>1. x \in 1 .. m /\ m \in Nat
        BY <1>3, <3>1, BytesBounded
      <4> QED BY <4>1
    <3> QED BY <3>1
  <2>3. m \in Nat /\ G \subseteq Ahead(f)
    BY <1>3, <1>4
  <2>4. starts'[f] = T
    BY <1>2, <1>3, <1>6
  <2>5. ~HasWriter(f)
    <3>1. ASSUME NEW q \in Procs, Writing(q), End(q) = Peer(f)
          PROVE  FALSE
      <4>1. pc[q] # "user" /\ call[q].kind \in Writes /\ call[q].end = c.end
        BY <1>1, <3>1 DEF Writing, TypesInv, PlaceOK, Writes, End
      <4>2. call[q] \in CallsOf[q] /\ c.kind \in Writes
        BY <1>6, <4>1, CallOfProc DEF Writes
      <4>3. q = p
        BY <4>1, <4>2 DEF OneWriter
      <4> QED BY <1>2, <4>1, <4>3
    <3> QED BY <3>1 DEF HasWriter
  <2>6. B = queue'[f].blocks
    BY <1>2
  <2> HIDE DEF G, B, m, T
  <2>7. Line(Ahead(f), B, T)
    BY <2>1, <2>2, <2>3, LineStart DEF T
  <2>8. Line(G, B, T) /\ \A x : Trails(G, B, x) => Trails(Ahead(f), B, x)
    BY <2>3, <2>7, LineLess
  <2>9. linked => \A x : ~Trails(G, B, x)
    BY <2>1, <2>5, <2>8 DEF Current
  <2>10. /\ Line(Ahead(f)', queue'[f].blocks, starts'[f])
         /\ linked => \A x : ~Trails(Ahead(f)', queue'[f].blocks, x)
    BY <2>4, <2>6, <2>8, <2>9 DEF G
  <2> QED BY <1>2, <2>10 DEF EndKept, Line, Trails, Piece, Open, Together
<1>7. \A g \in Ends : EndKept(g)'
  <2>1. \A g \in Ends : starts'[g] = starts[g] \/ (g = f /\ c.kind = "write")
    BY <1>2, <1>3
  <2> QED BY <1>5, <1>6, <2>1
<1>8. ASSUME NEW q \in Procs
      PROVE  SeenTogether(q)'
  <2>1. CASE q = p
    BY <1>2, <2>1 DEF SeenTogether, Together
  <2>2. CASE q # p /\ pc[q] # "user"
    <3>1. PICK g \in Ends : g = End(q)
      BY <2>2, CallOfProc
    <3>2. Together(starts[g], seen[q], seen[q]) /\ seen[q] \subseteq 1 .. sent[g]
      BY <2>2, <3>1 DEF RecordInv, SeenTogether, ByteInv, ProcBytes
    <3>3. starts'[g] \subseteq starts[g] \cup {sent[g]} /\ sent[g] \in Nat
      BY <1>2, <1>3
    <3>4. \A x \in seen[q] : x <= sent[g]
      BY <3>2, <3>3
    <3>5. Together(starts'[g], seen[q], seen[q])
      BY <3>2, <3>3, <3>4 DEF Together
    <3>6. End(q)' = g /\ seen'[q] = seen[q]
      BY <1>2, <2>2, <3>1 DEF End
    <3> QED BY <3>5, <3>6 DEF SeenTogether, Together
  <2>3. CASE q # p /\ pc[q] = "user"
    BY <1>2, <2>3 DEF SeenTogether
  <2> QED BY <2>1, <2>2, <2>3
<1> QED BY <1>7, <1>8 DEF RecordInv, EndKept

LEMMA RecordInit ==
  ASSUME Init
  PROVE  RecordInv
<1>1. \A e \in Ends : queue[e].blocks = <<>> /\ starts[e] = {}
  BY DEF Init, Empty
<1>2. \A p \in Procs : pc[p] = "user"
  BY DEF Init
<1>3. \A e \in Ends : Ahead(e) = {}
  BY <1>2 DEF Ahead, Share
<1>4. \A e \in Ends : Line(Ahead(e), queue[e].blocks, starts[e])
  BY <1>1 DEF Line, Together
<1>5. ASSUME NEW e \in Ends, NEW x
      PROVE  ~Trails(Ahead(e), queue[e].blocks, x)
  <2>1. \A i \in 0 .. Len(<<>>) : i = 0
    OBVIOUS
  <2> QED BY <1>1, <1>3, <2>1 DEF Trails, Piece
<1>6. \A p \in Procs : SeenTogether(p)
  BY <1>2 DEF SeenTogether
<1> QED BY <1>4, <1>5, <1>6 DEF RecordInv

LEMMA RecordStep ==
  ASSUME PipeInv, ByteInv, RecordInv, OneWriter, OneReader, NoFlush, WritesEnd, [Next]_vars
  PROVE  RecordInv'
<1>1. TypesInv
  BY DEF PipeInv
<1>2. \A p \in Procs : ~Flush(p)
  <2>1. ASSUME NEW p \in Procs, Flush(p)
        PROVE  FALSE
    <3>1. pc[p] # "user" /\ call[p].kind = "flush"
      BY <2>1 DEF Flush
    <3> QED BY <1>1, <3>1, CallOfProc DEF NoFlush
  <2> QED BY <2>1
<1> QED BY <1>1, <1>2, KindsOfSteps, QuietRecords, TakeRecords, CopyRecords, CloseRecords, WrittenRecords,
           EnterRecords

(* One read never delivers bytes of two writes: an end has one writer and  *)
(* one reader, nobody flushes, copying succeeds and no signal ends a write.*)
THEOREM RecordsApart ==
  ASSUME OneWriter, OneReader, NoFlush, WritesEnd
  PROVE  Spec => []RecordsKept
<1>1. ASSUME PipeInv, ByteInv, RecordInv
      PROVE  RecordsKept
  <2>1. ASSUME NEW p \in Procs, pc[p] # "user", NEW m \in starts[End(p)]
        PROVE  (\A x \in seen[p] : x <= m) \/ (\A x \in seen[p] : x > m)
    <3>1. End(p) \in Ends /\ seen[p] \subseteq Nat /\ starts[End(p)] \subseteq Nat
      BY <1>1, <2>1, CallOfProc DEF PipeInv, TypesInv, EndTypes, ProcTypes
    <3>2. \A x \in seen[p], y \in seen[p] : x <= m <=> y <= m
      BY <1>1, <2>1 DEF RecordInv, SeenTogether, Together
    <3>3. \A x \in seen[p] : x <= m \/ x > m
      BY <2>1, <3>1
    <3>4. \A x \in seen[p] : ~(x <= m /\ x > m)
      BY <2>1, <3>1
    <3> QED BY <3>2, <3>3, <3>4
  <2> QED BY <2>1 DEF RecordsKept
<1>2. ASSUME PipeInv, ByteInv, RecordInv, [Next]_vars
      PROVE  PipeInv' /\ ByteInv' /\ RecordInv'
  <2>1. TypesInv
    BY <1>2 DEF PipeInv
  <2> QED BY <1>2, <2>1, PipeStep, BytesStep, RecordStep
<1>3. Init => PipeInv /\ ByteInv /\ RecordInv
  BY PipeInit, BytesInit, RecordInit
<1> QED BY <1>1, <1>2, <1>3, PTL DEF Spec
=============================================================================
