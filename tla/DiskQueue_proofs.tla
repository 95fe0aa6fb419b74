--------------------------- MODULE DiskQueue_proofs ---------------------------
(***************************************************************************)
(* Theorems about the queues of a disk controller, for any disks, request  *)
(* headers and cylinders.  The heart of the matter is DisksortInversions:  *)
(* whatever keys a queue has, as long as they fall at most once along it,  *)
(* disksort finds a place for a new request at which that stays so.  The   *)
(* driver then overwrites keys with zero; it does so at the head of a      *)
(* queue only, where a smaller key makes no new inversion.                 *)
(***************************************************************************)
EXTENDS DiskQueue, SequenceTheorems, WellFoundedInduction, TLAPS

(* What the proof says of one queue under keys.                            *)
AtMostOneInversion(q, key) == \A i, j \in Inversions(q, key) : i = j
Distinct(q) == \A i, j \in DOMAIN q : q[i] = q[j] => i = j

-----------------------------------------------------------------------------
(* Every set of naturals that is not empty has a least element.            *)
LEMMA LeastNat == ASSUME NEW T \in SUBSET Nat, T # {} PROVE \E i \in T : \A j \in T : i <= j
<1> DEFINE R == {ss \in Nat \X Nat : ss[1] < ss[2]}
<1>1. IsWellFoundedOn(R, Nat)
  BY NatLessThanWellFounded DEF OpToRel
<1>2. PICK x \in T : \A y \in T : <<y, x>> \notin R
  <2> HIDE DEF R
  <2> QED BY <1>1, WFMin
<1>3. ASSUME NEW y \in T PROVE x <= y
  <2> SUFFICES ASSUME y < x PROVE FALSE
    OBVIOUS
  <2>1. y \in Nat /\ x \in Nat
    OBVIOUS
  <2>2. <<y, x>> \in R
    BY <2>1
  <2> QED BY <1>2, <2>2
<1> QED BY <1>3

(* The list in which disksort puts r behind the i-th request of q.         *)
Inserted(q, i, r) == SubSeq(q, 1, i) \o <<r>> \o SubSeq(q, i + 1, Len(q))

LEMMA InsertedIs ==
  ASSUME NEW S, NEW q \in Seq(S), NEW i \in 0 .. Len(q), NEW r \in S
  PROVE  /\ Inserted(q, i, r) \in Seq(S)
         /\ Len(Inserted(q, i, r)) = Len(q) + 1
         /\ \A k \in 1 .. Len(q) + 1 :
              Inserted(q, i, r)[k] = IF k <= i THEN q[k] ELSE IF k = i + 1 THEN r ELSE q[k - 1]
<1> DEFINE a == SubSeq(q, 1, i)
           c == SubSeq(q, i + 1, Len(q))
<1>1. Len(q) \in Nat /\ \A k \in 1 .. Len(q) : q[k] \in S
  BY LenProperties, ElementOfSeq
<1>2. a \in Seq(S) /\ Len(a) = i /\ \A k \in 1 .. i : a[k] = q[k]
  BY <1>1, SubSeqProperties
<1>3. c \in Seq(S) /\ Len(c) = Len(q) - i /\ \A k \in 1 .. Len(q) - i : c[k] = q[i + k]
  BY <1>1, SubSeqProperties
<1>4. <<r>> \in Seq(S) /\ Len(<<r>>) = 1 /\ <<r>>[1] = r
  OBVIOUS
<1> HIDE DEF a, c
<1>5. /\ a \o <<r>> \in Seq(S) /\ Len(a \o <<r>>) = i + 1
      /\ \A k \in 1 .. i + 1 : (a \o <<r>>)[k] = IF k <= i THEN q[k] ELSE r
  <2> DEFINE o == <<r>>
  <2>1. o \in Seq(S) /\ Len(o) = 1 /\ o[1] = r
    BY <1>4
  <2> HIDE DEF o
  <2>2. /\ a \o o \in Seq(S) /\ Len(a \o o) = i + 1
        /\ \A k \in 1 .. i + 1 : (a \o o)[k] = IF k <= i THEN a[k] ELSE o[k - i]
    <3>1. Len(a) + Len(o) = i + 1 /\ Len(a) = i
      BY <1>2, <2>1
    <3>2. /\ a \o o \in Seq(S) /\ Len(a \o o) = Len(a) + Len(o)
          /\ \A k \in 1 .. Len(a) + Len(o) :
               (a \o o)[k] = IF k <= Len(a) THEN a[k] ELSE o[k - Len(a)]
      BY <1>2, <2>1, ConcatProperties, Zenon
    <3> QED BY <3>1, <3>2
  <2>3. \A k \in 1 .. i + 1 : (a \o o)[k] = IF k <= i THEN q[k] ELSE r
    BY <1>1, <1>2, <2>1, <2>2
  <2> QED BY <2>2, <2>3 DEF o
<1> DEFINE ar == a \o <<r>>
<1>6. ar \in Seq(S) /\ Len(ar) = i + 1
      /\ \A k \in 1 .. i + 1 : ar[k] = IF k <= i THEN q[k] ELSE r
  BY <1>5
<1> HIDE DEF ar
<1>7. /\ ar \o c \in Seq(S) /\ Len(ar \o c) = Len(q) + 1
      /\ \A k \in 1 .. Len(q) + 1 : (ar \o c)[k] = IF k <= i + 1 THEN ar[k] ELSE c[k - (i + 1)]
  <2>1. Len(ar) + Len(c) = Len(q) + 1 /\ Len(ar) = i + 1
    BY <1>1, <1>3, <1>6
  <2>2. /\ ar \o c \in Seq(S) /\ Len(ar \o c) = Len(ar) + Len(c)
        /\ \A k \in 1 .. Len(ar) + Len(c) :
             (ar \o c)[k] = IF k <= Len(ar) THEN ar[k] ELSE c[k - Len(ar)]
    BY <1>3, <1>6, ConcatProperties, Zenon
  <2> QED BY <2>1, <2>2
<1>8. ASSUME NEW k \in 1 .. Len(q) + 1
      PROVE  (ar \o c)[k] = IF k <= i THEN q[k] ELSE IF k = i + 1 THEN r ELSE q[k - 1]
  <2>1. CASE k <= i + 1
    BY <1>1, <1>6, <1>7, <2>1
  <2>2. CASE ~(k <= i + 1)
    <3> DEFINE m == k - (i + 1)
    <3>1. m \in 1 .. Len(q) - i /\ i + m = k - 1
      BY <1>1, <2>2
    <3>2. c[m] = q[k - 1]
      BY <1>3, <3>1
    <3>3. (ar \o c)[k] = c[m]
      BY <1>7, <2>2
    <3>4. ~(k <= i) /\ k # i + 1
      BY <1>1, <2>2
    <3> QED BY <3>2, <3>3, <3>4
  <2> QED BY <2>1, <2>2
<1> QED BY <1>7, <1>8 DEF Inserted, ar, a, c

(* disksort puts a request into a queue that is not empty at its least     *)
(* place, behind a request that is there.                                  *)
LEMMA DisksortPlace ==
  ASSUME NEW S, NEW q \in Seq(S), q # <<>>, NEW key, NEW r
  PROVE  \E i \in Place(q, key, r) :
           /\ i \in 1 .. Len(q) /\ Disksort(q, key, r) = Inserted(q, i, r)
           /\ \A j \in Place(q, key, r) : i <= j
<1>1. Len(q) \in 1 .. Len(q) /\ DOMAIN q = 1 .. Len(q)
  BY EmptySeq, LenProperties
<1>2. Place(q, key, r) \in SUBSET Nat /\ Place(q, key, r) \subseteq 1 .. Len(q)
  BY <1>1 DEF Place
<1>3. Len(q) \in Place(q, key, r)
  BY <1>1 DEF Place, SecondList, FirstList, NextIsLarger
<1> DEFINE i == CHOOSE i \in Place(q, key, r) : \A j \in Place(q, key, r) : i <= j
<1>4. i \in Place(q, key, r) /\ \A j \in Place(q, key, r) : i <= j
  BY <1>2, <1>3, LeastNat
<1>5. Disksort(q, key, r) = Inserted(q, i, r)
  BY DEF Disksort, Inserted
<1> HIDE DEF i
<1> QED BY <1>2, <1>4, <1>5

(* disksort makes no second inversion.                                     *)
LEMMA DisksortInversions ==
  ASSUME NEW S, NEW q \in Seq(S), NEW key \in [S -> Nat], NEW r \in S,
         AtMostOneInversion(q, key)
  PROVE  AtMostOneInversion(Disksort(q, key, r), key)
<1>1. CASE q = <<>>
  BY <1>1 DEF Disksort, AtMostOneInversion, Inversions
<1>2. CASE q # <<>>
  <2>1. PICK i \in Place(q, key, r) :
          /\ i \in 1 .. Len(q) /\ Disksort(q, key, r) = Inserted(q, i, r)
          /\ \A j \in Place(q, key, r) : i <= j
    BY <1>2, DisksortPlace
  <2> DEFINE new == Inserted(q, i, r)
             n == Len(q)
  <2>2. n \in Nat /\ DOMAIN q = 1 .. n /\ \A k \in 1 .. n : q[k] \in S /\ key[q[k]] \in Nat
    BY LenProperties, ElementOfSeq
  <2>3. /\ Len(new) = n + 1
        /\ \A k \in 1 .. n + 1 : new[k] = IF k <= i THEN q[k] ELSE IF k = i + 1 THEN r ELSE q[k - 1]
    <3>1. i \in 0 .. Len(q)
      BY <2>1, <2>2
    <3> QED BY <3>1, InsertedIs
  <2>4. key[r] \in Nat
    OBVIOUS
  <2> HIDE DEF new
  <2>5. \A k \in 1 .. n - 1 : k \in Inversions(q, key) <=> key[q[k + 1]] < key[q[k]]
    BY <2>2 DEF Inversions
  \* An inversion of the new list is one that the old list had before or behind the i-th
  \* request, or it is in front of r or behind r.
  <2>6. ASSUME NEW k \in Inversions(new, key)
        PROVE  /\ k \in 1 .. n
               /\ k < i => k \in Inversions(q, key)
               /\ k = i => key[r] < key[q[i]]
               /\ k = i + 1 => i < n /\ key[q[i + 1]] < key[r]
               /\ k > i + 1 => k - 1 \in Inversions(q, key)
    <3>1. k \in 1 .. n /\ key[new[k + 1]] < key[new[k]]
      BY <2>2, <2>3 DEF Inversions
    <3>2. CASE k < i
      <4>1. new[k] = q[k] /\ new[k + 1] = q[k + 1] /\ k \in 1 .. n - 1
        BY <2>1, <2>2, <2>3, <3>1, <3>2
      <4> QED BY <2>1, <2>2, <2>5, <3>1, <3>2, <4>1
    <3>3. CASE k = i
      <4>1. new[k] = q[i] /\ new[k + 1] = r
        BY <2>1, <2>2, <2>3, <3>1, <3>3
      <4> QED BY <2>1, <2>2, <3>1, <3>3, <4>1
    <3>4. CASE k = i + 1
      <4>1. new[k] = r /\ new[k + 1] = q[i + 1] /\ i < n
        BY <2>1, <2>2, <2>3, <3>1, <3>4
      <4> QED BY <2>1, <2>2, <3>1, <3>4, <4>1
    <3>5. CASE k > i + 1
      <4>1. k - 1 \in 1 .. n - 1 /\ (k - 1) + 1 = k
        <5>1. k \in 1 .. n /\ i \in 1 .. n
          BY <2>1, <3>1
        <5> HIDE DEF n
        <5> QED BY <2>2, <3>5, <5>1
      <4>2. new[k] = q[k - 1]
        <5>1. k \in 1 .. n + 1 /\ ~(k <= i) /\ k # i + 1
          BY <2>1, <2>2, <3>1, <3>5
        <5> QED BY <2>3, <5>1
      <4>3. new[k + 1] = q[k]
        <5>1. k + 1 \in 1 .. n + 1 /\ ~(k + 1 <= i) /\ k + 1 # i + 1 /\ (k + 1) - 1 = k
          BY <2>1, <2>2, <3>1, <3>5
        <5> QED BY <2>3, <5>1
      <4> QED BY <2>1, <2>2, <2>5, <3>1, <3>5, <4>1, <4>2, <4>3
    <3> QED BY <2>1, <3>1, <3>2, <3>3, <3>4, <3>5
  <2>7. CASE key[r] < key[q[1]]
    <3>1. \A k \in 1 .. n :
            k \in Place(q, key, r) <=> /\ k < n => key[r] < key[q[k + 1]]
                                       /\ k = n \/ \E j \in Inversions(q, key) : j <= k
      BY <2>2, <2>7 DEF Place, SecondList, NextIsLarger
    <3>2. ~(i < n /\ key[q[i + 1]] < key[r])
      <4> SUFFICES ASSUME i < n PROVE ~(key[q[i + 1]] < key[r])
        OBVIOUS
      <4>1. i \in 1 .. n /\ i + 1 \in 1 .. n /\ key[q[i + 1]] \in Nat
        BY <2>1, <2>2
      <4>2. key[r] < key[q[i + 1]]
        BY <3>1, <4>1
      <4> QED BY <2>4, <4>1, <4>2
    <3>3. CASE Inversions(q, key) = {}
      <4>1. i = n
        BY <2>1, <3>1, <3>3
      <4>2. \A k \in Inversions(new, key) : k = i
        BY <2>1, <2>2, <2>6, <3>2, <3>3, <4>1
      <4> QED BY <2>1, <4>2 DEF AtMostOneInversion, new
    <3>4. CASE Inversions(q, key) # {}
      <4>1. PICK j \in Inversions(q, key) : j \in 1 .. n - 1
        BY <3>4 DEF Inversions
      <4>2. \A k \in Inversions(q, key) : k = j
        BY DEF AtMostOneInversion
      <4>3. j <= i
        <5>1. i = n \/ \E l \in Inversions(q, key) : l <= i
          BY <2>1, <3>1
        <5> QED BY <2>2, <4>1, <4>2, <5>1
      <4>4. CASE i = j
        <5>1. \A k \in Inversions(new, key) : k = i
          BY <2>1, <2>2, <2>6, <3>2, <4>2, <4>4
        <5> QED BY <2>1, <5>1 DEF AtMostOneInversion, new
      <4>5. CASE j < i
        <5>1. i - 1 \in 1 .. n /\ i - 1 < n /\ j <= i - 1 /\ (i - 1) + 1 = i
          BY <2>1, <2>2, <4>1, <4>5
        <5>2. i - 1 \notin Place(q, key, r)
          BY <2>1, <5>1
        <5>3. ~(key[r] < key[q[i]])
          BY <3>1, <4>1, <5>1, <5>2
        <5>4. \A k \in Inversions(new, key) : k = j
          BY <2>1, <2>2, <2>6, <3>2, <4>2, <4>5, <5>3
        <5> QED BY <2>1, <5>4 DEF AtMostOneInversion, new
      <4> QED BY <2>1, <4>1, <4>3, <4>4, <4>5
    <3> QED BY <3>3, <3>4
  <2>8. CASE ~(key[r] < key[q[1]])
    <3>1. \A k \in 1 .. n :
            k \in Place(q, key, r) <=> k \in Inversions(q, key) \/ (k < n => key[r] < key[q[k + 1]])
      BY <2>2, <2>8 DEF Place, FirstList, NextIsLarger
    <3>2. ~(key[r] < key[q[i]])
      <4>1. CASE i = 1
        BY <2>8, <4>1
      <4>2. CASE i # 1
        <5>1. i - 1 \in 1 .. n /\ i - 1 < n /\ (i - 1) + 1 = i /\ ~(i <= i - 1)
          BY <2>1, <2>2, <4>2
        <5>2. i - 1 \notin Place(q, key, r)
          BY <2>1, <5>1
        <5> QED BY <3>1, <5>1, <5>2
      <4> QED BY <4>1, <4>2
    <3>3. ASSUME NEW k \in Inversions(q, key) PROVE i <= k
      <4>1. k \in 1 .. n
        BY <2>2 DEF Inversions
      <4> QED BY <2>1, <3>1, <4>1
    <3>4. ASSUME NEW k \in Inversions(new, key)
          PROVE  \/ k = i + 1 /\ i < n /\ key[q[i + 1]] < key[r]
                 \/ k > i + 1 /\ k - 1 \in Inversions(q, key)
      BY <2>1, <2>2, <2>6, <3>2, <3>3
    <3>5. CASE i \in Inversions(q, key)
      <4>1. \A k \in Inversions(q, key) : k = i
        BY <3>5 DEF AtMostOneInversion
      <4>2. \A k \in Inversions(new, key) : k = i + 1
        BY <2>1, <2>2, <2>6, <3>4, <4>1
      <4> QED BY <2>1, <4>2 DEF AtMostOneInversion, new
    <3>6. CASE i \notin Inversions(q, key)
      <4>1. ~(i < n /\ key[q[i + 1]] < key[r])
        BY <2>1, <2>2, <2>4, <3>1, <3>6
      <4>2. ASSUME NEW k \in Inversions(new, key), NEW l \in Inversions(new, key) PROVE k = l
        <5>1. k - 1 \in Inversions(q, key) /\ l - 1 \in Inversions(q, key)
          BY <3>4, <4>1
        <5>2. k - 1 = l - 1 /\ k \in 1 .. n /\ l \in 1 .. n
          BY <2>6, <5>1 DEF AtMostOneInversion, new
        <5> QED BY <2>2, <5>2
      <4> QED BY <2>1, <4>2 DEF AtMostOneInversion, new
    <3> QED BY <3>5, <3>6
  <2> QED BY <2>7, <2>8
<1> QED BY <1>1, <1>2

(* disksort adds the request to the queue, once; the last request is the   *)
(* old last one, unless that has become the last but one.                  *)
LEMMA DisksortAdds ==
  ASSUME NEW S, NEW q \in Seq(S), NEW key, NEW r \in S, Distinct(q), r \notin ToSet(q)
  PROVE  LET new == Disksort(q, key, r)
         IN /\ new \in Seq(S) /\ new # <<>> /\ Distinct(new)
            /\ ToSet(new) = ToSet(q) \cup {r}
            /\ q = <<>> => Last(new) = r
            /\ q # <<>> => Last(new) = IF new[Len(new) - 1] = Last(q) THEN r ELSE Last(q)
<1> DEFINE new == Disksort(q, key, r)
<1>1. CASE q = <<>>
  <2>1. new = <<r>>
    BY <1>1 DEF Disksort
  <2>2. new \in Seq(S) /\ new # <<>> /\ Len(new) = 1 /\ new[1] = r
    BY <2>1
  <2>3. DOMAIN new = {1}
    BY <2>2, LenProperties
  <2>4. ToSet(q) = {}
    BY <1>1 DEF ToSet
  <2> HIDE DEF new
  <2> QED BY <1>1, <2>2, <2>3, <2>4 DEF Distinct, ToSet, Last, new
<1>2. CASE q # <<>>
  <2>1. PICK i \in Place(q, key, r) : i \in 1 .. Len(q) /\ new = Inserted(q, i, r)
    BY <1>2, DisksortPlace
  <2> DEFINE n == Len(q)
  <2>2. n \in Nat /\ n >= 1 /\ DOMAIN q = 1 .. n
    BY <1>2, EmptySeq, LenProperties
  <2>3. /\ new \in Seq(S) /\ Len(new) = n + 1
        /\ \A k \in 1 .. n + 1 : new[k] = IF k <= i THEN q[k] ELSE IF k = i + 1 THEN r ELSE q[k - 1]
    <3>1. i \in 0 .. Len(q)
      BY <2>1, <2>2
    <3> HIDE DEF new, n
    <3>2. /\ Inserted(q, i, r) \in Seq(S) /\ Len(Inserted(q, i, r)) = Len(q) + 1
          /\ \A k \in 1 .. Len(q) + 1 :
               Inserted(q, i, r)[k] = IF k <= i THEN q[k] ELSE IF k = i + 1 THEN r ELSE q[k - 1]
      BY ONLY <3>1, InsertedIs, q \in Seq(S), r \in S
    <3>3. new = Inserted(q, i, r) /\ n = Len(q)
      BY <2>1 DEF n
    <3> QED BY <3>2, <3>3
  <2>4. DOMAIN new = 1 .. n + 1 /\ new # <<>>
    BY <2>2, <2>3, LenProperties, EmptySeq
  <2> HIDE DEF new
  <2>5. \A k \in 1 .. n : q[k] # r
    BY <2>2 DEF ToSet
  \* where the requests of q are in the new list
  <2>6. ASSUME NEW k \in 1 .. n + 1
        PROVE  \/ k = i + 1 /\ new[k] = r
               \/ k <= i /\ k \in 1 .. n /\ new[k] = q[k]
               \/ k > i + 1 /\ k - 1 \in 1 .. n /\ new[k] = q[k - 1]
    BY <2>1, <2>2, <2>3
  <2>7. Distinct(new)
    <3> SUFFICES ASSUME NEW k \in 1 .. n + 1, NEW l \in 1 .. n + 1, new[k] = new[l] PROVE k = l
      BY <2>4 DEF Distinct
    <3>1. \A x, y \in 1 .. n : q[x] = q[y] => x = y
      BY <2>2 DEF Distinct
    <3> QED BY <2>1, <2>2, <2>5, <2>6, <3>1
  <2>8. ToSet(new) \subseteq ToSet(q) \cup {r}
    <3> SUFFICES ASSUME NEW k \in 1 .. n + 1 PROVE new[k] \in ToSet(q) \cup {r}
      BY <2>4 DEF ToSet
    <3> QED BY <2>2, <2>6 DEF ToSet
  <2>9. ToSet(q) \cup {r} \subseteq ToSet(new)
    <3>1. i + 1 \in 1 .. n + 1 /\ new[i + 1] = r
      BY <2>1, <2>2, <2>3
    <3>2. ASSUME NEW k \in 1 .. n PROVE \E l \in 1 .. n + 1 : new[l] = q[k]
      <4>1. CASE k <= i
        <5>1. k \in 1 .. n + 1 /\ new[k] = q[k]
          BY <2>1, <2>2, <2>3, <4>1
        <5> QED BY <5>1
      <4>2. CASE ~(k <= i)
        <5>1. k + 1 \in 1 .. n + 1 /\ new[k + 1] = q[k]
          BY <2>1, <2>2, <2>3, <4>2
        <5> QED BY <5>1
      <4> QED BY <4>1, <4>2
    <3> QED BY <2>2, <2>4, <3>1, <3>2 DEF ToSet
  <2>10. Last(new) = new[n + 1] /\ Len(new) - 1 = n /\ Last(q) = q[n]
    BY <2>2, <2>3 DEF Last
  <2>11. Last(new) = IF new[n] = q[n] THEN r ELSE q[n]
    <3> HIDE DEF n
    <3>1. CASE i = n
      BY <2>1, <2>2, <2>3, <2>10, <3>1
    <3>2. CASE i # n
      <4>1. n \in 1 .. n + 1 /\ n + 1 \in 1 .. n + 1 /\ n # n + 1
        BY <2>2
      <4>2. new[n + 1] = q[n]
        <5>1. ~(n + 1 <= i) /\ n + 1 # i + 1 /\ (n + 1) - 1 = n
          BY <2>1, <2>2, <3>2
        <5> QED BY <2>3, <4>1, <5>1
      <4>3. new[n] # new[n + 1]
        BY <2>4, <2>7, <4>1 DEF Distinct
      <4> QED BY <2>10, <4>2, <4>3
    <3> QED BY <3>1, <3>2
  <2> QED BY <1>2, <2>3, <2>4, <2>7, <2>8, <2>9, <2>10, <2>11 DEF new
<1> QED BY <1>1, <1>2

-----------------------------------------------------------------------------
(* A queue's inversions depend on the keys of its own requests; the end of *)
(* a transfer takes the first request away; a key that becomes zero at the *)
(* head makes no inversion.                                                *)
LEMMA OtherKeys ==
  ASSUME NEW S, NEW q \in Seq(S), NEW key, NEW newkey, AtMostOneInversion(q, key),
         \A x \in ToSet(q) : newkey[x] = key[x]
  PROVE  AtMostOneInversion(q, newkey)
<1>1. Len(q) \in Nat /\ \A i \in 1 .. Len(q) : q[i] \in ToSet(q)
  BY LenProperties DEF ToSet
<1>2. \A i \in 1 .. Len(q) - 1 : i \in 1 .. Len(q) /\ i + 1 \in 1 .. Len(q)
  BY <1>1
<1>3. Inversions(q, newkey) = Inversions(q, key)
  BY <1>1, <1>2 DEF Inversions
<1> QED BY <1>3 DEF AtMostOneInversion

LEMMA TailInversions ==
  ASSUME NEW S, NEW q \in Seq(S), q # <<>>, NEW key, AtMostOneInversion(q, key)
  PROVE  AtMostOneInversion(Tail(q), key)
<1>1. /\ Len(q) \in Nat /\ Len(q) >= 1 /\ Len(Tail(q)) = Len(q) - 1
      /\ \A i \in 1 .. Len(q) - 1 : Tail(q)[i] = q[i + 1]
  BY HeadTailProperties, EmptySeq, LenProperties
<1>2. ASSUME NEW i \in Inversions(Tail(q), key) PROVE i \in Nat /\ i + 1 \in Inversions(q, key)
  <2>1. i \in 1 .. Len(q) - 2 /\ key[Tail(q)[i + 1]] < key[Tail(q)[i]]
    BY <1>1 DEF Inversions
  <2>2. Tail(q)[i] = q[i + 1] /\ Tail(q)[i + 1] = q[i + 1 + 1] /\ i + 1 \in 1 .. Len(q) - 1
    BY <1>1, <2>1
  <2> QED BY <2>1, <2>2 DEF Inversions
<1>3. ASSUME NEW i \in Inversions(Tail(q), key), NEW j \in Inversions(Tail(q), key) PROVE i = j
  <2>1. i + 1 = j + 1 /\ i \in Nat /\ j \in Nat
    BY <1>2 DEF AtMostOneInversion
  <2> QED BY <2>1
<1> QED BY <1>3 DEF AtMostOneInversion

LEMMA ZeroAtHead ==
  ASSUME NEW S, NEW q \in Seq(S), q # <<>>, NEW key \in [S -> Nat], Distinct(q),
         AtMostOneInversion(q, key)
  PROVE  AtMostOneInversion(q, [key EXCEPT ![Head(q)] = 0])
<1> DEFINE zkey == [key EXCEPT ![Head(q)] = 0]
<1>1. /\ Len(q) \in Nat /\ Head(q) = q[1] /\ DOMAIN q = 1 .. Len(q) /\ 1 \in 1 .. Len(q)
      /\ \A i \in 1 .. Len(q) : q[i] \in S
  BY EmptySeq, LenProperties, ElementOfSeq
<1>2. /\ zkey[q[1]] = 0
      /\ \A i \in 1 .. Len(q) : i # 1 => zkey[q[i]] = key[q[i]] /\ key[q[i]] \in Nat
  BY <1>1 DEF Distinct
<1> HIDE DEF zkey
<1>3. ASSUME NEW i \in Inversions(q, zkey) PROVE i \in Inversions(q, key)
  <2>1. i \in 1 .. Len(q) - 1 /\ zkey[q[i + 1]] < zkey[q[i]]
    BY DEF Inversions
  <2>2. i \in 1 .. Len(q) /\ i + 1 \in 1 .. Len(q) /\ i + 1 # 1
    BY <1>1, <2>1
  <2>3. i # 1
    BY <1>2, <2>1, <2>2
  <2> QED BY <1>2, <2>1, <2>2, <2>3 DEF Inversions
<1> QED BY <1>3 DEF AtMostOneInversion, zkey

-----------------------------------------------------------------------------
(* The inductive invariant: besides what the runs check, a request waits   *)
(* for one disk only, so that a new key disturbs no other queue.           *)
OneQueue == \A d, e \in Disks : d # e => ToSet(actf[d]) \cap ToSet(actf[e]) = {}

QueueInv == DiskTypeOK /\ NoStall /\ TwoLists /\ OneQueue

Keys == Cylinders \cup {0}

LEMMA KeysAreNat == Keys \subseteq Nat /\ 0 \in Keys
BY DiskConstants DEF Keys

(* The initial states satisfy the invariant.                               *)
LEMMA DiskInitInv == DiskInit => QueueInv
<1> SUFFICES ASSUME DiskInit PROVE QueueInv
  OBVIOUS
<1>1. <<>> \in Seq(DiskReqs) /\ <<>> \in Seq(Disks) /\ DOMAIN <<>> = {}
  BY EmptySeq
<1>2. DiskTypeOK
  <2>1. (CHOOSE r \in DiskReqs : TRUE) \in DiskReqs
    BY DiskConstants
  <2> QED BY <1>1, <2>1 DEF DiskInit, DiskTypeOK
<1>3. NoStall
  BY <1>1 DEF DiskInit, NoStall
<1>4. TwoLists
  <2>1. Inversions(<<>>, b_cylin) = {}
    BY DEF Inversions
  <2> QED BY <1>1, <2>1 DEF DiskInit, TwoLists
<1>5. OneQueue
  <2>1. ToSet(<<>>) = {}
    BY <1>1 DEF ToSet
  <2> QED BY <2>1 DEF DiskInit, OneQueue
<1> QED BY <1>2, <1>3, <1>4, <1>5 DEF QueueInv

(* Where the disk whose transfer is over stands, and what scdone leaves.   *)
LEMMA ScdoneHead ==
  ASSUME QueueInv, Scdone
  PROVE  /\ mcq # <<>> /\ Head(mcq) \in Disks /\ Head(mcq) = mcq[1] /\ Tail(mcq) \in Seq(Disks)
         /\ actf[Head(mcq)] \in Seq(DiskReqs) /\ actf[Head(mcq)] # <<>>
         /\ Tail(actf[Head(mcq)]) \in Seq(DiskReqs)
         /\ Len(mcq) \in Nat /\ Len(mcq) >= 1 /\ DOMAIN mcq = 1 .. Len(mcq)
         /\ Len(Tail(mcq)) = Len(mcq) - 1 /\ DOMAIN Tail(mcq) = 1 .. Len(mcq) - 1
         /\ \A i \in 1 .. Len(mcq) - 1 : Tail(mcq)[i] = mcq[i + 1]
<1>1. mcq # <<>> /\ mcq \in Seq(Disks)
  BY DEF QueueInv, NoStall, Scdone, DiskTypeOK
<1>2. /\ Head(mcq) \in Disks /\ Tail(mcq) \in Seq(Disks) /\ Len(Tail(mcq)) = Len(mcq) - 1
      /\ \A i \in 1 .. Len(Tail(mcq)) : Tail(mcq)[i] = mcq[i + 1]
  BY <1>1, HeadTailProperties
<1>3. Len(mcq) \in Nat /\ Len(mcq) >= 1 /\ DOMAIN mcq = 1 .. Len(mcq) /\ Head(mcq) = mcq[1]
  BY <1>1, EmptySeq, LenProperties
<1>4. DOMAIN Tail(mcq) = 1 .. Len(mcq) - 1
  BY <1>2, LenProperties
<1>5. actf[Head(mcq)] \in Seq(DiskReqs) /\ actf[Head(mcq)] # <<>>
  <2>1. \E i \in DOMAIN mcq : mcq[i] = Head(mcq)
    BY <1>3
  <2> QED BY <1>2, <2>1 DEF QueueInv, NoStall, DiskTypeOK
<1>6. Tail(actf[Head(mcq)]) \in Seq(DiskReqs)
  BY <1>5, HeadTailProperties
<1> QED BY <1>1, <1>2, <1>3, <1>4, <1>5, <1>6

(* Putting a disk that is not in the controller's queue to its end.        *)
LEMMA AppendDisk ==
  ASSUME NEW order \in Seq(Disks), NEW d \in Disks, Distinct(order), d \notin ToSet(order)
  PROVE  /\ Append(order, d) \in Seq(Disks) /\ Append(order, d) # <<>>
         /\ Distinct(Append(order, d)) /\ ToSet(Append(order, d)) = ToSet(order) \cup {d}
<1> DEFINE new == Append(order, d)
           n == Len(order)
<1>1. /\ new \in Seq(Disks) /\ new # <<>> /\ Len(new) = n + 1
      /\ \A i \in 1 .. n : new[i] = order[i]
      /\ new[n + 1] = d /\ n \in Nat
  BY AppendProperties, LenProperties
<1>2. DOMAIN order = 1 .. n /\ DOMAIN new = 1 .. n + 1
  BY <1>1, LenProperties
<1> HIDE DEF new, n
<1>3. \A i \in 1 .. n : order[i] # d
  BY <1>2 DEF ToSet
<1>4. ASSUME NEW i \in 1 .. n + 1
      PROVE  \/ i \in 1 .. n /\ new[i] = order[i]
             \/ i = n + 1 /\ new[i] = d
  <2>1. CASE i = n + 1
    BY <1>1, <2>1
  <2>2. CASE i # n + 1
    <3>1. i \in 1 .. n
      BY <1>1, <2>2
    <3> QED BY <1>1, <3>1
  <2> QED BY <2>1, <2>2
<1>5. Distinct(new)
  <2> SUFFICES ASSUME NEW i \in 1 .. n + 1, NEW j \in 1 .. n + 1, new[i] = new[j] PROVE i = j
    BY <1>2 DEF Distinct
  <2>1. \A k, l \in 1 .. n : order[k] = order[l] => k = l
    BY <1>2 DEF Distinct
  <2> QED BY <1>3, <1>4, <2>1
<1>6. ToSet(new) \subseteq ToSet(order) \cup {d}
  <2> SUFFICES ASSUME NEW i \in 1 .. n + 1 PROVE new[i] \in ToSet(order) \cup {d}
    BY <1>2 DEF ToSet
  <2> QED BY <1>2, <1>4 DEF ToSet
<1>7. ToSet(order) \cup {d} \subseteq ToSet(new)
  <2>1. n + 1 \in 1 .. n + 1 /\ \A i \in 1 .. n : i \in 1 .. n + 1
    BY <1>1
  <2> QED BY <1>1, <1>2, <2>1 DEF ToSet
<1> QED BY <1>1, <1>5, <1>6, <1>7 DEF new

(* NoStall and TwoLists in the words of the lemmas, before and after a     *)
(* step.                                                                   *)
LEMMA NoStallIs ==
  /\ NoStall <=> /\ \A d \in Disks : (dactive[d] <=> actf[d] # <<>>) /\ (dactive[d] <=> d \in ToSet(mcq))
                 /\ Distinct(mcq) /\ (mcactive <=> mcq # <<>>)
  /\ NoStall' <=> /\ \A d \in Disks : /\ dactive'[d] <=> actf'[d] # <<>>
                                      /\ dactive'[d] <=> d \in ToSet(mcq')
                  /\ Distinct(mcq') /\ (mcactive' <=> mcq' # <<>>)
BY DEF NoStall, Distinct, ToSet

LEMMA TwoListsIs ==
  /\ TwoLists <=> \A d \in Disks : /\ AtMostOneInversion(actf[d], b_cylin) /\ Distinct(actf[d])
                                   /\ actf[d] # <<>> => actl[d] = Last(actf[d])
  /\ TwoLists' <=> \A d \in Disks : /\ AtMostOneInversion(actf'[d], b_cylin') /\ Distinct(actf'[d])
                                    /\ actf'[d] # <<>> => actl'[d] = Last(actf'[d])
BY DEF TwoLists, AtMostOneInversion, Distinct

(* The key that scstart overwrites is that of the first request of a queue.*)
LEMMA ScstartKeys ==
  ASSUME NEW order \in Seq(Disks), NEW queues \in [Disks -> Seq(DiskReqs)],
         NEW key \in [DiskReqs -> Keys], Scstart(order, queues, key),
         order # <<>> => queues[Head(order)] # <<>>,
         \A d \in Disks : Distinct(queues[d]) /\ AtMostOneInversion(queues[d], key),
         \A d, e \in Disks : d # e => ToSet(queues[d]) \cap ToSet(queues[e]) = {}
  PROVE  /\ b_cylin' \in [DiskReqs -> Keys]
         /\ \A d \in Disks : AtMostOneInversion(queues[d], b_cylin')
<1>1. CASE order = <<>>
  BY <1>1 DEF Scstart
<1>2. CASE order # <<>>
  <2> DEFINE h == Head(order)
  <2>1. h \in Disks /\ queues[h] \in Seq(DiskReqs) /\ queues[h] # <<>>
    BY <1>2, HeadTailProperties
  <2>2. Head(queues[h]) \in DiskReqs /\ Head(queues[h]) \in ToSet(queues[h])
    <3>1. Head(queues[h]) \in DiskReqs /\ Head(queues[h]) = queues[h][1] /\ 1 \in DOMAIN queues[h]
      BY <2>1, HeadTailProperties, EmptySeq, LenProperties
    <3> QED BY <3>1 DEF ToSet
  <2>3. b_cylin' = [key EXCEPT ![Head(queues[h])] = 0]
    BY <1>2 DEF Scstart
  <2> HIDE DEF h
  <2>4. b_cylin' \in [DiskReqs -> Keys]
    BY <2>2, <2>3, KeysAreNat
  <2>5. key \in [DiskReqs -> Nat]
    BY KeysAreNat
  <2>6. ASSUME NEW d \in Disks PROVE AtMostOneInversion(queues[d], b_cylin')
    <3>1. CASE d = h
      BY <2>1, <2>3, <2>5, <3>1, ZeroAtHead
    <3>2. CASE d # h
      <4>1. \A x \in ToSet(queues[d]) : b_cylin'[x] = key[x]
        <5>1. Head(queues[h]) \notin ToSet(queues[d])
          BY <2>1, <2>2, <3>2
        <5>2. ToSet(queues[d]) \subseteq DiskReqs
          BY ElementOfSeq, LenProperties DEF ToSet
        <5> QED BY <2>3, <5>1, <5>2
      <4>2. queues[d] \in Seq(DiskReqs) /\ AtMostOneInversion(queues[d], key)
        OBVIOUS
      <4> QED BY <4>1, <4>2, OtherKeys
    <3> QED BY <3>1, <3>2
  <2> QED BY <2>4, <2>6
<1> QED BY <1>1, <1>2

-----------------------------------------------------------------------------
(* A new request preserves the invariant.                                  *)
LEMMA SdstrategyStep ==
  ASSUME QueueInv, NEW r \in DiskReqs, NEW d \in Disks, NEW c \in Cylinders, Sdstrategy(r, d, c)
  PROVE  QueueInv'
<1> DEFINE key == [b_cylin EXCEPT ![r] = c]
           new == Disksort(actf[d], key, r)
<1>1. /\ actf \in [Disks -> Seq(DiskReqs)] /\ actl \in [Disks -> DiskReqs]
      /\ dactive \in [Disks -> BOOLEAN] /\ mcq \in Seq(Disks)
      /\ b_cylin \in [DiskReqs -> Keys] /\ cyl \in [DiskReqs -> Keys]
  BY DEF QueueInv, DiskTypeOK, Keys
<1>2. key \in [DiskReqs -> Keys] /\ key \in [DiskReqs -> Nat] /\ c \in Keys
  BY <1>1, KeysAreNat DEF Keys
<1>3. \A e \in Disks : r \notin ToSet(actf[e]) /\ ToSet(actf[e]) \subseteq DiskReqs
  <2>1. r \notin Waiting
    BY DEF Sdstrategy
  <2>2. \A e \in Disks : ToSet(actf[e]) \subseteq Waiting
    BY DEF Waiting, ToSet
  <2>3. \A e \in Disks : ToSet(actf[e]) \subseteq DiskReqs
    BY <1>1, ElementOfSeq, LenProperties DEF ToSet
  <2> QED BY <2>1, <2>2, <2>3
<1>4. \A e \in Disks : /\ Distinct(actf[e]) /\ AtMostOneInversion(actf[e], b_cylin)
                       /\ actf[e] # <<>> => actl[e] = Last(actf[e])
  BY TwoListsIs DEF QueueInv
<1>5. \A e \in Disks : AtMostOneInversion(actf[e], key)
  <2> SUFFICES ASSUME NEW e \in Disks PROVE AtMostOneInversion(actf[e], key)
    OBVIOUS
  <2>1. \A x \in ToSet(actf[e]) : key[x] = b_cylin[x]
    BY <1>1, <1>3
  <2> HIDE DEF key
  <2> QED BY <1>1, <1>4, <2>1, OtherKeys
<1>6. actf' = [actf EXCEPT ![d] = new] /\ actl' = [actl EXCEPT ![d] = NewTail(d, new, r)]
      /\ dactive' = [dactive EXCEPT ![d] = TRUE]
  BY <1>1 DEF Sdstrategy
<1> HIDE DEF key
<1>7. /\ new \in Seq(DiskReqs) /\ new # <<>> /\ Distinct(new)
      /\ ToSet(new) = ToSet(actf[d]) \cup {r}
      /\ actf[d] = <<>> => Last(new) = r
      /\ actf[d] # <<>> => Last(new) = IF new[Len(new) - 1] = Last(actf[d]) THEN r ELSE Last(actf[d])
  BY <1>1, <1>3, <1>4, DisksortAdds
<1>8. AtMostOneInversion(new, key)
  BY <1>1, <1>2, <1>5, DisksortInversions
<1> HIDE DEF new
<1>9. actf' \in [Disks -> Seq(DiskReqs)] /\ actl' \in [Disks -> DiskReqs]
      /\ dactive' \in [Disks -> BOOLEAN]
  BY <1>1, <1>6, <1>7 DEF NewTail
<1>10. \A e \in Disks : Distinct(actf'[e]) /\ AtMostOneInversion(actf'[e], key)
  BY <1>1, <1>4, <1>5, <1>6, <1>7, <1>8
<1>11. OneQueue'
  <2>1. \A e, f \in Disks : e # f => ToSet(actf'[e]) \cap ToSet(actf'[f]) = {}
    BY <1>1, <1>3, <1>6, <1>7 DEF QueueInv, OneQueue
  <2> QED BY <2>1 DEF OneQueue
<1>12. /\ mcq' \in Seq(Disks) /\ mcq' # <<>> /\ Distinct(mcq') /\ ToSet(mcq') = ToSet(mcq) \cup {d}
  <2>1. Distinct(mcq) /\ (dactive[d] <=> d \in ToSet(mcq)) /\ dactive[d] \in BOOLEAN
    BY <1>1, NoStallIs DEF QueueInv
  <2>2. CASE dactive[d]
    <3>1. mcq' = mcq
      BY <2>2 DEF Sdstrategy
    <3>2. mcq # <<>>
      BY <2>1, <2>2, EmptySeq DEF ToSet
    <3> QED BY <1>1, <2>1, <2>2, <3>1, <3>2
  <2>3. CASE ~dactive[d]
    <3>1. mcq' = Append(mcq, d)
      BY <2>3 DEF Sdstrategy
    <3> QED BY <1>1, <2>1, <2>3, <3>1, AppendDisk
  <2> QED BY <2>2, <2>3
<1>13. mcactive' = TRUE
  <2>1. CASE ~dactive[d] /\ ~mcactive
    BY <1>12, <2>1 DEF Sdstrategy, Scstart
  <2>2. CASE ~(~dactive[d] /\ ~mcactive)
    <3>1. mcactive' = mcactive
      BY <2>2 DEF Sdstrategy
    <3>2. dactive[d] => mcactive
      <4>1. dactive[d] => mcq # <<>>
        BY NoStallIs, EmptySeq DEF QueueInv, ToSet
      <4> QED BY <4>1, NoStallIs DEF QueueInv
    <3> QED BY <2>2, <3>1, <3>2 DEF QueueInv, DiskTypeOK
  <2> QED BY <2>1, <2>2
<1>14. NoStall'
  <2>1. ASSUME NEW e \in Disks
        PROVE  (dactive'[e] <=> actf'[e] # <<>>) /\ (dactive'[e] <=> e \in ToSet(mcq'))
    <3>1. (dactive[e] <=> actf[e] # <<>>) /\ (dactive[e] <=> e \in ToSet(mcq))
      BY NoStallIs DEF QueueInv
    <3>2. CASE e = d
      BY <1>1, <1>6, <1>7, <1>12, <3>2
    <3>3. CASE e # d
      BY <1>1, <1>6, <1>12, <3>1, <3>3
    <3> QED BY <3>2, <3>3
  <2> QED BY <1>12, <1>13, <2>1, NoStallIs
<1>15. b_cylin' \in [DiskReqs -> Keys] /\ \A e \in Disks : AtMostOneInversion(actf'[e], b_cylin')
  <2>1. CASE ~dactive[d] /\ ~mcactive
    <3>1. Scstart(mcq', actf', key)
      BY <2>1 DEF Sdstrategy, key
    <3>2. actf'[Head(mcq')] # <<>>
      <4>1. Head(mcq') \in Disks /\ Head(mcq') \in ToSet(mcq')
        <5>1. Head(mcq') \in Disks /\ Head(mcq') = mcq'[1] /\ 1 \in DOMAIN mcq'
          BY <1>12, HeadTailProperties, EmptySeq, LenProperties
        <5> QED BY <5>1 DEF ToSet
      <4> QED BY <1>14, <4>1, NoStallIs
    <3>3. \A e, f \in Disks : e # f => ToSet(actf'[e]) \cap ToSet(actf'[f]) = {}
      BY <1>11 DEF OneQueue
    <3> QED BY <1>2, <1>9, <1>10, <1>12, <3>1, <3>2, <3>3, ScstartKeys
  <2>2. CASE ~(~dactive[d] /\ ~mcactive)
    <3>1. b_cylin' = key
      BY <2>2 DEF Sdstrategy, key
    <3> QED BY <1>2, <1>10, <3>1
  <2> QED BY <2>1, <2>2
<1>16. TwoLists'
  <2>1. ASSUME NEW e \in Disks, actf'[e] # <<>> PROVE actl'[e] = Last(actf'[e])
    <3>1. CASE e = d
      BY <1>1, <1>4, <1>6, <1>7, <3>1 DEF NewTail
    <3>2. CASE e # d
      BY <1>1, <1>4, <1>6, <2>1, <3>2
    <3> QED BY <3>1, <3>2
  <2> QED BY <1>10, <1>15, <2>1, TwoListsIs
<1>17. DiskTypeOK'
  <2>1. cyl' \in [DiskReqs -> Keys] /\ turnedback' \in BOOLEAN
    BY <1>1, <1>2 DEF Sdstrategy, QueueInv, DiskTypeOK
  <2> QED BY <1>9, <1>12, <1>13, <1>15, <2>1 DEF DiskTypeOK, Keys
<1> QED BY <1>11, <1>14, <1>16, <1>17 DEF QueueInv

(* The end of a transfer preserves the invariant.                          *)
LEMMA ScdoneStep == ASSUME QueueInv, Scdone PROVE QueueInv'
<1> DEFINE d == Head(mcq)
           rest == Tail(actf[d])
           later == Tail(mcq)
<1>1. /\ mcq # <<>> /\ d \in Disks /\ d = mcq[1] /\ later \in Seq(Disks)
      /\ actf[d] \in Seq(DiskReqs) /\ actf[d] # <<>> /\ rest \in Seq(DiskReqs)
  BY ScdoneHead
<1>2. /\ actf \in [Disks -> Seq(DiskReqs)] /\ dactive \in [Disks -> BOOLEAN]
      /\ b_cylin \in [DiskReqs -> Keys]
  BY DEF QueueInv, DiskTypeOK, Keys
<1>3. /\ actf' = [actf EXCEPT ![d] = rest] /\ mcq' = Requeue(later, d, rest)
      /\ dactive' = [dactive EXCEPT ![d] = (rest # <<>>)]
      /\ Scstart(mcq', actf', b_cylin) /\ UNCHANGED <<actl, cyl>> /\ turnedback' \in BOOLEAN
  <2>1. Requeue(<<>>, d, rest) # <<>> <=> rest # <<>>
    BY <1>1, EmptySeq, AppendProperties DEF Requeue
  <2> QED BY <2>1 DEF Scdone
<1>4. ToSet(mcq) = {d} \cup ToSet(later) /\ d \notin ToSet(later) /\ Distinct(later)
  <2> DEFINE n == Len(mcq)
  <2>1. /\ n \in Nat /\ n >= 1 /\ DOMAIN mcq = 1 .. n /\ d = mcq[1]
        /\ DOMAIN later = 1 .. n - 1 /\ \A i \in 1 .. n - 1 : later[i] = mcq[i + 1]
    BY ScdoneHead
  <2>2. \A i, j \in 1 .. n : mcq[i] = mcq[j] => i = j
    BY <2>1, NoStallIs DEF QueueInv, Distinct
  <2> HIDE DEF n, d, later
  <2>3. \A i \in 1 .. n - 1 : i + 1 \in 1 .. n /\ i + 1 # 1
    BY <2>1
  <2>4. \A i \in 1 .. n : i = 1 \/ (i - 1 \in 1 .. n - 1 /\ (i - 1) + 1 = i)
    BY <2>1
  <2>5. d \notin ToSet(later)
    BY <2>1, <2>2, <2>3 DEF ToSet
  <2>6. Distinct(later)
    <3> SUFFICES ASSUME NEW i \in 1 .. n - 1, NEW j \in 1 .. n - 1, later[i] = later[j] PROVE i = j
      BY <2>1 DEF Distinct
    <3>1. i + 1 = j + 1
      BY <2>1, <2>2, <2>3
    <3> QED BY <2>1, <3>1
  <2>7. ToSet(later) \cup {d} \subseteq ToSet(mcq)
    BY <2>1, <2>3 DEF ToSet
  <2>8. ToSet(mcq) \subseteq ToSet(later) \cup {d}
    <3> SUFFICES ASSUME NEW i \in 1 .. n PROVE mcq[i] \in ToSet(later) \cup {d}
      BY <2>1 DEF ToSet
    <3>1. CASE i = 1
      BY <2>1, <3>1
    <3>2. CASE i # 1
      <4>1. i - 1 \in 1 .. n - 1 /\ later[i - 1] = mcq[i]
        BY <2>1, <2>4, <3>2
      <4> QED BY <2>1, <4>1 DEF ToSet
    <3> QED BY <3>1, <3>2
  <2> QED BY <2>5, <2>6, <2>7, <2>8
<1>5. /\ AtMostOneInversion(rest, b_cylin) /\ Distinct(rest) /\ ToSet(rest) \subseteq ToSet(actf[d])
      /\ rest # <<>> => Last(rest) = Last(actf[d])
  <2> DEFINE q == actf[d]
             n == Len(q)
  <2>1. q \in Seq(DiskReqs) /\ q # <<>> /\ rest = Tail(q) /\ AtMostOneInversion(q, b_cylin)
        /\ Distinct(q)
    BY <1>1, TwoListsIs DEF QueueInv
  <2> HIDE DEF q, rest
  <2>2. /\ n \in Nat /\ n >= 1 /\ DOMAIN q = 1 .. n /\ Len(rest) = n - 1 /\ DOMAIN rest = 1 .. n - 1
        /\ \A i \in 1 .. n - 1 : rest[i] = q[i + 1]
    BY <2>1, HeadTailProperties, EmptySeq, LenProperties
  <2> HIDE DEF n
  <2>3. \A i \in 1 .. n - 1 : i + 1 \in 1 .. n
    BY <2>2
  <2>4. AtMostOneInversion(rest, b_cylin)
    BY <2>1, TailInversions
  <2>5. Distinct(rest)
    <3> SUFFICES ASSUME NEW i \in 1 .. n - 1, NEW j \in 1 .. n - 1, rest[i] = rest[j] PROVE i = j
      BY <2>2 DEF Distinct
    <3>1. i + 1 = j + 1
      BY <2>1, <2>2, <2>3 DEF Distinct
    <3> QED BY <2>2, <3>1
  <2>6. ToSet(rest) \subseteq ToSet(q)
    BY <2>2, <2>3 DEF ToSet
  <2>7. rest # <<>> => Last(rest) = Last(q)
    <3> SUFFICES ASSUME rest # <<>> PROVE Last(rest) = Last(q)
      OBVIOUS
    <3>1. Len(rest) \in Nat \ {0}
      BY <1>1, EmptySeq DEF rest
    <3>2. n - 1 \in 1 .. n - 1 /\ (n - 1) + 1 = n
      BY <2>2, <3>1
    <3> QED BY <2>2, <3>2 DEF Last, n
  <2> QED BY <2>4, <2>5, <2>6, <2>7 DEF q
<1> HIDE DEF d, rest, later
<1>6. actf' \in [Disks -> Seq(DiskReqs)] /\ dactive' \in [Disks -> BOOLEAN]
  BY <1>1, <1>2, <1>3
<1>7. /\ mcq' \in Seq(Disks) /\ Distinct(mcq')
      /\ ToSet(mcq') = ToSet(later) \cup IF rest # <<>> THEN {d} ELSE {}
  <2>1. CASE rest # <<>>
    <3>1. mcq' = Append(later, d)
      BY <1>3, <2>1 DEF Requeue
    <3> QED BY <1>1, <1>4, <2>1, <3>1, AppendDisk
  <2>2. CASE rest = <<>>
    BY <1>1, <1>3, <1>4, <2>2 DEF Requeue
  <2> QED BY <2>1, <2>2
<1>8. NoStall'
  <2>1. mcactive' <=> mcq' # <<>>
    BY <1>3 DEF Scstart
  <2>2. ASSUME NEW e \in Disks
        PROVE  (dactive'[e] <=> actf'[e] # <<>>) /\ (dactive'[e] <=> e \in ToSet(mcq'))
    <3>1. (dactive[e] <=> actf[e] # <<>>) /\ (dactive[e] <=> e \in ToSet(mcq))
      BY NoStallIs DEF QueueInv
    <3>2. CASE e = d
      BY <1>1, <1>2, <1>3, <1>4, <1>7, <3>2
    <3>3. CASE e # d
      BY <1>1, <1>2, <1>3, <1>4, <1>7, <3>1, <3>3
    <3> QED BY <3>2, <3>3
  <2> QED BY <1>7, <2>1, <2>2, NoStallIs
<1>9. \A e \in Disks : /\ Distinct(actf'[e]) /\ AtMostOneInversion(actf'[e], b_cylin)
                       /\ ToSet(actf'[e]) \subseteq ToSet(actf[e])
                       /\ actf'[e] # <<>> => actl'[e] = Last(actf'[e])
  <2> SUFFICES ASSUME NEW e \in Disks
               PROVE  /\ Distinct(actf'[e]) /\ AtMostOneInversion(actf'[e], b_cylin)
                      /\ ToSet(actf'[e]) \subseteq ToSet(actf[e])
                      /\ actf'[e] # <<>> => actl'[e] = Last(actf'[e])
    OBVIOUS
  <2>1. /\ Distinct(actf[e]) /\ AtMostOneInversion(actf[e], b_cylin)
        /\ actf[e] # <<>> => actl[e] = Last(actf[e])
    BY TwoListsIs DEF QueueInv
  <2>2. CASE e = d
    BY <1>1, <1>2, <1>3, <1>5, <2>1, <2>2
  <2>3. CASE e # d
    BY <1>1, <1>2, <1>3, <2>1, <2>3
  <2> QED BY <2>2, <2>3
<1>10. \A e, f \in Disks : e # f => ToSet(actf'[e]) \cap ToSet(actf'[f]) = {}
  BY <1>9 DEF QueueInv, OneQueue
<1>11. OneQueue'
  BY <1>10 DEF OneQueue
<1>12. b_cylin' \in [DiskReqs -> Keys] /\ \A e \in Disks : AtMostOneInversion(actf'[e], b_cylin')
  <2>1. mcq' # <<>> => actf'[Head(mcq')] # <<>>
    <3> SUFFICES ASSUME mcq' # <<>> PROVE actf'[Head(mcq')] # <<>>
      OBVIOUS
    <3>1. Head(mcq') \in Disks /\ Head(mcq') = mcq'[1] /\ 1 \in DOMAIN mcq'
      BY <1>7, HeadTailProperties, EmptySeq, LenProperties
    <3>2. Head(mcq') \in ToSet(mcq')
      BY <3>1 DEF ToSet
    <3> QED BY <1>8, <3>1, <3>2, NoStallIs
  <2> QED BY <1>2, <1>3, <1>6, <1>7, <1>9, <1>10, <2>1, ScstartKeys
<1>13. TwoLists'
  BY <1>9, <1>12, TwoListsIs
<1>14. DiskTypeOK'
  <2>1. mcactive' \in BOOLEAN
    BY <1>3 DEF Scstart
  <2> QED BY <1>3, <1>6, <1>7, <1>12, <2>1 DEF DiskTypeOK, QueueInv, Keys
<1> QED BY <1>8, <1>11, <1>13, <1>14 DEF QueueInv

-----------------------------------------------------------------------------
(* QueueInv is an invariant of the queues of the controller.               *)
THEOREM QueueInvariant == DiskSpec => []QueueInv
<1>1. QueueInv /\ [DiskNext]_queueVars => QueueInv'
  <2> SUFFICES ASSUME QueueInv, [DiskNext]_queueVars PROVE QueueInv'
    OBVIOUS
  <2>1. CASE DiskNext
    BY <2>1, ScdoneStep, SdstrategyStep DEF DiskNext
  <2>2. CASE UNCHANGED queueVars
    BY <2>2 DEF queueVars, QueueInv, DiskTypeOK, NoStall, TwoLists, OneQueue, Inversions
  <2> QED BY <2>1, <2>2
<1> QED BY <1>1, DiskInitInv, PTL DEF DiskSpec

(* The variables keep their types.                                         *)
THEOREM DiskTypes == DiskSpec => []DiskTypeOK
BY QueueInvariant, PTL DEF QueueInv

(* No request waits while nothing happens.                                 *)
THEOREM NothingStalls == DiskSpec => []NoStall
BY QueueInvariant, PTL DEF QueueInv

(* A queue is never more than two ascending lists, holds every request     *)
(* once and ends where its tail pointer says.                              *)
THEOREM QueuesAreTwoLists == DiskSpec => []TwoLists
BY QueueInvariant, PTL DEF QueueInv

-----------------------------------------------------------------------------
(* One disk on its controller.  Then the first request is started at once, *)
(* so that its key is 0 from the beginning, no request is ever behind it   *)
(* in a second list, and the queue ascends.                                *)
AloneInv == \A d \in Disks :
  /\ actf[d] # <<>> => b_cylin[actf[d][1]] = 0
  /\ \A k \in 2 .. Len(actf[d]) : b_cylin[actf[d][k]] = cyl[actf[d][k]]
  /\ Ascends(actf[d], b_cylin)

(* disksort puts a request that is not less than the first one of such a   *)
(* queue behind all that are not larger and in front of all that are.      *)
LEMMA DisksortAscending ==
  ASSUME NEW S, NEW q \in Seq(S), q # <<>>, NEW key \in [S -> Nat], NEW r \in S,
         Ascends(q, key), key[q[1]] <= key[r]
  PROVE  \E i \in 1 .. Len(q) :
           /\ Disksort(q, key, r) = Inserted(q, i, r)
           /\ \A k \in 1 .. Len(q) : IF k <= i THEN key[q[k]] <= key[r] ELSE key[r] < key[q[k]]
<1> DEFINE n == Len(q)
<1>1. n \in Nat /\ n >= 1 /\ DOMAIN q = 1 .. n /\ \A k \in 1 .. n : q[k] \in S /\ key[q[k]] \in Nat
  BY EmptySeq, LenProperties, ElementOfSeq
<1>2. PICK i \in Place(q, key, r) :
        /\ i \in 1 .. n /\ Disksort(q, key, r) = Inserted(q, i, r)
        /\ \A j \in Place(q, key, r) : i <= j
  BY DisksortPlace
<1>3. key[r] \in Nat /\ ~(key[r] < key[q[1]])
  BY <1>1
<1>4. Inversions(q, key) = {}
  <2> SUFFICES ASSUME NEW k \in Inversions(q, key) PROVE FALSE
    OBVIOUS
  <2>1. k \in 1 .. n /\ k + 1 \in 1 .. n /\ key[q[k + 1]] < key[q[k]]
    BY <1>1 DEF Inversions
  <2>2. key[q[k]] <= key[q[k + 1]]
    BY <2>1 DEF Ascends
  <2> QED BY <1>1, <2>1, <2>2
<1> HIDE DEF n
<1>5. \A k \in 1 .. n : k \in Place(q, key, r) <=> (k < n => key[r] < key[q[k + 1]])
  BY <1>1, <1>3, <1>4 DEF Place, FirstList, NextIsLarger, n
<1>6. \A j, k \in 1 .. n : j <= k => key[q[j]] <= key[q[k]]
  BY DEF Ascends, n
<1>7. key[q[i]] <= key[r]
  <2>1. CASE i = 1
    BY <2>1
  <2>2. CASE i # 1
    <3>1. i - 1 \in 1 .. n /\ i - 1 < n /\ (i - 1) + 1 = i /\ ~(i <= i - 1)
      BY <1>1, <1>2, <2>2
    <3>2. ~(key[r] < key[q[i]])
      BY <1>2, <1>5, <3>1
    <3> QED BY <1>1, <1>2, <1>3, <3>2
  <2> QED BY <2>1, <2>2
<1>8. ASSUME NEW k \in 1 .. n, k <= i PROVE key[q[k]] <= key[r]
  BY <1>1, <1>2, <1>3, <1>6, <1>7, <1>8
<1>9. ASSUME NEW k \in 1 .. n, ~(k <= i) PROVE key[r] < key[q[k]]
  <2>1. i < n /\ i + 1 \in 1 .. n /\ i + 1 <= k
    BY <1>1, <1>2, <1>9
  <2>2. key[r] < key[q[i + 1]] /\ key[q[i + 1]] <= key[q[k]]
    BY <1>2, <1>5, <1>6, <2>1
  <2> QED BY <1>1, <1>3, <2>1, <2>2
<1> QED BY <1>2, <1>8, <1>9 DEF n

(* The controller's queue holds the disk as long as it has requests.       *)
LEMMA AloneQueue ==
  ASSUME QueueInv, NEW d, Disks = {d}
  PROVE  (dactive[d] <=> actf[d] # <<>>) /\ (mcactive <=> actf[d] # <<>>)
<1>1. mcq \in Seq(Disks)
  BY DEF QueueInv, DiskTypeOK
<1>2. mcq # <<>> <=> d \in ToSet(mcq)
  BY <1>1, EmptySeq, LenProperties, ElementOfSeq DEF ToSet
<1> QED BY <1>2, NoStallIs DEF QueueInv

(* A new request.                                                          *)
LEMMA SdstrategyAlone ==
  ASSUME QueueInv, QueueInv', AloneInv, NEW d, Disks = {d}, NEW r \in DiskReqs, NEW c \in Cylinders,
         Sdstrategy(r, d, c)
  PROVE  AloneInv' /\ NoneOvertaken(d)
<1> DEFINE key == [b_cylin EXCEPT ![r] = c]
           q == actf[d]
           n == Len(q)
<1>1. /\ actf \in [Disks -> Seq(DiskReqs)] /\ q \in Seq(DiskReqs) /\ n \in Nat /\ DOMAIN q = 1 .. n
      /\ b_cylin \in [DiskReqs -> Nat] /\ cyl \in [DiskReqs -> Nat] /\ c \in Nat
      /\ \A k \in 1 .. n : q[k] \in DiskReqs
  <2>1. actf \in [Disks -> Seq(DiskReqs)] /\ b_cylin \in [DiskReqs -> Keys] /\ cyl \in [DiskReqs -> Keys]
    BY DEF QueueInv, DiskTypeOK, Keys
  <2>2. q \in Seq(DiskReqs)
    BY <2>1
  <2> QED BY <2>1, <2>2, KeysAreNat, LenProperties, ElementOfSeq DEF Keys
<1>2. /\ actf' = [actf EXCEPT ![d] = Disksort(q, key, r)] /\ cyl' = [cyl EXCEPT ![r] = c]
      /\ IF ~dactive[d] /\ ~mcactive THEN Scstart(mcq', actf', key) ELSE b_cylin' = key
  BY <1>1 DEF Sdstrategy
<1>3. \A k \in 1 .. n : q[k] # r
  <2>1. r \notin Waiting
    BY DEF Sdstrategy
  <2>2. \A k \in DOMAIN q : q[k] \in Waiting
    BY DEF Waiting
  <2> QED BY <1>1, <2>1, <2>2
<1>4. /\ key \in [DiskReqs -> Nat] /\ key[r] = c /\ cyl'[r] = c
      /\ \A k \in 1 .. n : key[q[k]] = b_cylin[q[k]] /\ cyl'[q[k]] = cyl[q[k]]
  BY <1>1, <1>2, <1>3
<1> HIDE DEF key
<1>5. actf'[d] = Disksort(q, key, r)
  BY <1>1, <1>2
<1>6. CASE q = <<>>
  <2>1. actf'[d] = <<r>>
    BY <1>5, <1>6 DEF Disksort
  <2> DEFINE new == actf'[d]
  <2>2. Len(new) = 1 /\ new[1] = r /\ DOMAIN new = {1}
    <3>1. <<r>> \in Seq(DiskReqs) /\ Len(<<r>>) = 1 /\ <<r>>[1] = r
      OBVIOUS
    <3> QED BY <2>1, <3>1, LenProperties
  <2>3. b_cylin' = [key EXCEPT ![r] = 0]
    <3>1. Scstart(mcq', actf', key)
      BY <1>2, <1>6, AloneQueue
    <3>2. mcq' # <<>> /\ Head(mcq') = d
      <4>1. dactive'[d]
        BY <1>1 DEF Sdstrategy, QueueInv, DiskTypeOK
      <4>2. d \in ToSet(mcq') /\ mcq' \in Seq(Disks)
        BY <4>1, NoStallIs DEF QueueInv, DiskTypeOK
      <4>3. mcq' # <<>>
        BY <4>2, EmptySeq DEF ToSet
      <4> QED BY <4>2, <4>3, HeadTailProperties
    <3>3. Head(<<r>>) = r
      OBVIOUS
    <3> QED BY <2>1, <3>1, <3>2, <3>3 DEF Scstart
  <2>4. b_cylin'[r] = 0
    BY <1>4, <2>3
  <2> HIDE DEF new, q
  <2>5. AloneInv'
    <3>1. \A k \in 1 .. Len(new) : k = 1
      BY <2>2
    <3>2. \A k \in 2 .. Len(new) : FALSE
      BY <2>2
    <3> QED BY <2>2, <2>4, <3>1, <3>2 DEF AloneInv, Ascends, new
  <2>6. NoneOvertaken(d)
    <3>1. ToSet(q) = {}
      BY <1>6, EmptySeq DEF ToSet
    <3> QED BY <3>1 DEF NoneOvertaken, q
  <2> QED BY <2>5, <2>6
<1>7. CASE q # <<>>
  <2> DEFINE new == actf'[d]
  <2>1. /\ key[q[1]] = 0 /\ 1 \in 1 .. n /\ Ascends(q, key)
        /\ \A k \in 2 .. n : key[q[k]] = cyl[q[k]]
    <3>1. 1 \in 1 .. n /\ \A k \in 2 .. n : k \in 1 .. n
      BY <1>1, <1>7, EmptySeq
    <3> QED BY <1>4, <1>7, <3>1 DEF AloneInv, Ascends
  <2> HIDE DEF q
  <2>2. PICK i \in 1 .. n :
          /\ new = Inserted(q, i, r)
          /\ \A k \in 1 .. n : IF k <= i THEN key[q[k]] <= key[r] ELSE key[r] < key[q[k]]
    <3>1. key[q[1]] <= key[r]
      BY <1>1, <1>4, <2>1
    <3> QED BY <1>1, <1>4, <1>5, <1>7, <2>1, <3>1, DisksortAscending
  <2>3. /\ Len(new) = n + 1 /\ new \in Seq(DiskReqs)
        /\ \A k \in 1 .. n + 1 : new[k] = IF k <= i THEN q[k] ELSE IF k = i + 1 THEN r ELSE q[k - 1]
    <3>1. i \in 0 .. Len(q)
      BY <1>1
    <3>2. q \in Seq(DiskReqs)
      BY <1>1
    <3> HIDE DEF new, n
    <3>3. /\ Inserted(q, i, r) \in Seq(DiskReqs) /\ Len(Inserted(q, i, r)) = Len(q) + 1
          /\ \A k \in 1 .. Len(q) + 1 :
               Inserted(q, i, r)[k] = IF k <= i THEN q[k] ELSE IF k = i + 1 THEN r ELSE q[k - 1]
      BY ONLY <3>1, <3>2, InsertedIs, r \in DiskReqs
    <3>4. new = Inserted(q, i, r) /\ n = Len(q)
      BY <2>2 DEF n
    <3> QED BY <3>3, <3>4
  <2>4. DOMAIN new = 1 .. n + 1
    BY <2>3, LenProperties
  <2> HIDE DEF new, n
  \* where the requests of the new list come from
  <2>5. ASSUME NEW k \in 1 .. n + 1
        PROVE  \/ k = i + 1 /\ new[k] = r
               \/ k <= i /\ k \in 1 .. n /\ new[k] = q[k]
               \/ k > i + 1 /\ k - 1 \in 2 .. n /\ k - 1 \in 1 .. n /\ ~(k - 1 <= i) /\ new[k] = q[k - 1]
    <3>1. n \in Nat /\ i \in Nat /\ i >= 1 /\ i <= n /\ k \in Nat /\ k >= 1 /\ k <= n + 1
      BY <1>1
    <3>2. CASE k <= i
      BY <2>3, <3>1, <3>2
    <3>3. CASE k = i + 1
      BY <2>3, <3>1, <3>3
    <3>4. CASE k > i + 1
      <4>1. k - 1 \in 2 .. n /\ k - 1 \in 1 .. n /\ ~(k - 1 <= i) /\ ~(k <= i) /\ k # i + 1
        BY <3>1, <3>4
      <4> QED BY <2>3, <3>4, <4>1
    <3> QED BY <3>1, <3>2, <3>3, <3>4
  <2>6. b_cylin' = key
    BY <1>2, <1>7, AloneQueue DEF q
  <2>7. new # <<>> /\ key[new[1]] = 0
    <3>1. 1 \in 1 .. n + 1 /\ 1 <= i
      BY <1>1
    <3>2. new[1] = q[1]
      BY <2>3, <3>1
    <3>3. new # <<>>
      <4>1. Len(new) # 0
        BY <1>1, <2>3
      <4> QED BY <2>3, <4>1, EmptySeq
    <3> QED BY <2>1, <3>2, <3>3
  <2>8. \A k \in 2 .. n + 1 : key[new[k]] = cyl'[new[k]]
    <3> SUFFICES ASSUME NEW k \in 2 .. n + 1 PROVE key[new[k]] = cyl'[new[k]]
      OBVIOUS
    <3>1. k \in 1 .. n + 1 /\ (k \in 1 .. n => k \in 2 .. n)
      BY <1>1
    <3>2. \A m \in 2 .. n : m \in 1 .. n /\ key[q[m]] = cyl'[q[m]]
      <4>1. \A m \in 2 .. n : m \in 1 .. n
        BY <1>1
      <4> QED BY <1>4, <2>1, <4>1
    <3>3. key[r] = cyl'[r]
      BY <1>4
    <3>4. new[k] = r \/ \E m \in 2 .. n : new[k] = q[m]
      BY <2>5, <3>1
    <3> QED BY <3>2, <3>3, <3>4
  <2>9. ASSUME NEW j \in 1 .. n + 1, NEW k \in 1 .. n + 1, j <= k PROVE key[new[j]] <= key[new[k]]
    <3>1. key[r] \in Nat /\ \A m \in 1 .. n : key[q[m]] \in Nat
      BY <1>1, <1>4
    <3>2. \A l, m \in 1 .. n : l <= m => key[q[l]] <= key[q[m]]
      BY <2>1 DEF Ascends, n
    <3>3. /\ \A m \in 1 .. n : m <= i => key[q[m]] <= key[r]
          /\ \A m \in 1 .. n : ~(m <= i) => key[r] < key[q[m]]
      BY <2>2
    <3>4. CASE new[j] = r /\ j = i + 1
      <4>1. new[k] = r \/ \E m \in 1 .. n : ~(m <= i) /\ new[k] = q[m]
        BY <1>1, <2>5, <2>9, <3>4
      <4> QED BY <3>1, <3>3, <3>4, <4>1
    <3>5. CASE j <= i /\ j \in 1 .. n /\ new[j] = q[j]
      <4>1. CASE k = i + 1 /\ new[k] = r
        BY <3>3, <3>5, <4>1
      <4>2. CASE k <= i /\ k \in 1 .. n /\ new[k] = q[k]
        BY <2>9, <3>2, <3>5, <4>2
      <4>3. CASE k > i + 1 /\ k - 1 \in 1 .. n /\ ~(k - 1 <= i) /\ new[k] = q[k - 1]
        <5>1. key[q[j]] <= key[r] /\ key[r] < key[q[k - 1]]
          BY <3>3, <3>5, <4>3
        <5> QED BY <3>1, <3>5, <4>3, <5>1
      <4> QED BY <2>5, <4>1, <4>2, <4>3
    <3>6. CASE j > i + 1 /\ j - 1 \in 1 .. n /\ new[j] = q[j - 1]
      <4>1. k > i + 1 /\ j - 1 <= k - 1
        BY <1>1, <2>9, <3>6
      <4>2. k - 1 \in 1 .. n /\ new[k] = q[k - 1]
        BY <1>1, <2>5, <4>1
      <4> QED BY <3>2, <3>6, <4>1, <4>2
    <3> QED BY <2>5, <3>4, <3>5, <3>6
  <2>10. AloneInv'
    <3>1. Len(new) = n + 1
      BY <2>3
    <3> QED BY <2>6, <2>7, <2>8, <2>9, <3>1 DEF AloneInv, Ascends, new
  <2>11. NoneOvertaken(d)
    <3> SUFFICES ASSUME NEW j \in 1 .. n + 1, NEW k \in 1 .. n + 1, new[j] \notin ToSet(q),
                        new[k] \in ToSet(q), cyl'[new[j]] = cyl'[new[k]]
                 PROVE  k < j
      BY <2>4 DEF NoneOvertaken, new, q
    <3>1. j = i + 1 /\ new[j] = r
      BY <1>1, <2>5 DEF ToSet
    <3>2. new[k] # r
      BY <1>1, <1>3 DEF ToSet
    <3>3. CASE k > i + 1 /\ k - 1 \in 2 .. n /\ k - 1 \in 1 .. n /\ ~(k - 1 <= i) /\ new[k] = q[k - 1]
      <4>1. key[q[k - 1]] = cyl'[q[k - 1]]
        BY <1>4, <2>1, <3>3
      <4>2. key[r] < key[q[k - 1]]
        BY <2>2, <3>3
      <4>3. key[r] = key[q[k - 1]] /\ key[r] \in Nat
        BY <1>1, <1>4, <3>1, <3>3, <4>1
      <4> QED BY <4>2, <4>3
    <3>4. CASE k <= i
      BY <1>1, <3>1, <3>4
    <3> QED BY <2>5, <3>2, <3>3, <3>4
  <2> QED BY <2>10, <2>11
<1> QED BY <1>6, <1>7

(* The end of a transfer.                                                  *)
LEMMA ScdoneAlone ==
  ASSUME QueueInv, QueueInv', AloneInv, NEW d, Disks = {d}, Scdone
  PROVE  AloneInv' /\ NoneOvertaken(d)
<1> DEFINE q == actf[d]
           n == Len(q)
           rest == actf'[d]
<1>1. /\ Head(mcq) = d /\ q \in Seq(DiskReqs) /\ q # <<>> /\ actf \in [Disks -> Seq(DiskReqs)]
      /\ b_cylin \in [DiskReqs -> Nat] /\ cyl \in [DiskReqs -> Nat] /\ Distinct(q)
  <2>1. b_cylin \in [DiskReqs -> Keys] /\ cyl \in [DiskReqs -> Keys]
    BY DEF QueueInv, DiskTypeOK, Keys
  <2> QED BY <2>1, ScdoneHead, KeysAreNat, TwoListsIs DEF QueueInv, DiskTypeOK
<1>2. rest = Tail(q) /\ Scstart(mcq', actf', b_cylin) /\ cyl' = cyl
  BY <1>1 DEF Scdone
<1>3. /\ n \in Nat /\ n >= 1 /\ DOMAIN q = 1 .. n /\ Len(rest) = n - 1 /\ DOMAIN rest = 1 .. n - 1
      /\ \A k \in 1 .. n : q[k] \in DiskReqs
      /\ \A k \in 1 .. n - 1 : rest[k] = q[k + 1] /\ k + 1 \in 1 .. n /\ k + 1 \in 2 .. n
  <2>1. rest \in Seq(DiskReqs) /\ Len(rest) = n - 1 /\ \A k \in 1 .. n - 1 : rest[k] = q[k + 1]
    BY <1>1, <1>2, HeadTailProperties
  <2>2. n \in Nat /\ n >= 1 /\ DOMAIN q = 1 .. n /\ \A k \in 1 .. n : q[k] \in DiskReqs
    BY <1>1, EmptySeq, LenProperties, ElementOfSeq
  <2> HIDE DEF n, q, rest
  <2> QED BY <2>1, <2>2, LenProperties
<1>4. /\ \A k \in 2 .. n : b_cylin[q[k]] = cyl[q[k]]
      /\ \A j, k \in 1 .. n : j <= k => b_cylin[q[j]] <= b_cylin[q[k]]
      /\ \A j, k \in 1 .. n : q[j] = q[k] => j = k
  BY <1>1, <1>3 DEF AloneInv, Ascends, Distinct
<1>5. NoneOvertaken(d)
  <2>1. \A k \in DOMAIN rest : rest[k] \in ToSet(q)
    BY <1>3 DEF ToSet
  <2> QED BY <2>1 DEF NoneOvertaken
<1>6. rest # <<>> => b_cylin' = [b_cylin EXCEPT ![rest[1]] = 0]
  <2> SUFFICES ASSUME rest # <<>> PROVE b_cylin' = [b_cylin EXCEPT ![rest[1]] = 0]
    OBVIOUS
  <2>1. mcq' # <<>> /\ Head(mcq') = d
    <3>1. d \in ToSet(mcq') /\ mcq' \in Seq(Disks)
      BY NoStallIs DEF QueueInv, DiskTypeOK
    <3>2. mcq' # <<>>
      BY <3>1, EmptySeq DEF ToSet
    <3> QED BY <3>1, <3>2, HeadTailProperties
  <2>2. rest \in Seq(DiskReqs)
    BY DEF QueueInv, DiskTypeOK
  <2>3. Head(rest) = rest[1]
    BY <2>2, HeadTailProperties
  <2> QED BY <1>2, <2>1, <2>3 DEF Scstart
<1> HIDE DEF q, n, rest
<1>7. CASE rest = <<>>
  <2>1. Len(rest) = 0
    BY <1>7
  <2>2. \A k \in 1 .. Len(rest) : FALSE
    BY <2>1
  <2>3. \A k \in 2 .. Len(rest) : FALSE
    BY <2>1
  <2> QED BY <1>5, <1>7, <2>2, <2>3 DEF AloneInv, Ascends, rest
<1>8. CASE rest # <<>>
  <2>1. 1 \in 1 .. n - 1
    <3>1. rest \in Seq(DiskReqs)
      BY DEF rest, QueueInv, DiskTypeOK
    <3>2. Len(rest) # 0
      BY <1>8, <3>1, EmptySeq
    <3>3. n - 1 # 0 /\ n \in Nat /\ n >= 1
      BY <1>3, <3>2
    <3> QED BY <3>3
  <2>2. b_cylin'[rest[1]] = 0
    BY <1>1, <1>3, <1>6, <1>8, <2>1
  <2>3. ASSUME NEW k \in 1 .. n - 1, k # 1
        PROVE  b_cylin'[rest[k]] = b_cylin[q[k + 1]] /\ b_cylin[q[k + 1]] \in Nat
    <3>1. q[k + 1] # q[1 + 1]
      <4>1. k + 1 # 1 + 1
        BY <1>3, <2>3
      <4> QED BY <1>3, <1>4, <2>1, <4>1
    <3>2. rest[k] = q[k + 1] /\ rest[1] = q[1 + 1] /\ q[k + 1] \in DiskReqs
      BY <1>3, <2>1
    <3> QED BY <1>1, <1>6, <1>8, <3>1, <3>2
  <2>4. \A k \in 2 .. Len(rest) : b_cylin'[rest[k]] = cyl'[rest[k]]
    <3> SUFFICES ASSUME NEW k \in 2 .. n - 1 PROVE b_cylin'[rest[k]] = cyl'[rest[k]]
      BY <1>3
    <3>1. k \in 1 .. n - 1 /\ k # 1
      BY <1>3
    <3> QED BY <1>2, <1>3, <1>4, <2>3, <3>1
  <2>5. Ascends(rest, b_cylin')
    <3> SUFFICES ASSUME NEW j \in 1 .. n - 1, NEW k \in 1 .. n - 1, j <= k
                 PROVE  b_cylin'[rest[j]] <= b_cylin'[rest[k]]
      BY <1>3 DEF Ascends
    <3>1. CASE k = 1
      BY <1>3, <2>2, <3>1
    <3>2. CASE k # 1 /\ j = 1
      BY <2>2, <2>3, <3>2
    <3>3. CASE k # 1 /\ j # 1
      <4>1. b_cylin[q[j + 1]] <= b_cylin[q[k + 1]]
        BY <1>3, <1>4
      <4> QED BY <2>3, <3>3, <4>1
    <3> QED BY <3>1, <3>2, <3>3
  <2> QED BY <1>5, <2>2, <2>4, <2>5 DEF AloneInv, rest
<1> QED BY <1>7, <1>8

(* A disk that has its controller to itself does requests of one cylinder, *)
(* so those for one block, in the order in which they came, for its queue  *)
(* is always one list: what the buffer cache needs of the driver once a    *)
(* device is closed while writes are queued, and what BufferCache takes    *)
(* Lone to mean.                                                           *)
THEOREM AloneKeepsOrder ==
  ASSUME NEW d, Disks = {d}
  PROVE  DiskSpec => AlwaysInOrder /\ []Ascends(actf[d], b_cylin)
<1>1. DiskInit => AloneInv
  <2> SUFFICES ASSUME DiskInit PROVE AloneInv
    OBVIOUS
  <2>1. actf[d] = <<>> /\ Len(<<>>) = 0
    BY DEF DiskInit
  <2>2. (\A k \in 1 .. 0 : FALSE) /\ (\A k \in 2 .. 0 : FALSE)
    OBVIOUS
  <2> QED BY <2>1, <2>2 DEF AloneInv, Ascends
<1> DEFINE InOrder == \A e \in Disks : NoneOvertaken(e)
<1>2. QueueInv /\ QueueInv' /\ AloneInv /\ [DiskNext]_queueVars => AloneInv' /\ [InOrder]_queueVars
  <2> SUFFICES ASSUME QueueInv, QueueInv', AloneInv, [DiskNext]_queueVars
               PROVE  AloneInv' /\ [InOrder]_queueVars
    OBVIOUS
  <2>1. CASE DiskNext
    BY <2>1, ScdoneAlone, SdstrategyAlone DEF DiskNext
  <2>2. CASE UNCHANGED queueVars
    BY <2>2 DEF queueVars, AloneInv, Ascends
  <2> QED BY <2>1, <2>2
<1>3. DiskSpec => []AloneInv
  BY <1>1, <1>2, QueueInvariant, PTL DEF DiskSpec
<1>4. DiskSpec => AlwaysInOrder
  BY <1>2, <1>3, QueueInvariant, PTL DEF DiskSpec, AlwaysInOrder
<1>5. AloneInv => Ascends(actf[d], b_cylin)
  BY DEF AloneInv
<1>6. []AloneInv => []Ascends(actf[d], b_cylin)
  BY <1>5, PTL
<1> QED BY <1>3, <1>4, <1>6

-----------------------------------------------------------------------------
(* Any disks.  What waits behind the first request of a queue still has    *)
(* the key it was given.                                                   *)
KeysInv == \A d \in Disks : \A k \in 2 .. Len(actf[d]) : b_cylin[actf[d][k]] = cyl[actf[d][k]]

(* scstart changes the key of no such request.                             *)
LEMMA ScstartBehind ==
  ASSUME QueueInv', NEW key \in [DiskReqs -> Keys], Scstart(mcq', actf', key) \/ b_cylin' = key,
         NEW d \in Disks, NEW k \in 2 .. Len(actf'[d])
  PROVE  b_cylin'[actf'[d][k]] = key[actf'[d][k]]
<1> DEFINE x == actf'[d][k]
<1>1. /\ actf' \in [Disks -> Seq(DiskReqs)] /\ mcq' \in Seq(Disks)
      /\ actf'[d] \in Seq(DiskReqs) /\ Distinct(actf'[d])
  BY TwoListsIs DEF QueueInv, DiskTypeOK
<1>2. /\ Len(actf'[d]) \in Nat /\ DOMAIN actf'[d] = 1 .. Len(actf'[d])
      /\ k \in DOMAIN actf'[d] /\ 1 \in DOMAIN actf'[d] /\ k # 1 /\ x \in DiskReqs
  BY <1>1, LenProperties, ElementOfSeq
<1>3. x \in ToSet(actf'[d]) /\ x # actf'[d][1]
  BY <1>1, <1>2 DEF Distinct, ToSet
<1>4. CASE b_cylin' = key
  BY <1>4
<1>5. CASE mcq' # <<>> /\ Scstart(mcq', actf', key)
  <2> DEFINE h == Head(mcq')
  <2>1. h \in Disks /\ h \in ToSet(mcq')
    <3>1. h \in Disks /\ h = mcq'[1] /\ 1 \in DOMAIN mcq'
      BY <1>1, <1>5, HeadTailProperties, EmptySeq, LenProperties
    <3> QED BY <3>1 DEF ToSet
  <2>2. b_cylin' = [key EXCEPT ![Head(actf'[h])] = 0]
    BY <1>5 DEF Scstart
  <2> HIDE DEF h, x
  <2>3. actf'[h] # <<>> /\ actf'[h] \in Seq(DiskReqs)
    BY <1>1, <2>1, NoStallIs DEF QueueInv
  <2>4. Head(actf'[h]) = actf'[h][1] /\ Head(actf'[h]) \in ToSet(actf'[h])
    <3>1. Head(actf'[h]) = actf'[h][1] /\ 1 \in DOMAIN actf'[h]
      BY <2>3, HeadTailProperties, EmptySeq, LenProperties
    <3> QED BY <3>1 DEF ToSet
  <2>5. Head(actf'[h]) # x
    <3>1. CASE h = d
      BY <1>3, <2>4, <3>1
    <3>2. CASE h # d
      BY <1>3, <2>1, <2>4, <3>2 DEF QueueInv, OneQueue
    <3> QED BY <3>1, <3>2
  <2> QED BY <1>2, <2>2, <2>5 DEF x
<1>6. CASE mcq' = <<>> /\ Scstart(mcq', actf', key)
  BY <1>6 DEF Scstart
<1> QED BY <1>4, <1>5, <1>6

(* A new request.                                                          *)
LEMMA SdstrategyOrder ==
  ASSUME QueueInv, QueueInv', KeysInv, NEW d \in Disks, NEW r \in DiskReqs, NEW c \in Cylinders,
         Sdstrategy(r, d, c)
  PROVE  KeysInv' /\ \A e \in Disks : Ascends(actf[e], b_cylin) => NoneOvertaken(e)
<1> DEFINE key == [b_cylin EXCEPT ![r] = c]
           q == actf[d]
           n == Len(q)
<1>1. /\ actf \in [Disks -> Seq(DiskReqs)] /\ q \in Seq(DiskReqs) /\ n \in Nat /\ DOMAIN q = 1 .. n
      /\ b_cylin \in [DiskReqs -> Keys] /\ cyl \in [DiskReqs -> Keys] /\ c \in Keys
      /\ \A k \in 1 .. n : q[k] \in DiskReqs
  <2>1. actf \in [Disks -> Seq(DiskReqs)] /\ b_cylin \in [DiskReqs -> Keys] /\ cyl \in [DiskReqs -> Keys]
    BY DEF QueueInv, DiskTypeOK, Keys
  <2>2. q \in Seq(DiskReqs)
    BY <2>1
  <2> QED BY <2>1, <2>2, LenProperties, ElementOfSeq DEF Keys
<1>2. /\ actf' = [actf EXCEPT ![d] = Disksort(q, key, r)] /\ cyl' = [cyl EXCEPT ![r] = c]
      /\ Scstart(mcq', actf', key) \/ b_cylin' = key
  BY <1>1 DEF Sdstrategy
<1>3. \A e \in Disks : \A k \in DOMAIN actf[e] : actf[e][k] # r
  BY DEF Sdstrategy, Waiting
<1>4. /\ key \in [DiskReqs -> Keys] /\ key \in [DiskReqs -> Nat] /\ key[r] = cyl'[r] /\ key[r] \in Nat
      /\ \A x \in DiskReqs : x # r => key[x] = b_cylin[x] /\ cyl'[x] = cyl[x]
  BY <1>1, <1>2, KeysAreNat
<1> HIDE DEF key
<1>5. actf'[d] = Disksort(q, key, r) /\ \A e \in Disks : e # d => actf'[e] = actf[e]
  BY <1>1, <1>2
\* where the requests of the new list come from
<1>6. ASSUME q # <<>>, NEW i \in 1 .. n, actf'[d] = Inserted(q, i, r), NEW k \in DOMAIN actf'[d]
      PROVE  \/ k = i + 1 /\ actf'[d][k] = r
             \/ k <= i /\ k \in 1 .. n /\ actf'[d][k] = q[k]
             \/ k > i + 1 /\ k - 1 \in 2 .. n /\ k - 1 \in 1 .. n /\ ~(k - 1 <= i) /\ actf'[d][k] = q[k - 1]
  <2> HIDE DEF q
  <2>1. i \in 0 .. Len(q) /\ q \in Seq(DiskReqs)
    BY <1>1
  <2>2. /\ Inserted(q, i, r) \in Seq(DiskReqs) /\ Len(Inserted(q, i, r)) = Len(q) + 1
        /\ \A m \in 1 .. Len(q) + 1 :
             Inserted(q, i, r)[m] = IF m <= i THEN q[m] ELSE IF m = i + 1 THEN r ELSE q[m - 1]
    <3> HIDE DEF n
    <3> QED BY ONLY <2>1, InsertedIs, r \in DiskReqs
  <2> DEFINE new == actf'[d]
  <2>3. new \in Seq(DiskReqs) /\ Len(new) = n + 1 /\ DOMAIN new = 1 .. n + 1
    BY <1>6, <2>2, LenProperties
  <2>4. k \in 1 .. n + 1 /\ new[k] = IF k <= i THEN q[k] ELSE IF k = i + 1 THEN r ELSE q[k - 1]
    BY <1>6, <2>2, <2>3
  <2> HIDE DEF new, n
  <2>5. n \in Nat /\ i \in Nat /\ i >= 1 /\ i <= n /\ k \in Nat /\ k >= 1 /\ k <= n + 1
    BY <1>1, <2>4
  <2>6. CASE k <= i
    BY <2>4, <2>5, <2>6 DEF new
  <2>7. CASE k = i + 1
    BY <2>4, <2>5, <2>7 DEF new
  <2>8. CASE k > i + 1
    <3>1. k - 1 \in 2 .. n /\ k - 1 \in 1 .. n /\ ~(k - 1 <= i) /\ ~(k <= i) /\ k # i + 1
      BY <2>5, <2>8
    <3> QED BY <2>4, <2>8, <3>1 DEF new
  <2> QED BY <2>5, <2>6, <2>7, <2>8
<1>7. KeysInv'
  <2> SUFFICES ASSUME NEW e \in Disks, NEW k \in 2 .. Len(actf'[e])
               PROVE  b_cylin'[actf'[e][k]] = cyl'[actf'[e][k]]
    BY DEF KeysInv
  <2>1. b_cylin'[actf'[e][k]] = key[actf'[e][k]]
    BY <1>2, <1>4, ScstartBehind
  <2>2. actf'[e] \in Seq(DiskReqs) /\ Len(actf'[e]) \in Nat /\ DOMAIN actf'[e] = 1 .. Len(actf'[e])
    <3>1. actf'[e] \in Seq(DiskReqs)
      BY DEF QueueInv, DiskTypeOK
    <3> QED BY <3>1, LenProperties
  <2>3. k \in DOMAIN actf'[e] /\ k # 1
    BY <2>2
  <2>4. ASSUME NEW f \in Disks, NEW m \in 2 .. Len(actf[f])
        PROVE  key[actf[f][m]] = cyl'[actf[f][m]]
    <3>1. actf[f] \in Seq(DiskReqs)
      BY <1>1
    <3>2. m \in DOMAIN actf[f] /\ actf[f][m] \in DiskReqs
      BY <3>1, LenProperties, ElementOfSeq
    <3>3. b_cylin[actf[f][m]] = cyl[actf[f][m]]
      BY DEF KeysInv
    <3> QED BY <1>3, <1>4, <3>2, <3>3
  <2>5. CASE e # d
    BY <1>5, <2>1, <2>4, <2>5
  <2>6. CASE e = d /\ q = <<>>
    <3>1. actf'[e] = <<r>>
      BY <1>5, <2>6 DEF Disksort
    <3>2. Len(actf'[e]) = 1
      BY <3>1
    <3> QED BY <3>2
  <2>7. CASE e = d /\ q # <<>>
    <3>1. PICK i \in Place(q, key, r) : i \in 1 .. n /\ Disksort(q, key, r) = Inserted(q, i, r)
      BY <1>1, <2>7, DisksortPlace
    <3>2. \/ actf'[d][k] = r
          \/ k <= i /\ k \in 1 .. n /\ actf'[d][k] = q[k]
          \/ k - 1 \in 2 .. n /\ actf'[d][k] = q[k - 1]
      BY <1>5, <1>6, <2>3, <2>7, <3>1
    <3>3. actf'[d][k] = r \/ \E m \in 2 .. n : actf'[d][k] = q[m]
      BY <1>1, <2>3, <3>2
    <3> QED BY <1>4, <2>1, <2>4, <2>7, <3>3
  <2> QED BY <2>5, <2>6, <2>7
<1>8. ASSUME NEW e \in Disks, Ascends(actf[e], b_cylin) PROVE NoneOvertaken(e)
  <2>1. CASE e # d
    <3>1. \A j \in DOMAIN actf'[e] : actf'[e][j] \in ToSet(actf[e])
      BY <1>5, <2>1 DEF ToSet
    <3> QED BY <3>1 DEF NoneOvertaken
  <2>2. CASE e = d /\ q = <<>>
    <3>1. ToSet(q) = {}
      BY <2>2, EmptySeq DEF ToSet
    <3> QED BY <2>2, <3>1 DEF NoneOvertaken
  <2>3. CASE e = d /\ q # <<>>
    <3>1. Ascends(q, key) /\ \A k \in 2 .. n : key[q[k]] = cyl'[q[k]]
      <4>1. \A k \in 1 .. n : key[q[k]] = b_cylin[q[k]] /\ cyl'[q[k]] = cyl[q[k]]
        BY <1>1, <1>3, <1>4
      <4>2. \A k \in 2 .. n : k \in 1 .. n
        BY <1>1
      <4> QED BY <1>8, <2>3, <4>1, <4>2 DEF Ascends, KeysInv
    <3> HIDE DEF q
    \* nothing of r's cylinder is behind r
    <3>2. PICK i \in 1 .. n :
            /\ actf'[d] = Inserted(q, i, r)
            /\ \A k \in 2 .. n : ~(k <= i) => key[r] # key[q[k]]
      <4>1. CASE key[q[1]] <= key[r]
        <5>1. \E i \in 1 .. Len(q) :
                 /\ Disksort(q, key, r) = Inserted(q, i, r)
                 /\ \A k \in 1 .. Len(q) : IF k <= i THEN key[q[k]] <= key[r] ELSE key[r] < key[q[k]]
          BY <1>1, <1>4, <2>3, <3>1, <4>1, DisksortAscending
        <5>2. \A k \in 2 .. n : k \in 1 .. n /\ key[q[k]] \in Nat
          BY <1>1, <1>4
        <5>3. \A k \in 2 .. n : key[r] < key[q[k]] => key[r] # key[q[k]]
          BY <1>4, <5>2
        <5> QED BY <1>5, <5>1, <5>2, <5>3
      <4>2. CASE ~(key[q[1]] <= key[r])
        <5>1. PICK i \in Place(q, key, r) : i \in 1 .. n /\ Disksort(q, key, r) = Inserted(q, i, r)
          BY <1>1, <2>3, DisksortPlace
        <5>2. \A k \in 1 .. n : key[q[k]] \in Nat /\ key[q[1]] <= key[q[k]]
          <6>1. \A k \in 1 .. n : 1 \in 1 .. n /\ 1 <= k
            BY <1>1
          <6> QED BY <1>1, <1>4, <3>1, <6>1 DEF Ascends
        <5>3. \A k \in 2 .. n : k \in 1 .. n
          BY <1>1
        <5>4. 1 \in 1 .. n
          BY <5>1, <1>1
        <5>5. \A k \in 2 .. n : key[r] # key[q[k]]
          BY <1>4, <4>2, <5>2, <5>3, <5>4
        <5> QED BY <1>5, <5>1, <5>5
      <4> QED BY <4>1, <4>2
    <3>3. SUFFICES ASSUME NEW j \in DOMAIN actf'[d], NEW k \in DOMAIN actf'[d],
                          actf'[d][j] \notin ToSet(q), actf'[d][k] \in ToSet(q),
                          cyl'[actf'[d][j]] = cyl'[actf'[d][k]]
                   PROVE  k < j
      BY <2>3 DEF NoneOvertaken, q
    <3>4. j = i + 1 /\ actf'[d][j] = r
      <4>1. \A m \in 1 .. n : q[m] \in ToSet(q)
        BY <1>1 DEF ToSet
      <4> QED BY <1>6, <2>3, <3>2, <3>3, <4>1
    <3>5. actf'[d][k] # r
      BY <1>3, <3>3 DEF ToSet, q
    <3>6. CASE k <= i /\ k \in 1 .. n
      BY <1>1, <3>4, <3>6
    <3>7. CASE k > i + 1 /\ k - 1 \in 2 .. n /\ ~(k - 1 <= i) /\ actf'[d][k] = q[k - 1]
      <4>1. key[q[k - 1]] = cyl'[q[k - 1]] /\ key[r] # key[q[k - 1]]
        BY <3>1, <3>2, <3>7
      <4> QED BY <1>4, <3>3, <3>4, <3>7, <4>1
    <3> QED BY <1>6, <2>3, <3>2, <3>5, <3>6, <3>7
  <2> QED BY <2>1, <2>2, <2>3
<1> QED BY <1>7, <1>8

(* The end of a transfer.                                                  *)
LEMMA ScdoneOrder ==
  ASSUME QueueInv, QueueInv', KeysInv, Scdone
  PROVE  KeysInv' /\ \A e \in Disks : NoneOvertaken(e)
<1> DEFINE d == Head(mcq)
           q == actf[d]
<1>1. /\ d \in Disks /\ q \in Seq(DiskReqs) /\ q # <<>> /\ actf \in [Disks -> Seq(DiskReqs)]
      /\ b_cylin \in [DiskReqs -> Keys]
  BY ScdoneHead DEF QueueInv, DiskTypeOK, Keys
<1>2. actf' = [actf EXCEPT ![d] = Tail(q)] /\ Scstart(mcq', actf', b_cylin) /\ cyl' = cyl
  BY <1>1 DEF Scdone
<1> HIDE DEF d
<1>3. actf'[d] = Tail(q) /\ \A e \in Disks : e # d => actf'[e] = actf[e]
  BY <1>1, <1>2
<1>4. /\ Len(q) \in Nat /\ Len(q) >= 1 /\ DOMAIN q = 1 .. Len(q) /\ Len(Tail(q)) = Len(q) - 1
      /\ DOMAIN Tail(q) = 1 .. Len(q) - 1 /\ \A k \in 1 .. Len(q) - 1 : Tail(q)[k] = q[k + 1]
  BY <1>1, EmptySeq, LenProperties, HeadTailProperties
<1>5. KeysInv'
  <2> SUFFICES ASSUME NEW e \in Disks, NEW k \in 2 .. Len(actf'[e])
               PROVE  b_cylin'[actf'[e][k]] = cyl'[actf'[e][k]]
    BY DEF KeysInv
  <2>1. b_cylin'[actf'[e][k]] = b_cylin[actf'[e][k]]
    BY <1>1, <1>2, ScstartBehind
  <2>2. CASE e # d
    BY <1>2, <1>3, <2>1, <2>2 DEF KeysInv
  <2>3. CASE e = d
    <3> HIDE DEF q
    <3>1. k \in 1 .. Len(q) - 1 /\ k + 1 \in 2 .. Len(q)
      BY <1>3, <1>4, <2>3
    <3>2. actf'[e][k] = q[k + 1]
      BY <1>3, <1>4, <2>3, <3>1
    <3> QED BY <1>1, <1>2, <2>1, <3>1, <3>2 DEF KeysInv, q
  <2> QED BY <2>2, <2>3
<1>6. ASSUME NEW e \in Disks PROVE NoneOvertaken(e)
  <2>1. CASE e # d
    <3>1. \A j \in DOMAIN actf'[e] : actf'[e][j] \in ToSet(actf[e])
      BY <1>3, <2>1 DEF ToSet
    <3> QED BY <3>1 DEF NoneOvertaken
  <2>2. CASE e = d
    <3>1. \A j \in 1 .. Len(q) - 1 : j + 1 \in DOMAIN q
      BY <1>4
    <3>2. \A j \in DOMAIN Tail(q) : Tail(q)[j] \in ToSet(q)
      BY <1>4, <3>1 DEF ToSet
    <3> QED BY <1>3, <2>2, <3>2 DEF NoneOvertaken
  <2> QED BY <2>1, <2>2
<1> QED BY <1>5, <1>6

(* On any disk, as long as its queue is one list, requests of one cylinder *)
(* are done in the order in which they came.                               *)
THEOREM OneListKeepsOrder == DiskSpec => SameCylinderInOrder
<1> DEFINE InOrder == \A d \in Disks : Ascends(actf[d], b_cylin) => NoneOvertaken(d)
<1>1. DiskInit => KeysInv
  <2> SUFFICES ASSUME DiskInit, NEW d \in Disks, NEW k \in 2 .. Len(actf[d]) PROVE FALSE
    BY DEF KeysInv
  <2>1. Len(actf[d]) = 0
    BY DEF DiskInit
  <2> QED BY <2>1
<1>2. QueueInv /\ QueueInv' /\ KeysInv /\ [DiskNext]_queueVars => KeysInv' /\ [InOrder]_queueVars
  <2> SUFFICES ASSUME QueueInv, QueueInv', KeysInv, [DiskNext]_queueVars
               PROVE  KeysInv' /\ [InOrder]_queueVars
    OBVIOUS
  <2>1. CASE DiskNext
    BY <2>1, ScdoneOrder, SdstrategyOrder DEF DiskNext
  <2>2. CASE UNCHANGED queueVars
    BY <2>2 DEF queueVars, KeysInv
  <2> QED BY <2>1, <2>2
<1> QED BY <1>1, <1>2, QueueInvariant, PTL DEF DiskSpec, SameCylinderInOrder
=============================================================================
