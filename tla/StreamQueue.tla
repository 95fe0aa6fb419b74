----------------------------- MODULE StreamQueue -----------------------------
(***************************************************************************)
(* The queue of dev/stream.c as a value: the blocks in the order getq      *)
(* takes them, and the flags QFULL and QWANTW.  A block is data, a         *)
(* delimiter or a file being passed (M_DATA, M_DELIM, M_PASS), all of the  *)
(* same priority; what a block weighs towards the limits is bsize of its   *)
(* size class.  getq and flushq enable the service procedure of the writer *)
(* upstream: the operators ending in Enables say when.                     *)
(***************************************************************************)
EXTENDS Naturals, Sequences, SequencesExt, FiniteSets

CONSTANTS Limit, LoLimit,   \* the high and low water marks of strdata
          Cap,              \* how many bytes a data block holds
          DataWeight,       \* what a data block weighs; so does a passed file
          DelimWeight       \* what a delimiter weighs

ASSUME QueueAssumption ==
  /\ Limit \in Nat /\ LoLimit \in Nat /\ LoLimit < Limit
  /\ Cap \in Nat \ {0}
  /\ DataWeight \in Nat \ {0} /\ DelimWeight \in Nat \ {0}

QFlags == {"QFULL", "QWANTW"}

Data(bytes)  == [type |-> "data",  bytes |-> bytes, room |-> Cap - Len(bytes)]
Delim        == [type |-> "delim", bytes |-> <<>>,  room |-> 0]
Pass         == [type |-> "pass",  bytes |-> <<>>,  room |-> 0]

Weight(b) == IF b.type = "delim" THEN DelimWeight ELSE DataWeight

(* q->count: each block in the queue counts with its weight.               *)
Delims(blocks) == {i \in DOMAIN blocks : blocks[i].type = "delim"}
Others(blocks) == {i \in DOMAIN blocks : blocks[i].type # "delim"}

Count(blocks) ==
  DataWeight * Cardinality(Others(blocks)) + DelimWeight * Cardinality(Delims(blocks))

Empty == [blocks |-> <<>>, flag |-> {}]

Rest(q) == IF q.blocks = <<>> THEN <<>> ELSE Tail(q.blocks)

(* Mutant: the writer is enabled below the low water mark only.            *)
GetqEnablesBelow(q) == "QWANTW" \in q.flag /\ Count(Rest(q)) < LoLimit

GetqEnables(q) == "QWANTW" \in q.flag /\ Count(Rest(q)) <= LoLimit

Getq(q) ==
  [blocks |-> Rest(q),
   flag   |-> q.flag
      \ ((IF q.blocks # <<>> /\ Count(Rest(q)) < Limit THEN {"QFULL"} ELSE {})
         \cup (IF GetqEnables(q) THEN {"QWANTW"} ELSE {}))]

(* Mutant: only a queue beyond its limit is full.                          *)
MarkedLate(q) == IF Count(q.blocks) > Limit THEN [q EXCEPT !.flag = QFlags] ELSE q

(* Mutant: a full queue does not have a waiting writer.                    *)
MarkedUnwanted(q) ==
  IF Count(q.blocks) >= Limit THEN [q EXCEPT !.flag = @ \cup {"QFULL"}] ELSE q

(* The end of putq: a queue at its limit is full and has a writer waiting. *)
Marked(q) == IF Count(q.blocks) >= Limit THEN [q EXCEPT !.flag = QFlags] ELSE q

(* Mutant: putq does not look at the room that is left.                    *)
MergesAlways(q, b) ==
  b.type = "data" /\ q.blocks # <<>> /\ Last(q.blocks).type = "data"

(* putq copies data that fits into the last block.                         *)
Merges(q, b) ==
  /\ b.type = "data" /\ q.blocks # <<>>
  /\ Last(q.blocks).type = "data" /\ Len(b.bytes) <= Last(q.blocks).room

Merged(last, b) ==
  [last EXCEPT !.bytes = @ \o b.bytes, !.room = @ - Len(b.bytes)]

Putq(q, b) ==
  Marked([q EXCEPT !.blocks =
            IF Merges(q, b) THEN Append(Front(@), Merged(Last(@), b))
            ELSE Append(@, b)])

(* Mutant: a block that is put back goes behind the others.                *)
PutbqLast(q, b) == Marked([q EXCEPT !.blocks = Append(@, b)])

Putbq(q, b) == Marked([q EXCEPT !.blocks = <<b>> \o @])

(* flushq puts the files being passed back, one after the other with putq, *)
(* which merges none of them; QWANTW is tested afterwards.                 *)
Passed(blocks) ==
  [i \in 1 .. Cardinality({j \in DOMAIN blocks : blocks[j].type = "pass"}) |-> Pass]

Requeued(q) == Marked([blocks |-> Passed(q.blocks), flag |-> q.flag \ {"QFULL"}])

FlushqEnables(q) == "QWANTW" \in Requeued(q).flag

Flushq(q) == [Requeued(q) EXCEPT !.flag = @ \ {"QWANTW"}]
=============================================================================
