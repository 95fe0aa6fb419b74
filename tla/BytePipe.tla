------------------------------- MODULE BytePipe -------------------------------
(***************************************************************************)
(* What a pipe promises to the process that reads an end of it: the bytes  *)
(* it gets are those written to the other end, each of them once and in    *)
(* the order they were written.  A read fetches some bytes from the front, *)
(* copies them out, and puts what it does not want back in front.  A flush *)
(* or the closing of an end discards what waits, but never bytes that a    *)
(* read has fetched.  Bytes are numbered in the order they are written.    *)
(***************************************************************************)
EXTENDS Naturals, Sequences

CONSTANTS Ends         \* the two ends

VARIABLES chan,        \* chan[e]: the bytes that wait at end e
          held,        \* held[e]: the bytes that a read of end e has fetched
          sent         \* sent[e]: how many bytes were ever written towards e

vars == <<chan, held, sent>>

Init ==
  /\ chan = [e \in Ends |-> <<>>]
  /\ held = [e \in Ends |-> <<>>]
  /\ sent = [e \in Ends |-> 0]

(* One write puts the next bytes behind those that wait.                   *)
Written(e) ==
  /\ sent'[e] > sent[e]
  /\ chan'[e] = chan[e] \o [i \in 1 .. sent'[e] - sent[e] |-> sent[e] + i]
  /\ held'[e] = held[e]

Fetched(e) ==
  /\ held[e] = <<>> /\ held'[e] # <<>>
  /\ chan[e] = held'[e] \o chan'[e]
  /\ sent'[e] = sent[e]

(* The first n bytes are delivered, or lost if the user's buffer is bad.   *)
Delivered(e) ==
  /\ held[e] # <<>> /\ held'[e] = <<>>
  /\ \E n \in 0 .. Len(held[e]) : chan'[e] = SubSeq(held[e], n + 1, Len(held[e])) \o chan[e]
  /\ sent'[e] = sent[e]

Discarded(e) ==
  /\ chan'[e] = <<>>
  /\ held'[e] = held[e] /\ sent'[e] = sent[e]

Same(e) == chan'[e] = chan[e] /\ held'[e] = held[e] /\ sent'[e] = sent[e]

Next == \A e \in Ends : Written(e) \/ Fetched(e) \/ Delivered(e) \/ Discarded(e) \/ Same(e)

Spec == Init /\ [][Next]_vars
=============================================================================
