------------------------------- MODULE Delivery -------------------------------
(***************************************************************************)
(* What the transfer as a whole promises, whatever the two ends exchange:  *)
(* every seq gets one fate, in the order of the seqs, and keeps it; a seq  *)
(* is delivered only if a record was written under it, and is given up     *)
(* only when the dongle cannot read that record any more.                  *)
(***************************************************************************)
EXTENDS Integers, Sequences

VARIABLES written,  \* seqs that ever held a record
          readable, \* seqs whose record the dongle can still read
          fate      \* fate of the seqs 1, 2, ... decided so far

Init == written = {} /\ readable = {} /\ fate = <<>>

(* New records come above all others; old ones may go.                       *)
DongleStep ==
  /\ written \subseteq written'
  /\ readable' \subseteq readable \cup (written' \ written)
  /\ \A q \in written' \ written : q > Len(fate) /\ \A p \in written : p < q
  /\ UNCHANGED fate

Decide ==
  /\ Len(fate') > Len(fate)
  /\ SubSeq(fate', 1, Len(fate)) = fate
  /\ \A q \in Len(fate) + 1..Len(fate') :
       \/ fate'[q] = "delivered" /\ q \in written
       \/ fate'[q] = "given up" /\ q \notin readable
  /\ UNCHANGED <<written, readable>>

Next == DongleStep \/ Decide

Spec == Init /\ [][Next]_<<written, readable, fate>>
===============================================================================
