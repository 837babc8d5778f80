------------------------------- MODULE RxFifo -------------------------------
(***************************************************************************)
(* What shared/core/od_rxq.h promises: frames come out whole, in the order *)
(* in which they were accepted, each with the tag it was pushed with.  An  *)
(* arrival may be refused when the ring is full; an accepted frame leaves  *)
(* only by the consumer's hand.                                            *)
(***************************************************************************)
EXTENDS Integers, Sequences

CONSTANTS Data, Tags, Capacity

VARIABLE q

Init == q = <<>>

Accept(d, t) ==
  /\ Len(q) < Capacity
  /\ q' = Append(q, [data |-> d, tag |-> t])

Take == q # <<>> /\ q' = Tail(q)

\* A reset discards the frames it saw; one accepted meanwhile survives.
DiscardOldest(n) == n \in 1 .. Len(q) /\ q' = SubSeq(q, n + 1, Len(q))

Next ==
  \/ \E d \in Data, t \in Tags : Accept(d, t)
  \/ Take
  \/ \E n \in 1 .. Capacity : DiscardOldest(n)

Spec == Init /\ [][Next]_q
=============================================================================
