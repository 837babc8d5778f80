------------------------------- MODULE TxFifo -------------------------------
(***************************************************************************)
(* What shared/core/od_txq.h promises its callers, without the ring: a     *)
(* first-in first-out queue of replies, and credit that a holder claims    *)
(* before it changes any state and spends one unit per reply.              *)
(***************************************************************************)
EXTENDS Integers, Sequences, FiniteSets

CONSTANTS Links, Frames, Holders, Capacity, MaxBudget

VARIABLES q, credit, live

vars == <<q, credit, live>>

Promised == credit["cmd"] + credit["read"]

Init ==
  /\ q = <<>>
  /\ credit = [h \in Holders |-> 0]
  /\ live = {}

Reserve(n) ==
  /\ Len(q) + Promised + n <= Capacity
  /\ credit["cmd"] = 0
  /\ credit' = [credit EXCEPT !["cmd"] = n]
  /\ UNCHANGED <<q, live>>

Release(h) ==
  /\ credit' = [credit EXCEPT ![h] = 0]
  /\ UNCHANGED <<q, live>>

Transfer ==
  /\ credit' = [credit EXCEPT !["read"] = credit["cmd"], !["cmd"] = 0]
  /\ credit["read"] = 0
  /\ UNCHANGED <<q, live>>

\* A credited reply to a live link is queued, always.
Reply(h, link, frame) ==
  /\ credit[h] > 0
  /\ credit' = [credit EXCEPT ![h] = @ - 1]
  /\ q' = IF link \in live THEN Append(q, [link |-> link, frame |-> frame])
                           ELSE q
  /\ UNCHANGED live

Retire ==
  /\ q # <<>>
  /\ q' = Tail(q)
  /\ UNCHANGED <<credit, live>>

\* The replies to other links, and where one of them comes without the
\* replies to this link.
Survivors(link) == {i \in 1 .. Len(q) : q[i].link # link}
Place(link, i) == Cardinality({j \in Survivors(link) : j <= i})

\* Only a dead link loses replies that were not offered to the radio; the
\* others keep their order and close up.
Drop(link) ==
  /\ link \notin live
  /\ q' = [n \in 1 .. Cardinality(Survivors(link)) |->
             q[CHOOSE i \in Survivors(link) : Place(link, i) = n]]
  /\ UNCHANGED <<credit, live>>

Clear ==
  /\ q' = <<>>
  /\ credit' = [h \in Holders |-> 0]
  /\ UNCHANGED live

LinkChange(link) ==
  /\ live' \in {live \union {link}, live \ {link}}
  /\ UNCHANGED <<q, credit>>

Next ==
  \/ \E n \in 1 .. MaxBudget : Reserve(n)
  \/ \E h \in Holders : Release(h)
  \/ Transfer
  \/ \E h \in Holders, l \in Links, f \in Frames : Reply(h, l, f)
  \/ Retire
  \/ \E l \in Links : Drop(l) \/ LinkChange(l)
  \/ Clear

Spec == Init /\ [][Next]_vars
=============================================================================
