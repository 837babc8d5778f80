--------------------------- MODULE TxQueueProofs ---------------------------
(***************************************************************************)
(* Proofs about the response queue, for every ring size, every number of   *)
(* generations, every set of links and frames, and every budget.           *)
(***************************************************************************)
EXTENDS TxQueue, FiniteSetTheorems, SequenceTheorems, TLAPS

\* A sum below twice the ring size wraps at most once: the index arithmetic
\* of ring_next() and queued() in od_txq.c.
LEMMA ModOnce ==
  ASSUME NEW n \in Nat, n > 0, NEW a \in Nat, a < 2 * n
  PROVE  a % n = IF a < n THEN a ELSE a - n
BY SMT

\* The same for the ring's own size.
LEMMA WrapOnce ==
  \A a \in Nat : a < 2 * Slots => a % Slots = IF a < Slots THEN a ELSE a - Slots
<1> TAKE a \in Nat
<1> HAVE a < 2 * Slots
<1>1. Slots \in Nat /\ Slots > 0
  BY SlotsAssumption
<1> QED BY <1>1, ModOnce

\* Between two slot indices, queued() is the distance from head to tail.
LEMMA QueuedIs ==
  ASSUME head \in Index, tail \in Index
  PROVE  /\ queued = IF head <= tail THEN tail - head ELSE tail + Slots - head
         /\ queued \in 0 .. Slots - 1
         /\ head # tail <=> queued > 0
<1>1. tail + Slots - head \in Nat /\ tail + Slots - head < 2 * Slots
  BY SlotsAssumption DEF Index
<1>2. queued = IF tail + Slots - head < Slots THEN tail + Slots - head
                                              ELSE tail + Slots - head - Slots
  BY <1>1, WrapOnce, SlotsAssumption DEF queued, Index
<1> QED BY <1>2, SlotsAssumption DEF Index

\* The slot k places behind the head exists, and a tail put there leaves k
\* entries in the queue.
LEMMA QueuedAt ==
  ASSUME head \in Index, NEW k \in 0 .. Slots - 1
  PROVE  /\ Queued(k) \in Index
         /\ (Queued(k) + Slots - head) % Slots = k
<1>1. head + k \in Nat /\ head + k < 2 * Slots
  BY SlotsAssumption DEF Index
<1>2. Queued(k) = IF head + k < Slots THEN head + k ELSE head + k - Slots
  BY <1>1, WrapOnce, SlotsAssumption DEF Queued, Index
<1>3. Queued(k) \in Index
  BY <1>2, SlotsAssumption DEF Index
<1>4. Queued(k) + Slots - head \in Nat /\ Queued(k) + Slots - head < 2 * Slots
  BY <1>3, SlotsAssumption DEF Index
<1>5. (Queued(k) + Slots - head) % Slots
        = IF Queued(k) + Slots - head < Slots THEN Queued(k) + Slots - head
                                              ELSE Queued(k) + Slots - head - Slots
  BY <1>3, <1>4, WrapOnce, SlotsAssumption DEF Index
<1> QED BY <1>2, <1>3, <1>5, SlotsAssumption DEF Index

\* drop_tag() never keeps more entries than were queued.
LEMMA KeptBound ==
  ASSUME NEW link, head \in Index, tail \in Index
  PROVE  Kept(link) \in 0 .. queued
<1> DEFINE S == {j \in 1 .. queued : ring[Queued(j - 1)].link # link}
<1>1. queued \in Nat
  BY QueuedIs
<1>2. IsFiniteSet(1 .. queued) /\ Cardinality(1 .. queued) = queued
  BY <1>1, FS_Interval
<1>3. IsFiniteSet(S) /\ Cardinality(S) <= queued
  BY <1>2, FS_Subset
<1>4. Cardinality(S) \in Nat
  BY <1>3, FS_CardinalityType
<1> QED BY <1>1, <1>3, <1>4 DEF Kept, KeptBefore

-----------------------------------------------------------------------------
\* Moving the tail of a non-full ring adds one entry, moving the head of a
\* non-empty one takes one away: the steps of od_txq_commit() and of
\* od_txq_process().
LEMMA StepsOfTheRing ==
  ASSUME head \in Index, tail \in Index
  PROVE  /\ ring_next(head) \in Index
         /\ ring_next(tail) \in Index
         /\ queued < Slots - 1 => (ring_next(tail) + Slots - head) % Slots = queued + 1
         /\ queued > 0 => (tail + Slots - ring_next(head)) % Slots = queued - 1
<1> USE SlotsAssumption DEF Index
<1>1. ring_next(head) = IF head + 1 < Slots THEN head + 1 ELSE head + 1 - Slots
  BY WrapOnce DEF ring_next
<1>2. ring_next(tail) = IF tail + 1 < Slots THEN tail + 1 ELSE tail + 1 - Slots
  BY WrapOnce DEF ring_next
<1>3. ring_next(head) \in Index /\ ring_next(tail) \in Index
  BY <1>1, <1>2
<1>4. queued = IF head <= tail THEN tail - head ELSE tail + Slots - head
  BY QueuedIs
<1>5. ASSUME queued < Slots - 1
      PROVE  (ring_next(tail) + Slots - head) % Slots = queued + 1
  <2>1. /\ ring_next(tail) + Slots - head \in Nat
        /\ ring_next(tail) + Slots - head < 2 * Slots
    BY <1>3
  <2>2. (ring_next(tail) + Slots - head) % Slots
          = IF ring_next(tail) + Slots - head < Slots
              THEN ring_next(tail) + Slots - head
              ELSE ring_next(tail) + Slots - head - Slots
    BY <2>1, <1>3, WrapOnce
  <2> QED BY <1>2, <1>4, <1>5, <2>2
<1>6. ASSUME queued > 0
      PROVE  (tail + Slots - ring_next(head)) % Slots = queued - 1
  <2>1. /\ tail + Slots - ring_next(head) \in Nat
        /\ tail + Slots - ring_next(head) < 2 * Slots
    BY <1>3
  <2>2. (tail + Slots - ring_next(head)) % Slots
          = IF tail + Slots - ring_next(head) < Slots
              THEN tail + Slots - ring_next(head)
              ELSE tail + Slots - ring_next(head) - Slots
    BY <2>1, <1>3, WrapOnce
  <2> QED BY <1>1, <1>4, <1>6, <2>2
<1> QED BY <1>3, <1>5, <1>6

\* The generation after a reset differs from the one before it.
LEMMA NextGeneration ==
  ASSUME gen \in 0 .. GenMod - 1
  PROVE  (gen + 1) % GenMod \in 0 .. GenMod - 1 /\ (gen + 1) % GenMod # gen
<1>1. GenMod \in Nat /\ GenMod > 0 /\ gen + 1 \in Nat /\ gen + 1 < 2 * GenMod
  BY GenAssumption
<1>2. (gen + 1) % GenMod = IF gen + 1 < GenMod THEN gen + 1 ELSE gen + 1 - GenMod
  BY <1>1, ModOnce
<1> QED BY <1>2, GenAssumption

\* The empty queue satisfies the invariant.
LEMMA InitIInv == Init => IInv
<1> SUFFICES ASSUME Init PROVE IInv
  OBVIOUS
<1> USE SlotsAssumption, GenAssumption
<1>0. NoToken \in [remaining : 0 .. Slots - 1, gen : 0 .. GenMod - 1]
  BY DEF NoToken
<1>a. ring \in [Index -> Entry \union {Empty}]
  BY DEF Init
<1>b. token \in [Holders -> [remaining : 0 .. Slots - 1, gen : 0 .. GenMod - 1]]
  BY <1>0 DEF Init
<1>c. head \in Index /\ tail \in Index /\ reserved \in 0 .. Slots - 1 /\ gen \in 0 .. GenMod - 1
  BY DEF Init, Index
<1>1. TypeOK
  BY <1>a, <1>b, <1>c DEF Init, TypeOK
<1>2. queued = 0
  BY <1>1, QueuedIs DEF Init, TypeOK, Index
<1>3. ReservedIsHeld
  BY DEF Init, ReservedIsHeld, Held, Stale, Holders, NoToken
<1>4. CapacityKept
  BY <1>2 DEF Init, CapacityKept
<1> QED BY <1>1, <1>3, <1>4 DEF IInv

\* od_txq_reset(): every token that held units is stale afterwards.
LEMMA ResetIInv == IInv /\ od_txq_reset => IInv'
<1> SUFFICES ASSUME IInv, od_txq_reset PROVE IInv'
  OBVIOUS
<1> USE SlotsAssumption, GenAssumption DEF IInv, od_txq_reset
<1>1. gen' \in 0 .. GenMod - 1 /\ gen' # gen
  BY NextGeneration DEF TypeOK
<1>2. TypeOK'
  BY <1>1 DEF TypeOK, Index, linkVars
<1>3. queued' = 0
  <2>1. head' \in Index /\ tail' \in Index
    BY DEF Index
  <2> QED BY <2>1, WrapOnce DEF queued, Index
<1>4. ASSUME NEW h \in Holders PROVE Held(h)' = 0
  BY <1>1, <1>4 DEF Held, Stale, GenerationReused, TypeOK
<1>5. ReservedIsHeld'
  BY <1>4 DEF ReservedIsHeld, Holders
<1> QED BY <1>2, <1>3, <1>5 DEF CapacityKept

\* od_txq_reserve(): a claim is granted only inside what is free and not
\* yet promised.
LEMMA ReserveIInv ==
  ASSUME NEW n \in 1 .. MaxBudget, IInv, od_txq_reserve(n)
  PROVE  IInv'
<1> USE SlotsAssumption, BudgetAssumption DEF IInv, od_txq_reserve
<1>0. queued' = queued /\ queued \in 0 .. Slots - 1
  BY QueuedIs DEF TypeOK, queued
<1>1. CASE reserved' = reserved + n
  <2>1. n <= (Slots - 1) - queued - reserved /\ token["cmd"].remaining = 0
    BY <1>0, <1>1 DEF free_slots, TypeOK
  <2>2. token' = [token EXCEPT !["cmd"] = [remaining |-> n, gen |-> gen]]
    BY <1>1 DEF TypeOK
  <2>3. TypeOK'
    BY <1>0, <1>1, <2>1, <2>2 DEF TypeOK, linkVars, Holders
  <2>4. Held("cmd")' = n /\ Held("read")' = Held("read") /\ Held("cmd") = 0
    BY <2>1, <2>2 DEF Held, Stale, TypeOK, Holders
  <2>5. Held("read") \in Int
    BY DEF Held, TypeOK, Holders
  <2>6. ReservedIsHeld'
    BY <1>1, <2>4, <2>5 DEF ReservedIsHeld
  <2> QED BY <1>0, <1>1, <2>1, <2>3, <2>6 DEF CapacityKept, TypeOK
<1>2. CASE UNCHANGED reserved
  <2>1. token' = token
    BY <1>2 DEF TypeOK, Holders
  <2> QED BY <1>0, <1>2, <2>1
    DEF TypeOK, linkVars, ReservedIsHeld, CapacityKept, Held, Stale
<1> QED BY <1>1, <1>2

\* od_txq_release(): a fresh token returns its units, a stale one nothing.
LEMMA ReleaseIInv ==
  ASSUME NEW h \in Holders, IInv, od_txq_release(h)
  PROVE  IInv'
<1> USE SlotsAssumption DEF IInv, od_txq_release
<1>0. queued' = queued /\ queued \in 0 .. Slots - 1
  BY QueuedIs DEF TypeOK, queued
<1>1. Held("cmd") \in 0 .. Slots - 1 /\ Held("read") \in 0 .. Slots - 1
  BY DEF Held, TypeOK, Holders
<1>2. /\ Held(h)' = 0
      /\ \A g \in Holders \ {h} : Held(g)' = Held(g)
      /\ reserved' = reserved - Held(h)
  BY DEF Held, Stale, GiveBack, TypeOK
<1>3. reserved' \in 0 .. reserved
  BY <1>1, <1>2 DEF ReservedIsHeld, Holders, TypeOK
<1>4. TypeOK'
  BY <1>3 DEF TypeOK, linkVars
<1>5. ReservedIsHeld'
  BY <1>1, <1>2 DEF ReservedIsHeld, Holders
<1> QED BY <1>0, <1>3, <1>4, <1>5 DEF CapacityKept, TypeOK

\* od_config_read_start() moving the token changes no total.
LEMMA TransferIInv == IInv /\ TransferToken => IInv'
<1> SUFFICES ASSUME IInv, TransferToken PROVE IInv'
  OBVIOUS
<1> USE DEF IInv, TransferToken, queueVars, linkVars
<1>1. TypeOK'
  BY DEF TypeOK, Holders
<1>2. Held("cmd")' = 0 /\ Held("read")' = Held("cmd") /\ Held("read") = 0
  BY DEF Held, Stale, TypeOK, Holders
<1>3. Held("cmd") \in Int
  BY DEF Held, TypeOK, Holders
<1>4. ReservedIsHeld'
  BY <1>2, <1>3 DEF ReservedIsHeld
<1> QED BY <1>1, <1>4 DEF CapacityKept, queued

\* od_txq_commit(): a stale token loses its units, a reply to a dead link
\* spends one, a queued reply moves one from the promise into the ring.
LEMMA CommitIInv ==
  ASSUME NEW h \in Holders, NEW l \in Links, NEW s \in Sizes, NEW f \in Frames,
         IInv, od_txq_commit(h, l, s, f)
  PROVE  IInv'
<1> USE SlotsAssumption DEF IInv, od_txq_commit
<1>0. queued \in 0 .. Slots - 1
  BY QueuedIs DEF TypeOK
<1>1. Held("cmd") \in 0 .. Slots - 1 /\ Held("read") \in 0 .. Slots - 1
  BY DEF Held, TypeOK, Holders
<1>2. CASE CommitStale(h)
  <2> USE <1>2 DEF CommitStale, queueVars
  <2>1. TypeOK'
    BY DEF TypeOK, linkVars
  <2>2. \A g \in Holders : Held(g)' = Held(g)
    BY DEF Held, Stale, TypeOK
  <2>3. ReservedIsHeld'
    BY <2>2 DEF ReservedIsHeld, Holders
  <2> QED BY <2>1, <2>3 DEF CapacityKept, queued
<1>3. ASSUME ~Stale(h), SpendUnit(h), gen' = gen
      PROVE  /\ token' \in [Holders -> [remaining : 0 .. Slots - 1, gen : 0 .. GenMod - 1]]
             /\ reserved' = reserved - 1
             /\ reserved' \in 0 .. Slots - 1
             /\ ReservedIsHeld'
  <2> USE <1>3 DEF SpendUnit
  <2>1. token[h].remaining \in 1 .. Slots - 1
    BY DEF TypeOK
  <2>2. /\ Held(h)' = Held(h) - 1
        /\ Held(h) >= 1
        /\ \A g \in Holders \ {h} : Held(g)' = Held(g)
    BY <2>1 DEF Held, Stale, TypeOK
  <2>3. reserved' \in 0 .. Slots - 1
    BY <1>1, <2>2 DEF ReservedIsHeld, Holders, TypeOK
  <2>4. ReservedIsHeld'
    BY <1>1, <2>2 DEF ReservedIsHeld, Holders
  <2> QED BY <2>1, <2>3, <2>4 DEF TypeOK
<1>4. CASE ~Stale(h) /\ CommitGone(h, l)
  <2> USE <1>4 DEF CommitGone
  <2>1. TypeOK' /\ ReservedIsHeld' /\ reserved' = reserved - 1
    BY <1>3 DEF TypeOK, linkVars
  <2> QED BY <1>0, <2>1 DEF CapacityKept, queued, TypeOK
<1>5. CASE ~Stale(h) /\ CommitAppend(h, l, f)
  <2> USE <1>5 DEF CommitAppend
  <2>1. queued < Slots - 1
    BY <1>0 DEF free_slots
  <2>2. tail' \in Index /\ queued' = queued + 1
    BY <2>1, StepsOfTheRing DEF queued, TypeOK
  <2>3. ring' \in [Index -> Entry \union {Empty}]
    BY DEF TypeOK, Entry
  <2>4. TypeOK' /\ ReservedIsHeld' /\ reserved' = reserved - 1
    BY <1>3, <2>2, <2>3 DEF TypeOK, linkVars
  <2> QED BY <1>0, <2>2, <2>4 DEF CapacityKept, TypeOK
<1> QED BY <1>2, <1>4, <1>5

\* A drain step only takes entries out of the ring.
LEMMA DrainIInv == IInv /\ (BeginDrain \/ od_txq_process) => IInv'
<1> SUFFICES ASSUME IInv, BeginDrain \/ od_txq_process PROVE IInv'
  OBVIOUS
<1> USE SlotsAssumption DEF IInv
<1>0. queued \in 0 .. Slots - 1 /\ (head # tail <=> queued > 0)
  BY QueuedIs DEF TypeOK
<1>1. CASE BeginDrain \/ DrainRetry \/ EndDrain
  BY <1>1 DEF BeginDrain, DrainRetry, EndDrain, TypeOK, ReservedIsHeld,
     CapacityKept, queued, Held, Stale, queueVars, linkVars
<1>2. CASE DrainRetire
  <2> USE <1>2 DEF DrainRetire
  <2>1. head' \in Index /\ queued' = queued - 1
    BY <1>0, StepsOfTheRing DEF queued, TypeOK
  <2>2. ring' \in [Index -> Entry \union {Empty}]
    BY DEF TypeOK
  <2>3. TypeOK'
    BY <2>1, <2>2 DEF TypeOK, linkVars
  <2>4. ReservedIsHeld'
    BY DEF ReservedIsHeld, Held, Stale
  <2> QED BY <1>0, <2>1, <2>3, <2>4 DEF CapacityKept, TypeOK
<1>3. CASE DrainGone
  <2> DEFINE l == ring[head].link
  <2> USE <1>3 DEF DrainGone
  <2>1. Kept(l) \in 0 .. queued
    BY KeptBound DEF TypeOK
  <2>2. drop_tag(l)
    OBVIOUS
  <2> HIDE DEF l
  <2>3. tail' = Queued(Kept(l)) /\ head' = head
    BY <2>2 DEF drop_tag
  <2>4. Kept(l) \in 0 .. Slots - 1
    BY <1>0, <2>1
  <2>5. tail' \in Index /\ queued' = Kept(l)
    BY <2>3, <2>4, QueuedAt DEF queued, TypeOK
  <2>6. ring' \in [Index -> Entry \union {Empty}]
    <3> SUFFICES ASSUME NEW i \in Index, NEW k \in MovesTo(l, i)
                 PROVE  ring[Queued(k)] \in Entry \union {Empty}
      BY <2>2 DEF drop_tag
    <3>1. k \in 0 .. Slots - 1
      BY <1>0 DEF MovesTo
    <3> QED BY <3>1, QueuedAt DEF TypeOK
  <2>7. TypeOK'
    BY <2>3, <2>5, <2>6 DEF TypeOK, linkVars
  <2>8. ReservedIsHeld'
    BY DEF ReservedIsHeld, Held, Stale
  <2> QED BY <1>0, <2>1, <2>5, <2>7, <2>8 DEF CapacityKept, TypeOK
<1> QED BY <1>1, <1>2, <1>3 DEF od_txq_process

\* Every step keeps the accounts.
LEMMA StepIInv == IInv /\ [Next]_vars => IInv'
<1> SUFFICES ASSUME IInv, [Next]_vars PROVE IInv'
  OBVIOUS
<1>1. CASE od_txq_reset
  BY <1>1, ResetIInv
<1>2. ASSUME NEW n \in 1 .. MaxBudget, od_txq_reserve(n) PROVE IInv'
  BY <1>2, ReserveIInv
<1>3. ASSUME NEW h \in Holders, od_txq_release(h) PROVE IInv'
  BY <1>3, ReleaseIInv
<1>4. CASE TransferToken
  BY <1>4, TransferIInv
<1>5. ASSUME NEW h \in Holders, NEW l \in Links, NEW s \in Sizes, NEW f \in Frames,
             od_txq_commit(h, l, s, f)
      PROVE  IInv'
  BY <1>5, CommitIInv
<1>6. CASE BeginDrain \/ od_txq_process
  BY <1>6, DrainIInv
<1>7. ASSUME NEW l \in Links, LinkUp(l) \/ LinkDown(l) PROVE IInv'
  BY <1>7 DEF IInv, LinkUp, LinkDown, TypeOK, ReservedIsHeld, CapacityKept,
     queued, Held, Stale, queueVars
<1>8. CASE UNCHANGED vars
  BY <1>8 DEF vars, IInv, TypeOK, ReservedIsHeld, CapacityKept, queued, Held, Stale
<1> QED BY <1>1, <1>2, <1>3, <1>4, <1>5, <1>6, <1>7, <1>8 DEF Next

\* The accounting of the response queue: whatever resets, dead links and
\* drains do, s_reserved is what the tokens still hold.
THEOREM Accounting == Spec => []IInv
<1> QED BY InitIInv, StepIInv, PTL DEF Spec

\* The reserved count equals the units of the live tokens in every state.
THEOREM ReservedCorrect == Spec => []ReservedIsHeld
<1>1. IInv => ReservedIsHeld
  BY DEF IInv
<1> QED BY <1>1, Accounting, PTL

\* The "no free slot" branch of od_txq_commit() is never taken.
THEOREM CommitFits == Spec => []CommitAlwaysFits
<1>1. IInv => CommitAlwaysFits
  <2> SUFFICES ASSUME IInv, NEW h \in Holders, token[h].remaining > 0, ~Stale(h)
               PROVE  free_slots > 0
    BY DEF CommitAlwaysFits
  <2>1. Held("cmd") \in 0 .. Slots - 1 /\ Held("read") \in 0 .. Slots - 1
    BY SlotsAssumption DEF IInv, TypeOK, Held, Holders
  <2>2. Held(h) > 0
    BY DEF Held
  <2>3. reserved > 0
    BY <2>1, <2>2 DEF IInv, ReservedIsHeld, Holders
  <2>4. queued \in 0 .. Slots - 1
    BY QueuedIs DEF IInv, TypeOK
  <2> QED BY <2>3, <2>4, SlotsAssumption DEF IInv, CapacityKept, free_slots, TypeOK
<1> QED BY <1>1, Accounting, PTL

-----------------------------------------------------------------------------
(* The refinement.                                                         *)

\* The place of i among the numbers of S.
Rank(S, i) == Cardinality({j \in S : j <= i})

\* Of the first k entries, those drop_tag() keeps.
KeptSet(link) == {i \in 1 .. queued : ring[Queued(i - 1)].link # link}

\* A place counts one more than the place before it.
LEMMA RankCounts ==
  ASSUME NEW S \in SUBSET Int, IsFiniteSet(S), NEW i \in S
  PROVE  /\ Rank(S, i) = Rank(S, i - 1) + 1
         /\ Rank(S, i - 1) \in Nat
         /\ Rank(S, i) \in 1 .. Cardinality(S)
<1> DEFINE A == {j \in S : j <= i}
           B == {j \in S : j <= i - 1}
<1>1. IsFiniteSet(A) /\ Cardinality(A) <= Cardinality(S)
  BY FS_Subset
<1>2. IsFiniteSet(B)
  BY FS_Subset
<1>3. A = B \union {i} /\ i \notin B
  <2>1. \A j \in S : j <= i <=> j <= i - 1 \/ j = i
    OBVIOUS
  <2>2. ~(i <= i - 1) /\ i <= i
    OBVIOUS
  <2> QED
    BY <2>1, <2>2
<1>4. Cardinality(A) = Cardinality(B) + 1
  BY <1>2, <1>3, FS_AddElement
<1>5. Cardinality(A) \in Nat /\ Cardinality(B) \in Nat /\ Cardinality(S) \in Nat
  BY <1>1, <1>2, FS_CardinalityType
<1> QED
  BY <1>1, <1>4, <1>5 DEF Rank

\* Different numbers have different places, and every place is taken.
LEMMA RankIsBijective ==
  ASSUME NEW S \in SUBSET Int, IsFiniteSet(S)
  PROVE  /\ \A i, j \in S : Rank(S, i) = Rank(S, j) => i = j
         /\ \A n \in 1 .. Cardinality(S) : \E i \in S : Rank(S, i) = n
<1>1. ASSUME NEW i \in S, NEW j \in S, i < j
      PROVE  Rank(S, i) < Rank(S, j)
  <2> DEFINE A == {k \in S : k <= i}
             B == {k \in S : k <= j - 1}
  <2>1. IsFiniteSet(B)
    BY FS_Subset
  <2>2. A \in SUBSET B
    <3>1. \A k \in S : k <= i => k <= j - 1
      BY <1>1
    <3> QED
      BY <3>1
  <2>3. IsFiniteSet(A) /\ Cardinality(A) <= Cardinality(B)
    BY <2>1, <2>2, FS_Subset
  <2>4. Cardinality(A) \in Nat /\ Cardinality(B) \in Nat
    BY <2>1, <2>3, FS_CardinalityType
  <2>5. Rank(S, i) = Cardinality(A) /\ Rank(S, j) = Cardinality(B) + 1
    BY RankCounts DEF Rank
  <2> HIDE DEF A, B
  <2> QED
    BY <2>3, <2>4, <2>5
<1>2. ASSUME NEW i \in S, NEW j \in S, Rank(S, i) = Rank(S, j)
      PROVE  i = j
  <2>1. Rank(S, i) \in Int /\ Rank(S, j) \in Int
    BY RankCounts
  <2> QED
    BY <1>1, <1>2, <2>1
<1> DEFINE f == [i \in S |-> Rank(S, i)]
<1>3. Cardinality(S) \in Nat
  BY FS_CardinalityType
<1>4. f \in Injection(S, 1 .. Cardinality(S))
  <2>1. f \in [S -> 1 .. Cardinality(S)]
    BY RankCounts
  <2> QED
    BY <1>2, <2>1 DEF Injection, IsInjective
<1>5. IsFiniteSet(1 .. Cardinality(S)) /\ Cardinality(1 .. Cardinality(S)) = Cardinality(S)
  BY <1>3, FS_Interval
<1>6. f \in Surjection(S, 1 .. Cardinality(S))
  BY <1>4, <1>5, FS_Injection
<1> QED
  BY <1>2, <1>6 DEF Surjection

\* The slots behind the head are slots of the ring, and different ones.
LEMMA SlotsBehind ==
  ASSUME head \in Index
  PROVE  /\ \A k \in 0 .. Slots - 1 :
              Queued(k) \in Index /\ Queued(k) = IF head + k < Slots THEN head + k ELSE head + k - Slots
         /\ \A j, k \in 0 .. Slots - 1 : Queued(j) = Queued(k) => j = k
<1>1. ASSUME NEW k \in 0 .. Slots - 1
      PROVE  Queued(k) \in Index /\ Queued(k) = IF head + k < Slots THEN head + k ELSE head + k - Slots
  <2>1. head + k \in Nat /\ head + k < 2 * Slots
    BY SlotsAssumption DEF Index
  <2>2. Queued(k) = IF head + k < Slots THEN head + k ELSE head + k - Slots
    BY <2>1, WrapOnce, SlotsAssumption DEF Queued, Index
  <2> QED
    BY <2>2, SlotsAssumption DEF Index
<1>2. ASSUME NEW j \in 0 .. Slots - 1, NEW k \in 0 .. Slots - 1, Queued(j) = Queued(k)
      PROVE  j = k
  BY <1>1, <1>2, SlotsAssumption DEF Index
<1> QED
  BY <1>1, <1>2

\* What drop_tag() counts are places among the entries it keeps.
LEMMA KeptIsRank ==
  ASSUME head \in Index, tail \in Index, NEW link
  PROVE  /\ IsFiniteSet(KeptSet(link)) /\ KeptSet(link) \in SUBSET Int
         /\ Kept(link) = Cardinality(KeptSet(link))
         /\ \A k \in 0 .. queued : KeptBefore(link, k) = Rank(KeptSet(link), k)
<1>1. queued \in Nat
  BY QueuedIs
<1>2. IsFiniteSet(1 .. queued)
  BY <1>1, FS_Interval
<1>3. KeptSet(link) \in SUBSET (1 .. queued)
  BY DEF KeptSet
<1>4. ASSUME NEW k \in 0 .. queued
      PROVE  KeptBefore(link, k) = Rank(KeptSet(link), k)
  <2>1. {j \in 1 .. k : ring[Queued(j - 1)].link # link} = {j \in KeptSet(link) : j <= k}
    BY <1>1 DEF KeptSet
  <2> QED
    BY <2>1 DEF KeptBefore, Rank
<1> QED
  BY <1>1, <1>2, <1>3, <1>4, FS_Subset DEF Kept, KeptBefore, KeptSet

\* drop_tag() leaves the entries of the other links, in their order.
LEMMA DropKeepsOrder ==
  ASSUME TypeOK, NEW link, drop_tag(link)
  PROVE  Contents' = [n \in 1 .. Cardinality(KeptSet(link)) |->
                        Contents[CHOOSE i \in KeptSet(link) : Rank(KeptSet(link), i) = n]]
<1> DEFINE K == KeptSet(link)
           m == Cardinality(K)
<1>1. head \in Index /\ tail \in Index /\ queued \in 0 .. Slots - 1
  BY QueuedIs DEF TypeOK
<1>2. /\ IsFiniteSet(K) /\ K \in SUBSET Int /\ Kept(link) = m
      /\ \A k \in 0 .. queued : KeptBefore(link, k) = Rank(K, k)
  BY <1>1, KeptIsRank
<1>3. m \in 0 .. queued
  BY <1>1, <1>2, KeptBound
<1>4. head' = head /\ tail' = Queued(m)
  BY <1>2 DEF drop_tag
<1>5. queued' = m
  <2>1. m \in 0 .. Slots - 1
    BY <1>1, <1>3, SlotsAssumption
  <2> QED
    BY <1>1, <1>4, <2>1, QueuedAt DEF queued
<1>6. \A i \in K : i \in 1 .. queued /\ i - 1 \in 0 .. queued - 1 /\ i - 1 \in 0 .. queued
                   /\ ring[Queued(i - 1)].link # link
  BY <1>1 DEF KeptSet
<1>7. ASSUME NEW n \in 1 .. m
      PROVE  ring'[Queued(n - 1)] = Contents[CHOOSE i \in K : Rank(K, i) = n]
  <2>1. PICK i \in K : Rank(K, i) = n
    BY <1>2, RankIsBijective
  <2>2. (CHOOSE j \in K : Rank(K, j) = n) = i
    BY <1>2, <2>1, RankIsBijective
  <2>3. n - 1 \in 0 .. Slots - 1
    BY <1>1, <1>3, SlotsAssumption
  <2>4. i - 1 \in MovesTo(link, Queued(n - 1))
    <3>1. KeptBefore(link, i - 1) = n - 1
      <4>1. KeptBefore(link, i - 1) = Rank(K, i - 1)
        BY <1>2, <1>6
      <4> QED
        BY <1>2, <2>1, <4>1, RankCounts
    <3> QED
      BY <1>6, <3>1 DEF MovesTo
  <2>5. ASSUME NEW k \in MovesTo(link, Queued(n - 1))
        PROVE  k = i - 1
    <3>1. k \in 0 .. queued - 1 /\ ring[Queued(k)].link # link
          /\ Queued(KeptBefore(link, k)) = Queued(n - 1)
      BY DEF MovesTo
    <3>2. k + 1 \in K /\ (k + 1) - 1 = k /\ k \in 0 .. queued
      BY <1>1, <3>1 DEF KeptSet
    <3>3. KeptBefore(link, k) = Rank(K, k)
      BY <1>2, <3>2
    <3>4. Rank(K, k + 1) = Rank(K, k) + 1 /\ Rank(K, k) \in Nat /\ Rank(K, k + 1) \in 1 .. m
      BY <1>2, <3>2, RankCounts
    <3>5. Rank(K, k) \in 0 .. Slots - 1
      BY <1>1, <1>3, <3>4, SlotsAssumption
    <3>6. Rank(K, k) = n - 1
      BY <1>1, <2>3, <3>1, <3>3, <3>5, SlotsBehind
    <3>7. Rank(K, k + 1) = n
      BY <3>4, <3>6
    <3>8. k + 1 = i
      BY <1>2, <2>1, <3>2, <3>7, RankIsBijective
    <3> QED
      BY <3>1, <3>8
  <2>6. MovesTo(link, Queued(n - 1)) = {i - 1}
    BY <2>4, <2>5
  <2>7. (CHOOSE k \in MovesTo(link, Queued(n - 1)) : TRUE) = i - 1
    BY <2>6
  <2>8. ring'[Queued(n - 1)] = ring[Queued(i - 1)]
    BY <1>1, <2>3, <2>6, <2>7, SlotsBehind DEF drop_tag
  <2> QED
    BY <1>6, <2>2, <2>8 DEF Contents
<1>8. \A k : Queued(k)' = Queued(k)
  BY <1>4 DEF Queued
<1> HIDE DEF K, m
<1> QED
  BY <1>5, <1>7, <1>8 DEF Contents, K, m

\* What the queue holds is a sequence, found at the head and onward.
AtTheHead ==
  /\ Contents \in Seq(Entry \union {Empty}) /\ Len(Contents) = queued
  /\ \A k \in 1 .. queued : Contents[k] = ring[Queued(k - 1)]

LEMMA ContentsAre == TypeOK => AtTheHead
<1> SUFFICES ASSUME TypeOK PROVE AtTheHead
  OBVIOUS
<1>1. head \in Index /\ queued \in 0 .. Slots - 1 /\ ring \in [Index -> Entry \union {Empty}]
  BY QueuedIs DEF TypeOK
<1>2. \A k \in 1 .. queued : k - 1 \in 0 .. Slots - 1
  BY <1>1, SlotsAssumption
<1>3. \A k \in 1 .. queued : ring[Queued(k - 1)] \in Entry \union {Empty}
  BY <1>1, <1>2, SlotsBehind
<1>4. Contents \in [1 .. queued -> Entry \union {Empty}]
  BY <1>3 DEF Contents
<1> QED
  BY <1>1, <1>4 DEF AtTheHead, Contents

\* od_txq_commit() puts the frame behind all that are queued.
LEMMA CommitAppends ==
  ASSUME TypeOK, TypeOK', NEW h, NEW l \in Links, NEW f \in Frames, CommitAppend(h, l, f)
  PROVE  Contents' = Append(Contents, [link |-> l, frame |-> f])
<1> DEFINE e == [link |-> l, frame |-> f]
           T == Entry \union {Empty}
<1>1. /\ head \in Index /\ tail \in Index /\ queued \in 0 .. Slots - 1
      /\ queued = IF head <= tail THEN tail - head ELSE tail + Slots - head
  BY QueuedIs DEF TypeOK
<1>2. queued < Slots - 1
  BY <1>1, SlotsAssumption DEF CommitAppend, free_slots
<1>3. head' = head /\ queued' = queued + 1 /\ ring' = [ring EXCEPT ![tail] = e]
  BY <1>1, <1>2, StepsOfTheRing DEF CommitAppend, queued
<1>4. \A k : Queued(k)' = Queued(k)
  BY <1>3 DEF Queued
<1>5. Queued(queued) = tail
  BY <1>1, SlotsBehind, SlotsAssumption DEF Index
<1>6. \A k \in 1 .. queued : Queued(k - 1) # tail /\ Queued(k - 1) \in Index
  <2>1. \A k \in 1 .. queued : k - 1 \in 0 .. Slots - 1 /\ k - 1 # queued
    BY <1>1, SlotsAssumption
  <2> QED
    BY <1>1, <1>5, <2>1, SlotsBehind
<1>7. /\ Contents \in Seq(T) /\ Len(Contents) = queued
      /\ \A k \in 1 .. queued : Contents[k] = ring[Queued(k - 1)]
  BY ContentsAre DEF AtTheHead
<1>8. /\ Contents' \in Seq(T) /\ Len(Contents') = queued + 1
      /\ \A k \in 1 .. queued + 1 : Contents'[k] = ring'[Queued(k - 1)]
  <2>1. /\ Contents' \in Seq(T) /\ Len(Contents') = queued'
        /\ \A k \in 1 .. queued' : Contents'[k] = ring'[Queued(k - 1)']
    <3>1. AtTheHead'
      BY ContentsAre, PTL
    <3> QED
      BY <3>1 DEF AtTheHead, Entry, Empty
  <2> QED
    BY <1>3, <1>4, <2>1
<1>9. e \in T
  BY DEF Entry
<1> HIDE DEF e, T
<1>10. /\ Append(Contents, e) \in Seq(T) /\ Len(Append(Contents, e)) = queued + 1
       /\ \A k \in 1 .. queued : Append(Contents, e)[k] = Contents[k]
       /\ Append(Contents, e)[queued + 1] = e
  BY <1>7, <1>9, AppendProperties
<1>11. ASSUME NEW k \in 1 .. queued + 1
       PROVE  Contents'[k] = Append(Contents, e)[k]
  <2>1. CASE k = queued + 1
    <3>1. k - 1 = queued
      BY <1>1, <2>1
    <3>2. ring'[tail] = e
      BY <1>1, <1>3 DEF TypeOK
    <3> QED
      BY <1>5, <1>8, <1>10, <2>1, <3>1, <3>2
  <2>2. CASE k # queued + 1
    <3>1. k \in 1 .. queued
      BY <1>1, <2>2
    <3>2. ring'[Queued(k - 1)] = ring[Queued(k - 1)]
      BY <1>3, <1>6, <3>1 DEF TypeOK
    <3> QED
      BY <1>7, <1>8, <1>10, <3>1, <3>2
  <2> QED
    BY <2>1, <2>2
<1> QED
  BY <1>8, <1>10, <1>11, SeqEqual DEF e

\* A frame sent or refused for good leaves the front of the queue.
LEMMA RetireTakesHead ==
  ASSUME TypeOK, TypeOK', DrainRetire
  PROVE  Contents # << >> /\ Contents' = Tail(Contents)
<1> DEFINE T == Entry \union {Empty}
<1>1. /\ head \in Index /\ tail \in Index /\ queued \in 0 .. Slots - 1 /\ queued > 0
      /\ ring \in [Index -> T]
  BY QueuedIs DEF TypeOK, DrainRetire
<1>2. head' = ring_next(head) /\ ring' = [ring EXCEPT ![head] = Empty] /\ queued' = queued - 1
  BY <1>1, StepsOfTheRing DEF DrainRetire, queued
<1>3. Queued(0) = head /\ head' = Queued(1)
  <2>1. Queued(0) = head
    BY <1>1, SlotsBehind, SlotsAssumption DEF Index
  <2> QED
    BY <1>2, <2>1 DEF Queued, ring_next
<1>4. \A k \in 1 .. queued - 1 : Queued(k - 1)' = Queued(k) /\ Queued(k) # head /\ Queued(k) \in Index
  <2> TAKE k \in 1 .. queued - 1
  <2>1. k \in 0 .. Slots - 1 /\ k # 0 /\ k - 1 \in 0 .. Slots - 1 /\ 1 \in 0 .. Slots - 1
    BY <1>1, SlotsAssumption
  <2>2. Queued(k) \in Index /\ Queued(k) # head
    BY <1>1, <1>3, <2>1, SlotsBehind, SlotsAssumption
  <2>3. head' \in Index /\ head' = IF head + 1 < Slots THEN head + 1 ELSE head + 1 - Slots
    BY <1>1, <1>3, <2>1, SlotsBehind
  <2>4. PICK a \in Nat : a = head' + (k - 1) /\ a < 2 * Slots
    BY <2>1, <2>3, SlotsAssumption DEF Index
  <2>5. Queued(k - 1)' = IF a < Slots THEN a ELSE a - Slots
    <3>1. Queued(k - 1)' = a % Slots
      BY <2>4 DEF Queued
    <3>2. a % Slots = IF a < Slots THEN a ELSE a - Slots
      BY <2>4, WrapOnce
    <3> QED
      BY <3>1, <3>2, Zenon
  <2>6. Queued(k) = IF head + k < Slots THEN head + k ELSE head + k - Slots
    BY <1>1, <2>1, SlotsBehind
  <2>7. Queued(k - 1)' = Queued(k)
    BY <1>1, <2>1, <2>3, <2>4, <2>5, <2>6, SlotsAssumption DEF Index
  <2> QED
    BY <2>2, <2>7
<1>5. /\ Contents \in Seq(T) /\ Len(Contents) = queued
      /\ \A k \in 1 .. queued : Contents[k] = ring[Queued(k - 1)]
  BY ContentsAre DEF AtTheHead
<1>6. /\ Contents' \in Seq(T) /\ Len(Contents') = queued - 1
      /\ \A k \in 1 .. queued - 1 : Contents'[k] = ring'[Queued(k - 1)']
  <2>1. /\ Contents' \in Seq(T) /\ Len(Contents') = queued'
        /\ \A k \in 1 .. queued' : Contents'[k] = ring'[Queued(k - 1)']
    <3>1. AtTheHead'
      BY ContentsAre, PTL
    <3> QED
      BY <3>1 DEF AtTheHead, Entry, Empty
  <2> QED
    BY <1>2, <2>1
<1>7. Contents # << >>
  BY <1>1, <1>5
<1>8. /\ Tail(Contents) \in Seq(T) /\ Len(Tail(Contents)) = queued - 1
      /\ \A k \in 1 .. queued - 1 : Tail(Contents)[k] = Contents[k + 1]
  BY <1>5, <1>7, HeadTailProperties
<1>9. ASSUME NEW k \in 1 .. queued - 1
      PROVE  Contents'[k] = Tail(Contents)[k]
  <2>1. k + 1 \in 1 .. queued /\ (k + 1) - 1 = k
    BY <1>1
  <2>2. Contents[k + 1] = ring[Queued(k)]
    BY <1>5, <2>1
  <2>3. ring'[Queued(k)] = ring[Queued(k)]
    BY <1>1, <1>2, <1>4
  <2> QED
    BY <1>4, <1>6, <1>8, <2>2, <2>3
<1> HIDE DEF T
<1> QED
  BY <1>6, <1>7, <1>8, <1>9, SeqEqual

-----------------------------------------------------------------------------
\* The slots between head and tail hold entries, never the blank ones.
NoHoles == Contents \in Seq(Entry)

\* What the mapping gives credit.
Credit == [h \in Holders |-> Held(h)]

\* A token not touched by a step is worth what it was worth.
LEMMA CreditIs ==
  IInv => /\ Credit \in [Holders -> 0 .. Slots - 1] /\ Credit["cmd"] + Credit["read"] = reserved
          /\ \A h \in Holders : Credit[h] = Held(h)
<1> SUFFICES ASSUME IInv
             PROVE  /\ Credit \in [Holders -> 0 .. Slots - 1] /\ Credit["cmd"] + Credit["read"] = reserved
                    /\ \A h \in Holders : Credit[h] = Held(h)
  OBVIOUS
<1>1. \A h \in Holders : Held(h) \in 0 .. Slots - 1
  BY SlotsAssumption DEF IInv, TypeOK, Held
<1> QED
  BY <1>1 DEF Credit, Holders, IInv, ReservedIsHeld

\* Every step of the queue is a step of the FIFO with credit, or none.
LEMMA TxRefines ==
  ASSUME IInv, NoHoles, [Next]_vars, IInv'
  PROVE  [Fifo!Next]_<<Contents, Credit, live>>
<1> USE SlotsAssumption
<1>t. TypeOK /\ TypeOK' /\ AtTheHead
  BY ContentsAre DEF IInv
<1>q. /\ Contents \in Seq(Entry) /\ Len(Contents) = queued /\ queued \in 0 .. Slots - 1
      /\ \A k \in 1 .. queued : Contents[k] = ring[Queued(k - 1)]
  BY <1>t, QueuedIs DEF AtTheHead, NoHoles, TypeOK
<1>c. /\ Credit \in [Holders -> 0 .. Slots - 1] /\ Credit["cmd"] + Credit["read"] = reserved
      /\ \A h \in Holders : Credit[h] = Held(h)
  BY CreditIs
<1>k. \A h \in Holders : token[h].remaining \in 0 .. Slots - 1 /\ token[h].gen \in 0 .. GenMod - 1
  BY <1>t DEF TypeOK
<1>s. ASSUME UNCHANGED <<ring, head, tail>> PROVE Contents' = Contents
  BY <1>s DEF Contents, Queued, queued
<1>1. CASE UNCHANGED vars
  BY <1>1 DEF vars, Contents, Queued, queued, Credit, Held, Stale
<1>2. CASE od_txq_reset
  <2>1. gen' # gen /\ token' = token /\ live' = live /\ head' = 0 /\ tail' = 0
    BY <1>2, <1>t, NextGeneration DEF od_txq_reset, linkVars, TypeOK
  <2>2. \A h \in Holders : Held(h)' = 0
    BY <1>2, <2>1, <1>k DEF od_txq_reset, Held, Stale, GenerationReused
  <2>3. Credit' = [h \in Holders |-> 0]
    BY <2>2 DEF Credit
  <2>4. Contents' = << >>
    <3>1. queued' = 0
      <4>1. 0 + Slots - 0 = Slots /\ Slots \in Nat /\ Slots < 2 * Slots
        OBVIOUS
      <4>2. Slots % Slots = 0
        BY <4>1, WrapOnce
      <4> QED
        BY <2>1, <4>1, <4>2 DEF queued
    <3> QED
      BY <3>1 DEF Contents
  <2>5. Fifo!Clear
    BY <2>1, <2>3, <2>4 DEF Fifo!Clear, Credit
  <2> QED
    BY <2>5 DEF Fifo!Next
<1>3. ASSUME NEW n \in 1 .. MaxBudget, od_txq_reserve(n)
      PROVE  Fifo!Next \/ UNCHANGED <<Contents, Credit, live>>
  <2>0. Contents' = Contents /\ live' = live /\ gen' = gen /\ token["cmd"].remaining = 0
    BY <1>3, <1>s DEF od_txq_reserve, linkVars
  <2>1. CASE reserved' = reserved + n
    <3>1. /\ reserved < free_slots /\ n <= free_slots - reserved
          /\ token' = [token EXCEPT !["cmd"] = [remaining |-> n, gen |-> gen]]
      BY <1>3, <2>1, <1>t, BudgetAssumption DEF od_txq_reserve, TypeOK
    <3>2. Credit["cmd"] = 0
      BY <2>0, <1>c DEF Held, Holders
    <3>3. Credit' = [Credit EXCEPT !["cmd"] = n]
      <4>1. Held("cmd")' = n /\ Held("read")' = Held("read")
        BY <2>0, <3>1, <1>t DEF Held, Stale, TypeOK, Holders
      <4> QED
        BY <4>1 DEF Credit, Holders
    <3>4. queued + (Credit["cmd"] + Credit["read"]) + n <= Slots - 1
      <4>1. reserved \in 0 .. Slots - 1 /\ n <= ((Slots - 1) - queued) - reserved
        BY <3>1, <1>t DEF free_slots, TypeOK
      <4>2. queued + reserved + n <= Slots - 1
        BY <4>1, <1>q, BudgetAssumption
      <4> QED
        BY <4>2, <1>c
    <3>5. Fifo!Reserve(n)
      BY <2>0, <3>2, <3>3, <3>4, <1>q DEF Fifo!Reserve, Fifo!Promised, Credit
    <3> QED
      BY <3>5 DEF Fifo!Next
  <2>2. CASE UNCHANGED reserved
    <3>1. token' = token
      BY <1>3, <2>2, <1>t, BudgetAssumption DEF od_txq_reserve, TypeOK, Holders
    <3> QED
      BY <2>0, <3>1 DEF Credit, Held, Stale
  <2> QED
    BY <1>3, <2>1, <2>2 DEF od_txq_reserve
<1>4. ASSUME NEW h \in Holders, od_txq_release(h)
      PROVE  Fifo!Next
  <2>0. Contents' = Contents /\ live' = live /\ gen' = gen /\ token' = [token EXCEPT ![h].remaining = 0]
    BY <1>4, <1>s DEF od_txq_release, linkVars
  <2>1. Credit' = [Credit EXCEPT ![h] = 0]
    <3>1. Held(h)' = 0 /\ \A g \in Holders \ {h} : Held(g)' = Held(g)
      BY <2>0, <1>t DEF Held, Stale, TypeOK
    <3> QED
      BY <3>1 DEF Credit
  <2>2. Fifo!Release(h)
    BY <2>0, <2>1 DEF Fifo!Release, Credit
  <2> QED
    BY <2>2 DEF Fifo!Next
<1>5. CASE TransferToken
  <2>0. /\ Contents' = Contents /\ live' = live /\ gen' = gen /\ token["read"].remaining = 0
        /\ token' = [token EXCEPT !["read"] = token["cmd"], !["cmd"].remaining = 0]
    BY <1>5, <1>s DEF TransferToken, queueVars, linkVars
  <2>1. Held("cmd")' = 0 /\ Held("read")' = Held("cmd") /\ Held("read") = 0
    BY <2>0, <1>t DEF Held, Stale, TypeOK, Holders
  <2>2. Credit["read"] = 0 /\ Credit' = [Credit EXCEPT !["read"] = Credit["cmd"], !["cmd"] = 0]
    BY <2>1 DEF Credit, Holders
  <2>3. Fifo!Transfer
    BY <2>0, <2>2 DEF Fifo!Transfer, Credit
  <2> QED
    BY <2>3 DEF Fifo!Next
<1>6. ASSUME NEW h \in Holders, NEW l \in Links, NEW s \in Sizes, NEW f \in Frames,
             od_txq_commit(h, l, s, f)
      PROVE  Fifo!Next \/ UNCHANGED <<Contents, Credit, live>>
  <2>0. live' = live /\ token[h].remaining > 0
    BY <1>6 DEF od_txq_commit, linkVars
  <2>1. CASE CommitStale(h)
    <3>1. /\ Contents' = Contents /\ gen' = gen /\ Stale(h)
          /\ token' = [token EXCEPT ![h].remaining = 0]
      BY <2>1, <1>s DEF CommitStale, queueVars
    <3>2. \A g \in Holders : Held(g)' = Held(g)
      BY <3>1, <1>t DEF Held, Stale, TypeOK
    <3> QED
      BY <2>0, <3>1, <3>2 DEF Credit
  <2>2. ASSUME ~Stale(h), SpendUnit(h), gen' = gen
        PROVE  Credit[h] > 0 /\ Credit' = [Credit EXCEPT ![h] = Credit[h] - 1]
    <3>1. Held(h)' = Held(h) - 1 /\ Held(h) > 0 /\ \A g \in Holders \ {h} : Held(g)' = Held(g)
      BY <2>0, <2>2, <1>t DEF SpendUnit, Held, Stale, TypeOK
    <3> QED
      BY <3>1 DEF Credit
  <2>3. CASE ~Stale(h) /\ CommitGone(h, l)
    <3>1. Contents' = Contents /\ l \notin live /\ Credit[h] > 0
          /\ Credit' = [Credit EXCEPT ![h] = Credit[h] - 1]
      BY <2>2, <2>3, <1>s DEF CommitGone
    <3>2. Fifo!Reply(h, l, f)
      BY <2>0, <3>1 DEF Fifo!Reply, Credit
    <3> QED
      BY <3>2 DEF Fifo!Next
  <2>4. CASE ~Stale(h) /\ CommitAppend(h, l, f)
    <3>1. /\ Contents' = Append(Contents, [link |-> l, frame |-> f]) /\ l \in live /\ Credit[h] > 0
          /\ Credit' = [Credit EXCEPT ![h] = Credit[h] - 1]
      BY <2>2, <2>4, <1>t, CommitAppends DEF CommitAppend
    <3>2. Fifo!Reply(h, l, f)
      BY <2>0, <3>1 DEF Fifo!Reply, Credit
    <3> QED
      BY <3>2 DEF Fifo!Next
  <2> QED
    BY <1>6, <2>1, <2>3, <2>4 DEF od_txq_commit
<1>7. ASSUME BeginDrain \/ DrainRetry \/ EndDrain
      PROVE  UNCHANGED <<Contents, Credit, live>>
  BY <1>7, <1>s DEF BeginDrain, DrainRetry, EndDrain, queueVars, linkVars, Credit, Held, Stale
<1>8. CASE DrainRetire
  <2>1. Contents # << >> /\ Contents' = Tail(Contents)
    BY <1>8, <1>t, RetireTakesHead
  <2>2. Credit' = Credit /\ live' = live
    BY <1>8 DEF DrainRetire, linkVars, Credit, Held, Stale
  <2>3. Fifo!Retire
    BY <2>1, <2>2 DEF Fifo!Retire, Credit
  <2> QED
    BY <2>3 DEF Fifo!Next
<1>9. CASE DrainGone
  <2>1. Credit' = Credit /\ live' = live /\ head # tail /\ ring[head].link \notin live
        /\ drop_tag(ring[head].link)
    BY <1>9 DEF DrainGone, linkVars, Credit, Held, Stale
  <2>2. ring[head] \in Entry
    <3>1. head \in Index /\ queued > 0 /\ 0 \in 0 .. Slots - 1
      BY <2>1, <1>t, QueuedIs DEF TypeOK
    <3>2. Queued(0) = head
      BY <3>1, SlotsBehind DEF Index
    <3>3. 1 \in 1 .. Len(Contents) /\ 1 \in 1 .. queued /\ 1 - 1 = 0
      BY <3>1, <1>q
    <3>4. Contents[1] = ring[head]
      BY <3>2, <3>3, <1>q
    <3> QED
      BY <3>3, <3>4, <1>q, ElementOfSeq
  <2>3. PICK l \in Links : l = ring[head].link
    BY <2>2 DEF Entry
  <2>4. Contents' = [n \in 1 .. Cardinality(KeptSet(l)) |->
                       Contents[CHOOSE i \in KeptSet(l) : Rank(KeptSet(l), i) = n]]
    BY <2>1, <2>3, <1>t, DropKeepsOrder
  <2>5. Fifo!Survivors(l) = KeptSet(l)
    BY <1>q DEF Fifo!Survivors, KeptSet
  <2>c. \A S : Fifo!Cardinality(S) = Cardinality(S)
    BY DEF Fifo!Cardinality, Cardinality
  <2>6. \A i : Fifo!Place(l, i) = Rank(KeptSet(l), i)
    BY <2>c, <2>5 DEF Fifo!Place, Rank
  <2>7. ASSUME NEW n \in 1 .. Cardinality(KeptSet(l))
        PROVE  (CHOOSE i \in Fifo!Survivors(l) : Fifo!Place(l, i) = n)
                 = (CHOOSE i \in KeptSet(l) : Rank(KeptSet(l), i) = n)
    <3>1. IsFiniteSet(KeptSet(l)) /\ KeptSet(l) \in SUBSET Int
      BY <1>t, KeptIsRank DEF TypeOK
    <3>2. PICK i \in KeptSet(l) : Rank(KeptSet(l), i) = n
      BY <3>1, RankIsBijective
    <3>3. \A j \in KeptSet(l) : Rank(KeptSet(l), j) = n => j = i
      BY <3>1, <3>2, RankIsBijective
    <3>4. (CHOOSE j \in KeptSet(l) : Rank(KeptSet(l), j) = n) = i
      BY <3>2, <3>3
    <3>5. (CHOOSE j \in Fifo!Survivors(l) : Fifo!Place(l, j) = n) = i
      BY <2>5, <2>6, <3>2, <3>3
    <3> QED
      BY <3>4, <3>5
  <2>8. Contents' = [n \in 1 .. Fifo!Cardinality(Fifo!Survivors(l)) |->
                       Contents[CHOOSE i \in Fifo!Survivors(l) : Fifo!Place(l, i) = n]]
    BY <2>4, <2>5, <2>7, <2>c
  <2>9. Fifo!Drop(l)
    BY <2>1, <2>3, <2>8 DEF Fifo!Drop, Credit
  <2> QED
    BY <2>9 DEF Fifo!Next
<1>10. ASSUME NEW l \in Links, LinkUp(l) \/ LinkDown(l)
       PROVE  Fifo!Next
  <2>1. /\ Contents' = Contents /\ Credit' = Credit
        /\ live' = live \union {l} \/ live' = live \ {l}
    BY <1>10, <1>s DEF LinkUp, LinkDown, queueVars, Credit, Held, Stale
  <2>2. Fifo!LinkChange(l)
    BY <2>1 DEF Fifo!LinkChange, Credit
  <2> QED
    BY <2>2 DEF Fifo!Next
<1> QED
  BY <1>1, <1>2, <1>3, <1>4, <1>5, <1>6, <1>7, <1>8, <1>9, <1>10 DEF Next, od_txq_process

\* The steps of the FIFO put nothing but entries into the queue.
LEMMA HolesStayOut ==
  ASSUME NoHoles, [Fifo!Next]_<<Contents, Credit, live>>, TypeOK
  PROVE  NoHoles'
<1> DEFINE q == Contents
<1>0. q \in Seq(Entry)
  BY DEF NoHoles
<1> SUFFICES q' \in Seq(Entry)
  BY DEF NoHoles
<1>1. ASSUME NEW h \in Holders, NEW l \in Links, NEW f \in Frames, Fifo!Reply(h, l, f)
      PROVE  q' \in Seq(Entry)
  <2>1. [link |-> l, frame |-> f] \in Entry
    BY DEF Entry
  <2>2. q' = q \/ q' = Append(q, [link |-> l, frame |-> f])
    BY <1>1 DEF Fifo!Reply
  <2> HIDE DEF q
  <2> QED
    BY <1>0, <2>1, <2>2, AppendProperties
<1>2. ASSUME Fifo!Retire PROVE q' \in Seq(Entry)
  <2>1. q # << >> /\ q' = Tail(q)
    BY <1>2 DEF Fifo!Retire
  <2> HIDE DEF q
  <2> QED
    BY <1>0, <2>1, HeadTailProperties
<1>3. ASSUME NEW l \in Links, Fifo!Drop(l)
      PROVE  q' \in Seq(Entry)
  <2> DEFINE S == Fifo!Survivors(l)
             m == Cardinality(S)
  <2>1. Len(q) \in Nat /\ \A i \in 1 .. Len(q) : q[i] \in Entry
    <3> HIDE DEF q
    <3> QED
      BY <1>0, ElementOfSeq, LenProperties
  <2>2. S \in SUBSET (1 .. Len(q))
    BY DEF Fifo!Survivors
  <2>3. IsFiniteSet(S) /\ S \in SUBSET Int /\ m \in Nat
    <3>1. IsFiniteSet(1 .. Len(q)) /\ (1 .. Len(q)) \in SUBSET Int
      BY <2>1, FS_Interval
    <3> HIDE DEF S, q
    <3>2. IsFiniteSet(S) /\ S \in SUBSET Int
      BY <2>2, <3>1, FS_Subset
    <3> QED
      BY <3>2, FS_CardinalityType
  <2>4. \A T : Fifo!Cardinality(T) = Cardinality(T)
    BY DEF Fifo!Cardinality, Cardinality
  <2>5. \A i : Fifo!Place(l, i) = Rank(S, i)
    BY <2>4 DEF Fifo!Place, Rank
  <2>6. q' = [n \in 1 .. m |-> q[CHOOSE i \in S : Fifo!Place(l, i) = n]]
    BY <1>3, <2>4 DEF Fifo!Drop
  <2> HIDE DEF S, q
  <2>7. ASSUME NEW n \in 1 .. m
        PROVE  q[CHOOSE i \in S : Fifo!Place(l, i) = n] \in Entry
    <3>1. \E i \in S : Fifo!Place(l, i) = n
      BY <2>3, <2>5, RankIsBijective
    <3>2. (CHOOSE i \in S : Fifo!Place(l, i) = n) \in S
      BY <3>1
    <3> QED
      BY <2>1, <2>2, <3>2
  <2>8. q' \in [1 .. m -> Entry]
    BY <2>6, <2>7
  <2> QED
    BY <2>3, <2>8
<1>4. ASSUME Fifo!Clear PROVE q' \in Seq(Entry)
  BY <1>4 DEF Fifo!Clear
<1> QED
  BY <1>0, <1>1, <1>2, <1>3, <1>4 DEF Fifo!Next, Fifo!Reserve, Fifo!Release, Fifo!Transfer, Fifo!LinkChange

\* The invariant the refinement needs beside the accounts.
TxInd == IInv /\ NoHoles

\* At power-up the ring is empty.
LEMMA EmptyAtFirst == Init => Contents = << >> /\ Credit = [h \in Holders |-> 0]
<1> SUFFICES ASSUME Init PROVE Contents = << >> /\ Credit = [h \in Holders |-> 0]
  OBVIOUS
<1>1. 0 + Slots - 0 = Slots /\ Slots \in Nat /\ Slots < 2 * Slots
  BY SlotsAssumption
<1>2. Slots % Slots = 0
  BY <1>1, WrapOnce, SlotsAssumption
<1>3. queued = 0
  BY <1>1, <1>2 DEF Init, queued
<1> QED
  BY <1>3 DEF Contents, Credit, Held, Init, NoToken

\* Seen through od_txq.h the ring is a queue with credit: replies leave in
\* the order they were committed, a link that dies takes exactly its own
\* with it, and whoever reserved is never refused.
THEOREM QueueImplementsFifo == Spec => ImplementsFifo
<1>1. Init => TxInd
  BY InitIInv, EmptyAtFirst DEF TxInd, NoHoles
<1>2. TxInd /\ [Next]_vars => TxInd' /\ [Fifo!Next]_<<Contents, Credit, live>>
  <2> SUFFICES ASSUME TxInd, [Next]_vars
               PROVE  TxInd' /\ [Fifo!Next]_<<Contents, Credit, live>>
    OBVIOUS
  <2>1. IInv /\ NoHoles /\ TypeOK /\ IInv'
    BY StepIInv DEF TxInd, IInv
  <2>2. [Fifo!Next]_<<Contents, Credit, live>>
    BY <2>1, TxRefines
  <2>3. NoHoles'
    BY <2>1, <2>2, HolesStayOut
  <2> QED
    BY <2>1, <2>2, <2>3 DEF TxInd
<1>3. Init => Fifo!Init
  BY EmptyAtFirst DEF Fifo!Init, Credit, Init
<1>4. [Fifo!Next]_<<Contents, Credit, live>> => [Fifo!Next]_Fifo!vars
  BY DEF Fifo!vars, Credit
<1> QED
  BY <1>1, <1>2, <1>3, <1>4, PTL DEF Spec, ImplementsFifo, Fifo!Spec
=============================================================================
