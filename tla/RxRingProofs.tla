---------------------------- MODULE RxRingProofs ----------------------------
(***************************************************************************)
(* The command ring, for every number of slots, payloads and tags: the     *)
(* slot a push fills is private to the producer, and the ring implements   *)
(* the bounded FIFO that od_rxq.h promises.                                *)
(***************************************************************************)
EXTENDS RxRing, SequenceTheorems, TLAPS

-----------------------------------------------------------------------------
(* Index arithmetic.  An index plus an offset below RxSlots wraps at most   *)
(* once.                                                                   *)

Wrap(x) == IF x < RxSlots THEN x ELSE x - RxSlots

\* A remainder of a number below twice the divisor.
LEMMA WrapIsMod ==
  ASSUME NEW x \in 0 .. 2 * RxSlots - 1
  PROVE  x % RxSlots = Wrap(x)
<1>1. RxSlots \in Nat \ {0}
  BY RxAssumption
<1>2. ASSUME NEW w \in Nat \ {0}, NEW d \in Int, NEW r \in 0 .. w - 1
      PROVE  (w * d + r) % w = r
  OBVIOUS
<1>3. CASE x < RxSlots
  <2>1. x = RxSlots * 0 + x /\ x \in 0 .. RxSlots - 1
    BY <1>1, <1>3
  <2> QED
    BY <1>1, <1>2, <1>3, <2>1 DEF Wrap
<1>4. CASE ~(x < RxSlots)
  <2>1. x = RxSlots * 1 + (x - RxSlots) /\ x - RxSlots \in 0 .. RxSlots - 1
    BY <1>1, <1>4
  <2> QED
    BY <1>1, <1>2, <1>4, <2>1 DEF Wrap
<1> QED
  BY <1>3, <1>4

\* next_slot() and od_rxq_depth() without remainders.
LEMMA RingArithmetic ==
  ASSUME NEW i \in RxIndex, NEW j \in RxIndex
  PROVE  /\ next_slot(i) = Wrap(i + 1)
         /\ occupancy(i, j) = IF i >= j THEN i - j ELSE i - j + RxSlots
         /\ \A k \in 0 .. RxSlots - 1 : (i + k) % RxSlots = Wrap(i + k)
<1>1. RxSlots \in Nat /\ RxSlots >= 3 /\ i \in Nat /\ j \in Nat /\ i < RxSlots /\ j < RxSlots
  BY RxAssumption DEF RxIndex
<1>2. next_slot(i) = Wrap(i + 1)
  <2>1. i + 1 \in 0 .. 2 * RxSlots - 1
    BY <1>1
  <2> QED
    BY <2>1, WrapIsMod DEF next_slot
<1>3. occupancy(i, j) = IF i >= j THEN i - j ELSE i - j + RxSlots
  <2>1. i - j + RxSlots \in 0 .. 2 * RxSlots - 1
    BY <1>1
  <2>2. (i - j + RxSlots) % RxSlots = Wrap(i - j + RxSlots)
    BY <2>1, WrapIsMod
  <2> QED
    BY <1>1, <2>2 DEF occupancy, Wrap
<1>4. ASSUME NEW k \in 0 .. RxSlots - 1 PROVE (i + k) % RxSlots = Wrap(i + k)
  <2>1. i + k \in 0 .. 2 * RxSlots - 1
    BY <1>1
  <2> QED
    BY <2>1, WrapIsMod
<1> QED
  BY <1>2, <1>3, <1>4

-----------------------------------------------------------------------------
(* The inductive invariant.                                                *)

\* What a push has put into its slot so far is what od_rxq_push() was given.
FillIsFaithful ==
  /\ push.pc # "idle" => push.data \in Data /\ push.tag \in Tags
  /\ push.pc \in {"tag", "publish"} => slot[push.at].data = push.data
  /\ push.pc = "publish" => slot[push.at].tag = push.tag

\* The head od_rxq_reset() loaded lies ahead of the tail and not beyond the
\* head of now; a peeked slot is the oldest; a reset and a peek exclude each
\* other.
ConsumerKnows ==
  /\ snap # NoData => /\ peeked = NoData
                      /\ occupancy(snap, rx_tail) \in 1 .. Depth
  /\ peeked # NoData => peeked = rx_tail /\ rx_tail # rx_head

PushInRoom == push.pc # "idle" => push.at = rx_head /\ next_slot(rx_head) # rx_tail

RxInd == RxTypeOK /\ PushInRoom /\ FillIsFaithful /\ ConsumerKnows

\* The head is not one of the occupied slots.
LEMMA HeadIsFree ==
  ASSUME RxTypeOK
  PROVE  rx_head \notin Occupied
<1>1. rx_head \in RxIndex /\ rx_tail \in RxIndex /\ RxSlots \in Nat /\ RxSlots >= 3
  BY RxAssumption DEF RxTypeOK
<1>2. Depth = IF rx_head >= rx_tail THEN rx_head - rx_tail ELSE rx_head - rx_tail + RxSlots
  BY <1>1, RingArithmetic DEF Depth
<1>3. ASSUME NEW k \in 0 .. Depth - 1 PROVE (rx_tail + k) % RxSlots # rx_head
  <2>1. k \in 0 .. RxSlots - 1
    BY <1>1, <1>2 DEF RxIndex
  <2>2. (rx_tail + k) % RxSlots = Wrap(rx_tail + k)
    BY <1>1, <2>1, RingArithmetic
  <2> QED
    BY <1>1, <1>2, <2>1, <2>2 DEF Wrap, RxIndex
<1> QED
  BY <1>3 DEF Occupied

\* The inductive invariant is preserved by every step of either side.
LEMMA RxStep == RxInd /\ [RxNext]_rxVars => RxInd'
<1> SUFFICES ASSUME RxInd, [RxNext]_rxVars PROVE RxInd'
  OBVIOUS
<1>a. /\ RxSlots \in Nat /\ RxSlots >= 3
      /\ NoData \notin Data /\ NoData \notin Tags /\ NoData \notin RxIndex
  BY RxAssumption DEF RxIndex
<1>b. rx_head \in RxIndex /\ rx_tail \in RxIndex /\ RxTypeOK
  BY DEF RxInd, RxTypeOK
<1>c. \A i, j \in RxIndex : /\ next_slot(i) = Wrap(i + 1)
                            /\ occupancy(i, j) = IF i >= j THEN i - j ELSE i - j + RxSlots
  BY RingArithmetic
<1>d. \A i \in RxIndex : next_slot(i) \in RxIndex
  BY <1>a, <1>c DEF Wrap, RxIndex
<1>e. Depth \in Nat /\ (rx_tail # rx_head => Depth >= 1)
  BY <1>a, <1>b, <1>c DEF Depth, RxIndex
<1>1. CASE UNCHANGED rxVars
  BY <1>1 DEF rxVars, RxInd, RxTypeOK, PushInRoom, FillIsFaithful, ConsumerKnows, Depth
<1>2. ASSUME NEW d \in Data, NEW t \in Tags, PushLoad(d, t) PROVE RxInd'
  BY <1>2, <1>b DEF PushLoad, consumerVars, RxInd, RxTypeOK, PushInRoom, FillIsFaithful, ConsumerKnows, Depth
<1>3. CASE PushData
  BY <1>3, <1>b DEF PushData, consumerVars, RxInd, RxTypeOK, PushInRoom, FillIsFaithful, ConsumerKnows, Depth
<1>4. CASE PushTag
  BY <1>4, <1>b DEF PushTag, consumerVars, RxInd, RxTypeOK, PushInRoom, FillIsFaithful, ConsumerKnows, Depth
<1>5. CASE PushPublish
  <2>1. /\ push.pc = "publish" /\ push.at = rx_head /\ next_slot(rx_head) # rx_tail
        /\ rx_head' = next_slot(rx_head) /\ push' = Idle
        /\ UNCHANGED <<slot, rx_tail, peeked, snap, alive>>
    BY <1>5 DEF PushPublish, consumerVars, RxInd, PushInRoom
  <2>2. RxTypeOK'
    BY <2>1, <1>a, <1>b, <1>d DEF RxTypeOK, Idle, RxIndex
  <2>3. Depth' = Depth + 1
    <3>1. Depth' = occupancy(next_slot(rx_head), rx_tail) /\ next_slot(rx_head) \in RxIndex
      BY <2>1, <1>b, <1>d DEF Depth
    <3>2. /\ next_slot(rx_head) = IF rx_head + 1 < RxSlots THEN rx_head + 1 ELSE rx_head + 1 - RxSlots
          /\ Depth = IF rx_head >= rx_tail THEN rx_head - rx_tail ELSE rx_head - rx_tail + RxSlots
          /\ Depth' = IF next_slot(rx_head) >= rx_tail THEN next_slot(rx_head) - rx_tail
                      ELSE next_slot(rx_head) - rx_tail + RxSlots
      BY <3>1, <1>a, <1>b, <1>c DEF Depth, Wrap, RxIndex
    <3>3. rx_head \in 0 .. RxSlots - 1 /\ rx_tail \in 0 .. RxSlots - 1
      BY <1>b DEF RxIndex
    <3> QED
      BY <2>1, <3>2, <3>3, <1>a
  <2>4. ConsumerKnows'
    <3>1. snap # NoData => peeked = NoData /\ occupancy(snap, rx_tail) \in 1 .. Depth + 1
      BY <1>e DEF RxInd, ConsumerKnows
    <3> QED
      BY <2>1, <2>3, <3>1 DEF RxInd, ConsumerKnows
  <2> QED
    BY <2>1, <2>2, <2>4 DEF RxInd, PushInRoom, FillIsFaithful, Idle
<1>6. CASE od_rxq_peek
  BY <1>6, <1>b DEF od_rxq_peek, producerVars, RxInd, RxTypeOK, PushInRoom, FillIsFaithful, ConsumerKnows, Depth
<1>7. ASSUME od_rxq_consume \/ od_rxq_discard_stale PROVE RxInd'
  <2>1. /\ rx_tail # rx_head /\ rx_tail' = next_slot(rx_tail) /\ peeked' = NoData /\ snap = NoData
        /\ UNCHANGED <<snap, alive, slot, rx_head, push>>
    BY <1>7 DEF od_rxq_consume, od_rxq_discard_stale, producerVars, RxInd, ConsumerKnows
  <2>2. next_slot(rx_head) # next_slot(rx_tail)
    BY <2>1, <1>a, <1>b, <1>c DEF Wrap, RxIndex
  <2>3. RxTypeOK'
    BY <2>1, <1>b, <1>d DEF RxTypeOK
  <2> QED
    BY <2>1, <2>2, <2>3 DEF RxInd, PushInRoom, FillIsFaithful, ConsumerKnows
<1>8. CASE ResetLoad
  <2>1. /\ peeked = NoData /\ rx_tail # rx_head /\ snap' = rx_head
        /\ UNCHANGED <<rx_tail, peeked, alive, slot, rx_head, push>>
    BY <1>8 DEF ResetLoad, producerVars
  <2>2. Depth \in 1 .. Depth /\ Depth' = Depth /\ occupancy(snap', rx_tail') = Depth
    BY <2>1, <1>e DEF Depth
  <2>3. ConsumerKnows'
    BY <2>1, <2>2, <1>a, <1>b DEF ConsumerKnows
  <2> QED
    BY <2>1, <2>3, <1>b DEF RxInd, RxTypeOK, PushInRoom, FillIsFaithful
<1>9. CASE ResetStore
  <2>1. /\ snap \in RxIndex /\ peeked = NoData /\ rx_tail' = snap /\ snap' = NoData
        /\ occupancy(snap, rx_tail) \in 1 .. Depth
        /\ UNCHANGED <<peeked, alive, slot, rx_head, push>>
    BY <1>9, <1>b DEF ResetStore, producerVars, RxInd, ConsumerKnows, RxTypeOK
  <2>2. push.pc # "idle" => next_slot(rx_head) # snap
    <3>1. /\ next_slot(rx_head) = IF rx_head + 1 < RxSlots THEN rx_head + 1 ELSE rx_head + 1 - RxSlots
          /\ Depth = IF rx_head >= rx_tail THEN rx_head - rx_tail ELSE rx_head - rx_tail + RxSlots
          /\ occupancy(snap, rx_tail) = IF snap >= rx_tail THEN snap - rx_tail ELSE snap - rx_tail + RxSlots
      BY <2>1, <1>a, <1>b, <1>c DEF Depth, Wrap, RxIndex
    <3>2. {rx_head, rx_tail, snap} \subseteq 0 .. RxSlots - 1
      BY <2>1, <1>b DEF RxIndex
    <3>3. push.pc # "idle" => next_slot(rx_head) # rx_tail
      BY DEF RxInd, PushInRoom
    <3> QED
      BY <2>1, <3>1, <3>2, <3>3, <1>a
  <2> QED
    BY <2>1, <2>2, <1>b DEF RxInd, RxTypeOK, PushInRoom, FillIsFaithful, ConsumerKnows
<1>10. CASE NewOwner
  BY <1>10, <1>b DEF NewOwner, producerVars, RxInd, RxTypeOK, PushInRoom, FillIsFaithful, ConsumerKnows, Depth
<1> QED
  BY <1>1, <1>2, <1>3, <1>4, <1>5, <1>6, <1>7, <1>8, <1>9, <1>10 DEF RxNext, Producer, Consumer

\* The inductive invariant holds in every reachable state.
LEMMA RxInvariant == RxSpec => []RxInd
<1>1. RxInit => RxInd
  BY RxAssumption DEF RxInit, RxInd, RxTypeOK, PushInRoom, FillIsFaithful, ConsumerKnows, Idle, RxIndex
<1> QED
  BY <1>1, RxStep, PTL DEF RxSpec

\* od_rxq_push() fills a slot that the consumer may not read, whatever was
\* pushed, peeked, discarded or reset since it loaded the indices.
THEOREM PrivateFill == RxSpec => []RingInv
<1>1. RxInd => RingInv
  BY HeadIsFree DEF RxInd, RingInv, FillIsPrivate, PushInRoom
<1> QED
  BY <1>1, RxInvariant, PTL

-----------------------------------------------------------------------------
(* The refinement.                                                         *)

Frame == [data : Data \union {NoData}, tag : Tags \union {NoData}]

\* The frames between two indices, oldest first: what the mapping gives q.
Frames(h, t, s) == [k \in 1 .. occupancy(h, t) |-> s[(t + k - 1) % RxSlots]]

\* The frames are a sequence, found at the tail and onward.
LEMMA FramesAre ==
  ASSUME NEW h \in RxIndex, NEW t \in RxIndex, NEW s \in [RxIndex -> Frame]
  PROVE  /\ occupancy(h, t) \in 0 .. RxSlots - 1
         /\ Frames(h, t, s) \in Seq(Frame)
         /\ Len(Frames(h, t, s)) = occupancy(h, t)
         /\ \A k \in 1 .. occupancy(h, t) : /\ Wrap(t + k - 1) \in RxIndex
                                            /\ Frames(h, t, s)[k] = s[Wrap(t + k - 1)]
<1>1. RxSlots \in Nat /\ RxSlots >= 3 /\ h \in 0 .. RxSlots - 1 /\ t \in 0 .. RxSlots - 1
  BY RxAssumption DEF RxIndex
<1>2. occupancy(h, t) \in 0 .. RxSlots - 1
  BY <1>1, RingArithmetic
<1>3. ASSUME NEW k \in 1 .. occupancy(h, t)
      PROVE  (t + k - 1) % RxSlots = Wrap(t + k - 1) /\ Wrap(t + k - 1) \in RxIndex
  <2>1. k - 1 \in 0 .. RxSlots - 1 /\ t + (k - 1) = t + k - 1
    BY <1>1, <1>2
  <2>2. (t + (k - 1)) % RxSlots = Wrap(t + (k - 1))
    BY <2>1, RingArithmetic
  <2> QED
    BY <1>1, <2>1, <2>2 DEF Wrap, RxIndex
<1>4. Frames(h, t, s) \in [1 .. occupancy(h, t) -> Frame]
  BY <1>2, <1>3 DEF Frames
<1> QED
  BY <1>2, <1>3, <1>4 DEF Frames

\* od_rxq_push() appends the slot it has filled.
LEMMA PushAppends ==
  ASSUME NEW h \in RxIndex, NEW t \in RxIndex, NEW s \in [RxIndex -> Frame], next_slot(h) # t
  PROVE  /\ Len(Frames(h, t, s)) < RxSlots - 1
         /\ Frames(next_slot(h), t, s) = Append(Frames(h, t, s), s[h])
<1> DEFINE q == Frames(h, t, s)
           r == Frames(next_slot(h), t, s)
           n == occupancy(h, t)
<1>1. RxSlots \in Nat /\ RxSlots >= 3 /\ h \in 0 .. RxSlots - 1 /\ t \in 0 .. RxSlots - 1
  BY RxAssumption DEF RxIndex
<1>2. /\ next_slot(h) = IF h + 1 < RxSlots THEN h + 1 ELSE h + 1 - RxSlots
      /\ next_slot(h) \in RxIndex
  <2>1. next_slot(h) = Wrap(h + 1)
    BY RingArithmetic
  <2> QED
    BY <1>1, <2>1 DEF Wrap, RxIndex
<1>3. /\ n = IF h >= t THEN h - t ELSE h - t + RxSlots
      /\ occupancy(next_slot(h), t) = IF next_slot(h) >= t THEN next_slot(h) - t
                                      ELSE next_slot(h) - t + RxSlots
  BY <1>1, <1>2, RingArithmetic
<1>4. n \in Nat /\ n < RxSlots - 1 /\ occupancy(next_slot(h), t) = n + 1 /\ Wrap(t + n) = h
  BY <1>1, <1>2, <1>3 DEF Wrap
<1>5. /\ q \in Seq(Frame) /\ Len(q) = n
      /\ \A k \in 1 .. n : q[k] = s[Wrap(t + k - 1)]
      /\ r \in Seq(Frame) /\ Len(r) = n + 1
      /\ \A k \in 1 .. n + 1 : r[k] = s[Wrap(t + k - 1)]
  BY <1>2, <1>4, FramesAre
<1> HIDE DEF q, r, n
<1>6. /\ Append(q, s[h]) \in Seq(Frame) /\ Len(Append(q, s[h])) = n + 1
      /\ \A k \in 1 .. n + 1 : Append(q, s[h])[k] = IF k = n + 1 THEN s[h] ELSE q[k]
  <2>1. s[h] \in Frame
    OBVIOUS
  <2> QED
    BY <1>4, <1>5, <2>1, AppendProperties
<1>7. ASSUME NEW k \in 1 .. n + 1 PROVE r[k] = Append(q, s[h])[k]
  <2>1. CASE k = n + 1
    <3>1. t + k - 1 = t + n
      BY <1>1, <1>4, <2>1
    <3> QED
      BY <1>4, <1>5, <1>6, <2>1, <3>1
  <2>2. CASE k # n + 1
    <3>1. k \in 1 .. n
      BY <1>4, <2>2
    <3> QED
      BY <1>5, <1>6, <2>2, <3>1
  <2> QED
    BY <2>1, <2>2
<1>8. r = Append(q, s[h])
  BY <1>4, <1>5, <1>6, <1>7, SeqEqual
<1> QED
  BY <1>4, <1>5, <1>8 DEF q, r

\* Writing the slot at the head changes nothing in the queue.
LEMMA FillHidden ==
  ASSUME NEW h \in RxIndex, NEW t \in RxIndex,
         NEW s \in [RxIndex -> Frame], NEW u \in [RxIndex -> Frame],
         \A i \in RxIndex : i # h => u[i] = s[i]
  PROVE  Frames(h, t, u) = Frames(h, t, s)
<1>1. RxSlots \in Nat /\ RxSlots >= 3 /\ h \in 0 .. RxSlots - 1 /\ t \in 0 .. RxSlots - 1
  BY RxAssumption DEF RxIndex
<1>2. occupancy(h, t) = IF h >= t THEN h - t ELSE h - t + RxSlots
  BY RingArithmetic
<1>3. ASSUME NEW k \in 1 .. occupancy(h, t)
      PROVE  Wrap(t + k - 1) \in RxIndex /\ Wrap(t + k - 1) # h
  BY <1>1, <1>2 DEF Wrap, RxIndex
<1>4. /\ Frames(h, t, s) \in Seq(Frame) /\ Frames(h, t, u) \in Seq(Frame)
      /\ Len(Frames(h, t, s)) = occupancy(h, t) /\ Len(Frames(h, t, u)) = occupancy(h, t)
      /\ \A k \in 1 .. occupancy(h, t) : Frames(h, t, u)[k] = Frames(h, t, s)[k]
  <2>1. /\ Frames(h, t, s) \in Seq(Frame) /\ Len(Frames(h, t, s)) = occupancy(h, t)
        /\ \A k \in 1 .. occupancy(h, t) : Frames(h, t, s)[k] = s[Wrap(t + k - 1)]
    BY FramesAre
  <2>2. /\ Frames(h, t, u) \in Seq(Frame) /\ Len(Frames(h, t, u)) = occupancy(h, t)
        /\ \A k \in 1 .. occupancy(h, t) : Frames(h, t, u)[k] = u[Wrap(t + k - 1)]
    BY FramesAre
  <2>3. ASSUME NEW k \in 1 .. occupancy(h, t)
        PROVE  Frames(h, t, u)[k] = Frames(h, t, s)[k]
    <3>1. Wrap(t + k - 1) \in RxIndex /\ Wrap(t + k - 1) # h
      BY <1>3
    <3> QED
      BY <2>1, <2>2, <3>1
  <2> QED
    BY <2>1, <2>2, <2>3
<1> QED
  BY <1>4, SeqEqual

\* Moving the tail forward to an index not beyond the head drops the oldest
\* frames.
LEMMA TailDrops ==
  ASSUME NEW h \in RxIndex, NEW t \in RxIndex, NEW v \in RxIndex, NEW s \in [RxIndex -> Frame],
         occupancy(v, t) \in 1 .. occupancy(h, t)
  PROVE  Frames(h, v, s) = SubSeq(Frames(h, t, s), occupancy(v, t) + 1, Len(Frames(h, t, s)))
<1> DEFINE q == Frames(h, t, s)
           r == Frames(h, v, s)
           n == occupancy(h, t)
           m == occupancy(v, t)
<1>1. RxSlots \in Nat /\ RxSlots >= 3 /\ {h, t, v} \subseteq 0 .. RxSlots - 1
  BY RxAssumption DEF RxIndex
<1>2. /\ n = IF h >= t THEN h - t ELSE h - t + RxSlots
      /\ m = IF v >= t THEN v - t ELSE v - t + RxSlots
      /\ occupancy(h, v) = IF h >= v THEN h - v ELSE h - v + RxSlots
  BY RingArithmetic
<1>3. n \in Nat /\ m \in Nat /\ m >= 1 /\ m <= n /\ occupancy(h, v) = n - m
  BY <1>1, <1>2
<1>4. \A k \in 1 .. n - m : Wrap(v + k - 1) = Wrap(t + (m + k) - 1)
  BY <1>1, <1>2 DEF Wrap
<1>5. /\ q \in Seq(Frame) /\ Len(q) = n
      /\ \A k \in 1 .. n : q[k] = s[Wrap(t + k - 1)]
      /\ r \in Seq(Frame) /\ Len(r) = n - m
      /\ \A k \in 1 .. n - m : r[k] = s[Wrap(v + k - 1)]
  <2>1. /\ q \in Seq(Frame) /\ Len(q) = n
        /\ \A k \in 1 .. n : q[k] = s[Wrap(t + k - 1)]
    BY FramesAre
  <2>2. /\ r \in Seq(Frame) /\ Len(r) = occupancy(h, v)
        /\ \A k \in 1 .. occupancy(h, v) : r[k] = s[Wrap(v + k - 1)]
    BY FramesAre
  <2> HIDE DEF q, r, n, m
  <2> QED
    BY <1>3, <2>1, <2>2
<1> HIDE DEF q, r, n, m
<1>6. \A i \in m + 1 .. n : q[i] \in Frame
  <2>1. \A i \in m + 1 .. n : i \in 1 .. Len(q)
    BY <1>3, <1>5
  <2> QED
    BY <1>5, <2>1, ElementOfSeq
<1>7. /\ SubSeq(q, m + 1, n) \in Seq(Frame)
      /\ Len(SubSeq(q, m + 1, n)) = n - m
      /\ \A k \in 1 .. n - m : SubSeq(q, m + 1, n)[k] = q[m + k]
  <2>1. m + 1 \in Int /\ n \in Int /\ n - (m + 1) + 1 = n - m
    BY <1>3
  <2>2. /\ SubSeq(q, m + 1, n) \in Seq(Frame)
        /\ Len(SubSeq(q, m + 1, n)) = IF m + 1 <= n THEN n - (m + 1) + 1 ELSE 0
        /\ \A k \in 1 .. n - (m + 1) + 1 : SubSeq(q, m + 1, n)[k] = q[m + 1 + k - 1]
    BY <1>6, <2>1, SubSeqProperties
  <2> QED
    BY <1>3, <2>1, <2>2
<1>8. ASSUME NEW k \in 1 .. n - m PROVE r[k] = SubSeq(q, m + 1, n)[k]
  <2>1. m + k \in 1 .. n
    BY <1>3
  <2> QED
    BY <1>4, <1>5, <1>7, <2>1
<1>9. r = SubSeq(q, m + 1, n)
  BY <1>5, <1>7, <1>8, SeqEqual
<1> QED
  BY <1>5, <1>9 DEF q, r, n, m

\* Every step of the ring is a step of the FIFO, or none.
LEMMA RxRefines == RxInd /\ [RxNext]_rxVars => [AbstractRing!Next]_(Frames(rx_head, rx_tail, slot))
<1> SUFFICES ASSUME RxInd, [RxNext]_rxVars
             PROVE  [AbstractRing!Next]_(Frames(rx_head, rx_tail, slot))
  OBVIOUS
<1> DEFINE q == Frames(rx_head, rx_tail, slot)
<1>a. rx_head \in RxIndex /\ rx_tail \in RxIndex /\ slot \in [RxIndex -> Frame]
  BY DEF RxInd, RxTypeOK, Frame
<1>b. /\ q = [k \in 1 .. Depth |-> slot[(rx_tail + k - 1) % RxSlots]]
      /\ q \in Seq(Frame) /\ Len(q) = Depth
  BY <1>a, FramesAre DEF Frames, Depth
<1>c. RxTypeOK' /\ rx_head' \in RxIndex /\ rx_tail' \in RxIndex /\ slot' \in [RxIndex -> Frame]
  BY RxStep DEF RxInd, RxTypeOK, Frame
<1>1. CASE UNCHANGED rxVars
  BY <1>1 DEF rxVars
<1>2. ASSUME NEW d \in Data, NEW t \in Tags, PushLoad(d, t) PROVE q' = q
  BY <1>2 DEF PushLoad, consumerVars
<1>3. ASSUME PushData \/ PushTag PROVE q' = q
  <2>1. /\ push.at = rx_head /\ rx_head' = rx_head /\ rx_tail' = rx_tail
        /\ \A i \in RxIndex : i # rx_head => slot'[i] = slot[i]
    BY <1>3, <1>a DEF PushData, PushTag, consumerVars, RxInd, PushInRoom
  <2> QED
    BY <1>a, <1>c, <2>1, FillHidden
<1>4. CASE PushPublish
  <2>1. /\ push.at = rx_head /\ next_slot(rx_head) # rx_tail /\ push.data \in Data /\ push.tag \in Tags
        /\ slot[rx_head].data = push.data /\ slot[rx_head].tag = push.tag
        /\ rx_head' = next_slot(rx_head) /\ rx_tail' = rx_tail /\ slot' = slot
    BY <1>4 DEF PushPublish, consumerVars, RxInd, PushInRoom, FillIsFaithful
  <2>2. slot[rx_head] = [data |-> push.data, tag |-> push.tag]
    BY <1>a, <2>1 DEF Frame
  <2>3. Len(q) < RxSlots - 1 /\ q' = Append(q, [data |-> push.data, tag |-> push.tag])
    BY <1>a, <2>1, <2>2, PushAppends
  <2>4. PICK d \in Data, t \in Tags : d = push.data /\ t = push.tag
    BY <2>1
  <2>5. AbstractRing!Accept(d, t)
    BY <1>b, <2>3, <2>4 DEF AbstractRing!Accept, Frames, Depth
  <2> QED
    BY <2>5 DEF AbstractRing!Next
<1>5. ASSUME od_rxq_peek \/ ResetLoad \/ NewOwner PROVE q' = q
  BY <1>5 DEF od_rxq_peek, ResetLoad, NewOwner, producerVars
<1>6. ASSUME od_rxq_consume \/ od_rxq_discard_stale PROVE AbstractRing!Next
  <2>1. rx_tail # rx_head /\ rx_tail' = next_slot(rx_tail) /\ rx_head' = rx_head /\ slot' = slot
    BY <1>6 DEF od_rxq_consume, od_rxq_discard_stale, producerVars
  <2>2. occupancy(next_slot(rx_tail), rx_tail) = 1 /\ occupancy(rx_head, rx_tail) >= 1
        /\ occupancy(rx_head, rx_tail) \in Nat /\ next_slot(rx_tail) \in RxIndex
    <3>1. RxSlots \in Nat /\ RxSlots >= 3 /\ {rx_head, rx_tail} \subseteq 0 .. RxSlots - 1
      BY <1>a, RxAssumption DEF RxIndex
    <3>2. next_slot(rx_tail) = Wrap(rx_tail + 1)
      BY <1>a, RingArithmetic
    <3>3. next_slot(rx_tail) \in RxIndex
      BY <3>1, <3>2 DEF Wrap, RxIndex
    <3>4. /\ occupancy(next_slot(rx_tail), rx_tail) =
               IF next_slot(rx_tail) >= rx_tail THEN next_slot(rx_tail) - rx_tail
               ELSE next_slot(rx_tail) - rx_tail + RxSlots
          /\ occupancy(rx_head, rx_tail) =
               IF rx_head >= rx_tail THEN rx_head - rx_tail ELSE rx_head - rx_tail + RxSlots
      BY <1>a, <3>3, RingArithmetic
    <3> QED
      BY <2>1, <3>1, <3>2, <3>3, <3>4 DEF Wrap
  <2>3. q' = SubSeq(q, 2, Len(q))
    <3>1. occupancy(next_slot(rx_tail), rx_tail) \in 1 .. occupancy(rx_head, rx_tail)
      BY <2>2
    <3>2. PICK h \in RxIndex, t \in RxIndex, v \in RxIndex, s \in [RxIndex -> Frame] :
            h = rx_head /\ t = rx_tail /\ v = next_slot(rx_tail) /\ s = slot
      BY <1>a, <2>2
    <3>3. occupancy(v, t) = 1 /\ occupancy(v, t) \in 1 .. occupancy(h, t)
      BY <2>2, <3>1, <3>2
    <3>4. Frames(h, v, s) = SubSeq(Frames(h, t, s), 1 + 1, Len(Frames(h, t, s)))
      BY <3>3, TailDrops
    <3> QED
      BY <2>1, <3>2, <3>4
  <2>4. q # << >> /\ q' = Tail(q)
    <3>1. Len(q) >= 1
      BY <1>b, <2>2 DEF Depth
    <3>2. q # << >>
      BY <3>1
    <3> QED
      BY <1>b, <2>3, <3>2, TailIsSubSeq
  <2>5. AbstractRing!Take
    BY <1>b, <2>4 DEF AbstractRing!Take, Frames, Depth
  <2> QED
    BY <2>5 DEF AbstractRing!Next
<1>7. CASE ResetStore
  <2>1. /\ snap \in RxIndex /\ occupancy(snap, rx_tail) \in 1 .. Depth
        /\ rx_tail' = snap /\ rx_head' = rx_head /\ slot' = slot
    BY <1>7 DEF ResetStore, producerVars, RxInd, ConsumerKnows, RxTypeOK
  <2>2. q' = SubSeq(q, occupancy(snap, rx_tail) + 1, Len(q))
    <3>1. PICK h \in RxIndex, t \in RxIndex, v \in RxIndex, s \in [RxIndex -> Frame] :
            h = rx_head /\ t = rx_tail /\ v = snap /\ s = slot
      BY <1>a, <2>1
    <3>2. occupancy(v, t) \in 1 .. occupancy(h, t)
      BY <2>1, <3>1 DEF Depth
    <3>3. Frames(h, v, s) = SubSeq(Frames(h, t, s), occupancy(v, t) + 1, Len(Frames(h, t, s)))
      BY <3>2, TailDrops
    <3> QED
      BY <2>1, <3>1, <3>3
  <2>3. PICK n \in 1 .. RxSlots - 1 : n = occupancy(snap, rx_tail)
    <3>1. Depth \in 0 .. RxSlots - 1
      BY <1>a, FramesAre DEF Depth
    <3> QED
      BY <2>1, <3>1, RxAssumption
  <2>4. AbstractRing!DiscardOldest(n)
    BY <1>b, <2>1, <2>2, <2>3 DEF AbstractRing!DiscardOldest, Frames, Depth
  <2> QED
    BY <2>4 DEF AbstractRing!Next
<1> QED
  BY <1>1, <1>2, <1>3, <1>4, <1>5, <1>6, <1>7 DEF RxNext, Producer, Consumer

\* The ring implements the FIFO of od_rxq.h for every number of slots: whole
\* frames in arrival order with their own tags, none lost but by refusal on
\* arrival, discard or reset.
THEOREM RingImplementsFifo == RxSpec => ImplementsRxFifo
<1>1. RxInit => AbstractRing!Init
  <2> SUFFICES ASSUME RxInit PROVE AbstractRing!Init
    OBVIOUS
  <2>1. rx_head = 0 /\ rx_tail = 0 /\ 0 \in RxIndex
    BY RxAssumption DEF RxInit, RxIndex
  <2>2. Depth = 0
    BY <2>1, RingArithmetic, RxAssumption DEF Depth
  <2> QED
    BY <2>2 DEF AbstractRing!Init
<1>2. RxInd /\ [RxNext]_rxVars => [AbstractRing!Next]_([k \in 1 .. Depth |-> slot[(rx_tail + k - 1) % RxSlots]])
  BY RxRefines DEF Frames, Depth
<1> QED
  BY <1>1, <1>2, RxInvariant, PTL DEF RxSpec, ImplementsRxFifo, AbstractRing!Spec
=============================================================================
