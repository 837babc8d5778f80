------------------------------- MODULE RxRing -------------------------------
(***************************************************************************)
(* The receive ring of shared/core/od_rxq.c: one producer (the BLE stack's *)
(* callback task) and one consumer (the loop task), sharing a slot array   *)
(* and two indices with release and acquire accesses and no lock.          *)
(*                                                                         *)
(* Each side moves one shared access at a time.  A push first loads the    *)
(* indices, then fills the payload, then the tag, then publishes; the      *)
(* release store of s_head orders the fills before the publication, so no  *)
(* further reordering is visible to the acquiring consumer.                *)
(***************************************************************************)
EXTENDS Integers, Sequences

CONSTANTS
  RxSlots,  \* OD_RXQ_SLOTS
  Data,     \* frame payloads
  Tags,     \* connection identities
  NoData    \* no peek, no snapshot, an unwritten slot

ASSUME RxAssumption ==
  /\ RxSlots \in Nat /\ RxSlots >= 3 /\ RxSlots <= 255
  /\ NoData \notin Data \union Tags \union 0 .. RxSlots - 1

VARIABLES
  slot,     \* s_rx
  rx_head,  \* s_head, written by the producer only
  rx_tail,  \* s_tail, written by the consumer only
  push,     \* the push in flight: program point, frame, loaded head
  peeked,   \* the slot the consumer holds a pointer to
  snap,     \* the head od_rxq_reset() loaded
  alive     \* the tag the consumer's is_live test accepts

rxVars == <<slot, rx_head, rx_tail, push, peeked, snap, alive>>
consumerVars == <<rx_tail, peeked, snap, alive>>
producerVars == <<slot, rx_head, push>>

RxIndex == 0 .. RxSlots - 1
Idle == [pc |-> "idle", data |-> NoData, tag |-> NoData, at |-> 0]
next_slot(i) == (i + 1) % RxSlots
occupancy(h, t) == (h - t + RxSlots) % RxSlots

RxTypeOK ==
  /\ slot \in [RxIndex -> [data : Data \union {NoData}, tag : Tags \union {NoData}]]
  /\ rx_head \in RxIndex
  /\ rx_tail \in RxIndex
  /\ push \in [pc : {"idle", "data", "tag", "publish"}, data : Data \union {NoData},
               tag : Tags \union {NoData}, at : RxIndex]
  /\ peeked \in RxIndex \union {NoData}
  /\ snap \in RxIndex \union {NoData}
  /\ alive \in Tags

RxInit ==
  /\ slot = [i \in RxIndex |-> [data |-> NoData, tag |-> NoData]]
  /\ rx_head = 0
  /\ rx_tail = 0
  /\ push = Idle
  /\ peeked = NoData
  /\ snap = NoData
  /\ alive \in Tags

-----------------------------------------------------------------------------
(* Producer: od_rxq_push().                                                *)

\* A ring that keeps no slot free mistakes full for empty.
MutPushLoad(d, t) ==
  /\ push.pc = "idle"
  /\ push' = [pc |-> "data", data |-> d, tag |-> t, at |-> rx_head]
  /\ UNCHANGED <<slot, rx_head, consumerVars>>

\* A frame the ring has no room for is refused; the oldest frames stay.
PushLoad(d, t) ==
  /\ push.pc = "idle"
  /\ next_slot(rx_head) # rx_tail
  /\ push' = [pc |-> "data", data |-> d, tag |-> t, at |-> rx_head]
  /\ UNCHANGED <<slot, rx_head, consumerVars>>

PushData ==
  /\ push.pc = "data"
  /\ slot' = [slot EXCEPT ![push.at].data = push.data]
  /\ push' = [push EXCEPT !.pc = "tag"]
  /\ UNCHANGED <<rx_head, consumerVars>>

\* The slot published before its tag is in place.
MutPushTag ==
  /\ push.pc = "tag"
  /\ rx_head' = next_slot(push.at)
  /\ push' = [push EXCEPT !.pc = "publish"]
  /\ UNCHANGED <<slot, consumerVars>>

PushTag ==
  /\ push.pc = "tag"
  /\ slot' = [slot EXCEPT ![push.at].tag = push.tag]
  /\ push' = [push EXCEPT !.pc = "publish"]
  /\ UNCHANGED <<rx_head, consumerVars>>

PushPublish ==
  /\ push.pc = "publish"
  /\ rx_head' = next_slot(push.at)
  /\ push' = Idle
  /\ UNCHANGED <<slot, consumerVars>>

Producer ==
  \/ \E d \in Data, t \in Tags : PushLoad(d, t)
  \/ PushData
  \/ PushTag
  \/ PushPublish

-----------------------------------------------------------------------------
(* Consumer.                                                               *)

od_rxq_peek ==
  /\ snap = NoData
  /\ peeked = NoData
  /\ rx_tail # rx_head
  /\ peeked' = rx_tail
  /\ UNCHANGED <<rx_tail, snap, alive, producerVars>>

\* The peeked frame is done with: dispatched, or found stale.
od_rxq_consume ==
  /\ peeked # NoData
  /\ rx_tail # rx_head
  /\ rx_tail' = next_slot(rx_tail)
  /\ peeked' = NoData
  /\ UNCHANGED <<snap, alive, producerVars>>

\* One turn of the discard loop: the head frame's tag is asked about each
\* time, since the link can change hands between two turns.
od_rxq_discard_stale ==
  /\ snap = NoData
  /\ peeked = NoData
  /\ rx_tail # rx_head
  /\ slot[rx_tail].tag # alive
  /\ rx_tail' = next_slot(rx_tail)
  /\ UNCHANGED <<peeked, snap, alive, producerVars>>

\* od_rxq_reset() loads the head, then stores it into the tail.  It never
\* runs while a peek is outstanding.
ResetLoad ==
  /\ peeked = NoData
  /\ snap = NoData
  /\ rx_tail # rx_head
  /\ snap' = rx_head
  /\ UNCHANGED <<rx_tail, peeked, alive, producerVars>>

ResetStore ==
  /\ snap # NoData
  /\ rx_tail' = snap
  /\ snap' = NoData
  /\ UNCHANGED <<peeked, alive, producerVars>>

Consumer ==
  \/ od_rxq_peek
  \/ od_rxq_consume
  \/ od_rxq_discard_stale
  \/ ResetLoad
  \/ ResetStore

\* The link changes hands at any moment.
NewOwner ==
  /\ alive' \in Tags \ {alive}
  /\ UNCHANGED <<rx_tail, peeked, snap, producerVars>>

RxNext == Producer \/ Consumer \/ NewOwner

RxSpec == RxInit /\ [][RxNext]_rxVars

\* The loop task keeps consuming what it peeks; the peer owes nothing.
RxFairSpec ==
  /\ RxSpec
  /\ WF_rxVars(od_rxq_peek \/ ResetStore)
  /\ WF_rxVars(od_rxq_consume)

-----------------------------------------------------------------------------
(* Properties.                                                             *)

Depth == occupancy(rx_head, rx_tail)
Occupied == {(rx_tail + k) % RxSlots : k \in 0 .. Depth - 1}

\* The slot a push is filling is never one the consumer may read, although
\* the producer works from a head and a tail it loaded earlier.
FillIsPrivate ==
  push.pc # "idle" => /\ push.at = rx_head
                      /\ push.at \notin Occupied
                      /\ next_slot(push.at) # rx_tail

\* The indices stay in the ring, and od_rxq_push() fills a slot of its own.
RingInv == RxTypeOK /\ FillIsPrivate

\* Whole frames come out in arrival order with their own tags, across
\* concurrent pushes, stale discards and resets.
AbstractRing == INSTANCE RxFifo WITH
  q <- [k \in 1 .. Depth |-> slot[(rx_tail + k - 1) % RxSlots]],
  Capacity <- RxSlots - 1

ImplementsRxFifo == AbstractRing!Spec

\* A frame that was accepted reaches the consumer or is discarded; it does
\* not sit in its slot for ever.
AcceptedLeaves == \A i \in RxIndex : (rx_tail = i /\ rx_head # rx_tail) ~> (rx_tail # i)
=============================================================================
