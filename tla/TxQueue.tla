------------------------------ MODULE TxQueue ------------------------------
(***************************************************************************)
(* The response queue of shared/core/od_txq.c: a ring of finished frames,  *)
(* a count of reserved units, and the tokens that hold those units.        *)
(*                                                                         *)
(* Two tokens exist in the firmware.  "cmd" is the od_tx_reservation_t on  *)
(* the stack of od_dispatch_frame() (or of od_config_read_pump(), which    *)
(* never runs inside a dispatch); "read" is the one od_config_read keeps   *)
(* in its static state.  Both live on the loop task; only the liveness of  *)
(* a link changes under it.                                                *)
(*                                                                         *)
(* A link stands for one (origin, tag) pair.  A tag names one connection   *)
(* instance, so a link that died never comes back.                         *)
(***************************************************************************)
EXTENDS Integers, Sequences, FiniteSets

CONSTANTS
  Slots,      \* OD_TXQ_SLOTS
  GenMod,     \* 2^8 in the code: s_gen is a uint8_t
  Links,      \* reply targets
  BleLinks,   \* those whose origin is OD_ORIGIN_BLE
  Frames,     \* frame contents
  MaxBudget,  \* the largest reservation an opcode asks for
  NoFrame     \* what memset leaves in a slot

ASSUME SlotsAssumption == Slots \in Nat /\ Slots >= 2
ASSUME GenAssumption == GenMod \in Nat /\ GenMod >= 2
ASSUME BudgetAssumption == MaxBudget \in Nat \ {0}
ASSUME LinkAssumption == BleLinks \subseteq Links /\ NoFrame \notin Frames

VARIABLES
  ring,      \* s_ring
  head,      \* s_head, next entry to send
  tail,      \* s_tail, next free slot
  reserved,  \* s_reserved
  gen,       \* s_gen
  token,     \* the two reservation tokens
  live,      \* links od_hal_radio_tag_is_live() accepts
  unborn,    \* links that have not been up yet
  draining   \* an od_txq_process() pass is running

vars == <<ring, head, tail, reserved, gen, token, live, unborn, draining>>
queueVars == <<ring, head, tail, reserved, gen>>
linkVars == <<live, unborn>>

Holders == {"cmd", "read"}
Index == 0 .. Slots - 1
Entry == [link : Links, frame : Frames]
Empty == [link |-> NoFrame, frame |-> NoFrame]
NoToken == [remaining |-> 0, gen |-> 0]

\* Frame sizes the commit tells apart: up to 253 bytes, up to 256, above.
Sizes == {"value", "att", "over"}

ring_next(i) == (i + 1) % Slots
queued == (tail + Slots - head) % Slots
free_slots == (Slots - 1) - queued

TypeOK ==
  /\ ring \in [Index -> Entry \union {Empty}]
  /\ head \in Index
  /\ tail \in Index
  /\ reserved \in 0 .. Slots - 1
  /\ gen \in 0 .. GenMod - 1
  /\ token \in [Holders -> [remaining : 0 .. Slots - 1, gen : 0 .. GenMod - 1]]
  /\ live \subseteq Links
  /\ unborn \subseteq Links
  /\ draining \in BOOLEAN

Init ==
  /\ ring = [i \in Index |-> Empty]
  /\ head = 0
  /\ tail = 0
  /\ reserved = 0
  /\ gen = 0
  /\ token = [h \in Holders |-> NoToken]
  /\ live = {}
  /\ unborn = Links
  /\ draining = FALSE

-----------------------------------------------------------------------------
(* Operations of the loop task.  None of them runs inside a drain pass.    *)

\* s_gen has eight bits, so a token that kept units across 256 resets would
\* look fresh again.  No caller does that: a dispatch sees at most the reset
\* of its own aborted barrier, and od_core_reset() cancels the config read
\* first.  The guard is that assumption on the callers, for any GenMod.
GenerationReused ==
  \E h \in Holders : /\ token[h].remaining > 0
                     /\ token[h].gen # gen
                     /\ token[h].gen = (gen + 1) % GenMod

od_txq_reset ==
  /\ ~draining
  /\ ~GenerationReused
  /\ ring' = [i \in Index |-> Empty]
  /\ head' = 0
  /\ tail' = 0
  /\ reserved' = 0
  /\ gen' = (gen + 1) % GenMod
  /\ UNCHANGED <<token, linkVars, draining>>

\* A refused reserve zeroes the token and claims nothing.
od_txq_reserve(count) ==
  /\ ~draining
  /\ token["cmd"].remaining = 0
  /\ \/ /\ reserved < free_slots
        /\ count <= free_slots - reserved
        /\ reserved' = reserved + count
        /\ token' = [token EXCEPT !["cmd"] = [remaining |-> count, gen |-> gen]]
     \/ /\ reserved >= free_slots \/ count > free_slots - reserved
        /\ token' = [token EXCEPT !["cmd"].remaining = 0]
        /\ UNCHANGED reserved
  /\ UNCHANGED <<ring, head, tail, gen, linkVars, draining>>

\* The generation test missing from od_txq_release().
MutGiveBack(h) == reserved - token[h].remaining

\* Only a token of the current generation gives its units back.
GiveBack(h) ==
  IF token[h].gen = gen THEN reserved - token[h].remaining ELSE reserved

od_txq_release(h) ==
  /\ ~draining
  /\ token[h].remaining > 0
  /\ reserved' = GiveBack(h)
  /\ token' = [token EXCEPT ![h].remaining = 0]
  /\ UNCHANGED <<ring, head, tail, gen, linkVars, draining>>

\* od_config_read_start() takes over the running dispatch's token.
TransferToken ==
  /\ ~draining
  /\ token["cmd"].remaining > 0
  /\ token["read"].remaining = 0
  /\ token' = [token EXCEPT !["read"] = token["cmd"], !["cmd"].remaining = 0]
  /\ UNCHANGED <<queueVars, linkVars, draining>>

Stale(h) == token[h].gen # gen
TooLarge(link, size) == size = "over" \/ (size = "att" /\ link \in BleLinks)

SpendUnit(h) ==
  /\ token' = [token EXCEPT ![h].remaining = @ - 1]
  /\ reserved' = reserved - 1

\* od_txq_commit() on a token that still has units; on an empty one it
\* returns OD_TXQ_INVARIANT and changes nothing.
CommitStale(h) ==
  /\ Stale(h)
  /\ token' = [token EXCEPT ![h].remaining = 0]
  /\ UNCHANGED queueVars

CommitGone(h, link) ==
  /\ link \notin live
  /\ SpendUnit(h)
  /\ UNCHANGED <<ring, head, tail, gen>>

CommitAppend(h, link, frame) ==
  /\ link \in live
  /\ free_slots > 0
  /\ ring' = [ring EXCEPT ![tail] = [link |-> link, frame |-> frame]]
  /\ tail' = ring_next(tail)
  /\ SpendUnit(h)
  /\ UNCHANGED <<head, gen>>

od_txq_commit(h, link, size, frame) ==
  /\ ~draining
  /\ token[h].remaining > 0
  /\ link \notin unborn
  /\ \/ CommitStale(h)
     \/ /\ ~Stale(h)
        /\ ~TooLarge(link, size)
        /\ CommitGone(h, link) \/ CommitAppend(h, link, frame)
  /\ UNCHANGED <<linkVars, draining>>

-----------------------------------------------------------------------------
(* The drain.  One action per iteration of the loop in od_txq_process(),   *)
(* because a link can die between two iterations.                          *)

\* The indices of the queued entries, oldest first.
Queued(k) == (head + k) % Slots
Contents == [k \in 1 .. queued |-> ring[Queued(k - 1)]]

\* Bytes left in a retired slot are never read before a commit overwrites
\* them, so the model clears a slot when its entry leaves.

\* drop_tag(): the entries of other links keep their order and close up
\* towards the head.
KeptBefore(link, k) ==
  Cardinality({j \in 1 .. k : ring[Queued(j - 1)].link # link})
Kept(link) == KeptBefore(link, queued)

\* The queued entries that move to slot i: one below the new tail, else none.
MovesTo(link, i) ==
  {k \in 0 .. queued - 1 : /\ ring[Queued(k)].link # link
                          /\ Queued(KeptBefore(link, k)) = i}

\* drop_tag() clearing everything behind the dead head.
MutDropTag(link) ==
  /\ tail' = head
  /\ UNCHANGED <<ring, head>>

drop_tag(link) ==
  /\ ring' = [i \in Index |->
       IF MovesTo(link, i) = {} THEN Empty
       ELSE ring[Queued(CHOOSE k \in MovesTo(link, i) : TRUE)]]
  /\ tail' = Queued(Kept(link))
  /\ UNCHANGED head

BeginDrain ==
  /\ ~draining
  /\ head # tail
  /\ draining' = TRUE
  /\ UNCHANGED <<queueVars, token, linkVars>>

\* A dead head kept in place, as RETRY would.
MutDrainGone ==
  /\ draining
  /\ head # tail
  /\ ring[head].link \notin live
  /\ draining' = FALSE
  /\ UNCHANGED <<queueVars, token, linkVars>>

\* The head's link was found dead, or the radio said GONE.
DrainGone ==
  /\ draining
  /\ head # tail
  /\ ring[head].link \notin live
  /\ drop_tag(ring[head].link)
  /\ UNCHANGED <<reserved, gen, token, linkVars, draining>>

\* OD_RADIO_SENT and OD_RADIO_ERROR both retire the head.
DrainRetire ==
  /\ draining
  /\ head # tail
  /\ ring[head].link \in live
  /\ head' = ring_next(head)
  /\ ring' = [ring EXCEPT ![head] = Empty]
  /\ UNCHANGED <<tail, reserved, gen, token, linkVars, draining>>

\* OD_RADIO_RETRY keeps the head and ends the pass.
DrainRetry ==
  /\ draining
  /\ head # tail
  /\ ring[head].link \in live
  /\ draining' = FALSE
  /\ UNCHANGED <<queueVars, token, linkVars>>

EndDrain ==
  /\ draining
  /\ head = tail
  /\ draining' = FALSE
  /\ UNCHANGED <<queueVars, token, linkVars>>

od_txq_process == DrainGone \/ DrainRetire \/ DrainRetry \/ EndDrain

-----------------------------------------------------------------------------
(* The radio: a link comes up once and goes down for good, at any moment.  *)

LinkUp(link) ==
  /\ link \in unborn
  /\ unborn' = unborn \ {link}
  /\ live' = live \union {link}
  /\ UNCHANGED <<queueVars, token, draining>>

LinkDown(link) ==
  /\ link \in live
  /\ live' = live \ {link}
  /\ UNCHANGED <<queueVars, token, unborn, draining>>

Next ==
  \/ od_txq_reset
  \/ \E n \in 1 .. MaxBudget : od_txq_reserve(n)
  \/ \E h \in Holders : od_txq_release(h)
  \/ TransferToken
  \/ \E h \in Holders, l \in Links, s \in Sizes, f \in Frames :
       od_txq_commit(h, l, s, f)
  \/ BeginDrain
  \/ od_txq_process
  \/ \E l \in Links : LinkUp(l)
  \/ \E l \in Links : LinkDown(l)

Spec == Init /\ [][Next]_vars

\* The loop keeps draining, and the radio does not answer RETRY for ever
\* while a link stays up.
FairSpec ==
  /\ Spec
  /\ WF_vars(BeginDrain)
  /\ WF_vars(od_txq_process)
  /\ SF_vars(DrainRetire)

-----------------------------------------------------------------------------
(* Properties.                                                             *)

\* What a token is still good for.
Held(h) == IF Stale(h) THEN 0 ELSE token[h].remaining

\* s_reserved is exactly what the tokens of this generation still hold, in
\* spite of resets under a running dispatch, releases of dead tokens and
\* replies to links that died; it never wraps below zero.
ReservedIsHeld == reserved = Held("cmd") + Held("read")

\* Promised plus queued frames fit the ring.
CapacityKept == queued + reserved <= Slots - 1

\* The inductive invariant of the queue: s_reserved is what the fresh tokens
\* hold, and it fits in the ring beside what is queued.
IInv == TypeOK /\ ReservedIsHeld /\ CapacityKept

\* The branch of od_txq_commit() that finds no free slot is unreachable: a
\* handler that reserved before it changed state can always answer.
CommitAlwaysFits ==
  \A h \in Holders : token[h].remaining > 0 /\ ~Stale(h) => free_slots > 0

\* Whatever is at the head leaves it: it is sent, refused for good, dropped
\* with its link, or cleared by a reset.
HeadLeaves ==
  \A i \in Index : (head = i /\ head # tail) ~> (head # i \/ head = tail)

\* The ring implements a first-in first-out queue with credit.
Fifo == INSTANCE TxFifo WITH
  q <- Contents,
  credit <- [h \in Holders |-> Held(h)],
  Capacity <- Slots - 1

\* Seen through od_txq.h, the ring is that queue: order is kept, a drop
\* takes exactly the frames of a dead link, and a credited reply is queued.
ImplementsFifo == Fifo!Spec

=============================================================================
