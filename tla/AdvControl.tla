----------------------------- MODULE AdvControl -----------------------------
(***************************************************************************)
(* The advertising controller of shared/core/od_adv_control.c, with the    *)
(* pass every target runs around it: publish facts, then one               *)
(* reconciliation step.  The controller belongs to the loop; the radio     *)
(* stack runs beside it and is modelled from the contract in               *)
(* shared/hal/od_hal_adv.h.                                                *)
(*                                                                         *)
(* The revision counters are left out: od_adv_process() does not read      *)
(* them.  The stack has one connection object, as both ports configure it. *)
(* It may report an end of advertising late, after a newer start: the      *)
(* controller allows for that (od_adv_observe_ended).                      *)
(***************************************************************************)
EXTENDS Integers, TLAPS

CONSTANTS
  Msd,     \* advertisement payloads
  None     \* no payload

ASSUME AdvAssumption == None \notin Msd

VARIABLES
  ctrl,    \* struct od_adv_control
  air,     \* the payload on the air, or None
  held,    \* the payload last programmed into the stack
  linked,  \* a connection exists
  late,    \* an end of advertising whose callback has not run
  ended,   \* s_adv_ended_pending
  pc,      \* which half of the pass comes next
  misled,  \* history: a stale end was believed and no answer has corrected it yet
  outdated \* history: the stack was programmed under what is on the air

stackVars == <<air, held, linked, late>>
beliefs == <<misled, outdated>>
advVars == <<ctrl, stackVars, ended, pc, beliefs>>

od_adv_control_init ==
  [stack_ready |-> FALSE, active |-> FALSE, connection_count |-> 0, desired |-> FALSE,
   payload_dirty |-> FALSE, msd |-> None, faulted |-> FALSE]

AdvRecord ==
  [stack_ready : BOOLEAN, active : BOOLEAN, connection_count : 0 .. 1, desired : BOOLEAN,
   payload_dirty : BOOLEAN, msd : Msd \union {None}, faulted : BOOLEAN]

AdvTypeOK ==
  /\ ctrl \in AdvRecord
  /\ air \in Msd \union {None} /\ held \in Msd \union {None}
  /\ linked \in BOOLEAN /\ late \in BOOLEAN /\ ended \in BOOLEAN
  /\ pc \in {"facts", "process"}
  /\ misled \in BOOLEAN /\ outdated \in BOOLEAN

AdvInit ==
  /\ ctrl = od_adv_control_init
  /\ air = None /\ held = None /\ linked = FALSE /\ late = FALSE
  /\ ended = FALSE /\ pc = "facts"
  /\ misled = FALSE /\ outdated = FALSE

-----------------------------------------------------------------------------
(* Application intent, between passes of the loop.                         *)

Between == pc = "facts" /\ UNCHANGED <<stackVars, ended, pc, beliefs>>

\* An unchanged payload is a no-op.
od_adv_set_payload(m) ==
  /\ Between
  /\ m # ctrl.msd
  /\ ctrl' = [ctrl EXCEPT !.msd = m, !.payload_dirty = TRUE]

od_adv_request_start == Between /\ ctrl' = [ctrl EXCEPT !.desired = TRUE]

od_adv_request_stop == Between /\ ctrl' = [ctrl EXCEPT !.desired = FALSE]

\* The test of the teardown barrier.
od_adv_is_quiescent == ~ctrl.active /\ ~ctrl.desired

-----------------------------------------------------------------------------
(* Facts.                                                                  *)

od_adv_stack_ready == Between /\ ctrl' = [ctrl EXCEPT !.stack_ready = TRUE]

AfterReset(c) ==
  [c EXCEPT !.stack_ready = FALSE, !.active = FALSE, !.faulted = FALSE,
            !.payload_dirty = @ \/ c.msd # None]

\* The stack is torn down and what it held is gone with it.
od_adv_stack_reset ==
  /\ pc = "facts"
  /\ ctrl' = AfterReset(ctrl)
  /\ air' = None /\ held' = None /\ linked' = FALSE /\ late' = FALSE /\ ended' = FALSE
  /\ misled' = FALSE /\ outdated' = FALSE
  /\ UNCHANGED pc

\* bt_conn_foreach() and s_connections: the connections that exist now.
Count == IF linked THEN 1 ELSE 0

\* od_adv_set_connection_count(), a level, and od_adv_observe_ended().
Published(c) == [c EXCEPT !.connection_count = Count, !.active = @ /\ ~ended]

Facts ==
  /\ pc = "facts"
  /\ ctrl' = Published(ctrl)
  /\ ended' = FALSE
  /\ misled' = (misled \/ (ended /\ ctrl.active /\ air # None))
  /\ pc' = "process"
  /\ UNCHANGED <<stackVars, outdated>>

-----------------------------------------------------------------------------
(* od_adv_process(): at most one call into the stack.                      *)

\* The fault latch tested before the stop.
MutMustStop(c) == ~c.faulted /\ c.active /\ (~c.desired \/ c.connection_count > 0 \/ c.payload_dirty)

MustStop(c) == c.active /\ (~c.desired \/ c.connection_count > 0 \/ c.payload_dirty)

Call(c, start_allowed) ==
  IF ~c.stack_ready THEN "none"
  ELSE IF MustStop(c) THEN "stop"
  ELSE IF c.faulted \/ c.active THEN "none"
  ELSE IF c.payload_dirty THEN "program"
  ELSE IF c.desired /\ c.connection_count = 0 /\ c.msd # None /\ start_allowed THEN "start"
  ELSE "none"

\* A retry taken for an answer.
MutEager_classify(answer) == IF answer = "error" THEN "faulted" ELSE "acted"

\* ALREADY and NOT_ACTIVE are success.
classify(answer) ==
  CASE answer \in {"ok", "already", "not_active"} -> "acted"
    [] answer = "retry" -> "busy"
    [] answer = "error" -> "faulted"

Settle(c, call, result) ==
  CASE result = "busy"                       -> c
    [] result = "faulted"                    -> [c EXCEPT !.faulted = TRUE]
    [] result = "acted" /\ call = "stop"     -> [c EXCEPT !.active = FALSE]
    [] result = "acted" /\ call = "program"  -> [c EXCEPT !.payload_dirty = FALSE]
    [] result = "acted" /\ call = "start"    -> [c EXCEPT !.active = TRUE]

-----------------------------------------------------------------------------
(* The stack: one connection object, so no start succeeds while it is in   *)
(* use; a start while advertising answers ALREADY and changes nothing.     *)

Advancing(call) ==
  CASE call = "start" /\ linked                  -> {}
    [] call = "start" /\ ~linked /\ air # None  -> {"already"}
    [] call = "stop" /\ air = None              -> {"not_active"}
    [] OTHER                                    -> {"ok"}

Stack(call, answer) ==
  LET done == answer = "ok" IN
  /\ held' = IF done /\ call = "program" THEN ctrl.msd ELSE held
  /\ air' = IF done /\ call = "stop" THEN None
            ELSE IF done /\ call = "start" THEN held
            ELSE air
  /\ late' \in {late, late \/ (done /\ call = "stop")}
  /\ UNCHANGED linked

od_adv_process(start_allowed, refusals) ==
  /\ pc = "process"
  /\ pc' = "facts"
  /\ UNCHANGED ended
  /\ LET call == Call(ctrl, start_allowed) IN
     IF call = "none" THEN UNCHANGED <<ctrl, stackVars, beliefs>>
     ELSE \E answer \in Advancing(call) \union refusals :
            /\ ctrl' = Settle(ctrl, call, classify(answer))
            /\ Stack(call, answer)
            /\ misled' = (misled /\ air' # None /\ ~ctrl'.active)
            /\ outdated' = (air' # None /\ (outdated \/ (misled /\ held' # held)))

\* The radio stops advertising: the callback runs before the loop does, or
\* later.
Quiet ==
  /\ air # None
  /\ air' = None
  /\ \/ ended' = TRUE /\ UNCHANGED late
     \/ late' = TRUE /\ UNCHANGED ended
  /\ misled' = FALSE /\ outdated' = FALSE
  /\ UNCHANGED <<ctrl, held, pc>>

Connect == Quiet /\ linked' = TRUE

EndsAlone == Quiet /\ UNCHANGED linked

Disconnect ==
  /\ linked
  /\ linked' = FALSE
  /\ UNCHANGED <<ctrl, air, held, late, ended, pc, beliefs>>

LateNotice ==
  /\ late
  /\ late' = FALSE /\ ended' = TRUE
  /\ UNCHANGED <<ctrl, air, held, linked, pc, beliefs>>

-----------------------------------------------------------------------------
Refusals == {"retry", "error"}

Loop ==
  \/ \E m \in Msd : od_adv_set_payload(m)
  \/ od_adv_request_start
  \/ od_adv_request_stop
  \/ od_adv_stack_ready
  \/ od_adv_stack_reset
  \/ Facts
  \/ \E allowed \in BOOLEAN : od_adv_process(allowed, Refusals)

Radio == Connect \/ EndsAlone \/ Disconnect \/ LateNotice

AdvNext == Loop \/ Radio

AdvSpec == AdvInit /\ [][AdvNext]_advVars

\* The loop keeps running and starts are not barred for ever; a stack that
\* is asked again and again answers in the end, and a callback that is due
\* runs.
AdvFairSpec ==
  /\ AdvSpec
  /\ WF_advVars(Facts)
  /\ WF_advVars(od_adv_process(TRUE, Refusals))
  /\ WF_advVars(LateNotice)
  /\ SF_advVars(od_adv_process(TRUE, {}) /\ Call(ctrl, TRUE) # "none")

-----------------------------------------------------------------------------
(* Properties.                                                             *)

\* The barrier's test means what the deep-sleep path takes it to mean: with
\* nothing running and nothing wanted in the controller's eyes, the radio is
\* silent, whatever ended, failed or was retried before.  One case is left
\* out: a stale end was believed and the intent withdrawn before the start
\* that would have corrected it (od_adv_control.c:100-104).
QuiescentIsSilent == od_adv_is_quiescent /\ ~misled => air = None

\* The controller's fields in their ranges, and its rest meaning silence.
AdvInv == AdvTypeOK /\ QuiescentIsSilent

\* What is on the air is the latest payload, unless the controller knows it
\* is not and will replace it: no interleaving of updates, connections, stack
\* resets and stale ends leaves an old advertisement running as if it were
\* current.  One case is left out: a new payload was programmed while a stale
\* end was believed, and the start after it is answered ALREADY.
OnAirIsCurrent == air # None /\ ~ctrl.payload_dirty /\ ~outdated => air = ctrl.msd

\* The controller errs only so far: it takes a running advertisement for
\* ended only after a stale end, and the first start it is answered, with
\* ALREADY, ends that.
Unaware == misled <=> air # None /\ ~ctrl.active

\* A controller at rest is silent, and what it believes on the air is
\* (od_adv_is_quiescent, od_adv_process).
AdvSafe == AdvInv /\ OnAirIsCurrent /\ Unaware

\* A stop that was asked for is carried out although a fault is latched, a
\* connection came or the stack kept refusing for a while.
StopHappens == <>[](~ctrl.desired /\ ctrl.stack_ready /\ ~misled) => <>[](air = None)

\* Nothing changes any more: the payload is m, the application wants to be
\* found, and neither a fault nor a connection stands in the way.
Undisturbed(m) == ctrl.msd = m /\ ctrl.desired /\ ctrl.stack_ready /\ ~ctrl.faulted /\ ~linked

\* While the application wants to be found, the device comes back on the air
\* with the latest payload after every end.
Discoverable == \A m \in Msd : <>[]Undisturbed(m) => []<>(air = m \/ outdated)

\* An end reported after a fresh start misleads the controller only until
\* it starts again and is told ALREADY.
StaleEndCorrected == \A m \in Msd : <>[]Undisturbed(m) => []<>(ctrl.active \/ air = None)

-----------------------------------------------------------------------------
(* AdvSafe for every set of payloads.                                      *)

\* The inductive invariant: what is on the air the controller knows of or was
\* misled about, it is what the stack holds unless that was programmed under
\* it, and the stack holds the payload the controller does not owe it.
AdvInd ==
  /\ AdvTypeOK
  /\ Unaware
  /\ ~ctrl.payload_dirty => held = ctrl.msd
  /\ air # None /\ ~outdated => air = held

LEMMA AdvStart == AdvInit => AdvInd
<1>1. od_adv_control_init \in AdvRecord
  BY DEF od_adv_control_init, AdvRecord
<1>2. od_adv_control_init.msd = None
  BY DEF od_adv_control_init
<1> QED
  BY <1>1, <1>2 DEF AdvInit, AdvInd, AdvTypeOK, Unaware

LEMMA AdvStep ==
  ASSUME AdvInd, [AdvNext]_advVars
  PROVE  AdvInd'
<1> USE DEF AdvInd
<1>t. /\ ctrl \in AdvRecord
      /\ ctrl.stack_ready \in BOOLEAN /\ ctrl.active \in BOOLEAN /\ ctrl.desired \in BOOLEAN
      /\ ctrl.payload_dirty \in BOOLEAN /\ ctrl.faulted \in BOOLEAN /\ misled \in BOOLEAN
      /\ outdated \in BOOLEAN /\ ended \in BOOLEAN
  BY DEF AdvTypeOK, AdvRecord
<1>1. CASE UNCHANGED advVars
  BY <1>1 DEF advVars, stackVars, beliefs, AdvTypeOK, Unaware
<1>2. ASSUME NEW m \in Msd, od_adv_set_payload(m)
      PROVE  AdvInd'
  BY <1>2, <1>t DEF od_adv_set_payload, Between, stackVars, beliefs, AdvTypeOK, AdvRecord, Unaware
<1>3. CASE od_adv_request_start \/ od_adv_request_stop \/ od_adv_stack_ready
  <2>1. /\ ctrl' \in AdvRecord /\ ctrl'.payload_dirty = ctrl.payload_dirty /\ ctrl'.msd = ctrl.msd
        /\ ctrl'.active = ctrl.active
    BY <1>3, <1>t DEF od_adv_request_start, od_adv_request_stop, od_adv_stack_ready, AdvRecord
  <2>2. UNCHANGED <<stackVars, ended, pc, beliefs>>
    BY <1>3 DEF od_adv_request_start, od_adv_request_stop, od_adv_stack_ready, Between
  <2> QED
    BY <2>1, <2>2 DEF stackVars, beliefs, AdvTypeOK, Unaware
<1>4. CASE od_adv_stack_reset
  BY <1>4, <1>t DEF od_adv_stack_reset, AfterReset, AdvTypeOK, AdvRecord, Unaware
<1>5. CASE Facts
  <2>1. Count \in 0 .. 1
    BY DEF Count
  <2>2. /\ ctrl' \in AdvRecord /\ ctrl'.payload_dirty = ctrl.payload_dirty /\ ctrl'.msd = ctrl.msd
        /\ ctrl'.active = (ctrl.active /\ ~ended)
    BY <1>5, <1>t, <2>1 DEF Facts, Published, AdvRecord
  <2> QED
    BY <1>5, <1>t, <2>2 DEF Facts, stackVars, beliefs, AdvTypeOK, Unaware
<1>6. ASSUME NEW allowed \in BOOLEAN, od_adv_process(allowed, Refusals)
      PROVE  AdvInd'
  <2> DEFINE call == Call(ctrl, allowed)
  <2>1. CASE call = "none"
    BY <1>6, <2>1 DEF od_adv_process, stackVars, beliefs, AdvTypeOK, Unaware
  <2>2. CASE call # "none"
    <3>1. PICK answer \in Advancing(call) \union Refusals :
            /\ ctrl' = Settle(ctrl, call, classify(answer))
            /\ Stack(call, answer)
            /\ misled' = (misled /\ air' # None /\ ~ctrl'.active)
            /\ outdated' = (air' # None /\ (outdated \/ (misled /\ held' # held)))
      BY <1>6, <2>2 DEF od_adv_process
    <3>2. pc' = "facts" /\ ended' = ended
      BY <1>6 DEF od_adv_process
    <3>3. \/ call = "stop" /\ ctrl.active
          \/ call = "program" /\ ~ctrl.active
          \/ call = "start" /\ ~ctrl.active /\ ~ctrl.payload_dirty /\ ctrl.msd # None
      BY <2>2, <1>t DEF Call, MustStop
    <3>4. \/ answer \in {"retry", "error"}
          \/ answer = "ok" /\ (call = "start" => air = None)
          \/ answer = "already" /\ call = "start" /\ air # None
          \/ answer = "not_active" /\ call = "stop" /\ air = None
      BY <3>1 DEF Advancing, Refusals
    <3> HIDE DEF call
    <3>5. CASE answer \in {"retry", "error"}
      <4>1. ctrl' = ctrl \/ ctrl' = [ctrl EXCEPT !.faulted = TRUE]
        <5>1. CASE answer = "retry"
          <6>1. classify(answer) = "busy"
            BY <5>1 DEF classify
          <6> QED
            BY <3>1, <6>1 DEF Settle
        <5>2. CASE answer = "error"
          <6>1. classify(answer) = "faulted"
            BY <5>2 DEF classify
          <6> QED
            BY <3>1, <6>1 DEF Settle
        <5> QED
          BY <3>5, <5>1, <5>2
      <4>2. /\ ctrl' \in AdvRecord /\ ctrl'.payload_dirty = ctrl.payload_dirty /\ ctrl'.msd = ctrl.msd
            /\ ctrl'.active = ctrl.active
        BY <4>1, <1>t DEF AdvRecord
      <4>3. UNCHANGED <<air, held, linked>> /\ late' \in BOOLEAN
        BY <3>1, <3>5 DEF Stack, AdvTypeOK
      <4> QED
        BY <3>1, <3>2, <4>2, <4>3, <1>t DEF AdvTypeOK, Unaware
    <3>6. CASE answer \in {"ok", "already", "not_active"} /\ call = "stop"
      BY <3>1, <3>2, <3>4, <3>6, <1>t DEF Settle, classify, Stack, AdvTypeOK, AdvRecord, Unaware
    <3>7. CASE answer \in {"ok", "already", "not_active"} /\ call = "program"
      BY <3>1, <3>2, <3>3, <3>4, <3>7, <1>t DEF Settle, classify, Stack, AdvTypeOK, AdvRecord, Unaware
    <3>8. CASE answer \in {"ok", "already", "not_active"} /\ call = "start"
      BY <3>1, <3>2, <3>3, <3>4, <3>8, <1>t DEF Settle, classify, Stack, AdvTypeOK, AdvRecord, Unaware
    <3> QED
      BY <3>3, <3>4, <3>5, <3>6, <3>7, <3>8
  <2> QED
    BY <2>1, <2>2
<1>7. CASE Connect \/ EndsAlone
  BY <1>7 DEF Connect, EndsAlone, Quiet, AdvTypeOK, Unaware
<1>8. CASE Disconnect \/ LateNotice
  <2>1. /\ UNCHANGED <<ctrl, air, held, pc, misled, outdated>>
        /\ linked' \in BOOLEAN /\ late' \in BOOLEAN /\ ended' \in BOOLEAN
    BY <1>8 DEF Disconnect, LateNotice, beliefs, AdvTypeOK
  <2> QED
    BY <2>1 DEF AdvTypeOK, Unaware
<1> QED
  BY <1>1, <1>2, <1>3, <1>4, <1>5, <1>6, <1>7, <1>8 DEF AdvNext, Loop, Radio

\* For every set of payloads and every order of requests, answers, connections
\* and late callbacks around od_adv_process(): the controller takes a running
\* advertisement for ended exactly while a stale end stands uncorrected; at
\* rest it is silent except then; and what is on the air is current unless a
\* payload was programmed meanwhile.
THEOREM RestIsSilence == AdvSpec => []AdvSafe
<1>1. AdvInd => AdvSafe
  BY DEF AdvInd, AdvSafe, AdvInv, OnAirIsCurrent, Unaware, QuiescentIsSilent, od_adv_is_quiescent
<1> QED
  BY <1>1, AdvStart, AdvStep, PTL DEF AdvSpec
=============================================================================
