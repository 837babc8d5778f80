----------------------------- MODULE NordicBle -----------------------------
(***************************************************************************)
(* The advertising glue of targets/nordic-zephyr/src/opendisplay_ble.c     *)
(* around the shared controller (AdvControl): three contexts share it.     *)
(* The loop thread owns the controller and runs one pass at a time; the    *)
(* Bluetooth receive thread runs connected() and disconnected(); the NFC   *)
(* callback runs above both.  They meet in plain flags and in the buffer   *)
(* msd_payload, which the callback may rebuild while the loop copies it.   *)
(*                                                                         *)
(* A payload is a pair of halves, so that a copy can be caught between     *)
(* them.  The loop's own rebuild is one step: it writes from the live      *)
(* dynamic bytes, so a callback in the middle is not undone.  Channel      *)
(* sounding, connection parameters and the SMP service are left out.       *)
(***************************************************************************)
EXTENDS Integers

CONSTANTS
  Data,     \* contents of the dynamic bytes
  Silence,  \* nothing on the air
  BOOST,    \* OD_ADV_BOOST_MS, in ticks
  MaxRefusals  \* how often the stack may answer RETRY or an error

ASSUME NordicBleAssumption == Silence \notin Data /\ BOOST \in Nat \ {0} /\ MaxRefusals \in Nat

VARIABLES
  ctrl,       \* s_adv, the shared controller
  adv_data,   \* s_programmed_msd
  on_air,     \* what the radio sends: [msd, fast], or Silence
  conn,       \* a connection exists
  adv_ended,  \* s_adv_ended_pending
  dynamic,    \* dynamic_return[]
  staged,     \* msd_payload
  adv_pub,    \* s_msd_publish_pending
  half,       \* the half of the payload the loop has copied
  fast,       \* s_adv_interval_is_boost
  boost,      \* s_adv_boost_on and what is left of the window
  restart,    \* s_adv_restart_pending
  txp,        \* s_adv_txp_pending
  power,      \* the advertiser's TX power against the configuration
  pc,         \* the loop's place in its pass
  budget      \* refusals the stack has left

radio == <<on_air, conn, adv_ended>>
payload == <<dynamic, staged, adv_pub>>
nordicBleVars == <<ctrl, adv_data, radio, payload, half, fast, boost, restart, txp, power, pc, budget>>

Adv == INSTANCE AdvControl WITH Msd <- Data \X Data, None <- Silence, held <- adv_data, air <- adv_data,
                                linked <- conn, ended <- adv_ended, late <- FALSE, misled <- FALSE,
                                outdated <- FALSE

\* opendisplay_ble_init(): everything is up before the first request.
NordicBleInit ==
  \E d \in Data :
    /\ ctrl = [Adv!od_adv_control_init EXCEPT !.stack_ready = TRUE, !.desired = TRUE,
                                           !.msd = <<d, d>>, !.payload_dirty = TRUE]
    /\ dynamic = d /\ staged = <<d, d>> /\ adv_pub = FALSE /\ half = d
    /\ adv_data = Silence /\ on_air = Silence /\ conn = FALSE /\ adv_ended = FALSE
    /\ fast = FALSE /\ boost = [on |-> FALSE, left |-> 0] /\ restart = FALSE
    /\ txp = TRUE /\ power = "stale" /\ pc = "process_inputs" /\ budget = MaxRefusals

-----------------------------------------------------------------------------
(* Seams any context may call.                                             *)

\* opendisplay_ble_update_msd(TRUE) after set_dynamic_byte().
Refresh(d) == dynamic' = d /\ staged' = <<d, d>> /\ adv_pub' = TRUE

adv_boost_active == boost.on /\ boost.left > 0

\* Two plain stores.  A caller that interrupts apply_adv_interval() between
\* its test and its clearing of the flag loses the window.
od_adv_app_boost ==
  LET expiring == pc = "process" /\ Adv!Call(ctrl, TRUE) = "start" /\ ~adv_boost_active IN
  boost' \in {[on |-> on, left |-> BOOST] : on \in {TRUE, ~expiring}}

\* Withdraws the intent and remembers to assert it again.
request_adv_restart == ctrl' = [ctrl EXCEPT !.desired = FALSE] /\ restart' = TRUE

-----------------------------------------------------------------------------
(* The other contexts.                                                     *)

\* nfc_apply_field_state() under nfc_callback(): only the field coming on
\* asks for the fast interval.
nfc_callback(d, field) ==
  /\ Refresh(d)
  /\ IF field THEN od_adv_app_boost ELSE UNCHANGED boost
  /\ UNCHANGED <<ctrl, adv_data, radio, half, fast, restart, txp, power, pc, budget>>

\* A central's request ends the advertising, whether or not the connection
\* is made of it.
connected(err) ==
  /\ on_air # Silence
  /\ on_air' = Silence /\ adv_ended' = TRUE /\ conn' = ~err
  /\ IF err THEN od_adv_app_boost ELSE UNCHANGED boost
  /\ UNCHANGED <<ctrl, adv_data, payload, half, fast, restart, txp, power, pc, budget>>

\* No restart here: the intent was never withdrawn.
disconnected ==
  /\ conn
  /\ conn' = FALSE /\ txp' = TRUE /\ power' = "stale" /\ od_adv_app_boost
  /\ UNCHANGED <<ctrl, adv_data, on_air, adv_ended, payload, half, fast, restart, pc, budget>>

Tick ==
  /\ boost.left > 0
  /\ boost' = [boost EXCEPT !.left = @ - 1]
  /\ UNCHANGED <<ctrl, adv_data, radio, payload, half, fast, restart, txp, power, pc, budget>>

-----------------------------------------------------------------------------
(* One pass of opendisplay_ble_process().                                  *)

At(from, to) == pc = from /\ pc' = to

\* The polled inputs and the periodic refresh of main(); buttons and touch
\* also ask for the fast interval.
Input(d, event) ==
  /\ pc = "process_inputs" /\ Refresh(d)
  /\ IF event THEN od_adv_app_boost ELSE UNCHANGED boost
  /\ UNCHANGED <<ctrl, adv_data, radio, half, fast, restart, txp, power, pc, budget>>

\* A configuration command handled by the pipe.
opendisplay_ble_reload_config_from_nvm ==
  /\ pc = "process_inputs"
  /\ txp' = TRUE /\ power' = "stale"
  /\ IF ctrl.active THEN request_adv_restart ELSE UNCHANGED <<ctrl, restart>>
  /\ UNCHANGED <<adv_data, radio, payload, half, fast, boost, pc, budget>>

\* The interval wanted against the one last applied.
opendisplay_ble_advertising_tick ==
  /\ At("process_inputs", "facts")
  /\ IF ctrl.active /\ adv_boost_active # fast
     THEN request_adv_restart
     ELSE UNCHANGED <<ctrl, restart>>
  /\ UNCHANGED <<adv_data, radio, payload, half, fast, boost, txp, power, budget>>

\* connected_count() and the drained end of advertising.
Facts ==
  /\ At("facts", "publish")
  /\ ctrl' = Adv!Published(ctrl) /\ adv_ended' = FALSE
  /\ UNCHANGED <<adv_data, on_air, conn, payload, half, fast, boost, restart, txp, power, budget>>

\* The flag is drained first and the buffer read after it.
Drain ==
  /\ At("publish", IF adv_pub THEN "copy" ELSE "process")
  /\ adv_pub' = FALSE
  /\ half' = IF adv_pub THEN staged[1] ELSE half
  /\ UNCHANGED <<ctrl, adv_data, radio, dynamic, staged, fast, boost, restart, txp, power, budget>>

\* The flag cleared once the copy is done.
MutCopy ==
  /\ At("copy", "process")
  /\ LET p == <<half, staged[2]>> IN
     ctrl' = IF p = ctrl.msd THEN ctrl ELSE [ctrl EXCEPT !.msd = p, !.payload_dirty = TRUE]
  /\ adv_pub' = FALSE
  /\ UNCHANGED <<adv_data, radio, dynamic, staged, half, fast, boost, restart, txp, power, budget>>

\* od_adv_set_payload(): the rest of the copy; an equal payload is dropped.
Copy ==
  /\ At("copy", "process")
  /\ LET p == <<half, staged[2]>> IN
     ctrl' = IF p = ctrl.msd THEN ctrl ELSE [ctrl EXCEPT !.msd = p, !.payload_dirty = TRUE]
  /\ UNCHANGED <<adv_data, radio, payload, half, fast, boost, restart, txp, power, budget>>

\* What Zephyr can answer; a stop of nothing is success there.
Answers(call) ==
  (IF call = "start" /\ conn THEN {} ELSE IF call = "start" /\ on_air # Silence THEN {"already"} ELSE {"ok"})
  \union (IF call # "program" /\ (budget > 0 \/ (call = "start" /\ conn)) THEN {"retry"} ELSE {})
  \union (IF call # "program" /\ budget > 0 THEN {"error"} ELSE {})

\* od_hal_adv_program(), od_hal_adv_start() and od_hal_adv_stop().  The
\* interval is noted only when the stack took it.
Answered(call, answer) ==
  LET done == answer = "ok" IN
  /\ adv_data' = IF call = "program" THEN ctrl.msd ELSE adv_data
  /\ on_air' = IF done /\ call = "stop" THEN Silence
               ELSE IF done /\ call = "start" THEN [msd |-> adv_data, fast |-> adv_boost_active]
               ELSE on_air
  /\ fast' = IF done /\ call = "start" THEN adv_boost_active ELSE fast
  /\ boost' = IF call = "start" /\ ~adv_boost_active THEN [boost EXCEPT !.on = FALSE] ELSE boost
  /\ budget' = IF answer \in {"retry", "error"} /\ ~(call = "start" /\ conn) THEN budget - 1 ELSE budget

Process ==
  /\ At("process", "after")
  /\ LET call == Adv!Call(ctrl, TRUE) IN
     IF call = "none" THEN UNCHANGED <<ctrl, adv_data, on_air, fast, boost, budget>>
     ELSE \E answer \in Answers(call) :
            /\ ctrl' = Adv!Settle(ctrl, call, Adv!classify(answer))
            /\ Answered(call, answer)
  /\ UNCHANGED <<conn, adv_ended, payload, half, restart, txp, power>>

\* The restart forgotten while the stop is still being retried.
MutAsserted ==
  /\ restart' = FALSE
  /\ ctrl' = IF restart /\ ~ctrl.faulted /\ ~ctrl.active THEN [ctrl EXCEPT !.desired = TRUE] ELSE ctrl

\* A restart waits for the stop; a latched fault drops it.
Asserted ==
  /\ restart' = (restart /\ ctrl.active /\ ~ctrl.faulted)
  /\ ctrl' = IF restart /\ ~ctrl.faulted /\ ~ctrl.active THEN [ctrl EXCEPT !.desired = TRUE] ELSE ctrl

\* apply_tx_power() once the advertiser runs; its failure is only logged.
\* Then the restart.
After ==
  /\ At("after", "process_inputs")
  /\ IF ctrl.active /\ ~ctrl.faulted /\ txp
     THEN txp' = FALSE /\ power' \in {"applied", "refused"}
     ELSE UNCHANGED <<txp, power>>
  /\ Asserted
  /\ UNCHANGED <<adv_data, radio, payload, half, fast, boost, budget>>

-----------------------------------------------------------------------------
Pass == opendisplay_ble_advertising_tick \/ Facts \/ Drain \/ Copy \/ Process \/ After

NordicBleNext ==
  \/ \E d \in Data, field \in BOOLEAN : nfc_callback(d, field)
  \/ \E err \in BOOLEAN : connected(err)
  \/ disconnected
  \/ Tick
  \/ \E d \in Data, event \in BOOLEAN : Input(d, event)
  \/ opendisplay_ble_reload_config_from_nvm
  \/ opendisplay_ble_advertising_tick
  \/ Facts
  \/ Drain
  \/ Copy
  \/ Process
  \/ After

NordicBleSpec == NordicBleInit /\ [][NordicBleNext]_nordicBleVars

\* The superloop never stops taking passes.
NordicBleFairSpec == NordicBleSpec /\ WF_nordicBleVars(Pass)

-----------------------------------------------------------------------------
(* Properties.                                                             *)

NordicBleTypeOK ==
  /\ staged \in Data \X Data /\ dynamic \in Data /\ half \in Data
  /\ boost \in [on : BOOLEAN, left : 0 .. BOOST]
  /\ power \in {"stale", "applied", "refused"} /\ budget \in 0 .. MaxRefusals

\* request_adv_restart() withdraws the intent only to assert it again:
\* between passes it is never left withdrawn with nobody due to assert it,
\* except under a latched fault, and the interval the tick compares with
\* (s_adv_interval_is_boost) is the one the radio uses.  A TX power that may
\* differ from the configuration always has its flag (s_adv_txp_pending).
NordicBleInv ==
  /\ NordicBleTypeOK
  /\ ~ctrl.desired => restart \/ ctrl.faulted
  /\ on_air # Silence => on_air.fast = fast
  /\ power = "stale" => txp

\* Once the inputs, the connection and the boost window are quiet and no
\* fault is latched, the device is back on the air with the newest payload,
\* whole, at the slow interval: a callback that rebuilds msd_payload under
\* the loop's copy costs one pass, never the update.
Quiet(d) == dynamic = d /\ ~conn /\ ~ctrl.faulted /\ boost.left = 0
Slow(d) == [msd |-> <<d, d>>, fast |-> FALSE]
AirCatchesUp == \A d \in Data : <>[]Quiet(d) => []<>(on_air = Slow(d))

\* "The live-on-air bytes can never be torn by a concurrent write": what is
\* on the air was built in one piece (s_programmed_msd).
AirNotTorn == on_air # Silence => on_air.msd[1] = on_air.msd[2]
=============================================================================
