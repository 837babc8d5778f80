------------------------------ MODULE MCRadio -------------------------------
(***************************************************************************)
(* Protocols over the radio: the pipelined transfer with its selective     *)
(* acknowledgements, and the Bluetooth hosts around the advertising        *)
(* controller, NimBLE on the ESP32 and the Zephyr adapter of the Nordic    *)
(* target.                                                                 *)
(*                                                                         *)
(* A behaviour is one of a single component: the variable which says of    *)
(* which, and the variables of the others do not change. They share no     *)
(* state, so the run is the sum of three.                                  *)
(***************************************************************************)
EXTENDS Pipe, Nimble, NordicBle

VARIABLE which

mcVars == <<which, pipeVars, nimbleVars, nordicBleVars>>

MCInit ==
  /\ which \in {"pipe", "nimble", "zephyr"}
  /\ IF which = "pipe" THEN PipeInit
     ELSE /\ mode = "idle" /\ kind = 0 /\ window = 0 /\ ack_every = 0 /\ expected_seq = 0
          /\ has_received = 0 /\ highest_seen = 0 /\ received_count = 0
          /\ frames_since_ack = 0 /\ ooo_acks_since_gap = 0 /\ gap_open = 0
          /\ queued_count = 0 /\ reorder = 0 /\ written = 0 /\ acked = 0 /\ next = 0
          /\ sacks = 0 /\ lost = 0 /\ starts = 0 /\ faults = {}
  /\ IF which = "nimble" THEN NimbleInit
     ELSE /\ inited = FALSE /\ ready = 0 /\ id_seq = 0 /\ addr = 0 /\ adv = 0 /\ conns = 0
          /\ ended = 0 /\ job = 0 /\ host = 0 /\ writer = 0 /\ evq = 0
          /\ ctl = 0 /\ air = None /\ held = 0 /\ link = 0 /\ pub = 0 /\ resets = 0
  /\ IF which = "zephyr" THEN NordicBleInit
     ELSE /\ ctrl = 0 /\ adv_data = 0 /\ on_air = Silence /\ conn = 0 /\ adv_ended = 0
          /\ dynamic = 0 /\ staged = 0 /\ adv_pub = 0 /\ half = 0 /\ fast = 0 /\ boost = 0
          /\ restart = 0 /\ txp = 0 /\ power = 0 /\ pc = 0 /\ budget = 0

MCNext ==
  \/ which = "pipe" /\ PipeNext /\ UNCHANGED <<which, nimbleVars, nordicBleVars>>
  \/ which = "nimble" /\ NimbleNext /\ UNCHANGED <<which, pipeVars, nordicBleVars>>
  \/ which = "zephyr" /\ NordicBleNext /\ UNCHANGED <<which, pipeVars, nimbleVars>>

\* Every component has the fairness of its own specification.
MCSpec ==
  /\ MCInit /\ [][MCNext]_mcVars
  /\ WF_pipeVars(which = "pipe" /\ faults = {} /\ \E k \in {Base} : k < Chunks /\ Send(k))
  /\ WF_pipeVars(which = "pipe" /\ faults = {} /\ Hear)
  /\ WF_pipeVars(which = "pipe" /\ faults = {} /\ End)
  /\ WF_nimbleVars(which = "nimble" /\ Loop)
  /\ WF_nimbleVars(which = "nimble" /\ HostTask)
  /\ SF_nimbleVars(which = "nimble" /\ serviceAdvertising(TRUE))
  /\ WF_nordicBleVars(which = "zephyr" /\ Pass)

-----------------------------------------------------------------------------
(* Properties.                                                             *)

\* The selective-repeat receiver: chunks reach the panel in order, an
\* acknowledged chunk is consumed or held and nothing fails on a link that
\* only loses, reorders or duplicates, as long as no stored frame was
\* displaced from its slot across the wrap of the sequence byte, and a
\* transfer that is done is whole in any case (od_pipe.c).
PipeSafe == which = "pipe" => PipeInv /\ AckedIsHeld /\ DoneIsWhole

\* NimbleInv: the loop takes over a whole identity or none, the count of
\* connections is that of the stack once its events are handled, and end()
\* leaves nothing of the transport behind (od_ble_nimble.cpp).
NimbleSafe == which = "nimble" => NimbleInv

\* NordicBleInv: intent is withdrawn only for a restart or a fault, the
\* interval on the air is the one recorded, and a TX power that lags its
\* configuration is still owed (opendisplay_ble.c of the Nordic target).
ZephyrSafe == which = "zephyr" => NordicBleInv

\* AirCatchesUp, for the behaviours of the adapter: with no connection, no
\* latched fault and the boost over, the air carries the data of the last
\* update at the slow interval (update_msd, od_adv_process).
ZephyrCatchesUp ==   \A d \in Data : <>[](which = "zephyr" /\ Quiet(d)) => []<>(on_air = Slow(d))
=============================================================================
