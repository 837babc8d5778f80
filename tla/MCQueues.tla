------------------------------ MODULE MCQueues ------------------------------
(***************************************************************************)
(* What a connection rests on: the response queue, the command ring, the   *)
(* loop of the Nordic target between them, and the advertising controller. *)
(*                                                                         *)
(* A behaviour is one of a single component: the variable which says of    *)
(* which, and the variables of the others do not change. They share no     *)
(* state, so the run is the sum of four.                                   *)
(***************************************************************************)
EXTENDS TxQueue, RxRing, NordicPump, AdvControl

VARIABLE which

mcVars == <<which, vars, rxVars, pumpVars, advVars>>

MCInit ==
  /\ which \in {"txq", "rxq", "pump", "adv"}
  /\ Init
  /\ RxInit /\ (which # "rxq" => alive = CHOOSE t \in Tags : TRUE)
  /\ IF which = "pump" THEN PumpInit
     ELSE /\ ble = 0 /\ onAir = 0 /\ link_gen = 0 /\ close = 0 /\ rx = <<>> /\ tx = 0 /\ units = 0
          /\ core = 0 /\ read = 0 /\ flash = 0 /\ main_pc = 0 /\ drained = 0
  /\ AdvInit

MCNext ==
  \/ which = "txq" /\ Next /\ UNCHANGED <<which, rxVars, pumpVars, advVars>>
  \/ which = "rxq" /\ RxNext /\ UNCHANGED <<which, vars, pumpVars, advVars>>
  \/ which = "pump" /\ PumpNext /\ UNCHANGED <<which, vars, rxVars, advVars>>
  \/ which = "adv" /\ AdvNext /\ UNCHANGED <<which, vars, rxVars, pumpVars>>

\* Every component has the fairness of its own specification.
MCSpec ==
  /\ MCInit /\ [][MCNext]_mcVars
  /\ WF_vars(which = "txq" /\ BeginDrain)
  /\ WF_vars(which = "txq" /\ od_txq_process)
  /\ SF_vars(which = "txq" /\ DrainRetire)
  /\ WF_rxVars(which = "rxq" /\ (od_rxq_peek \/ ResetStore))
  /\ WF_rxVars(which = "rxq" /\ od_rxq_consume)
  /\ WF_pumpVars(which = "pump" /\ Main)
  /\ WF_pumpVars(which = "pump" /\ CloseMark)
  /\ SF_pumpVars(which = "pump" /\ TxSent)
  /\ WF_advVars(which = "adv" /\ Facts)
  /\ WF_advVars(which = "adv" /\ od_adv_process(TRUE, Refusals))
  /\ WF_advVars(which = "adv" /\ LateNotice)
  /\ SF_advVars(which = "adv" /\ od_adv_process(TRUE, {}) /\ Call(ctrl, TRUE) # "none")

-----------------------------------------------------------------------------
(* Properties.                                                             *)

\* Nothing stays in a queue for ever: the head of the response queue leaves
\* it, a frame the command ring accepted is consumed or dropped, and the
\* Nordic loop takes every frame out of its ring (od_txq.c, od_rxq.c,
\* opendisplay_pipe.c of the Nordic target).
QueuesDrain == HeadLeaves /\ AcceptedLeaves /\ FrameServed

\* A withdrawn intent silences the radio, a wanted payload gets on the air,
\* and a late end notice does not leave the controller believing in silence
\* (od_adv_process).
AdvSettles == StopHappens /\ Discoverable /\ StaleEndCorrected
=============================================================================
