----------------------------- MODULE MCDevices ------------------------------
(***************************************************************************)
(* Devices that the main loop serves: the touch controller, the LED, the   *)
(* buttons and the field detector.                                         *)
(*                                                                         *)
(* A behaviour is one of a single component: the variable which says of    *)
(* which, and the variables of the others do not change. They share no     *)
(* state, so the run is the sum of three.                                  *)
(***************************************************************************)
EXTENDS Touch, Led, Inputs

VARIABLE which

\* One controller, whose interrupt pin a write may move or remove.
MCPinsOf == <<{"p1", "p2", "none"}>>

\* Loops with and without delays and gaps, empty loops, all loops empty; one
\* round, two rounds, for ever.
Pat(n, d, g, r) == [c |-> <<1, 2, 3>>, n |-> n, d |-> d, g |-> g, rep |-> r]
MCPatterns ==
  {Pat(<<2, 1, 1>>, <<1, 0, 0>>, <<0, 1, 0>>, 1), Pat(<<0, 0, 0>>, <<0, 0, 0>>, <<0, 0, 0>>, 0),
   Pat(<<1, 0, 2>>, <<0, 0, 1>>, <<1, 0, 2>>, 0), Pat(<<0, 1, 0>>, <<0, 0, 0>>, <<0, 0, 1>>, Byte - 2)}

\* Two buttons, of one instance or of two; a ladder of two buttons.
MCPressed == [t \in Targets |-> {1, 2}]
MCLayouts == {<<0, 0>>, <<0, 1>>}
MCThresholds == <<2, 1, 0>>

mcVars == <<which, touchVars, ledVars, inputsVars>>

MCInit ==
  /\ which \in {"touch", "led", "inputs"}
  /\ IF which = "touch" THEN TouchInit
     ELSE /\ part = [i \in C |-> "none"] /\ rt = 0 /\ cfg = 0 /\ paired = 0 /\ isr = 0 /\ irq = 0
          /\ due = 0 /\ timed = 0 /\ suspend = 0 /\ aired = 0 /\ told = 0 /\ at = 0 /\ used = 0
  /\ IF which = "led" THEN LedInit
     ELSE /\ run = [active |-> FALSE] /\ stored = 0 /\ led_count = 0 /\ led_timed = 0
          /\ running = 0 /\ led_armed = 0 /\ led_due = 0 /\ reached = 0 /\ out = 0 /\ pos = 0
          /\ rounds = 0 /\ ended = 0 /\ led_used = 0
  /\ IF which = "inputs" THEN InputsInit
     ELSE /\ target = "none" /\ mode = "none" /\ latest = [i \in Bytes |-> 0] /\ index = 0 /\ slow = 0 /\ armed = 0
          /\ level = 0 /\ button_irq = 0 /\ cs = 0 /\ count = 0 /\ byte = 0 /\ dirty = 0
          /\ last = 0 /\ pc = 0 /\ tmp = 0 /\ air = 0 /\ linked = 0 /\ adc = 0 /\ lad = 0
          /\ fld = 0 /\ fs = 0 /\ fbyte = 0 /\ fair = 0 /\ fpc = 0 /\ raced = 0 /\ moves = 0

MCNext ==
  \/ which = "touch" /\ TouchNext /\ UNCHANGED <<which, ledVars, inputsVars>>
  \/ which = "led" /\ LedNext /\ UNCHANGED <<which, touchVars, inputsVars>>
  \/ which = "inputs" /\ InputsNext /\ UNCHANGED <<which, touchVars, ledVars>>

\* Every component has the fairness of its own specification.
MCSpec ==
  /\ MCInit /\ [][MCNext]_mcVars
  /\ WF_touchVars(which = "touch" /\ Walk)
  /\ WF_touchVars(which = "touch" /\ Tick(C))
  /\ WF_touchVars(which = "touch" /\ od_touch_gt911_resume)
  /\ WF_ledVars(which = "led" /\ led_timer_cb)
  /\ WF_ledVars(which = "led" /\ Time)
  /\ WF_ledVars(which = "led" /\ opendisplay_led_process)
  /\ WF_ledVars(which = "led" /\ processLedFlash)
  /\ WF_inputsVars(which = "inputs" /\ od_button_irq_callback(1))
  /\ WF_inputsVars(which = "inputs" /\ od_button_irq_callback(2))
  /\ WF_inputsVars(which = "inputs" /\ handleButtonISR(1))
  /\ WF_inputsVars(which = "inputs" /\ handleButtonISR(2))
  /\ WF_inputsVars(which = "inputs" /\ Window)
  /\ WF_inputsVars(which = "inputs" /\ od_publish_button_msd)
  /\ WF_inputsVars(which = "inputs" /\ build_and_apply_adv)
  /\ WF_inputsVars(which = "inputs" /\ periodic_refresh)
  /\ WF_inputsVars(which = "inputs" /\ processButtonEvents)
  /\ WF_inputsVars(which = "inputs" /\ ReadPin)
  /\ WF_inputsVars(which = "inputs" /\ updatemsdata)
  /\ WF_inputsVars(which = "inputs" /\ opendisplay_button_process)
  /\ WF_inputsVars(which = "inputs" /\ ble_service_advertising)
  /\ WF_inputsVars(which = "inputs" /\ pollAdcButtons)
  /\ WF_inputsVars(which = "inputs" /\ od_nfc_field_detect_process)
  /\ WF_inputsVars(which = "inputs" /\ opendisplay_nfc_process)
  /\ WF_inputsVars(which = "inputs" /\ ApplyPending)

-----------------------------------------------------------------------------
(* Properties.                                                             *)

\* No interrupt handler stays on a pin its controller has given up, a
\* controller believed to have a trigger has one, the air carries the last
\* contact, and a report is picked up (od_touch_gt911.c).
TouchCorrect ==
  /\ [](which = "touch" => NoOrphan /\ TriggerLive /\ AiredIsLast)
  /\ ReportServed

\* A run puts out its pattern, call after call, and a finite pattern ends
\* (od_led.c).
LedCorrect == [](which = "led" => PatternPlayed) /\ FinitePatternEnds

\* The last event of a byte of BG22 buttons is not lost between its handler
\* and the air, and once the inputs stop moving the air says what they are
\* (opendisplay_button.c, od_nfc_field_detect_process, pollAdcButtons).
InputsCorrect == [](which = "inputs" => ButtonsCurrent) /\ InputsSettle
=============================================================================
