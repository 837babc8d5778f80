------------------------------ MODULE MCNordic ------------------------------
(***************************************************************************)
(* The Nordic target: the loop with its Bluetooth thread, the panel on its *)
(* SPI bus and the NFC tag.                                                *)
(*                                                                         *)
(* A behaviour is one of a single component: the variable which says of    *)
(* which, and the variables of the others do not change. They share no     *)
(* state, so the run is the sum of three.                                  *)
(***************************************************************************)
EXTENDS NordicPump, NordicPanel, Nfc

VARIABLE which

mcVars == <<which, pumpVars, nordicPanelVars, nfcVars>>

MCInit ==
  /\ which \in {"pump", "panel", "nfc"}
  /\ PumpInit
  /\ NordicPanelInit /\ (which # "panel" => cfg = (CHOOSE c \in Configs : TRUE) /\ ~safe)
  /\ NfcInit /\ (which # "nfc" => target = "silabs")

MCNext ==
  \/ which = "pump" /\ PumpNext /\ UNCHANGED <<which, nordicPanelVars, nfcVars>>
  \/ which = "panel" /\ NordicPanelNext /\ UNCHANGED <<which, pumpVars, nfcVars>>
  \/ which = "nfc" /\ NfcNext /\ UNCHANGED <<which, pumpVars, nordicPanelVars>>

MCSpec == MCInit /\ [][MCNext]_mcVars

-----------------------------------------------------------------------------
(* Properties.                                                             *)

\* Between transfers the panel is without power and its bus released, every
\* piece lands where the stream has it, and a fault of the bus costs one
\* start and no more (opendisplay_display.cpp, od_epd_spi_nrfx.c).  The pins
\* a configuration write renames under a powered panel are excepted, and a
\* START beside a boot render of more than 30 s.
NordicPanelCorrect ==
  /\ [](which = "panel" => PanelOffBetween /\ StreamSent)
  /\ FaultCostsOneStart
=============================================================================
