------------------------------ MODULE MCSilabs ------------------------------
(***************************************************************************)
(* The event loop of the BG22 target; and the configuration, its uploads   *)
(* and its storage on all three targets.                                   *)
(*                                                                         *)
(* A behaviour is one of a single component: the variable which says of    *)
(* which, and the variables of the others do not change. They share no     *)
(* state, so the run is the sum of two.  The BG22 starts with p1 as its    *)
(* rail and may be given any other.                                        *)
(***************************************************************************)
EXTENDS SilabsPump, ConfigWrite

VARIABLE which

mcVars == <<which, silabsVars, configVars>>

MCInit ==
  /\ which \in {"pump", "config"}
  /\ SilabsInit /\ core.cfg.pin = "p1" /\ (which = "config" => core.cfg.secure)
  /\ IF which = "config" THEN ConfigInit
     ELSE /\ target = 0 /\ asm = 0 /\ medium = 0 /\ cache = 0 /\ running = 0 /\ session = 0
          /\ doubt = 0

MCNext ==
  \/ which = "pump" /\ SilabsNext /\ UNCHANGED <<which, configVars>>
  \/ which = "config" /\ ConfigNext /\ UNCHANGED <<which, silabsVars>>

MCSpec == MCInit /\ [][MCNext]_mcVars

-----------------------------------------------------------------------------
(* Properties.                                                             *)

\* On the BG22 every reply fits, no event is left deferred, no connection
\* inherits the state of the one before, and the panel has no power without
\* a transfer unless the configuration changed under it (opendisplay_pipe.c,
\* opendisplay_ble.c, opendisplay_display.cpp).
SilabsSafe == which = "pump" => PumpInv /\ NoInheritance /\ RailsOff

\* Only whole records are stored, an open upload can be finished, the cache
\* is the medium, and a boot changes nothing of the running configuration
\* (od_cmd_config.c and the storage of each target).
ConfigSafe ==
  which = "config" =>
    /\ StorageInv /\ StoredIsWhole
    /\ CanFinish /\ BootChangesNothing
=============================================================================
