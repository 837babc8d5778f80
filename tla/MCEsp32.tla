------------------------------ MODULE MCEsp32 -------------------------------
(***************************************************************************)
(* The ESP32 target: link ownership and the main loop, the panel, the      *)
(* power latch, and Wi-Fi with the LAN service.                            *)
(*                                                                         *)
(* A behaviour is one of a single component: the variable which says of    *)
(* which, and the variables of the others do not change. They share no     *)
(* state, so the run is the sum of four.                                   *)
(***************************************************************************)
EXTENDS Esp32Link, Esp32Panel, PowerLatch, Wifi

VARIABLE which

MCButtons == {{[pin |-> 5, inverted |-> TRUE, power_off |-> TRUE]},
              {[pin |-> 5, inverted |-> FALSE, power_off |-> FALSE],
               [pin |-> 2, inverted |-> FALSE, power_off |-> FALSE]},
              {[pin |-> 3, inverted |-> FALSE, power_off |-> TRUE],
               [pin |-> 6, inverted |-> TRUE, power_off |-> FALSE]}}

MCBoards ==
  {b \in [flags : {{}, {"battery"}, {"dff"}, {"battery", "dff"}},
          pwr2 : {TRUE}, pwr3 : BOOLEAN, buttons : MCButtons,
          soc : {"gpio", "classic", "s3"}, wakeable : {{2, 3, 5, 6}},
          usb : BOOLEAN, optOut : {FALSE}, battery : {TRUE}] :
     b.usb => b.soc = "gpio"}

mcVars == <<which, linkVars, panelVars, latchVars, wifiVars>>

MCInit ==
  /\ which \in {"link", "panel", "latch", "wifi"}
  /\ IF which = "link" THEN LinkInit
     ELSE /\ epoch = 0 /\ owner = 0 /\ base = 0 /\ inst = 0 /\ link = 0 /\ cb = 0 /\ discEv = 0
          /\ adv = 0 /\ rx = 0 /\ tx = 0 /\ core = 0 /\ abuse = 0 /\ lan = 0 /\ lanIn = 0 /\ wifi = 0
          /\ cleanup = 0 /\ advPending = 0 /\ woke = 0 /\ drained = 0 /\ scan = 0
          /\ pc = [at |-> "none"] /\ silent = 0
  /\ IF which = "panel" THEN PanelInit
     ELSE /\ drv = 0 /\ packed = 0 /\ keep = 0 /\ pwr = 0 /\ expired = 0 /\ xapp = 0
          /\ touch = 0 /\ ram = 0 /\ wp = 0 /\ hw = 0 /\ glass = 0 /\ etag = 0 /\ stale = 0 /\ pic = 0
          /\ astray = 0 /\ used = 0
  /\ IF which = "latch" THEN LatchInit
     ELSE /\ mode = "none" /\ board = 0 /\ level = 0 /\ drive = 0 /\ q = 0 /\ press = 0 /\ armed = 0
          /\ ext0 = 0 /\ window = 0 /\ wokeBy = 0 /\ sleeps = 0 /\ asked = 0 /\ own = 0
          /\ moved = 0 /\ awake = 0
  /\ IF which = "wifi" THEN WifiInit
     ELSE /\ wifi_cfg = 0 /\ sta = 0 /\ cache = 0 /\ station = 0 /\ evq = 0
          /\ lan_server = 0 /\ tls = 0 /\ mdns = 0 /\ wifi_pc = 0 /\ writes = 0

MCNext ==
  \/ which = "link" /\ LinkNext /\ UNCHANGED <<which, panelVars, latchVars, wifiVars>>
  \/ which = "panel" /\ PanelNext /\ UNCHANGED <<which, linkVars, latchVars, wifiVars>>
  \/ which = "latch" /\ LatchNext /\ UNCHANGED <<which, linkVars, panelVars, wifiVars>>
  \/ which = "wifi" /\ WifiNext /\ UNCHANGED <<which, linkVars, panelVars, latchVars>>

MCSpec == MCInit /\ [][MCNext]_mcVars

-----------------------------------------------------------------------------
(* Properties.                                                             *)

\* Of a Bluetooth and a LAN client at most one owns the device: only its
\* state is in the core, the winner is never the one refused, no notice of
\* a disconnect is lost, the device sleeps clean, and an owner is dropped
\* for idleness only when it was idle (link_owner.cpp, session_guard.cpp,
\* main.cpp).
Esp32LinkCorrect ==
  /\ [](which = "link" =>
          LinkInv /\ OwnerOnly /\ WinnerKept /\ SleepIsClean /\ NoticesKept)
  /\ IdleDropJustified

\* The panel is held exactly while a transfer has it, every byte lands
\* where the stream has it, and on the bb_epaper path the etag names what
\* the glass shows, unless a full refresh without an etag timed out
\* (display_service.cpp, od_xfer_direct.c).
Esp32PanelSafe == which = "panel" => PanelHeld /\ StreamLands /\ GlassIsEtag

\* A device that runs or sleeps keeps the latch that powers it, but for a
\* clock edge in the boot's engage, a wake that counts as a press is one, and
\* it is not slept away in the minimum awake window (power_latch.cpp).
PowerCorrect == [](which = "latch" => PowerKept) /\ WakeIsAPress

\* The LAN listener is the one the configuration asks for unless Wi-Fi was
\* just turned off, it agrees with its record and its client's session, and
\* a station that should be connected is, or has asked to be
\* (wifi_service.cpp).
WifiSafe == which = "wifi" => WifiInv /\ StationAsks
=============================================================================
