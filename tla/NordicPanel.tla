----------------------------- MODULE NordicPanel -----------------------------
(***************************************************************************)
(* The Nordic display service: the panel rail and signal pins, the SPIM    *)
(* bus behind them (od_epd_spi_nrfx.c) with its completion interrupt and   *)
(* its latched fault, the boot render, and the hooks the transfer core     *)
(* calls.  The core is the environment: it calls the hooks in the order    *)
(* od_xfer.c does, and drops the transfer when one of them fails.          *)
(*                                                                         *)
(* A hook that talks to the panel makes one bus transfer here for the many *)
(* it makes in the code; thread, DMA and interrupt interleave inside it.   *)
(* The rest of a hook is one step: the hooks run on one thread.  The boot  *)
(* render has a thread of its own.  opendisplay_ble_init lets no command   *)
(* in until it is over or 30 s have passed; a START that comes before the  *)
(* end of a longer render shares the panel's state with it and no lock.    *)
(* The model records that they met and does not follow them further: only  *)
(* the configuration may change under the render.  The sleep command of    *)
(* xfer_app_clear is left out: the bus is released and its fault forgotten *)
(* right after it.                                                         *)
(***************************************************************************)
EXTENDS Integers

CONSTANTS
    P,          \* units of one controller plane
    MaxReload,  \* configuration writes
    NoPin       \* pwr_pin 0xFF

ASSUME NordicPanelAssumption == P \in Nat \ {0} /\ MaxReload \in Nat /\ NoPin \notin {1, 2}

VARIABLES
    cfg,      \* configuration: a display, its rail pin, its bus pins and what they can carry
    safe,     \* od_watchdog_app_safe_mode()
    hw,       \* the power pins driven high, the signal pins, the bus, and the power pins
              \* (orphan) and signal pins (loose) a configuration write took from under a
              \* powered panel
    xapp,     \* s_xfer_app, the core's stream offset and the controller's write pointer
    call,     \* the hook that is running and where it is in its bus transfer
    boot,     \* attempts of the boot render so far; Over when it is done with
    door,     \* "held" while opendisplay_ble_init waits for the render, "open" once it has
              \* returned, "met" when a START came beside the render
    astray,   \* a unit was stored where it does not belong, or counted sent while in flight
    reloads   \* configuration writes so far

nordicPanelVars == <<cfg, safe, hw, xapp, call, boot, door, astray, reloads>>

Over == 3
Pairs == {1, 2}
Configs == [disp : BOOLEAN, pin : {1, 2, NoPin}, pair : Pairs, route : {"spim", "bitbang", "bad"}]
Idle == [mode |-> "idle", planes |-> FALSE, plane |-> 2, off |-> 0, up |-> FALSE,
         wplane |-> 2, wpos |-> 0]
NoCall == [op |-> "none", bus |-> "over", left |-> 0, piece |-> 0]

NordicPanelInit ==
    /\ cfg \in Configs /\ safe \in BOOLEAN
    /\ hw = [rail |-> {}, orphan |-> {}, loose |-> {}, sig |-> [p \in Pairs |-> "parked"],
             spi |-> [backend |-> "none", pair |-> 0, faulted |-> FALSE, wait |-> FALSE,
                      dma |-> "idle", irq |-> "none", sem |-> "empty"]]
    /\ xapp = Idle /\ call = NoCall /\ boot = 0 /\ door = "held"
    /\ astray = FALSE /\ reloads = 0

-----------------------------------------------------------------------------
(* The bus *)

(* release_initialized_spim: stop the DMA, forget the END event, the       *)
(* pending interrupt and the semaphore.                                    *)
Release(s) ==
    [s EXCEPT !.backend = "none", !.wait = FALSE, !.dma = "idle", !.irq = "none",
              !.sem = "empty"]

od_epd_spi_deinit(s) ==
    CASE s.backend = "none" -> s
      [] s.backend = "bitbang" -> [s EXCEPT !.backend = "none"]
      [] s.backend = "spim" -> Release(s)

od_epd_spi_fault_reset(s) ==
    IF s.backend # "none" THEN s
    ELSE [s EXCEPT !.wait = FALSE, !.irq = "none", !.sem = "empty", !.faulted = FALSE]

(* The bus after an acquisition, and whether it succeeded.  A latched      *)
(* fault refuses it; nrfx_spim_init may fail and latch one.                *)
od_epd_spi_init(s) ==
    LET t == IF s.backend # "none" /\ s.pair # cfg.pair THEN od_epd_spi_deinit(s) ELSE s
        got(b) == [t EXCEPT !.backend = b, !.pair = cfg.pair]
    IN  IF s.faulted THEN {<<s, FALSE>>}
        ELSE IF t.backend # "none" THEN {<<t, TRUE>>}
        ELSE CASE cfg.route = "bad" -> {<<t, FALSE>>}
               [] cfg.route = "bitbang" -> {<<got("bitbang"), TRUE>>, <<t, FALSE>>}
               [] cfg.route = "spim" -> {<<got("spim"), TRUE>>,
                                         <<[t EXCEPT !.faulted = TRUE], FALSE>>}

Spi(s) == hw' = [hw EXCEPT !.spi = s]
Bus(b) == call' = [call EXCEPT !.bus = b]

(* A bus write is called.  It is refused on a faulted or released bus; on  *)
(* GPIO it is over at once; on SPIM it starts the DMA, or fails to.        *)
od_epd_spi_write ==
    /\ call.bus = "ready"
    /\ LET s == [hw.spi EXCEPT !.sem = "empty", !.irq = IF @ = "none" THEN @ ELSE "old"] IN
       IF hw.spi.faulted \/ hw.spi.backend # "spim" THEN Bus("over") /\ UNCHANGED hw
       ELSE \/ Bus("wait") /\ Spi([s EXCEPT !.wait = TRUE, !.dma = "busy"])
            \/ Bus("over") /\ Spi([s EXCEPT !.wait = FALSE, !.faulted = TRUE])
    /\ UNCHANGED <<cfg, safe, xapp, boot, door, astray, reloads>>

(* The hardware finishes the chunk and raises its interrupt. *)
DmaEnds ==
    /\ hw.spi.dma = "busy"
    /\ Spi([hw.spi EXCEPT !.dma = "idle", !.irq = "new"])
    /\ UNCHANGED <<cfg, safe, xapp, call, boot, door, astray, reloads>>

(* The interrupt is served: it wakes the writer only while one waits. *)
event_handler ==
    /\ hw.spi.irq # "none" /\ hw.spi.backend = "spim"
    /\ Spi([hw.spi EXCEPT !.irq = "none", !.wait = FALSE,
                          !.sem = IF hw.spi.wait THEN hw.spi.irq ELSE @])
    /\ UNCHANGED <<cfg, safe, xapp, call, boot, door, astray, reloads>>

(* k_sem_take returns with the semaphore: the chunk counts as sent. *)
ChunkDone ==
    /\ call.bus = "wait" /\ hw.spi.sem # "empty"
    /\ Bus("over") /\ Spi([hw.spi EXCEPT !.sem = "empty", !.wait = FALSE])
    /\ astray' = (astray \/ hw.spi.dma = "busy")
    /\ UNCHANGED <<cfg, safe, xapp, boot, door, reloads>>

(* k_sem_take times out.  The interrupt can still come before the thread   *)
(* has cleared s_wait_active and released the bus.                         *)
ChunkTimesOut ==
    /\ call.bus = "wait" /\ hw.spi.sem = "empty"
    /\ Bus("late")
    /\ UNCHANGED <<cfg, safe, hw, xapp, boot, door, astray, reloads>>

ChunkAbandoned ==
    /\ call.bus = "late"
    /\ Bus("over") /\ Spi(od_epd_spi_deinit([hw.spi EXCEPT !.wait = FALSE, !.faulted = TRUE]))
    /\ UNCHANGED <<cfg, safe, xapp, boot, door, astray, reloads>>

-----------------------------------------------------------------------------
(* Power *)

RailOff(h) ==
    [h EXCEPT !.rail = @ \ {cfg.pin}, !.orphan = @ \ {cfg.pin},
              !.loose = IF cfg.disp THEN @ \ {cfg.pair} ELSE @,
              !.sig = IF ~cfg.disp THEN @
                      ELSE [@ EXCEPT ![cfg.pair] = IF cfg.pin = NoPin THEN "low" ELSE "parked"]]

MutPowerOff(h) ==
    IF cfg.pin = NoPin THEN RailOff(h)
    ELSE [RailOff(h) EXCEPT !.spi = od_epd_spi_deinit(h.spi)]

(* display_power_set(false): the bus is released first, whatever the       *)
(* configuration says now.                                                 *)
PowerOff(h) == [RailOff(h) EXCEPT !.spi = od_epd_spi_deinit(h.spi)]

PowerOn(h) ==
    [h EXCEPT !.rail = IF cfg.pin = NoPin THEN @ ELSE @ \cup {cfg.pin},
              !.orphan = @ \ {cfg.pin},
              !.loose = IF cfg.disp THEN @ \ {cfg.pair} ELSE @,
              !.sig = IF cfg.disp THEN [@ EXCEPT ![cfg.pair] = "driven"] ELSE @]

(* The recovery boundary: the bus is released and its fault forgotten. *)
Recovered(h) == [h EXCEPT !.spi = od_epd_spi_fault_reset(od_epd_spi_deinit(@))]

xfer_app_clear(h) == Recovered(IF xapp.up THEN PowerOff(h) ELSE h)

(* What a hook does before its first bus write: power the panel, look up   *)
(* its type and acquire the bus.  Each may fail, and a failure after the   *)
(* rail rose takes it down again.                                          *)
Prepared(h) ==
    LET on == PowerOn(h) IN
    IF safe THEN {<<h, FALSE>>}
    ELSE {<<PowerOff(on), FALSE>>}
         \cup {IF r[2] THEN <<[on EXCEPT !.spi = r[1]], TRUE>>
               ELSE <<PowerOff([on EXCEPT !.spi = r[1]]), FALSE>> : r \in od_epd_spi_init(h.spi)}

NothingRuns == boot = Over /\ door = "open" /\ call = NoCall
Ready(op, left) == [op |-> op, bus |-> "ready", left |-> left, piece |-> 0]

(* opendisplay_display_boot_apply: at most two attempts, each powering the *)
(* panel down again whatever came of it.  A fault it latches stays.        *)
opendisplay_display_boot_apply ==
    /\ boot < 2 /\ call = NoCall
    /\ IF safe \/ ~cfg.disp THEN boot' = Over /\ UNCHANGED <<hw, call>>
       ELSE \/ boot' = Over /\ UNCHANGED <<hw, call>>     \* clear on boot, or no such panel
            \/ /\ boot' = boot + 1
               /\ \E r \in Prepared(hw) :
                    /\ hw' = r[1]
                    /\ call' = IF r[2] THEN Ready("boot", 0) ELSE call
    /\ UNCHANGED <<cfg, safe, xapp, door, astray, reloads>>

(* The attempt is over: faulted before the refresh, refreshed, or not. *)
BootAttemptOver ==
    /\ call.op = "boot" /\ call.bus = "over"
    /\ hw' = PowerOff(hw) /\ call' = NoCall
    /\ \E shown \in BOOLEAN :
          /\ hw.spi.faulted => ~shown
          /\ boot' = IF shown THEN Over ELSE boot
    /\ UNCHANGED <<cfg, safe, xapp, door, astray, reloads>>

BootGivesUp ==
    /\ boot = 2 /\ call = NoCall
    /\ boot' = Over
    /\ UNCHANGED <<cfg, safe, hw, xapp, call, door, astray, reloads>>

(* opendisplay_ble_init goes on to advertise: s_boot_display_done was      *)
(* given, or 30 s have passed.                                             *)
opendisplay_ble_init ==
    /\ door = "held" /\ door' = "open"
    /\ UNCHANGED <<cfg, safe, hw, xapp, call, boot, astray, reloads>>

(* A START beside a render that has outlasted the 30 s. *)
StartMeetsRender ==
    /\ door = "open" /\ boot # Over /\ door' = "met"
    /\ UNCHANGED <<cfg, safe, hw, xapp, call, boot, astray, reloads>>

-----------------------------------------------------------------------------
(* The hooks of the transfer core *)

(* START: an open transfer is cleared; without a display it ends there.    *)
(* A hook that fails has the core call od_xfer_app_abort.                  *)
Begin(op) ==
    /\ NothingRuns
    /\ LET h == IF xapp.mode = "idle" THEN hw ELSE xfer_app_clear(hw) IN
       IF ~cfg.disp THEN hw' = h /\ xapp' = Idle /\ UNCHANGED call
       ELSE \E r \in Prepared(h) :
              /\ xapp' = Idle
              /\ hw' = IF r[2] THEN r[1] ELSE Recovered(r[1])
              /\ call' = IF r[2] THEN Ready(op, 0) ELSE NoCall
    /\ UNCHANGED <<cfg, safe, boot, door, astray, reloads>>

(* The hook's bus writes are over: the transfer is open, or the panel is   *)
(* powered down and the core aborts.                                       *)
Began(op, x) ==
    /\ call.op = op /\ call.bus = "over"
    /\ IF hw.spi.faulted
       THEN xapp' = Idle /\ hw' = Recovered(PowerOff(hw))
       ELSE xapp' = x /\ UNCHANGED hw
    /\ call' = NoCall
    /\ UNCHANGED <<cfg, safe, boot, door, astray, reloads>>

od_xfer_app_begin_full ==
    \/ Begin("full")
    \/ \E planes \in BOOLEAN, p \in {0, 1} :
          /\ planes => p = 0
          /\ Began("full", [mode |-> "full", planes |-> planes, plane |-> p, off |-> 0,
                            up |-> TRUE, wplane |-> p, wpos |-> 0])

od_xfer_app_begin_partial ==
    \/ Begin("partial")
    \/ Began("partial", [Idle EXCEPT !.mode = "partial", !.planes = TRUE, !.up = TRUE])

Total == IF xapp.planes THEN 2 * P ELSE P

(* The plane unit u of the stream belongs to; what a partial sends first   *)
(* is the old image.                                                       *)
PlaneOf(u) ==
    IF ~xapp.planes THEN xapp.plane
    ELSE IF (u < P) = (xapp.mode = "full") THEN 0 ELSE 1

(* A piece ends with its plane. *)
Piece(u, left) ==
    LET end == IF u < P THEN P ELSE 2 * P IN IF left < end - u THEN left ELSE end - u

(* The next piece of a write: a change of plane selects it, and for a      *)
(* partial image sets the window again, before the units follow.           *)
NextPiece(left) ==
    LET p == PlaneOf(xapp.off)
        turn == xapp.plane # p
        pos == IF turn /\ xapp.mode = "partial" THEN 0 ELSE xapp.wpos
        n == Piece(xapp.off, left)
    IN  /\ xapp' = [xapp EXCEPT !.plane = p, !.wplane = IF turn THEN p ELSE @, !.wpos = pos]
        /\ call' = [op |-> "write", bus |-> "ready", left |-> left, piece |-> n]
        /\ astray' = (astray \/ xapp'.wplane # p \/ pos # xapp.off % P \/ pos + n > P)

od_xfer_app_write ==
    /\ NothingRuns /\ xapp.mode # "idle"
    /\ \E n \in 1 .. Total - xapp.off : NextPiece(n)
    /\ UNCHANGED <<cfg, safe, hw, boot, door, reloads>>

(* A piece is on the panel, or the bus faulted: the write then returns 0   *)
(* and the core aborts.                                                    *)
PieceWritten ==
    /\ call.op = "write" /\ call.bus = "over"
    /\ IF hw.spi.faulted
       THEN /\ xapp' = Idle /\ hw' = xfer_app_clear(hw) /\ call' = NoCall
            /\ UNCHANGED astray
       ELSE /\ xapp' = [xapp EXCEPT !.off = @ + call.piece, !.wpos = (@ + call.piece) % P]
            /\ call' = IF call.left = call.piece THEN NoCall
                       ELSE [call EXCEPT !.op = "more", !.left = @ - call.piece]
            /\ UNCHANGED <<hw, astray>>
    /\ UNCHANGED <<cfg, safe, boot, door, reloads>>

NextPieceOfWrite ==
    /\ call.op = "more"
    /\ NextPiece(call.left)
    /\ UNCHANGED <<cfg, safe, hw, boot, door, reloads>>

(* The refresh commands go out. *)
od_xfer_app_refresh ==
    /\ NothingRuns /\ xapp.mode # "idle"
    /\ call' = Ready("refresh", 0)
    /\ UNCHANGED <<cfg, safe, hw, xapp, boot, door, astray, reloads>>

(* The refresh ran or timed out: the panel sleeps and goes off.  The sleep *)
(* command may itself latch a fault, and nothing here forgets one.         *)
Refreshed ==
    /\ call.op = "refresh" /\ call.bus = "over"
    /\ \E bad \in {hw.spi.faulted, TRUE} :
          hw' = PowerOff([hw EXCEPT !.spi.faulted = @ \/ (bad /\ hw.spi.backend = "spim")])
    /\ xapp' = Idle /\ call' = NoCall
    /\ UNCHANGED <<cfg, safe, boot, door, astray, reloads>>

(* od_xfer_app_abort and od_xfer_app_barrier_abort, for an open transfer. *)
od_xfer_app_abort ==
    /\ NothingRuns /\ xapp.mode # "idle"
    /\ hw' = xfer_app_clear(hw) /\ xapp' = Idle
    /\ UNCHANGED <<cfg, safe, call, boot, door, astray, reloads>>

(* A configuration write replaces the configuration, a transfer open or    *)
(* not, the boot render over or not; the pins it drove stay as they are.   *)
opendisplay_ble_reload_config_from_nvm ==
    /\ NothingRuns \/ (door = "open" /\ boot # Over)
    /\ reloads < MaxReload
    /\ reloads' = reloads + 1
    /\ \E c \in Configs :
          /\ cfg' = c
          /\ hw' = [hw EXCEPT !.orphan = @ \cup (hw.rail \ {c.pin}),
                              !.loose = @ \cup {p \in Pairs : hw.sig[p] = "driven"
                                                             /\ ~(c.disp /\ c.pair = p)}]
    /\ UNCHANGED <<safe, xapp, call, boot, door, astray>>

NordicPanelNext ==
  /\ door # "met"
  /\ \/ opendisplay_display_boot_apply \/ BootAttemptOver \/ BootGivesUp
     \/ opendisplay_ble_init \/ StartMeetsRender
     \/ od_epd_spi_write \/ DmaEnds \/ event_handler
     \/ ChunkDone \/ ChunkTimesOut \/ ChunkAbandoned
     \/ od_xfer_app_begin_full \/ od_xfer_app_begin_partial
     \/ od_xfer_app_write \/ PieceWritten \/ NextPieceOfWrite
     \/ od_xfer_app_refresh \/ Refreshed \/ od_xfer_app_abort
     \/ opendisplay_ble_reload_config_from_nvm

NordicPanelSpec == NordicPanelInit /\ [][NordicPanelNext]_nordicPanelVars

-----------------------------------------------------------------------------

(* Between two hooks the panel is powered exactly while a transfer is      *)
(* open, and the bus is held exactly then: no early return of a hook, no   *)
(* fault and no timeout leaves the rail up, the SPIM connected or a panel  *)
(* pin driven.  Pins a configuration write renamed under a powered panel   *)
(* are excepted: display_power_set(false) drives the pins the new          *)
(* configuration names.  So is a START beside a boot render that outlasts  *)
(* OD_BOOT_DISPLAY_WAIT_MS: nothing is said from there on.                 *)
PanelOffBetween ==
    NothingRuns => /\ xapp.up <=> xapp.mode # "idle"
                   /\ xapp.mode = "idle" =>
                          /\ hw.rail \subseteq hw.orphan
                          /\ {p \in Pairs : hw.sig[p] = "driven"} \subseteq hw.loose
                          /\ hw.spi.backend = "none"
                   /\ xapp.mode # "idle" => hw.spi.backend # "none" /\ ~hw.spi.faulted

(* The units of a stream land in the plane and at the place they belong    *)
(* to, however the chunks fall on the boundary of the planes, and a chunk  *)
(* is counted sent only when the DMA has sent it: no interrupt of an       *)
(* abandoned chunk completes a later one (spim_write_chunk reuses its      *)
(* buffer at once).                                                        *)
StreamSent == ~astray

(* A latched bus fault costs at most one START: a START that does not open *)
(* a transfer leaves the bus usable for the next (od_epd_spi_fault_reset   *)
(* at the abort boundary).                                                 *)
FaultCostsOneStart ==
    [][\A op \in {"full", "partial"} :
          /\ (Begin(op) /\ cfg.disp /\ call' = NoCall) => ~hw.spi'.faulted
          /\ (call.op = op /\ call' = NoCall) => ~hw.spi'.faulted]_nordicPanelVars
=============================================================================
