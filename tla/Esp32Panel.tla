------------------------------ MODULE Esp32Panel ------------------------------
(***************************************************************************)
(* The ESP32 display service: the panel power session with its keep-alive  *)
(* (epdSession...), the hooks the transfer core calls (od_xfer_app_...)    *)
(* and two drivers behind them, bb_epaper (the frame lives in the          *)
(* controller's RAM planes) and FastEPD (it lives in two framebuffers).    *)
(*                                                                         *)
(* The transfer core is the environment here: it calls the hooks in the    *)
(* order od_xfer*.c does, which Transfer models.  A frame is W cells, a    *)
(* partial rectangle covers its first R cells, a cell holds the number of  *)
(* the image that wrote it, and a chunk is a run of cells.                 *)
(***************************************************************************)
EXTENDS Integers, FiniteSets

CONSTANTS
    W,          \* cells of a frame
    R,          \* cells of a partial rectangle that is not the whole frame
    MaxChunk,   \* cells in one write, at most
    MaxImage,   \* images sent
    MaxReload,  \* configuration writes
    MaxSleep    \* deep sleeps

ASSUME PanelAssumption == R \in 1 .. W - 1 /\ MaxChunk \in Nat \ {0}

Cells == 1 .. W
White == 0
Junk == -1     \* RAM of a controller that was just powered

VARIABLES
    drv,     \* the driver: "bbep" or "fastepd"
    packed,  \* the colour layout: one packed plane, or two controller planes
    keep,    \* a keep-alive window is configured (epdKeepAliveWindowMs() # 0)
    pwr,     \* pwrmgmState
    expired, \* pwrmgmOffDeadlineMs has passed
    xapp,    \* xferApp: mode, rectangle, current plane, and the core's stream offset
    touch,   \* s_suspend of the touch driver, and directWriteTouchSuspended
    ram,     \* ram[p][c]: controller RAM (bbep), or the framebuffers, 0 current and 1 previous
    wp,      \* the write pointer of the controller: its plane and the next cell
    hw,      \* s_hw_initialized of FastEPD
    glass,   \* glass[c]: what the panel shows
    etag,    \* displayed_etag
    stale,   \* history: a full refresh timed out and left the etag standing
    pic,     \* pic[e]: the picture image e stands for
    astray,  \* a unit of a stream was stored where it does not belong
    used     \* bounded events so far

panelVars == <<drv, packed, keep, pwr, expired, xapp, touch, ram, wp, hw, glass, etag, stale, pic, astray,
               used>>

NoXfer == [mode |-> "idle", rect |-> 0, plane |-> 2, off |-> 0]
Blank(v) == [c \in Cells |-> v]
Lost == [p \in {0, 1} |-> Blank(White)]

PanelTypeOK ==
    /\ pwr \in {"off", "active", "warm"}
    /\ xapp.mode \in {"idle", "full", "partial"}
    /\ xapp.rect \in {0, R, W} /\ xapp.plane \in 0 .. 2
    /\ touch.n \in 0 .. 2
    /\ \A p \in {0, 1}, c \in Cells : ram[p][c] \in -1 .. MaxImage
    /\ etag \in 0 .. MaxImage

PanelInit ==
    /\ drv \in {"bbep", "fastepd"} /\ packed \in BOOLEAN /\ (drv = "fastepd" => packed)
    /\ keep \in BOOLEAN
    /\ pwr = "booting" /\ expired = FALSE
    /\ xapp = NoXfer /\ touch = [n |-> 0, dw |-> FALSE]
    /\ ram = Lost /\ wp = [plane |-> 0, cell |-> 1, limit |-> W] /\ hw = FALSE
    /\ glass = Blank(White) /\ etag = 0 /\ stale = FALSE /\ pic = [e \in 1 .. MaxImage |-> Blank(White)]
    /\ astray = FALSE
    /\ used = [image |-> 0, reload |-> 0, sleep |-> 0]

-----------------------------------------------------------------------------
(* Power.  s holds pwr, expired, touch, ram and hw.                        *)

Now == [pwr |-> pwr, expired |-> expired, touch |-> touch, ram |-> ram, hw |-> hw]

Set(s) ==
    /\ pwr' = s.pwr /\ expired' = s.expired /\ touch' = s.touch /\ ram' = s.ram /\ hw' = s.hw

\* Cutting the rail loses controller RAM, never a framebuffer.
epdSessionForceOffLocked(s) ==
    IF s.pwr = "off" THEN s
    ELSE [s EXCEPT !.pwr = "off", !.expired = FALSE, !.hw = FALSE]

epdSessionRelease(s, ok) ==
    IF s.pwr = "off" THEN s
    ELSE IF ~keep \/ ~ok THEN epdSessionForceOffLocked(s)
    ELSE [s EXCEPT !.pwr = "warm", !.expired = FALSE]

epdSessionAcquire(s) ==
    [s EXCEPT !.pwr = "active", !.expired = FALSE,
              !.ram = IF s.pwr = "off" /\ drv = "bbep" THEN [p \in {0, 1} |-> Blank(Junk)]
                      ELSE @]

touchSuspend(s) == [s EXCEPT !.touch.n = @ + 1]
touchResume(s) == [s EXCEPT !.touch.n = IF @ = 0 THEN 0 ELSE @ - 1]

Mut_xferAppClear(s, forceOff) ==
    LET t == IF xapp.mode = "full" /\ s.pwr = "active"
             THEN (IF forceOff THEN epdSessionForceOffLocked(s) ELSE epdSessionRelease(s, TRUE))
             ELSE s
    IN  IF t.touch.dw THEN [touchResume(t) EXCEPT !.touch.dw = FALSE] ELSE t

xferAppClear(s, forceOff) ==
    LET t == IF xapp.mode # "idle" /\ s.pwr = "active"
             THEN (IF forceOff THEN epdSessionForceOffLocked(s) ELSE epdSessionRelease(s, TRUE))
             ELSE s
    IN  IF t.touch.dw THEN [touchResume(t) EXCEPT !.touch.dw = FALSE] ELSE t

-----------------------------------------------------------------------------
(* Boot and sleep.                                                         *)

\* initDisplay(): the boot screen is drawn, at most twice, and the panel powered down.
\* A first boot shows it; a wake from deep sleep leaves the panel alone.
initDisplay ==
    /\ pwr = "booting"
    /\ pwr' = "off"
    /\ \/ etag = 0 /\ glass' = Blank(White)
       \/ UNCHANGED glass
    /\ UNCHANGED <<drv, packed, keep, expired, xapp, touch, ram, wp, hw, etag, stale, pic, astray, used>>

\* Deep sleep aborts, powers the panel off and restarts: the etag is in RTC memory, the
\* framebuffers are not.
enterDeepSleep ==
    /\ pwr # "booting" /\ used.sleep < MaxSleep
    /\ pwr' = "booting" /\ expired' = FALSE /\ xapp' = NoXfer
    /\ touch' = [n |-> 0, dw |-> FALSE]
    /\ ram' = Lost /\ hw' = FALSE
    /\ used' = [used EXCEPT !.sleep = @ + 1]
    /\ UNCHANGED <<drv, packed, keep, wp, glass, etag, stale, pic, astray>>

KeepAliveRunsOut ==
    /\ pwr = "warm" /\ ~expired
    /\ expired' = TRUE
    /\ UNCHANGED <<drv, packed, keep, pwr, xapp, touch, ram, wp, hw, glass, etag, stale, pic, astray,
                   used>>

epdSessionTick ==
    /\ pwr = "warm" /\ expired
    /\ Set(epdSessionForceOffLocked(Now))
    /\ UNCHANGED <<drv, packed, keep, xapp, wp, glass, etag, stale, pic, astray, used>>

\* reloadConfigAfterSave(): a configuration that turns keep-alive off drops a warm panel.
reloadConfigAfterSave ==
    /\ pwr # "booting" /\ used.reload < MaxReload
    /\ keep' = ~keep
    /\ Set(IF keep /\ pwr = "warm" THEN epdSessionForceOffLocked(Now) ELSE Now)
    /\ used' = [used EXCEPT !.reload = @ + 1]
    /\ UNCHANGED <<drv, packed, xapp, wp, glass, etag, stale, pic, astray>>

-----------------------------------------------------------------------------
(* Starting a transfer.                                                    *)

Planes == IF packed THEN 1 ELSE 2
Total == IF xapp.mode = "partial" THEN 2 * xapp.rect ELSE Planes * W

\* FastEPD opens its TCON when it was powered down, and that can fail.
TconOpens == IF drv = "fastepd" /\ ~hw THEN BOOLEAN ELSE {TRUE}

\* od_xfer_app_prepare_start() and od_xfer_app_begin_full(): what an earlier transfer left
\* is put down first, touch is suspended, the panel acquired and the window opened.
od_xfer_app_begin_full ==
    /\ pwr # "booting" /\ used.image < MaxImage
    /\ used' = [used EXCEPT !.image = @ + 1]
    /\ xapp' = [mode |-> "full", rect |-> W, plane |-> 0, off |-> 0]
    /\ wp' = [plane |-> 0, cell |-> 1, limit |-> W]
    /\ \E ok \in TconOpens :
          LET s == epdSessionAcquire([touchSuspend(xferAppClear(Now, FALSE))
                                        EXCEPT !.touch.dw = TRUE])
          IN  Set(IF drv = "fastepd" THEN [s EXCEPT !.hw = ok, !.ram[0] = Blank(White)] ELSE s)
    /\ UNCHANGED <<drv, packed, keep, glass, etag, stale, pic, astray>>

\* Outside a rectangle that is not the whole frame both planes are made equal.
partial_prepare_panel_ram_for(s, rect, cold) ==
    IF rect # W THEN [s EXCEPT !.ram = [p \in {0, 1} |-> Blank(White)]] ELSE s

\* od_xfer_app_begin_partial(), which the core calls only against the displayed etag.
od_xfer_app_begin_partial ==
    /\ pwr # "booting" /\ used.image < MaxImage /\ etag # 0
    /\ used' = [used EXCEPT !.image = @ + 1]
    /\ \E rect \in {R, W}, ok \in TconOpens :
          LET s0 == xferAppClear(Now, FALSE)
              s1 == epdSessionAcquire(s0)
          IN  /\ xapp' = [mode |-> "partial", rect |-> rect, plane |-> 2, off |-> 0]
              /\ Set(IF drv = "fastepd" THEN [s1 EXCEPT !.hw = ok]
                     ELSE partial_prepare_panel_ram_for(s1, rect, s0.pwr = "off"))
    /\ UNCHANGED <<drv, packed, keep, wp, glass, etag, stale, pic, astray>>

-----------------------------------------------------------------------------
(* Writing.  Cells of the stream go to the plane they belong to, and the   *)
(* controller stores each one where its pointer stands.                    *)

\* The plane and cell unit u of the stream is meant for.
Target(u) ==
    IF xapp.mode = "partial"
    THEN IF u <= xapp.rect THEN <<1, u>> ELSE <<0, u - xapp.rect>>
    ELSE <<(u - 1) \div W, ((u - 1) % W) + 1>>

\* Planes are switched only at a boundary; the window is reopened for the new plane.
Switch(s, u) ==
    LET p == Target(u)[1]
    IN  IF s.plane = p THEN s
        ELSE [s EXCEPT !.plane = p, !.wp = [plane |-> p, cell |-> 1, limit |-> xapp.rect]]

Store(s, u) ==
    LET t == IF drv = "fastepd" THEN [s EXCEPT !.wp = [@ EXCEPT !.plane = Target(u)[1],
                                                               !.cell = Target(u)[2]]]
             ELSE Switch(s, u)
    IN  [t EXCEPT !.ram[t.wp.plane][t.wp.cell] = used.image,
                  !.wp.cell = IF @ = t.wp.limit THEN 1 ELSE @ + 1,
                  !.astray = @ \/ <<t.wp.plane, t.wp.cell>> # Target(u)]

\* The chunk is stored unit by unit.
Stored(n) ==
    LET f[k \in 0 .. n] ==
          IF k = 0 THEN [ram |-> ram, wp |-> wp, plane |-> xapp.plane, astray |-> astray]
          ELSE Store(f[k - 1], xapp.off + k)
    IN  f[n]

od_xfer_app_write(n) ==
    /\ xapp.mode # "idle" /\ xapp.off + n <= Total
    /\ LET s == Stored(n)
       IN  /\ ram' = s.ram /\ wp' = s.wp /\ astray' = s.astray
           /\ xapp' = [xapp EXCEPT !.off = @ + n, !.plane = s.plane]
    /\ UNCHANGED <<drv, packed, keep, pwr, expired, touch, hw, glass, etag, stale, pic, used>>

-----------------------------------------------------------------------------
(* Ending a transfer.                                                      *)

\* What a refresh puts on the glass: FastEPD shows its whole current buffer; a full
\* refresh the written frame; a partial one changes the pixels that differ between the
\* planes, and noise that differs shows as noise.
Shown ==
    CASE drv = "fastepd" -> ram[0]
      [] drv = "bbep" /\ xapp.mode = "full" -> ram[0]
      [] OTHER -> [c \in Cells |-> IF c <= xapp.rect \/ ram[0][c] # ram[1][c] THEN ram[0][c]
                                   ELSE glass[c]]

\* The picture the new image stands for.
Meant ==
    [c \in Cells |-> IF xapp.mode = "full" \/ c <= xapp.rect THEN used.image ELSE pic[etag][c]]

\* The etag after an END that named one or not.  A full refresh that timed out under an
\* END without one leaves the old etag.
Committed(completed, named) ==
    IF completed /\ named THEN used.image
    ELSE IF ~completed /\ ~named /\ xapp.mode = "full" THEN etag ELSE 0

\* od_xfer_app_refresh() of a whole stream, and what the core does with its outcome.  A
\* full refresh ends in xferAppClear(false) whether it completed or not; a partial one
\* releases the panel with its outcome.
od_xfer_app_refresh ==
    /\ xapp.mode # "idle" /\ xapp.off = Total
    /\ \E completed \in (IF drv = "fastepd" /\ ~hw THEN {FALSE} ELSE BOOLEAN), named \in BOOLEAN :
          /\ glass' = IF completed THEN Shown ELSE Blank(Junk)
          /\ etag' = Committed(completed, named)
          /\ stale' = IF completed THEN stale /\ xapp.rect # W ELSE stale \/ etag' # 0
          /\ pic' = IF completed THEN [pic EXCEPT ![used.image] = Meant] ELSE pic
          /\ LET s == IF drv = "fastepd" /\ completed THEN [Now EXCEPT !.ram[1] = ram[0]]
                      ELSE Now
             IN  Set(IF xapp.mode = "full" THEN xferAppClear(s, FALSE)
                     ELSE epdSessionRelease(s, completed))
    /\ xapp' = NoXfer
    /\ UNCHANGED <<drv, packed, keep, wp, astray, used>>

\* od_xfer_app_abort(): a failed or reset stream powers the panel off, a replaced or
\* incomplete one may keep it warm.  A failed partial image also drops the etag; a reset
\* does not.
ForcesOff == [failed |-> TRUE, reset |-> TRUE, incomplete |-> FALSE, replaced |-> FALSE]

od_xfer_app_abort(reason) ==
    /\ xapp.mode # "idle"
    /\ Set(xferAppClear(IF reason = "reset" THEN [Now EXCEPT !.touch.n = 0] ELSE Now,
                        ForcesOff[reason]))
    /\ xapp' = NoXfer
    /\ etag' = IF xapp.mode = "partial" /\ reason \in {"failed", "incomplete"} THEN 0 ELSE etag
    /\ UNCHANGED <<drv, packed, keep, wp, glass, stale, pic, astray, used>>

PanelNext ==
    \/ initDisplay \/ enterDeepSleep \/ KeepAliveRunsOut \/ epdSessionTick
    \/ reloadConfigAfterSave
    \/ od_xfer_app_begin_full \/ od_xfer_app_begin_partial
    \/ \E n \in 1 .. MaxChunk : od_xfer_app_write(n)
    \/ od_xfer_app_refresh
    \/ \E reason \in DOMAIN ForcesOff : od_xfer_app_abort(reason)

PanelSpec == PanelInit /\ [][PanelNext]_panelVars

-----------------------------------------------------------------------------
(* Properties.                                                             *)

(* The panel is active exactly while a transfer owns it: nothing but a     *)
(* transfer's end powers an active panel down (the keep-alive tick looks   *)
(* at warm ones only), so one left behind would stay powered.  And touch   *)
(* is suspended exactly while a full transfer runs.                        *)
PanelHeld ==
    pwr # "booting" =>
      /\ PanelTypeOK
      /\ (pwr = "active") = (xapp.mode # "idle")
      /\ touch.n = IF xapp.mode = "full" THEN 1 ELSE 0
      /\ touch.dw = (xapp.mode = "full")

(* Every unit of a stream, however it is cut into chunks, is stored in the *)
(* plane and cell it is meant for.                                         *)
StreamLands == ~astray

(* With the bb_epaper driver the glass shows the picture the displayed     *)
(* etag stands for, whatever was aborted, timed out or powered off before, *)
(* so a partial image is drawn over the picture it was made for.  The      *)
(* exception is a full refresh that timed out under an END without an      *)
(* etag: od_xfer_direct.c:215-219 keeps the etag of the picture before it, *)
(* and the glass is unknown until a whole frame has been shown again.      *)
GlassIsEtag == drv = "bbep" /\ etag # 0 /\ ~stale => glass = pic[etag]

==============================================================================
