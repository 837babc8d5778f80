------------------------------ MODULE SilabsPump ------------------------------
(***************************************************************************)
(* The BG22 target's transport and super-loop: the vendor stack's event    *)
(* queue with its retained head, the pipe that admits an event only when   *)
(* the core can answer it (targets/efr32bg22-slc/opendisplay_pipe.c), the  *)
(* notification seam (od_hal_radio.c), the command hooks (od_cmd_silabs.c),*)
(* the panel rail (opendisplay_display.cpp) and the loop's connection,     *)
(* advertising, DFU and sleep policy (opendisplay_ble.c).                  *)
(*                                                                         *)
(* One thread runs everything, but the radio does not wait for it: links   *)
(* come up and go down, frames and subscriptions queue, notifications      *)
(* leave, and time passes between any two steps of the loop and inside the *)
(* barrier an END waits in.  Core state is reduced to whose it is: the     *)
(* epoch of the connection that authenticated, uploads, reads or draws.    *)
(***************************************************************************)
EXTENDS Integers, Sequences, FiniteSets, SequencesExt

CONSTANTS
    Ops,        \* commands the peer sends
    Pins,       \* rail pins a stored configuration can name, "none" (0xFF) among them
    Chunks,     \* chunks of a configuration read-back
    TxCap,      \* OD_TXQ_SLOTS - 1
    ReadMax,    \* OD_CONFIG_READ_MAX_MS, in ticks
    HoldMax,    \* OD_EVENT_HOLD_MAX_MS, in ticks
    BarrierMax, \* the END barrier's deadline, in ticks
    AbuseMax,   \* OD_AUTH_ABUSE_LIMIT
    MaxConn,    \* bound on connections
    MaxFrames,  \* bound on frames and subscriptions
    MaxQueue,   \* bound on queued events at which a peer's frame still comes in
    MaxPress    \* bound on button presses

ASSUME SilabsAssumption ==
    /\ Ops \subseteq {"auth", "cmd", "read", "write", "chunk", "clear", "start", "end",
                      "dfu", "sleep", "reboot"}
    /\ Pins # {}
    /\ Chunks \in Nat \ {0} /\ TxCap \in Nat /\ TxCap >= 2
    /\ ReadMax \in Nat /\ HoldMax \in Nat /\ ReadMax < HoldMax  \* the #error of the source
    /\ BarrierMax \in Nat /\ AbuseMax \in Nat \ {0}
    /\ MaxConn \in Nat /\ MaxFrames \in Nat /\ MaxQueue \in Nat /\ MaxPress \in Nat

VARIABLES
    links,    \* connection handles that are up, and of those the ones being closed
    evq,      \* BGAPI events not yet handled
    adv,      \* connectable advertising is on
    air,      \* notifications the stack accepted are not all on air
    conn,     \* s_connection and g_connection: set and cleared by the same events
    epoch,    \* s_connection_epoch
    notify,   \* s_notify
    core,     \* the shared core and the panel, see Fresh
    age,      \* hold and read timers and the barrier's: -1 when not running
    late,     \* the connection passed OD_MAX_CONNECTION_MS; a close was accepted
    pending,  \* s_pending_dfu and s_pending_deep_sleep
    button,   \* s_button_msd_dirty, the boost window, was_boosted
    pc,       \* where the loop is
    power,    \* running, reset, in the bootloader or in EM4
    twice,    \* a connection was opened while another was served
    used      \* connections, frames and presses so far

stackVars == <<links, evq, adv, air>>
silabsVars == <<stackVars, conn, epoch, notify, core, age, late, pending, button, pc, power, twice,
                used>>

NoConn == 0
Nobody == 0
Stopped == -1

\* A stored configuration: its rail pin, and whether it asks for a session.  What is left
\* after CONFIG_CLEAR is all zeros: no display, no key, and pin 0 of port A as the rail.
Configs == [pin : Pins, secure : BOOLEAN, display : {TRUE}]
Cleared == [pin |-> "pa0", secure |-> FALSE, display |-> FALSE]

\* rails: the pins driven high.  renamed: those of them that a new configuration took from
\* under the panel.
Fresh(cfg) ==
    [tx |-> <<>>, sess |-> Nobody, asm |-> Nobody, xfer |-> Nobody, reader |-> Nobody,
     left |-> 0, cfg |-> cfg, rails |-> {}, renamed |-> {}, abuse |-> 0, deferred |-> FALSE]
NoTimers == [hold |-> Stopped, read |-> Stopped, barrier |-> Stopped]

Booted ==
    /\ links = [up |-> {}, closing |-> {}] /\ evq = <<>> /\ adv = TRUE /\ air = FALSE
    /\ conn = NoConn /\ notify = FALSE
    /\ age = NoTimers
    /\ late = [due |-> FALSE, asked |-> FALSE]
    /\ pending = {}
    /\ button = [dirty |-> FALSE, boost |-> FALSE, was |-> FALSE]
    /\ pc = "bt" /\ power = "on"

SilabsInit ==
    /\ Booted /\ epoch = 0 /\ twice = FALSE
    /\ \E g \in Configs : core = Fresh(g)
    /\ used = [conn |-> 0, frames |-> 0, press |-> 0]

SilabsTypeOK ==
    /\ links.up \subseteq 1 .. MaxConn /\ links.closing \subseteq links.up
    /\ conn \in 0 .. MaxConn /\ epoch \in 0 .. MaxConn
    /\ core.renamed \subseteq core.rails /\ core.rails \subseteq Pins \ {"none"}
    /\ core.cfg \in Configs \union {Cleared}
    /\ age.hold \in Stopped .. HoldMax /\ age.read \in Stopped .. HoldMax
    /\ pc \in {"bt", "process", "flush", "idle"}
    /\ power \in {"on", "reset", "boot", "em4"}

-----------------------------------------------------------------------------
(* The stack and the peers.                                                *)

Queue(e) == evq' = Append(evq, e)
On == power = "on"

\* A central connects: advertising stops by itself.
Connect ==
    /\ On /\ adv /\ used.conn < MaxConn
    /\ \E h \in {used.conn + 1} :
          /\ links' = [links EXCEPT !.up = @ \union {h}]
          /\ Queue([t |-> "opened", h |-> h])
    /\ adv' = FALSE
    /\ used' = [used EXCEPT !.conn = @ + 1]
    /\ UNCHANGED <<air, conn, epoch, notify, core, age, late, pending, button, pc, power, twice>>

\* The peer leaves, or the stack completes a close it was asked for.
Drop ==
    /\ On
    /\ \E h \in links.up :
          /\ links' = [up |-> links.up \ {h}, closing |-> links.closing \ {h}]
          /\ Queue([t |-> "closed", h |-> h])
          /\ air' = (air /\ h # conn)
    /\ UNCHANGED <<adv, conn, epoch, notify, core, age, late, pending, button, pc, power, used, twice>>

PeerSends ==
    /\ On /\ links.up # {} /\ used.frames < MaxFrames /\ Len(evq) < MaxQueue
    /\ \/ \E c \in Ops : Queue([t |-> "write", c |-> c])
       \/ \E on \in BOOLEAN : Queue([t |-> "cccd", on |-> on])
    /\ used' = [used EXCEPT !.frames = @ + 1]
    /\ UNCHANGED <<links, adv, air, conn, epoch, notify, core, age, late, pending, button, pc,
                   power, twice>>

OnAir ==
    /\ On /\ air
    /\ air' = FALSE
    /\ UNCHANGED <<links, evq, adv, conn, epoch, notify, core, age, late, pending, button, pc,
                   power, used, twice>>

\* The button interrupt.
Press ==
    /\ On /\ used.press < MaxPress
    /\ button' = [button EXCEPT !.dirty = TRUE]
    /\ used' = [used EXCEPT !.press = @ + 1]
    /\ UNCHANGED <<stackVars, conn, epoch, notify, core, age, late, pending, pc, power, twice>>

Older(n, max) == IF n = Stopped \/ n = max THEN n ELSE n + 1

Tick ==
    /\ On
    /\ age' = [hold |-> Older(age.hold, HoldMax), read |-> Older(age.read, ReadMax),
               barrier |-> Older(age.barrier, BarrierMax)]
    /\ age' # age
    /\ UNCHANGED <<stackVars, conn, epoch, notify, core, late, pending, button, pc, power, used, twice>>

\* The long clocks: the connection limit and the end of the boost window.
LongTick ==
    /\ On
    /\ late' = [late EXCEPT !.due = (conn # NoConn)]
    /\ button' = [button EXCEPT !.boost = FALSE]
    /\ <<late, button>>' # <<late, button>>
    /\ UNCHANGED <<stackVars, conn, epoch, notify, core, age, pending, pc, power, used, twice>>

-----------------------------------------------------------------------------
(* The panel rail and the reset paths, as functions of the core.           *)

\* The pin that is switched is the one the configuration names now.
display_power_set(k, on) ==
    IF k.cfg.pin = "none" THEN k
    ELSE [k EXCEPT !.rails = IF on THEN @ \union {k.cfg.pin} ELSE @ \ {k.cfg.pin},
                   !.renamed = @ \ {k.cfg.pin}]

opendisplay_display_abort(k) == display_power_set(k, FALSE)

od_xfer_abort_active(k) ==
    IF k.xfer = Nobody THEN k ELSE [opendisplay_display_abort(k) EXCEPT !.xfer = Nobody]

\* od_core_reset() and od_cmd_silabs_reset(); the timers are stopped by the callers.
reset_transport_state(k) ==
    [od_xfer_abort_active(k) EXCEPT !.tx = <<>>, !.sess = Nobody, !.reader = Nobody,
                                    !.left = 0, !.asm = Nobody, !.abuse = 0]

opendisplay_pipe_reset_transport(k) ==
    reset_transport_state(IF k.xfer = Nobody THEN opendisplay_display_abort(k) ELSE k)

Live(tag) == conn # NoConn /\ tag = epoch

\* od_txq_process() over od_hal_radio_send(): a dead tag loses all its frames, a peer
\* that does not listen or is gone makes every send an error, and otherwise the stack
\* takes as many as it has buffers for.
od_txq_process(k) ==
    LET q == SelectSeq(k.tx, Live)
    IN  IF ~notify \/ conn \notin links.up
        THEN {[k |-> [k EXCEPT !.tx = <<>>], sent |-> FALSE]}
        ELSE {[k |-> [k EXCEPT !.tx = SubSeq(q, n + 1, Len(q))], sent |-> n > 0] :
                n \in 0 .. Len(q)}

Reply(k) == [k EXCEPT !.tx = Append(@, epoch)]

-----------------------------------------------------------------------------
(* Commands.                                                               *)

od_cmd_app_config_read(k) ==
    IF k.asm # Nobody THEN {Reply(k)}
    ELSE {Reply(k),          \* nothing could be loaded: one error frame
          [Reply(k) EXCEPT !.reader = IF Chunks > 1 THEN epoch ELSE Nobody,
                           !.left = Chunks - 1]}

\* The configuration in force is replaced; a rail it does not name stays as it is.
opendisplay_ble_reload_config_from_nvm(k, g) ==
    [k EXCEPT !.cfg = g, !.renamed = @ \union (k.rails \ {g.pin})]

\* Saved, acknowledged under the old session, reloaded, the session retired.
persist_config(k) ==
    {Reply(k)} \union
    {[opendisplay_ble_reload_config_from_nvm(Reply(k), g) EXCEPT !.sess = Nobody] :
        g \in Configs}

\* One first piece of a longer upload, or a whole configuration.
od_cmd_app_config_write(k) ==
    {[Reply(k) EXCEPT !.asm = epoch]} \union persist_config([k EXCEPT !.asm = Nobody])

od_cmd_app_config_chunk(k) ==
    IF k.asm = Nobody THEN {Reply(k)}
    ELSE {Reply(k), [Reply(k) EXCEPT !.asm = Nobody]}
         \union persist_config([k EXCEPT !.asm = Nobody])

od_cmd_app_config_clear(k) ==
    {Reply(k), [opendisplay_ble_reload_config_from_nvm(Reply(k), Cleared)
                   EXCEPT !.asm = Nobody, !.sess = Nobody]}

\* The running transfer is replaced; no configured panel, or one that does not start,
\* refuses.
od_xfer_direct_start(k) ==
    LET o == od_xfer_abort_active(k)
    IN  {Reply(o)} \union
        (IF ~k.cfg.display THEN {}
         ELSE {Reply([display_power_set(o, TRUE) EXCEPT !.xfer = epoch])})

\* An END up to its acknowledgement; the barrier follows unless it was refused.
od_xfer_direct_end(k) ==
    IF k.xfer # epoch THEN {k}
    ELSE {Reply(od_xfer_abort_active(k)), Reply(k)}

Handler(c, k) ==
    CASE c = "read" -> od_cmd_app_config_read(k)
      [] c = "write" -> od_cmd_app_config_write(k)
      [] c = "chunk" -> od_cmd_app_config_chunk(k)
      [] c = "clear" -> od_cmd_app_config_clear(k)
      [] c = "start" -> od_xfer_direct_start(k)
      [] c = "end" -> od_xfer_direct_end(k)
      [] OTHER -> {Reply(k)}

Budget(c) == IF c = "end" THEN 2 ELSE 1

\* A running read owns the configuration buffer; without room for the answer nothing runs.
Deferred(c, k) ==
    \/ k.left > 0 /\ c \in {"read", "write", "chunk", "clear"}
    \/ Len(k.tx) + Budget(c) > TxCap

\* A configuration without a key asks for no session.
Gated(k) == k.cfg.secure /\ k.sess = Nobody

\* The session gate, the handler, and od_core_frame_done()'s count of refusals.
od_dispatch_frame(c, k) ==
    IF Deferred(c, k) THEN {[k EXCEPT !.deferred = TRUE]}
    ELSE IF c = "auth"
         THEN {Reply(k)} \union
              (IF k.cfg.secure THEN {Reply([k EXCEPT !.sess = epoch, !.abuse = 0])} ELSE {})
    ELSE IF Gated(k)
         THEN {Reply([k EXCEPT !.abuse = IF @ < AbuseMax THEN @ + 1 ELSE @])}
    ELSE {[n EXCEPT !.abuse = 0] : n \in Handler(c, k)}

-----------------------------------------------------------------------------
(* The loop: one event, then one pass of opendisplay_ble_process().        *)

\* sl_bt_connection_close(): the closed event comes later.
Closing(want) ==
    links' = IF want /\ conn \in links.up
             THEN [links EXCEPT !.closing = @ \union {conn}] ELSE links

Owed(k) == k.left > 0 \/ k.tx # <<>>

Mut_sl_bt_can_process_event == core.tx = <<>>

sl_bt_can_process_event == ~Owed(core)

\* The gate also starts and stops the hold timer.
Retain ==
    /\ On /\ pc = "bt"
    /\ evq = <<>> \/ ~sl_bt_can_process_event
    /\ age' = IF evq = <<>> THEN age
              ELSE [age EXCEPT !.hold = IF @ = Stopped THEN 0 ELSE @]
    /\ pc' = "process"
    /\ UNCHANGED <<stackVars, conn, epoch, notify, core, late, pending, button, power, used, twice>>

Admit(t) ==
    /\ On /\ pc = "bt" /\ evq # <<>> /\ sl_bt_can_process_event
    /\ Head(evq).t = t
    /\ evq' = Tail(evq)

XferOpened ==
    /\ Admit("opened")
    /\ conn' = Head(evq).h /\ epoch' = epoch + 1
    /\ twice' = (twice \/ conn # NoConn)
    /\ notify' = FALSE
    /\ core' = [core EXCEPT !.abuse = 0]
    /\ late' = [due |-> FALSE, asked |-> FALSE]
    /\ age' = [age EXCEPT !.hold = Stopped]
    /\ pc' = "process"
    /\ UNCHANGED <<links, adv, air, pending, button, power, used>>

\* The transport is reset and advertising restarted.
Closed ==
    /\ Admit("closed")
    /\ conn' = NoConn /\ notify' = FALSE
    /\ core' = opendisplay_pipe_reset_transport(core)
    /\ age' = NoTimers
    /\ late' = [due |-> FALSE, asked |-> FALSE]
    /\ adv' = TRUE
    /\ pc' = "process"
    /\ UNCHANGED <<links, air, epoch, pending, button, power, used, twice>>

Subscribed ==
    /\ Admit("cccd")
    /\ notify' = Head(evq).on
    /\ age' = [age EXCEPT !.hold = Stopped]
    /\ pc' = "process"
    /\ UNCHANGED <<links, adv, air, conn, epoch, core, late, pending, button, power, used, twice>>

\* dispatch_write() with everything its handler does, up to an END's barrier.  A write
\* that reaches the handler after its connection was forgotten is dropped.
dispatch_write ==
    /\ Admit("write")
    /\ LET c == Head(evq).c
           runs == conn # NoConn /\ ~Gated(core) /\ ~Deferred(c, core)
       IN  \E k \in (IF conn = NoConn THEN {core} ELSE od_dispatch_frame(c, core)) :
             /\ IF c = "end" /\ runs /\ k.xfer = epoch
                THEN /\ core' = k
                     /\ age' = [age EXCEPT !.hold = Stopped, !.barrier = 0]
                     /\ pc' = "flush"
                     /\ UNCHANGED <<links, air>>
                ELSE /\ \E r \in od_txq_process(k) :
                           core' = r.k /\ air' = (air \/ r.sent)
                     /\ age' = [age EXCEPT !.hold = Stopped]
                     /\ pc' = "process"
                     /\ Closing(k.abuse >= AbuseMax)
             /\ pending' = IF c \in {"dfu", "sleep"} /\ runs THEN pending \union {c} ELSE pending
             /\ power' = IF c = "reboot" /\ runs THEN "reset" ELSE power
    /\ UNCHANGED <<adv, conn, epoch, notify, late, button, used, twice>>

-----------------------------------------------------------------------------
(* The END barrier: replies on air first, then the refresh.                *)

\* od_xfer_app_barrier_abort(): panel off, transport reset, the link closed.
BarrierAbort ==
    /\ core' = reset_transport_state([opendisplay_display_abort(core) EXCEPT !.xfer = Nobody])
    /\ age' = NoTimers
    /\ Closing(Live(core.xfer))
    /\ pc' = "process"

\* opendisplay_pipe_flush_before_refresh()
Flush ==
    /\ On /\ pc = "flush"
    /\ IF age.barrier >= BarrierMax
       THEN BarrierAbort /\ UNCHANGED air
       ELSE /\ \E r \in od_txq_process(core) :
                  /\ core' = r.k /\ air' = (air \/ r.sent)
                  /\ pc' = IF r.k.tx = <<>> THEN "idle" ELSE "flush"
            /\ UNCHANGED <<links, age>>
    /\ UNCHANGED <<evq, adv, conn, epoch, notify, late, pending, button, power, used, twice>>

\* wait_tx_idle(): the report can fail; then the refresh, the panel off, its status reply.
wait_tx_idle ==
    /\ On /\ pc = "idle"
    /\ \/ BarrierAbort /\ UNCHANGED air
       \/ /\ ~air /\ conn \in links.up
          /\ \E r \in od_txq_process(Reply([display_power_set(core, FALSE)
                                              EXCEPT !.xfer = Nobody])) :
                core' = r.k /\ air' = (air \/ r.sent)
          /\ age' = [age EXCEPT !.barrier = Stopped]
          /\ pc' = "process"
          /\ UNCHANGED links
       \/ /\ air /\ conn \in links.up /\ age.barrier < BarrierMax
          /\ UNCHANGED <<links, core, age, air, pc>>
    /\ UNCHANGED <<evq, adv, conn, epoch, notify, late, pending, button, power, used, twice>>

-----------------------------------------------------------------------------
(* opendisplay_ble_process()                                               *)

od_config_read_pump(k) ==
    IF k.left = 0 \/ Len(k.tx) >= TxCap THEN k
    ELSE [Reply(k) EXCEPT !.left = @ - 1, !.reader = IF k.left = 1 THEN Nobody ELSE @]

Mut_HoldTimer(k, hold) == IF ~Owed(k) THEN Stopped ELSE 0

\* The hold timer: stopped when nothing is owed, started when something is.
HoldTimer(k, hold) ==
    IF ~Owed(k) THEN Stopped
    ELSE IF hold = Stopped THEN 0 ELSE hold

ReadTimer(k, read) ==
    IF k.left = 0 THEN Stopped ELSE IF read = Stopped THEN 0 ELSE read

\* Queue, one chunk of a read, queue again; either deadline resets the transport but
\* leaves the link.
opendisplay_pipe_process ==
    \E r1 \in od_txq_process(core) : \E r2 \in od_txq_process(od_config_read_pump(r1.k)) :
        LET k == r2.k
            readOver == k.left > 0 /\ age.read >= ReadMax
            holdOver == Owed(k) /\ age.hold >= HoldMax
        IN  /\ air' = (air \/ r1.sent \/ r2.sent)
            /\ IF readOver \/ holdOver
               THEN core' = opendisplay_pipe_reset_transport(k) /\ age' = NoTimers
               ELSE /\ core' = k
                    /\ age' = [age EXCEPT !.hold = HoldTimer(k, @), !.read = ReadTimer(k, @)]

\* A button's advertisement and the end of the boost both restart advertising, judged
\* by the connection the application knows of.
Advertise ==
    LET publish == button.dirty /\ conn = NoConn
        boost == publish \/ button.boost
        ended == ~boost /\ button.was
    IN  /\ button' = [dirty |-> button.dirty /\ ~publish, boost |-> boost, was |-> boost]
        /\ adv' = (adv \/ publish \/ (ended /\ conn = NoConn))

\* The stack may refuse the close; it is asked again on the next pass.
ConnectionLimit(accepted) ==
    late' = IF late.due /\ ~late.asked /\ conn # NoConn /\ accepted
            THEN [late EXCEPT !.asked = TRUE] ELSE late

LimitCloses == late'.asked /\ ~late.asked

Process ==
    /\ On /\ pc = "process"
    /\ opendisplay_pipe_process
    /\ Advertise
    /\ \E accepted \in BOOLEAN : ConnectionLimit(accepted)
    /\ Closing(LimitCloses \/ (pending # {} /\ conn # NoConn))
    /\ pending # {} => conn # NoConn
    /\ pc' = "bt"
    /\ UNCHANGED <<evq, conn, epoch, notify, pending, power, used, twice>>

\* opendisplay_display_power_off() before EM4.
power_off(k) == display_power_set(k, FALSE)

\* The same pass with the peer gone and a DFU or a sleep to carry out.
Leave ==
    /\ On /\ pc = "process" /\ pending # {} /\ conn = NoConn
    /\ \E r \in od_txq_process(core) :
          core' = IF "dfu" \in pending THEN r.k ELSE power_off(r.k)
    /\ Advertise
    /\ pending' = pending \ (IF "dfu" \in pending THEN {"dfu"} ELSE {"sleep"})
    /\ power' = IF "dfu" \in pending THEN "boot" ELSE "em4"
    /\ UNCHANGED <<links, evq, air, conn, epoch, notify, age, late, pc, used, twice>>

\* The device starts again: RAM is new, the stored configuration is not, and a reset
\* releases every pin.
Restart ==
    /\ ~On
    /\ links' = [up |-> {}, closing |-> {}] /\ evq' = <<>> /\ adv' = TRUE /\ air' = FALSE
    /\ conn' = NoConn /\ notify' = FALSE /\ age' = NoTimers
    /\ late' = [due |-> FALSE, asked |-> FALSE] /\ pending' = {}
    /\ button' = [dirty |-> FALSE, boost |-> FALSE, was |-> FALSE]
    /\ pc' = "bt" /\ power' = "on"
    /\ core' = Fresh(core.cfg)
    /\ UNCHANGED <<epoch, used, twice>>

Environment == Connect \/ Drop \/ PeerSends \/ OnAir \/ Press \/ LongTick
Loop ==
    \/ Retain \/ XferOpened \/ Closed \/ Subscribed \/ dispatch_write
    \/ Flush \/ wait_tx_idle \/ Process \/ Leave \/ Restart

SilabsNext == Environment \/ Loop \/ Tick

SilabsSpec == SilabsInit /\ [][SilabsNext]_silabsVars
-----------------------------------------------------------------------------
(* Properties.                                                             *)

(* Dispatch never has to defer a frame the event gate admitted: the line   *)
(* od_core_frame_done() prints as a broken invariant is unreachable, so no *)
(* command is lost.  The response queue never exceeds its slots.           *)
PumpInv == SilabsTypeOK /\ ~core.deferred /\ Len(core.tx) <= TxCap

(* Session, upload, transfer, read-back and queued replies always belong   *)
(* to the connection the application serves, and nothing of them is left   *)
(* when it serves none, whichever of the close event, a hold or read       *)
(* deadline, a refused barrier or a restart ended the last one; unless two *)
(* connections were ever open at once (see AdvertisingStopped).            *)
NoInheritance == twice \/
    /\ {core.sess, core.asm, core.xfer, core.reader} \subseteq {Nobody, epoch}
    /\ \A i \in DOMAIN core.tx : core.tx[i] = epoch
    /\ conn = NoConn => /\ {core.sess, core.asm, core.xfer, core.reader} = {Nobody}
                        /\ core.tx = <<>>

(* "A transport reset is also the target's fail-safe panel power-off       *)
(* path" (opendisplay_pipe.c:145): no rail stays driven when no transfer   *)
(* runs, so in particular none does while the device advertises or sleeps  *)
(* in EM4.  It does not hold: display_power_set(false) switches the pin    *)
(* the configuration names now.                                            *)
PanelOff == core.xfer = Nobody => core.rails = {}

(* What holds of it.  Whichever of an abort, a refused or finished END, a  *)
(* close, a deadline or a refused barrier ended the transfer, every rail   *)
(* is off, save one that a CONFIG_WRITE naming another pin or a            *)
(* CONFIG_CLEAR took from under the panel while a transfer had it on.      *)
RailsOff == core.xfer = Nobody => core.rails \subseteq core.renamed

(* The radio may refuse every notification for ever, and the event that    *)
(* would say why is queued behind the replies it refuses.  The hold timer  *)
(* breaks the circle: while an answer is owed it is never restarted, and   *)
(* the pass that finds it expired leaves nothing owed, so the next event   *)
(* is admitted.                                                            *)
HoldEnds ==
    [][/\ On /\ Owed(core) /\ Owed(core') /\ age.hold # Stopped => age'.hold >= age.hold
       /\ pc = "process" /\ pc' = "bt" /\ On /\ age.hold >= HoldMax => ~Owed(core')]_silabsVars

==============================================================================
