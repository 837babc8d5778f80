------------------------------- MODULE Nimble -------------------------------
(***************************************************************************)
(* The ESP32's Bluetooth backend, ble/od_ble_nimble.cpp, under the         *)
(* transport of src/ble_transport_esp32.cpp.  Two tasks share its statics: *)
(* the NimBLE host, which publishes the identity and runs the GAP          *)
(* callback, and the loop, which owns the advertising controller and the   *)
(* lifecycle.  The controller itself is AdvControl's.                      *)
(*                                                                         *)
(* Left out: the packing of the records, the link parameters, the stall    *)
(* report, the stored value of the characteristic, and what the connection *)
(* hooks do (Esp32Link).                                                   *)
(***************************************************************************)
EXTENDS Integers, Sequences

CONSTANTS
  Msd,        \* advertisement payloads
  None,       \* no payload
  Bare,       \* an advertisement without a payload
  Addr,       \* kinds of identity address
  PASSES,     \* passes a stop or a start is pumped for: 8
  TRIES,      \* attempts at a coherent identity: 4
  MaxResets,  \* host resets in a behaviour
  Reinit      \* whether begin() may follow end() without a restart

VARIABLES
  inited, ready,         \* s_inited and the transport's s_ready
  id_seq, addr,          \* s_identity_seq and s_identity
  adv,                   \* s_adv
  conns, ended,          \* s_conn_count, s_adv_ended_pending
  job,                   \* the loop task
  host, writer, evq,     \* the host task: its state, a publish under way, its events
  ctl, air, held, link,  \* controller enabled, payload on the air and programmed, a link
  pub, resets            \* history: the address last published, host resets

statics == <<inited, ready, id_seq, addr, adv, conns, ended>>
stack == <<ctl, air, held, link>>
task == <<host, writer, evq, pub, resets>>
nimbleVars == <<statics, job, stack, task>>

A == INSTANCE AdvControl WITH ctrl <- adv, late <- FALSE, linked <- (conns > 0), pc <- "facts", misled <- FALSE, outdated <- FALSE

NotReading == [at |-> "idle", seq0 |-> 0, new |-> 0]
Rest  == [at |-> "idle", what |-> "pass", left |-> 0, allowed |-> TRUE, goal |-> "facts",
          tries |-> 0, s1 |-> 0, snap |-> 0, call |-> "none"]

ClearedStatics ==
  /\ inited' = FALSE /\ ready' = FALSE /\ id_seq' = 0 /\ addr' = 0
  /\ adv' = A!od_adv_control_init
  /\ conns' = 0 /\ ended' = FALSE

NimbleInit ==
  /\ inited = FALSE /\ ready = FALSE /\ id_seq = 0 /\ addr = 0
  /\ adv = A!od_adv_control_init
  /\ conns = 0 /\ ended = FALSE
  /\ job = [Rest EXCEPT !.at = "boot"]
  /\ host = "down" /\ writer = NotReading /\ evq = <<>> /\ pub = 0 /\ resets = 0
  /\ ctl = FALSE /\ air = None /\ held = None /\ link = FALSE

-----------------------------------------------------------------------------
(* The host task.                                                          *)

HostUnchanged == UNCHANGED <<inited, ready, adv, job>>

\* od_ble_publish_identity() after its first store: the record, then the
\* counter that publishes it.
od_ble_publish_identity ==
  \/ /\ writer.at = "odd"
     /\ addr' = writer.new /\ writer' = [writer EXCEPT !.at = "data"]
     /\ UNCHANGED <<id_seq, host, pub>>
  \/ /\ writer.at = "data"
     /\ id_seq' = writer.seq0 + 2 /\ pub' = writer.new /\ writer' = NotReading /\ host' = "up"
     /\ UNCHANGED addr

Publish == od_ble_publish_identity /\ HostUnchanged /\ UNCHANGED <<conns, ended, evq, resets, stack>>

\* The host is in sync; without a usable address nothing is published.
od_on_sync ==
  /\ host = "syncing" /\ writer = NotReading /\ evq = <<>>
  /\ \/ \E a \in Addr :
          /\ writer' = [at |-> "odd", seq0 |-> id_seq, new |-> a]
          /\ id_seq' = id_seq + 1
          /\ UNCHANGED host
     \/ host' = "up" /\ UNCHANGED <<id_seq, writer>>
  /\ HostUnchanged /\ UNCHANGED <<addr, conns, ended, evq, pub, resets, stack>>

\* The status alone decides whether there is a link.
MutAdopted(e) == e = "connect"

\* Whether a CONNECT event is a link: by its status, and when that is not
\* zero by asking the stack.
Adopted(e) == e = "connect" \/ (e = "status" /\ link)

\* A failed attempt ends no advertisement.
MutEnds(e) == e \in {"connect", "status"} /\ Adopted(e)

\* The events that tell of an end of advertising.
Ends(e) == e \in {"connect", "status", "complete"}

Dropped == IF conns > 0 THEN conns - 1 ELSE 0

\* od_gap_event(), one event of the queue.  A connection is counted after
\* the end of the advertisement was noted.
od_gap_event ==
  /\ host # "down" /\ writer = NotReading /\ evq # <<>>
  /\ LET e == Head(evq) IN
     /\ ended' = (ended \/ Ends(e))
     /\ writer' = IF Adopted(e) THEN [NotReading EXCEPT !.at = "count"] ELSE NotReading
     /\ conns' = IF e = "disconnect" THEN Dropped ELSE conns
  /\ evq' = Tail(evq)
  /\ HostUnchanged /\ UNCHANGED <<id_seq, addr, host, pub, resets, stack>>

Counted ==
  /\ writer.at = "count"
  /\ writer' = NotReading
  /\ conns' = IF conns < 255 THEN conns + 1 ELSE conns
  /\ HostUnchanged /\ UNCHANGED <<id_seq, addr, ended, host, evq, pub, resets, stack>>

-----------------------------------------------------------------------------
(* The radio, through the NimBLE stack: one connection object.             *)

\* The host handles one event of the controller at a time: its tables change
\* and then the callback runs, with the loop possibly in between.
EventsDrained == writer = NotReading /\ evq = <<>>

Radio(e) ==
  /\ host = "up" /\ EventsDrained
  /\ evq' = Append(evq, e)
  /\ UNCHANGED <<statics, job, host, writer, pub, resets, ctl, held>>

LinkForms == air # None /\ air' = None /\ link' = TRUE /\ \E e \in {"connect", "status"} : Radio(e)

AttemptFails == air # None /\ air' = None /\ Radio("status") /\ UNCHANGED link

AdvCompletes == air # None /\ air' = None /\ Radio("complete") /\ UNCHANGED link

LinkDrops == link /\ link' = FALSE /\ Radio("disconnect") /\ UNCHANGED air

\* The controller failed and the host starts over: what was programmed and
\* connected is gone, and od_on_reset() logs it.
od_on_reset ==
  /\ host = "up" /\ EventsDrained /\ resets < MaxResets
  /\ resets' = resets + 1
  /\ host' = "syncing"
  /\ evq' = evq \o (IF link THEN <<"disconnect">> ELSE <<>>) \o (IF air # None THEN <<"complete">> ELSE <<>>)
  /\ air' = None /\ held' = None /\ link' = FALSE
  /\ UNCHANGED <<statics, job, writer, pub, ctl>>

-----------------------------------------------------------------------------
(* The loop task: a pass of the pump, in steps the host may come between.  *)

LoopOnly == UNCHANGED task

\* Where a job is outside a read, the locals of the read are gone.
Outside(j, at) == [j EXCEPT !.at = at, !.tries = 0, !.s1 = 0, !.snap = 0]
Reading(j, goal) == [Outside(j, "load") EXCEPT !.goal = goal]

\* After a pass: another one, or what the caller does next.
AfterPass(j, c) ==
  LET more == j.left > 0 /\ (IF j.what = "start" THEN ~c.active ELSE c.active \/ c.desired) IN
  IF j.what = "pass" THEN Rest
  ELSE IF more THEN Reading([j EXCEPT !.left = @ - 1], "facts")
  ELSE IF j.what = "end" THEN [Rest EXCEPT !.at = "stop"]
  ELSE Rest

\* What the result of a HAL call does to the controller.
Answer(a) ==
  LET c == A!Settle(adv, job.call, A!classify(a)) IN
  /\ adv' = c
  /\ job' = AfterPass(job, c)

\* What each user of od_ble_read_identity() does with the result.
ReadDone(ok) ==
  CASE job.goal = "facts" ->
         /\ adv' = [adv EXCEPT !.stack_ready = @ \/ ok, !.connection_count = conns]
         /\ job' = Outside(job, "ended")
         /\ UNCHANGED ready
    [] job.goal = "hal" ->
         /\ UNCHANGED ready
         /\ IF ~ok THEN Answer("retry")
            ELSE /\ UNCHANGED adv
                 /\ job' = IF job.call = "start" THEN Reading(job, "start") ELSE Outside(job, "call")
    [] job.goal = "start" ->
         /\ UNCHANGED ready
         /\ IF ok THEN job' = Outside(job, "call") /\ UNCHANGED adv
            ELSE Answer("error")
    [] job.goal = "wait" ->
         \/ ready' = TRUE /\ job' = Rest /\ UNCHANGED adv
         \/ ~ok /\ job' = Reading(job, "wait") /\ UNCHANGED <<ready, adv>>
    [] job.goal = "address" -> job' = Rest /\ UNCHANGED <<ready, adv>>

ReadFrame == LoopOnly /\ UNCHANGED <<inited, id_seq, addr, conns, ended, stack>>

\* An attempt that saw no coherent record.
Missed ==
  IF job.tries + 1 < TRIES
  THEN job' = [Outside(job, "load") EXCEPT !.tries = job.tries + 1] /\ UNCHANGED <<ready, adv>>
  ELSE ReadDone(FALSE)

LoadSeq ==
  /\ job.at = "load"
  /\ IF id_seq = 0 \/ id_seq % 2 = 1 THEN Missed
     ELSE job' = [job EXCEPT !.at = "copy", !.s1 = id_seq] /\ UNCHANGED <<ready, adv>>
  /\ ReadFrame

CopyRecord ==
  /\ job.at = "copy"
  /\ job' = [job EXCEPT !.at = "check", !.snap = addr]
  /\ UNCHANGED <<ready, adv>> /\ ReadFrame

CheckSeq ==
  /\ job.at = "check"
  /\ IF id_seq = job.s1 THEN ReadDone(TRUE) ELSE Missed
  /\ ReadFrame

\* od_ble_service_advertising() from the exchange of the pending end on, up
\* to the HAL call.
TakeEnded ==
  /\ job.at = "ended"
  /\ LET c == [adv EXCEPT !.active = @ /\ ~ended]
         call == A!Call(c, job.allowed)
         j == [job EXCEPT !.call = call]
     IN /\ adv' = c
        /\ job' = IF call = "none" THEN AfterPass(j, c)
                  ELSE IF call = "stop" THEN [j EXCEPT !.at = "call"]
                  ELSE Reading(j, "hal")
  /\ ended' = FALSE
  /\ LoopOnly /\ UNCHANGED <<inited, ready, id_seq, addr, conns, stack>>

\* Before the host is in sync the stack refuses.  New data replaces what is
\* on the air, should the controller wrongly take it to have ended.
od_hal_adv_program ==
  /\ job.call = "program"
  /\ \/ /\ host = "up"
        /\ held' = adv.msd /\ air' = (IF air = None THEN None ELSE adv.msd)
        /\ Answer("ok")
     \/ UNCHANGED <<held, air>> /\ Answer("error")

\* BLE_HS_ENOMEM, the connection object in use, is no fault.
od_hal_adv_start ==
  /\ job.call = "start"
  /\ \/ host = "up" /\ ~link /\ air = None /\ air' = (IF held = None THEN Bare ELSE held) /\ Answer("ok")
     \/ host = "up" /\ air # None /\ air' = air /\ Answer("already")
     \/ link /\ air' = air /\ Answer("retry")
     \/ air = None /\ ~link /\ air' = air /\ Answer("error")
  /\ UNCHANGED held

od_hal_adv_stop ==
  /\ job.call = "stop"
  /\ \/ air = None /\ air' = air /\ Answer("not_active")
     \/ air # None /\ air' = None /\ Answer("ok")
     \/ air' = air /\ Answer("error")
  /\ UNCHANGED held

Call ==
  /\ job.at = "call"
  /\ od_hal_adv_program \/ od_hal_adv_start \/ od_hal_adv_stop
  /\ LoopOnly /\ UNCHANGED <<inited, ready, id_seq, addr, conns, ended, ctl, link>>

-----------------------------------------------------------------------------
(* What the application calls, between passes.                             *)

Idle == job.at = "idle" /\ LoopOnly /\ UNCHANGED <<inited, id_seq, addr, conns, ended, stack>>

\* od_ble_init() under begin(): the port refuses a controller that is still
\* enabled, and a failed GATT registration takes the port down again.
begin ==
  /\ job.at = "boot"
  /\ \/ /\ ~ctl
        /\ inited' = TRUE /\ ctl' = TRUE /\ host' = "syncing"
        /\ job' = Reading(Rest, "wait")
     \/ job' = Rest /\ UNCHANGED <<inited, ctl, host>>
  /\ ready' = FALSE
  /\ UNCHANGED <<id_seq, addr, adv, conns, ended, air, held, link, writer, evq, pub, resets>>

setManufacturerData(m) ==
  /\ Idle
  /\ LET c == IF m = adv.msd THEN adv ELSE [adv EXCEPT !.msd = m, !.payload_dirty = TRUE] IN
     adv' = [c EXCEPT !.desired = @ \/ (ready /\ conns = 0)]
  /\ UNCHANGED <<ready, job>>

restartAdvertising == Idle /\ adv' = [adv EXCEPT !.desired = TRUE] /\ UNCHANGED <<ready, job>>

\* What a pass of the pump starts with; before init it is nothing.
Pumped(j) == IF inited THEN Reading(j, "facts") ELSE Rest

serviceAdvertising(allowed) ==
  /\ Idle /\ inited
  /\ job' = Pumped([Rest EXCEPT !.allowed = allowed])
  /\ UNCHANGED <<ready, adv>>

startAdvertising ==
  /\ Idle /\ ready
  /\ adv' = [adv EXCEPT !.desired = TRUE]
  /\ job' = IF adv.active THEN Rest ELSE Pumped([Rest EXCEPT !.what = "start", !.left = PASSES - 1])
  /\ UNCHANGED ready

stopAdvertising ==
  /\ Idle /\ ready
  /\ adv' = [adv EXCEPT !.desired = FALSE]
  /\ job' = IF adv.active THEN Pumped([Rest EXCEPT !.what = "stop", !.left = PASSES - 1]) ELSE Rest
  /\ UNCHANGED ready

od_ble_get_identity_addr ==
  /\ Idle /\ inited
  /\ job' = Reading(Rest, "address")
  /\ UNCHANGED <<ready, adv>>

\* end() down to the stop of the host: intent is withdrawn and pumped first.
end ==
  /\ Idle /\ inited
  /\ adv' = [adv EXCEPT !.desired = FALSE]
  /\ job' = IF adv.active THEN Pumped([Rest EXCEPT !.what = "end", !.left = PASSES - 1])
            ELSE [Rest EXCEPT !.at = "stop"]
  /\ UNCHANGED ready

\* The rest of od_ble_deinit() and of end(): a stop that failed leaves every
\* static as it was.  Otherwise the counter is left odd.
od_ble_deinit(stopped) ==
  IF ~stopped THEN UNCHANGED <<statics, stack, task>>
  ELSE /\ id_seq' = IF id_seq % 2 = 0 THEN id_seq + 1 ELSE id_seq
       /\ inited' = FALSE /\ ready' = FALSE
       /\ adv' = A!AfterReset(adv)
       /\ ended' = FALSE /\ conns' = 0
       /\ host' = "down" /\ writer' = NotReading /\ evq' = <<>>
       /\ ctl' = FALSE /\ air' = None /\ held' = None /\ link' = FALSE
       /\ UNCHANGED <<addr, pub, resets>>

StopPort(stopped) ==
  /\ job.at = "stop"
  /\ od_ble_deinit(stopped)
  /\ job' = [Rest EXCEPT !.at = IF Reinit /\ stopped THEN "boot" ELSE "over"]

\* esp_restart(), which leaves the controller as it is, or a deep sleep.
Restart(slept) ==
  /\ job.at = "over"
  /\ ClearedStatics
  /\ job' = [Rest EXCEPT !.at = "boot"]
  /\ host' = "down" /\ writer' = NotReading /\ evq' = <<>> /\ pub' = 0
  /\ ctl' = (ctl /\ ~slept) /\ air' = None /\ held' = None /\ link' = FALSE
  /\ UNCHANGED resets

-----------------------------------------------------------------------------
Loop == LoadSeq \/ CopyRecord \/ CheckSeq \/ TakeEnded \/ Call

HostTask == Publish \/ od_on_sync \/ od_gap_event \/ Counted

NimbleNext ==
  \/ LoadSeq \/ CopyRecord \/ CheckSeq \/ TakeEnded \/ Call
  \/ begin \/ restartAdvertising \/ startAdvertising \/ stopAdvertising
  \/ od_ble_get_identity_addr \/ end
  \/ \E m \in Msd : setManufacturerData(m)
  \/ \E allowed \in BOOLEAN : serviceAdvertising(allowed)
  \/ \E stopped \in BOOLEAN : StopPort(stopped)
  \/ \E slept \in BOOLEAN : Restart(slept)
  \/ Publish \/ od_on_sync \/ od_gap_event \/ Counted
  \/ LinkForms \/ AttemptFails \/ AdvCompletes \/ LinkDrops \/ od_on_reset

NimbleSpec == NimbleInit /\ [][NimbleNext]_nimbleVars

\* Both tasks keep running, and the loop comes back to the pump with starts
\* allowed.
NimbleFairSpec == NimbleSpec /\ WF_nimbleVars(Loop) /\ WF_nimbleVars(HostTask) /\ SF_nimbleVars(serviceAdvertising(TRUE))

-----------------------------------------------------------------------------
(* Properties.                                                             *)

\* The two tasks agree: an identity that is taken for coherent is one the
\* host published whole, however the publish and the read interleave; once
\* the callback has run, the count of connections is what the stack holds,
\* whatever status the connection came with; and the layers agree on whether
\* the stack is up, a failed teardown included.
NimbleInv ==
  /\ job.at = "check" /\ id_seq = job.s1 => job.snap = pub
  /\ EventsDrained /\ inited => conns = (IF link THEN 1 ELSE 0)
  /\ inited = (host # "down") /\ (ready => inited)

\* The application wants payload m on the air and nothing stands in the way.
Wanted(m) ==
  /\ inited /\ host = "up" /\ ~link /\ id_seq # 0
  /\ adv.desired /\ adv.msd = m /\ ~adv.faulted

\* Whatever ended the last advertisement, a connection, a failed attempt, the
\* stack or a reset of the host, the device is found again, and with its
\* latest payload unless the host was reset: od_on_reset() does not tell the
\* controller, which takes the payload to be programmed still, so that the
\* device may then advertise without one.
ComesBack == \A m \in Msd : <>[]Wanted(m) => []<>(air = m \/ (resets > 0 /\ air = Bare))
=============================================================================
