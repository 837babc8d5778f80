-------------------------------- MODULE Touch --------------------------------
(***************************************************************************)
(* The GT911 touch driver (shared/core/od_touch_gt911.c) with the target   *)
(* wrappers that schedule it (od_touch_app of each target): which pin's      *)
(* interrupt belongs to which controller, when a waiting report is read,   *)
(* when a controller is given up, and what the advertisement then says.    *)
(*                                                                         *)
(* The driver runs in the main loop, one controller per step; interrupts,  *)
(* reports of the parts and the clock come between any two steps.  A bus   *)
(* transfer succeeds or fails as a whole (the retries and both framings    *)
(* are inside it), coordinates are left to TouchMap, and the clock is one  *)
(* flag per deadline: due or not.  While a transfer streams the wrapper of *)
(* the ESP32 returns at once, which is a step that changes nothing.        *)
(***************************************************************************)
EXTENDS Integers, FiniteSets

CONSTANTS
    N,          \* controllers, OD_TOUCH_MAX_CONTROLLERS
    PinsOf,     \* PinsOf[i]: interrupt pins a configuration may give controller i, and no other
    NoPin,      \* 0xFF
    Threshold,  \* TOUCH_I2C_FAIL_DISABLE_THRESHOLD
    MaxFail,    \* bound on failing bus transfers
    MaxMove,    \* bound on configuration writes
    MaxRefresh, \* bound on refreshes
    MaxReport   \* bound on reports of the parts

C == 1 .. N
Pins == UNION {PinsOf[i] : i \in C} \ {NoPin}

ASSUME TouchAssumption ==
    /\ N \in Nat \ {0} /\ Threshold \in Nat \ {0}
    /\ \A i \in C : PinsOf[i] # {}
    /\ \A i, j \in C : i # j => PinsOf[i] \cap PinsOf[j] \subseteq {NoPin}
    /\ {MaxFail, MaxMove, MaxRefresh, MaxReport} \subseteq Nat

VARIABLES
    paired,   \* refreshes are bracketed by suspend and resume (ESP32), or only followed by
              \* a re-establish (Nordic)
    cfg,      \* cfg[i]: the configured controller
    rt,       \* s_rt
    isr,      \* isr[p]: the controller whose handler is installed on pin p, or 0
    irq,      \* s_irq_mask
    due,      \* s_next_due_ms has passed
    timed,    \* controllers whose poll interval has passed
    suspend,  \* s_suspend
    part,     \* part[i]: the report waiting in controller i
    aired,    \* aired[i]: the contact in the advertisement as last published
    told,     \* history: the contact of the last report that was not discarded unread
    at,       \* the walk in progress: its kind, its controller, its snapshot of the mask
    used      \* bounded events so far

touchVars == <<paired, cfg, rt, isr, irq, due, timed, suspend, part, aired, told, at, used>>

Idle == [op |-> "idle", i |-> 0, mask |-> {}]
Cleared == [ok |-> FALSE, attached |-> FALSE, pin |-> NoPin, disabled |-> FALSE,
            streak |-> 0, latched |-> FALSE, count |-> 0]

Configs == {c \in [C -> [on : BOOLEAN, pin : Pins \union {NoPin}]] : \A i \in C : c[i].pin \in PinsOf[i]}

TouchTypeOK ==
    /\ \A i \in C : /\ rt[i].pin \in Pins \union {NoPin}
                    /\ rt[i].streak \in 0 .. Threshold
                    /\ rt[i].count \in {0, 1}
    /\ isr \in [Pins -> 0 .. N]
    /\ irq \subseteq C /\ timed \subseteq C
    /\ suspend \in 0 .. MaxRefresh
    /\ at.i \in 0 .. N + 1

TouchInit ==
    /\ paired \in BOOLEAN
    /\ cfg \in Configs
    /\ rt = [i \in C |-> Cleared]
    /\ isr = [p \in Pins |-> 0]
    /\ irq = {} /\ due = FALSE /\ timed = {} /\ suspend = 0
    /\ part = [i \in C |-> "none"] /\ aired = [i \in C |-> 0]
    /\ told = [i \in C |-> 0]
    /\ at = [op |-> "init", i |-> 1, mask |-> {}]
    /\ used = [fail |-> 0, move |-> 0, refresh |-> 0, report |-> 0]

-----------------------------------------------------------------------------
(* The world.                                                              *)

\* A part latches a report and pulls its line; the edge reaches whoever is installed on
\* the pin, or nobody.
Report(i) ==
    /\ part[i] = "none" /\ used.report < MaxReport
    /\ \E s \in {"touch", "release", "garbage"} :
          /\ part' = [part EXCEPT ![i] = s]
          /\ told' = IF s = "garbage" THEN told ELSE [told EXCEPT ![i] = IF s = "touch" THEN 1 ELSE 0]
    /\ irq' \in {irq} \union
                (IF rt[i].pin # NoPin /\ isr[rt[i].pin] # 0 THEN {irq \union {isr[rt[i].pin]}}
                 ELSE {})
    /\ used' = [used EXCEPT !.report = @ + 1]
    /\ UNCHANGED <<paired, cfg, rt, isr, due, timed, suspend, aired, at>>

\* The wrapper's deadline passes, before or with the intervals of the controllers.
Tick(t) ==
    /\ ~due \/ timed # t
    /\ due' = TRUE /\ timed' = t
    /\ UNCHANGED <<paired, cfg, rt, isr, irq, suspend, part, aired, told, at, used>>

\* A configuration write moves pins or drops controllers under the running driver.
Reconfigure ==
    /\ at = Idle /\ used.move < MaxMove
    /\ cfg' \in Configs
    /\ used' = [used EXCEPT !.move = @ + 1]
    /\ UNCHANGED <<paired, rt, isr, irq, due, timed, suspend, part, aired, told, at>>

-----------------------------------------------------------------------------
(* One controller: s holds its runtime, the handlers, its part, what it    *)
(* told and the failed transfers so far.                                   *)

\* A bus transfer fails, which the bound allows.
Fails(s) == IF s.fails < MaxFail THEN {[s EXCEPT !.fails = @ + 1]} ELSE {}

Free(h, p) == IF p = NoPin THEN h ELSE [h EXCEPT ![p] = 0]

Detach(s) ==
    [s EXCEPT !.isr = Free(@, s.r.pin), !.r.pin = NoPin, !.r.attached = FALSE]

\* Driving or reconfiguring the pad destroys whatever trigger is on it.
gt911_int_wake(i, s) ==
    IF cfg[i].pin = NoPin THEN s
    ELSE [s EXCEPT !.isr = Free(@, cfg[i].pin), !.r.attached = FALSE]

\* A board with a reset line, or one without.
gt911_hw_reset(i, s) == {s, [s EXCEPT !.isr = Free(@, cfg[i].pin), !.r.attached = FALSE]}

\* The result of the write is ignored: a report may stay.
gt911_clear_status(s) == {[s EXCEPT !.part = "none"]} \union Fails(s)

\* A report that is acknowledged unread is told to nobody.
Discard(s) ==
    {IF c.part = "none" THEN [c EXCEPT !.told = s.r.count] ELSE c : c \in gt911_clear_status(s)}

Mut_touch_attach_int(i, s) ==
    IF cfg[i].pin = NoPin \/ s.r.attached THEN {s}
    ELSE {[s EXCEPT !.isr = Free(@, cfg[i].pin), !.r.pin = NoPin],
          [s EXCEPT !.isr = [@ EXCEPT ![cfg[i].pin] = i],
                    !.r.attached = TRUE, !.r.pin = cfg[i].pin]}

\* A recorded pin that is no longer the configured one is detached first; the attach can
\* fail, and then nothing is installed.
touch_attach_int(i, s0) ==
    LET s == IF s0.r.pin \notin {NoPin, cfg[i].pin} THEN Detach(s0) ELSE s0
    IN  IF cfg[i].pin = NoPin \/ s.r.attached THEN {s}
        ELSE {[s EXCEPT !.isr = Free(@, cfg[i].pin), !.r.pin = NoPin],
              [s EXCEPT !.isr = [@ EXCEPT ![cfg[i].pin] = i],
                        !.r.attached = TRUE, !.r.pin = cfg[i].pin]}

\* A part that answers is acknowledged, and gets its trigger back.
Acknowledge(i, s0) ==
    UNION {IF cfg[i].pin = NoPin THEN {s} ELSE touch_attach_int(i, gt911_int_wake(i, s)) :
           s \in Discard(s0)}

\* The bus cannot be prepared: nothing changes.  No part answers: not ok.  Or it is up.
touch_bring_up(i, s0) ==
    {s0} \union
    UNION {{[s EXCEPT !.r.ok = FALSE]} \union
           Acknowledge(i, [s EXCEPT !.r.ok = TRUE, !.r.disabled = FALSE, !.r.streak = 0,
                                    !.r.latched = FALSE]) : s \in gt911_hw_reset(i, s0)}

touch_light_resume(i, s) ==
    IF ~s.r.ok THEN {}
    ELSE Acknowledge(i, [s EXCEPT !.r.streak = 0, !.r.latched = FALSE])

touch_disable(s) == Detach([s EXCEPT !.r.disabled = TRUE, !.r.ok = FALSE])

-----------------------------------------------------------------------------
(* Walks over the controllers.                                             *)

Here(op) == at.op = op /\ at.i \in C
State(i) == [r |-> rt[i], isr |-> isr, part |-> part[i], told |-> told[i], fails |-> used.fail]
Becomes(i, s) ==
    /\ rt' = [rt EXCEPT ![i] = s.r]
    /\ isr' = s.isr
    /\ part' = [part EXCEPT ![i] = s.part]
    /\ told' = [told EXCEPT ![i] = s.told]
    /\ used' = [used EXCEPT !.fail = s.fails]
Onward == at' = [at EXCEPT !.i = @ + 1]

\* The end of a walk sets the wrapper's next due time.
Finish ==
    /\ at.op # "idle" /\ at.i = N + 1
    /\ due' = FALSE /\ at' = Idle
    /\ UNCHANGED <<paired, cfg, rt, isr, irq, timed, suspend, part, aired, told, used>>

\* Boot: every configured controller is brought up.
od_touch_gt911_init ==
    /\ Here("init")
    /\ IF cfg[at.i].on THEN \E s \in touch_bring_up(at.i, State(at.i)) : Becomes(at.i, s)
       ELSE UNCHANGED <<rt, isr, part, told, used>>
    /\ timed' = timed \ {at.i}
    /\ Onward
    /\ UNCHANGED <<paired, cfg, irq, due, suspend, aired>>

\* After a refresh: the part is probed where it was, and brought up anew if it is silent.
od_touch_gt911_reestablish ==
    /\ Here("reestablish")
    /\ LET i == at.i
       IN  IF ~cfg[i].on \/ rt[i].disabled THEN UNCHANGED <<rt, isr, part, told, used, timed>>
           ELSE \/ \E s \in touch_light_resume(i, State(i)) :
                      Becomes(i, s) /\ UNCHANGED timed
                \/ \E s \in touch_bring_up(i, State(i)) :
                      Becomes(i, s) /\ timed' = IF s.r.ok THEN timed \ {i} ELSE timed
    /\ Onward
    /\ UNCHANGED <<paired, cfg, irq, due, suspend, aired>>

\* processTouchInput(): the mask is read under the lock, then served.
Begin ==
    /\ at = Idle /\ (irq # {} \/ due)
    /\ IF suspend > 0
       THEN irq' = {} /\ due' = FALSE /\ UNCHANGED at
       ELSE at' = [op |-> "service", i |-> 1, mask |-> irq] /\ UNCHANGED <<irq, due>>
    /\ UNCHANGED <<paired, cfg, rt, isr, timed, suspend, part, aired, told, used>>

Consume(i) == irq' = IF i \in at.mask THEN irq \ {i} ELSE irq

\* A bit nothing will ever act on is discarded.
ServiceNothing ==
    /\ Here("service")
    /\ ~cfg[at.i].on \/ rt[at.i].disabled \/ ~rt[at.i].ok
    /\ Consume(at.i)
    /\ Onward
    /\ UNCHANGED <<paired, cfg, rt, isr, due, timed, suspend, part, aired, told, used>>

Due(i, low) == i \in at.mask \/ i \in timed \/ low

\* touch_service_one() of a controller that is up.  A line held low means a waiting
\* report, and is ignored while a failing controller is backed off.
Serving(i, low) ==
    /\ Here("service") /\ at.i = i
    /\ cfg[i].on /\ rt[i].ok /\ ~rt[i].disabled
    /\ low => rt[i].attached /\ part[i] # "none" /\ (rt[i].streak = 0 \/ i \in timed)

NotDue ==
    /\ Serving(at.i, FALSE) /\ ~Due(at.i, FALSE)
    /\ Onward
    /\ UNCHANGED <<paired, cfg, rt, isr, irq, due, timed, suspend, part, aired, told, used>>

Served(low) ==
    /\ Serving(at.i, low) /\ Due(at.i, low)
    /\ Consume(at.i)
    /\ Onward
    /\ UNCHANGED <<paired, cfg, due, suspend>>

\* The bus is briefly not available: the edge is spent, and nothing counts as polled.
Unprepared(low) ==
    /\ Served(low)
    /\ \E s \in Fails(State(at.i)) : Becomes(at.i, s)
    /\ UNCHANGED <<timed, aired>>

\* Backed off, and given up after Threshold in a row.
Strike(s) == IF s.r.streak >= Threshold THEN touch_disable(s) ELSE s

\* The status register does not answer.
StatusFails(low) ==
    /\ Served(low)
    /\ \E s \in Fails(State(at.i)) : Becomes(at.i, Strike([s EXCEPT !.r.streak = @ + 1]))
    /\ timed' = timed \ {at.i}
    /\ UNCHANGED aired

\* Nothing is waiting: not acknowledged, and an early look does not move the poll.
NotReady(low) ==
    /\ Served(low) /\ part[at.i] = "none"
    /\ rt' = [rt EXCEPT ![at.i].streak = 0]
    /\ timed' = IF at.i \notin at.mask /\ ~low THEN timed \ {at.i} ELSE timed
    /\ UNCHANGED <<isr, part, aired, told, used>>

\* A contact count no part can have: acknowledged and skipped.
Nonsense(low) ==
    /\ Served(low) /\ part[at.i] = "garbage"
    /\ \E s \in gt911_clear_status([State(at.i) EXCEPT !.r.streak = 0]) : Becomes(at.i, s)
    /\ timed' = timed \ {at.i}
    /\ UNCHANGED aired

\* The contact block does not answer: the report stays unacknowledged.
PointFails(low) ==
    /\ Served(low) /\ part[at.i] = "touch"
    /\ \E s \in Fails(State(at.i)) : Becomes(at.i, Strike([s EXCEPT !.r.streak = 1]))
    /\ timed' = timed \ {at.i}
    /\ UNCHANGED aired

Changed(i, n) == n # rt[i].count

\* A sample: acknowledged, cached, packed, and published when it changed.
Sample(low) ==
    /\ Served(low) /\ part[at.i] \in {"touch", "release"}
    /\ LET i == at.i
           n == IF part[i] = "touch" THEN 1 ELSE 0
       IN  /\ \E s \in gt911_clear_status([State(i) EXCEPT !.r.streak = 0, !.r.count = n,
                                                           !.r.latched = @ \/ n > 0]) : Becomes(i, s)
           /\ aired' = IF Changed(i, n) THEN [aired EXCEPT ![i] = n] ELSE aired
    /\ timed' = timed \ {at.i}

-----------------------------------------------------------------------------
(* Refreshes.                                                              *)

od_touch_gt911_suspend ==
    /\ paired /\ at = Idle /\ used.refresh < MaxRefresh
    /\ suspend' = suspend + 1
    /\ used' = [used EXCEPT !.refresh = @ + 1]
    /\ UNCHANGED <<paired, cfg, rt, isr, irq, due, timed, part, aired, told, at>>

\* One suspend undone, or all of them by a teardown; the last one re-establishes.
od_touch_gt911_resume ==
    /\ paired /\ at = Idle /\ suspend > 0
    /\ \E left \in {suspend - 1, 0} :
          /\ suspend' = left
          /\ at' = IF left = 0 THEN [op |-> "reestablish", i |-> 1, mask |-> {}] ELSE at
    /\ UNCHANGED <<paired, cfg, rt, isr, irq, due, timed, part, aired, told, used>>

\* The Nordic hook after a refresh.
opendisplay_touch_resume_after_refresh ==
    /\ ~paired /\ at = Idle /\ used.refresh < MaxRefresh
    /\ at' = [op |-> "reestablish", i |-> 1, mask |-> {}]
    /\ used' = [used EXCEPT !.refresh = @ + 1]
    /\ UNCHANGED <<paired, cfg, rt, isr, irq, due, timed, suspend, part, aired, told>>

Walk ==
    \/ od_touch_gt911_init \/ od_touch_gt911_reestablish \/ Begin \/ ServiceNothing \/ NotDue
    \/ \E low \in BOOLEAN :
          \/ Unprepared(low) \/ StatusFails(low) \/ NotReady(low) \/ Nonsense(low)
          \/ PointFails(low) \/ Sample(low)
    \/ Finish

TouchNext ==
    \/ \E i \in C : Report(i)
    \/ Reconfigure
    \/ Walk
    \/ \E t \in {timed, C} : Tick(t)
    \/ od_touch_gt911_suspend \/ od_touch_gt911_resume
    \/ opendisplay_touch_resume_after_refresh

\* The main loop keeps running, time passes, and a suspended driver is resumed: every
\* refresh ends and a teardown forces it.
TouchFairness == WF_touchVars(Walk) /\ WF_touchVars(Tick(C)) /\ WF_touchVars(od_touch_gt911_resume)

TouchSpec == TouchInit /\ [][TouchNext]_touchVars /\ TouchFairness

-----------------------------------------------------------------------------
(* Properties.                                                             *)

(* "int_attached means a live trigger": a controller believed to have an   *)
(* interrupt has its own handler on the recorded pin, so polling by line   *)
(* level looks at the right pin.  TouchAssumption keeps the pins of the    *)
(* controllers apart: after a write that swaps two of them, the detach by  *)
(* record of the second (touch_attach_int) takes the handler of the first  *)
(* away and leaves its record, and its reports wait for the poll.          *)
TriggerLive ==
    at = Idle =>
        \A i \in C : rt[i].attached => rt[i].pin # NoPin /\ isr[rt[i].pin] = i

(* No orphaned handler: every installed handler is on the pin its          *)
(* controller's record names, so disable and re-init can remove it however *)
(* often configuration writes moved the pin in between.                    *)
NoOrphan == TouchTypeOK /\ \A p \in Pins : isr[p] # 0 => rt[isr[p]].pin = p

(* Once a part has nothing waiting, what is on air for it is the contact   *)
(* it last reported: a failed read, an acknowledgement that did not get    *)
(* through, a nonsense status or a backoff loses neither a touch nor a     *)
(* release.  Excused is the report that a resume or a bring-up             *)
(* acknowledges unread (the gt911_clear_status() of touch_light_resume()   *)
(* and touch_bring_up()): a release among those leaves the air at "touch"  *)
(* until the next contact.                                                 *)
AiredIsLast == \A i \in C : part[i] = "none" => aired[i] = told[i]

(* A report that waits in a part that is up is read (or the controller is  *)
(* given up or dropped), though its edge may be lost, discarded with a     *)
(* suspend or already consumed, and though a nonsense status came first.   *)
ReportServed ==
    \A i \in C : part[i] # "none" ~> (part[i] = "none" \/ ~rt[i].ok \/ ~cfg[i].on)
==============================================================================
