--------------------------------- MODULE Led ---------------------------------
(***************************************************************************)
(* The LED pattern runner of shared/core (od_led.c) and the adapters that  *)
(* schedule it: a one-shot timer that raises a flag the main loop looks at *)
(* (k_timer on Nordic, sl_sleeptimer on the BG22), or a deadline the main  *)
(* loop polls (ESP32).                                                     *)
(*                                                                         *)
(* A pattern is three loops of flashes, each loop followed by an optional  *)
(* gap, all of it repeated.  A flash leaves its pins dark, so what a call  *)
(* of the runner puts out is a flash or a gap, and the wait it asks for.   *)
(***************************************************************************)
EXTENDS Integers, Sequences, FiniteSets

CONSTANTS
    Instances,  \* LED instances of the configuration
    Patterns,   \* patterns a client sends: colours c, counts n, delays d, gaps g, byte 10
    MaxCmd,     \* commands and configuration writes
    Byte        \* number of values of a byte (256 in the code)

NoRun == [active |-> FALSE, inst |-> 0, pat |-> 0, phase |-> <<"idle", 0>>, i |-> <<0, 0, 0>>,
          group |-> 0, waiting |-> FALSE]

VARIABLES
    stored,     \* stored[i]: LedConfig.reserved of instance i, its mode nibble and its pattern
    led_count,  \* led_count of the configuration
    run,        \* s_run of od_led.c
    led_timed,  \* the adapter waits on a timer flag, not on a polled deadline
    running,    \* s_running
    led_armed,  \* s_armed: the timer runs, or has fired
    led_due,    \* s_timer_due
    reached,    \* the runner's deadline has passed
    out,        \* what the last call put out: a flash or a gap, and its wait
    pos,        \* its place in the group of the pattern
    rounds,     \* groups put out in full
    ended,      \* the pattern whose run has just ended by itself
    led_used    \* commands so far

ledVars == <<stored, led_count, run, led_timed, running, led_armed, led_due, reached, out, pos, rounds, ended, led_used>>

LedInit ==
    /\ stored = [i \in Instances |-> [mode |-> 0, pat |-> CHOOSE p \in Patterns : TRUE]]
    /\ led_count = Cardinality(Instances) /\ run = NoRun
    /\ led_timed \in BOOLEAN /\ running = FALSE /\ led_armed = FALSE /\ led_due = FALSE /\ reached = FALSE
    /\ out = <<>> /\ pos = 0 /\ rounds = 0 /\ ended = {} /\ led_used = 0

-----------------------------------------------------------------------------
(* The runner *)

Forever(p) == p.rep >= Byte - 2
grouprepeats(p) == (p.rep + 1) % Byte

led_instance(i) == i < led_count
od_led_app_mode(i, s) == IF led_instance(i) THEN s[i].mode ELSE 0

(* What the runner still does in this group from loop k on: a flash of the *)
(* first loop that is not through, or the gap after it.                    *)
Busy(r, k) == {j \in k .. 3 : r.i[j] < r.pat.n[j] \/ r.pat.g[j] > 0}
First(S) == CHOOSE j \in S : \A l \in S : j <= l

(* A flash of loop j: its colour on the pins and off again, then the wait. *)
Flash(p, j) == <<"flash", p.c[j], p.d[j]>>

MutNextIn(r, k) ==
    IF Busy(r, k) = {} THEN <<[r EXCEPT !.group = (@ + 1) % Byte, !.phase = <<"group", 0>>], <<"gap", 0>>>>
    ELSE LET j == First(Busy(r, k)) IN
         IF r.i[j] < r.pat.n[j]
         THEN <<[r EXCEPT !.i[j] = @ + 1,
                          !.phase = IF r.pat.d[j] > 0 THEN <<"delay", j>> ELSE <<"loop", j>>],
                Flash(r.pat, j)>>
         ELSE <<[r EXCEPT !.phase = <<"loop", j>>], <<"gap", r.pat.g[j]>>>>

(* One call: the runner's next state and what it put out.  Every call that *)
(* does not finish the run puts out one thing and waits.                   *)
NextIn(r, k) ==
    IF Busy(r, k) = {} THEN <<[r EXCEPT !.group = (@ + 1) % Byte, !.phase = <<"group", 0>>], <<"gap", 0>>>>
    ELSE LET j == First(Busy(r, k)) IN
         IF r.i[j] < r.pat.n[j]
         THEN <<[r EXCEPT !.i[j] = @ + 1,
                          !.phase = IF r.pat.d[j] > 0 THEN <<"delay", j>> ELSE <<"loop", j>>],
                Flash(r.pat, j)>>
         ELSE <<[r EXCEPT !.phase = <<"gapped", j>>], <<"gap", r.pat.g[j]>>>>

Closes(r) == r.phase = <<"group", 0>> \/ r.phase = <<"gapped", 3>>
Over(r) == ~Forever(r.pat) /\ r.group >= grouprepeats(r.pat)

(* The phases that only lead to another are passed through; a group that   *)
(* has closed starts again, or the run is over.                            *)
Advance(r) ==
    LET s == IF r.phase = <<"gapped", 3>> THEN [r EXCEPT !.group = (@ + 1) % Byte] ELSE r IN
    IF Closes(r) THEN (IF Over(s) THEN <<NoRun, <<>>>> ELSE NextIn([s EXCEPT !.i = <<0, 0, 0>>], 1))
    ELSE NextIn(r, IF r.phase[1] = "gapped" THEN r.phase[2] + 1 ELSE r.phase[2])

-----------------------------------------------------------------------------
(* The adapters *)

(* The group as the pattern describes it: n flashes of a loop, its gap if  *)
(* it has one, and a last wait if the third loop has none.                 *)
Part(p, k) == [j \in 1 .. p.n[k] |-> Flash(p, k)]
              \o (IF p.g[k] > 0 \/ k = 3 THEN <<<<"gap", p.g[k]>>>> ELSE <<>>)
Group(p) == Part(p, 1) \o Part(p, 2) \o Part(p, 3)

led_timer_stop == led_armed' = FALSE /\ led_due' = FALSE
Quiet == running' = FALSE /\ led_timer_stop /\ reached' = FALSE

od_led_app_finished(i, s) == IF led_instance(i) THEN [s EXCEPT ![i].mode = 0] ELSE s

(* led_pump on run r: the runner is called.  It may find its mode cleared, *)
(* itself called early, the pattern over, or something to put out.         *)
led_pump(r, s) ==
    IF od_led_app_mode(r.inst, s) # 1
    THEN /\ run' = NoRun /\ Quiet /\ stored' = s /\ ended' = {}
         /\ UNCHANGED <<out, pos, rounds>>
    ELSE IF r.waiting /\ ~reached
    THEN /\ led_armed' = led_timed /\ led_due' = FALSE
         /\ UNCHANGED <<run, running, reached, stored, out, pos, rounds, ended>>
    ELSE LET a == Advance(r) IN
         IF ~a[1].active
         THEN /\ run' = NoRun /\ Quiet /\ stored' = od_led_app_finished(r.inst, s)
              /\ ended' = {r.pat}
              /\ UNCHANGED <<out, pos, rounds>>
         ELSE /\ run' = [a[1] EXCEPT !.waiting = TRUE]
              /\ running' = TRUE /\ led_armed' = led_timed /\ led_due' = FALSE /\ reached' = FALSE
              /\ stored' = s /\ ended' = {} /\ out' = a[2]
              /\ LET fresh == ~r.waiting
                     len == Len(Group(r.pat))
                     at == IF fresh THEN 0 ELSE pos % len
                 IN  /\ pos' = at + 1
                     /\ rounds' = (IF fresh THEN 0 ELSE rounds % Byte)
                                  + (IF at + 1 = len THEN 1 ELSE 0)

(* od_led_activate: the run starts over, from its own copy of the pattern. *)
Started(i, p) == [NoRun EXCEPT !.active = TRUE, !.inst = i, !.pat = p, !.phase = <<"group", 0>>]

(* od_led_stop, and with it the adapter's schedule, over the stored s.     *)
Stopped(s) ==
    /\ stored' = IF run.active THEN od_led_app_finished(run.inst, s) ELSE s
    /\ run' = NoRun /\ Quiet /\ ended' = {}
    /\ UNCHANGED <<out, pos, rounds>>

(* LED_ACTIVATE, with a pattern or for the stored one.  One whose mode is  *)
(* not "run" stops whatever is running.                                    *)
Activate(i, s) ==
    /\ led_used < MaxCmd /\ led_used' = led_used + 1
    /\ IF ~led_instance(i)
       THEN UNCHANGED <<stored, run, running, led_armed, led_due, reached, out, pos, rounds, ended>>
       ELSE IF s[i].mode = 1 THEN led_pump(Started(i, s[i].pat), s) ELSE Stopped(s)
    /\ UNCHANGED <<led_count, led_timed>>

(* What LED_ACTIVATE may leave in instance i before it starts. *)
Given(i) == {[stored EXCEPT ![i] = [mode |-> m, pat |-> p]] : m \in {0, 1}, p \in Patterns} \cup {stored}

opendisplay_led_activate == led_timed /\ \E i \in Instances : \E s \in Given(i) : Activate(i, s)
handleLedActivate == ~led_timed /\ \E i \in Instances : \E s \in Given(i) : Activate(i, s)

(* LED_STOP, with or without an instance: one for another instance than    *)
(* the one that runs is refused.                                           *)
Stop(given, i) ==
    /\ led_used < MaxCmd /\ led_used' = led_used + 1
    /\ IF run.active /\ given /\ i # run.inst
       THEN UNCHANGED <<stored, run, running, led_armed, led_due, reached, out, pos, rounds, ended>>
       ELSE Stopped(stored)
    /\ UNCHANGED <<led_count, led_timed>>

opendisplay_led_stop == led_timed /\ \E given \in BOOLEAN, i \in Instances : Stop(given, i)
handleLedStop == ~led_timed /\ \E given \in BOOLEAN, i \in Instances : Stop(given, i)

(* Before deep sleep (ESP32). *)
ledStopForSleep ==
    /\ ~led_timed /\ run.active
    /\ Stopped(stored)
    /\ UNCHANGED <<led_count, led_timed, led_used>>

(* A configuration write replaces the stored patterns under a run; the run *)
(* keeps its copy of pins and pattern.                                     *)
ReloadConfig ==
    /\ led_used < MaxCmd /\ led_used' = led_used + 1
    /\ \E n \in 0 .. Cardinality(Instances), m \in {0, 1}, p \in Patterns :
          /\ led_count' = n
          /\ stored' = [i \in Instances |-> [mode |-> m, pat |-> p]]
    /\ UNCHANGED <<run, led_timed, running, led_armed, led_due, reached, out, pos, rounds, ended>>

(* The timer fires; it may do so before the runner's clock says so. *)
led_timer_cb ==
    /\ led_armed /\ ~led_due
    /\ led_due' = TRUE
    /\ UNCHANGED <<stored, led_count, run, led_timed, running, led_armed, reached, out, pos, rounds, ended, led_used>>

Time ==
    /\ run.waiting /\ ~reached
    /\ reached' = TRUE
    /\ UNCHANGED <<stored, led_count, run, led_timed, running, led_armed, led_due, out, pos, rounds, ended, led_used>>

opendisplay_led_process ==
    /\ led_timed /\ running /\ (led_armed => led_due)
    /\ led_pump(run, stored)
    /\ UNCHANGED <<led_count, led_timed, led_used>>

processLedFlash ==
    /\ ~led_timed /\ running /\ reached
    /\ led_pump(run, stored)
    /\ UNCHANGED <<led_count, led_timed, led_used>>

LedNext ==
    \/ opendisplay_led_activate \/ handleLedActivate
    \/ opendisplay_led_stop \/ handleLedStop \/ ledStopForSleep
    \/ ReloadConfig
    \/ led_timer_cb \/ Time \/ opendisplay_led_process \/ processLedFlash

(* The timer interrupt fires, time passes and the main loop comes round. *)
LedFairness ==
    /\ WF_ledVars(led_timer_cb) /\ WF_ledVars(Time)
    /\ WF_ledVars(opendisplay_led_process) /\ WF_ledVars(processLedFlash)

LedSpec == LedInit /\ [][LedNext]_ledVars /\ LedFairness

-----------------------------------------------------------------------------

(* What a run puts out is its pattern: call after call the next flash or   *)
(* gap of the group, with the wait the pattern gives it, the group over    *)
(* and over; and a run that ends by itself ends at the close of its last   *)
(* group.  No delay of zero, count of zero or change of configuration      *)
(* makes it skip, repeat or stop short.                                    *)
PatternPlayed ==
    /\ run.active => run.waiting /\ out = Group(run.pat)[pos]
    /\ \A p \in ended : rounds = grouprepeats(p) /\ pos = Len(Group(p))
    /\ run.active /\ ~Forever(run.pat) => rounds <= grouprepeats(run.pat)

(* A finite pattern ends, whatever its delays and counts: every call       *)
(* yields and each brings the end nearer (od_led.h promises both).         *)
FinitePatternEnds == (run.active /\ ~Forever(run.pat)) ~> (~run.active \/ Forever(run.pat))
=============================================================================
