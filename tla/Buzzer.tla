------------------------------- MODULE Buzzer -------------------------------
(***************************************************************************)
(* The melody runner of shared/core (od_buzzer.c) with the adapters that   *)
(* schedule it: a one-shot timer that raises s_step_due (Nordic), or a     *)
(* deadline the main loop polls (ESP32).                                   *)
(*                                                                         *)
(* The payload is kept as the code keeps it: a flat sequence of bytes read *)
(* through an offset.  payload[1] is the instance tag, [2] the repeats,    *)
(* [3] the number of patterns; a pattern is its step count and, for each   *)
(* step, an index (0 is a rest) and a duration.                            *)
(***************************************************************************)
EXTENDS Integers, Sequences

LOCAL INSTANCE SequencesExt

CONSTANTS
    Bytes,      \* byte values of a payload
    MaxLen,     \* longest payload of the first command
    AgainLen,   \* longest payload of a later one
    PayloadMax, \* OD_BUZZER_PAYLOAD_MAX
    MaxTotal,   \* OD_BUZZER_MAX_TOTAL_MS, in units of a step's duration
    Gap,        \* OD_BUZZER_INTER_PATTERN_MS, in the same unit
    Late,       \* how long the main loop may keep a due step waiting
    MaxCmd      \* commands

NoRun == [active |-> FALSE, waiting |-> FALSE, tone |-> FALSE, payload |-> <<>>, outer |-> 0,
          repeat |-> 0, count |-> 0, pattern |-> 0, offset |-> 0, steps |-> 0, step |-> 0,
          gap |-> FALSE, deadline |-> 0]

VARIABLES
    run,        \* s_run of od_buzzer.c
    clock,      \* time since the run was started
    sounding,   \* the tone generator runs
    enable,     \* the amplifier's enable line
    running,    \* s_running of the adapter
    timer,      \* the step timer: "off", "armed", "due" (s_step_due); "polled" on ESP32
    items,      \* what the run has put out: steps and gaps
    ended,      \* <<>>, or how the run has just ended ("whole", or "cut" at the total
                \* time) and its payload
    used

buzzerVars == <<run, clock, sounding, enable, running, timer, items, ended, used>>

Timers == {"off", "polled"}

BuzzerInit ==
    /\ run = NoRun /\ clock = 0 /\ sounding = FALSE /\ enable = FALSE
    /\ running = FALSE /\ timer \in Timers
    /\ items = <<>> /\ ended = <<>> /\ used = 0

Off == IF timer = "polled" THEN "polled" ELSE "off"
Armed == IF timer = "polled" THEN "polled" ELSE "armed"

-----------------------------------------------------------------------------
(* Validation *)

(* The instance byte has been looked up by the adapter. *)
Payloads(max) == UNION {{<<0>> \o p : p \in [1 .. n - 1 -> Bytes]} : n \in 3 .. max}

(* The pattern that starts at offset o (0-based, as in the code) ends      *)
(* where the next one starts.                                              *)
After(p, o) == o + 1 + 2 * p[o + 1]

(* Scan[k]: where the validating loop stands after k patterns, or -1 once  *)
(* a pattern is truncated.                                                 *)
Scan(p) ==
    LET s[k \in 0 .. p[3]] ==
          IF k = 0 THEN 3
          ELSE IF s[k - 1] = -1 \/ s[k - 1] >= Len(p) THEN -1
          ELSE IF After(p, s[k - 1]) > Len(p) THEN -1 ELSE After(p, s[k - 1])
    IN  s

Accepts(p) == p[3] # 0 /\ Scan(p)[p[3]] = Len(p) /\ Len(p) <= PayloadMax

-----------------------------------------------------------------------------
(* The runner *)

Byte(r, o) == r.payload[o + 1]

Fresh(p) == [NoRun EXCEPT !.active = TRUE, !.payload = p, !.outer = IF p[2] = 0 THEN 1 ELSE p[2],
                          !.count = p[3], !.offset = 4, !.steps = p[4]]

MutRestarted(r) == [r EXCEPT !.pattern = 0, !.offset = 4, !.step = 0]

Restarted(r) == [r EXCEPT !.pattern = 0, !.offset = 4, !.steps = Byte(r, 3), !.step = 0]

NextPattern(r) == [r EXCEPT !.pattern = @ + 1, !.steps = Byte(r, r.offset), !.offset = @ + 1,
                            !.step = 0, !.gap = FALSE]

Clipped(units, t) == IF units > MaxTotal - t THEN MaxTotal - t ELSE units

(* od_buzzer_service from a run that is not waiting: it passes over steps  *)
(* of no duration and through repeats until it has something to put out or *)
(* is over.  The result is the run and the item: a step, a gap, or the     *)
(* reason the run has ended.                                               *)
RECURSIVE Serve(_, _)
Serve(r, t) ==
    IF t >= MaxTotal THEN <<NoRun, <<"cut">>>>
    ELSE IF r.gap THEN Serve(NextPattern(r), t)
    ELSE IF r.step < r.steps
    THEN LET index == Byte(r, r.offset)
             units == Clipped(Byte(r, r.offset + 1), t)
             s == [r EXCEPT !.offset = @ + 2, !.step = @ + 1]
         IN  IF units = 0 THEN Serve(s, t)
             ELSE <<[s EXCEPT !.deadline = t + units, !.waiting = TRUE],
                    <<"step", index, Byte(r, r.offset + 1)>>>>
    ELSE IF r.pattern + 1 < r.count
    THEN <<[r EXCEPT !.gap = TRUE, !.deadline = t + Gap, !.waiting = TRUE], <<"gap">>>>
    ELSE IF r.repeat + 1 >= r.outer THEN <<NoRun, <<"whole">>>>
    ELSE Serve(Restarted([r EXCEPT !.repeat = @ + 1]), t)

finish == sounding' = FALSE /\ enable' = FALSE

(* An index of 0 is silence; a pin, a frequency or a timer may not do. *)
tone_start(index, ok) == index # 0 /\ ok

(* buzzer_pump at time t: the runner is called, its tone, enable line and  *)
(* timer are set.  The tone generator may refuse to start.                 *)
buzzer_pump(r, t, en, sofar) ==
    LET a == Serve([r EXCEPT !.waiting = FALSE, !.tone = FALSE], t)
        item == a[2]
    IN  IF ~a[1].active
        THEN /\ run' = NoRun /\ finish
             /\ running' = FALSE /\ timer' = Off
             /\ ended' = <<item[1], r.payload>> /\ items' = sofar
        ELSE /\ \E ok \in BOOLEAN :
                  LET tone == item[1] = "step" /\ tone_start(item[2], ok) IN
                  /\ run' = [a[1] EXCEPT !.tone = tone]
                  /\ sounding' = tone
             /\ enable' = (item[1] = "step" \/ en)
             /\ running' = TRUE /\ timer' = Armed
             /\ ended' = <<>> /\ items' = Append(sofar, item)

-----------------------------------------------------------------------------

(* BUZZER_ACTIVATE: an accepted payload ends the run in progress and takes *)
(* its place, a refused one leaves it alone.                               *)
opendisplay_buzzer_activate(p) ==
    /\ used < MaxCmd /\ used' = used + 1
    /\ IF Accepts(p)
       THEN clock' = 0 /\ buzzer_pump(Fresh(p), 0, FALSE, <<>>)
       ELSE UNCHANGED <<run, clock, sounding, enable, running, timer, items, ended>>

Quiet ==
    /\ run' = NoRun /\ finish /\ running' = FALSE /\ timer' = Off
    /\ ended' = <<>> /\ items' = <<>>

(* Deep sleep silences the buzzer. *)
buzzerStopForSleep ==
    /\ run.active /\ timer = "polled"
    /\ Quiet
    /\ UNCHANGED <<clock, used>>

step_timer_cb ==
    /\ timer = "armed" /\ clock >= run.deadline
    /\ timer' = "due"
    /\ UNCHANGED <<run, clock, sounding, enable, running, items, ended, used>>

BuzzerTime ==
    /\ run.active /\ clock < run.deadline + Late
    /\ clock' = clock + 1
    /\ UNCHANGED <<run, sounding, enable, running, timer, items, ended, used>>

opendisplay_buzzer_process ==
    /\ running /\ IF timer = "polled" THEN clock >= run.deadline ELSE timer = "due"
    /\ buzzer_pump(run, clock, enable, items)
    /\ UNCHANGED <<clock, used>>

BuzzerNext ==
    \/ \E p \in Payloads(IF used = 0 THEN MaxLen ELSE AgainLen) : opendisplay_buzzer_activate(p)
    \/ buzzerStopForSleep
    \/ step_timer_cb \/ BuzzerTime \/ opendisplay_buzzer_process

BuzzerSpec == BuzzerInit /\ [][BuzzerNext]_buzzerVars

-----------------------------------------------------------------------------
(* The tune a payload describes: the steps of its patterns that last, with *)
(* a gap between two patterns, as often as it asks for.                    *)
StepsOf(p, k) ==
    LET o == Scan(p)[k - 1]
        all == [j \in 1 .. p[o + 1] |-> <<"step", p[o + 2 * j], p[o + 2 * j + 1]>>]
    IN  SelectSeq(all, LAMBDA x : x[3] # 0)
Round(p) == FlattenSeq([k \in 1 .. p[3] |-> StepsOf(p, k) \o (IF k < p[3] THEN <<<<"gap">>>> ELSE <<>>)])
Tune(p) == FlattenSeq([i \in 1 .. (IF p[2] = 0 THEN 1 ELSE p[2]) |-> Round(p)])

(* What a run puts out is its tune, in order and from the start, and a run *)
(* that ends before the total time has put out all of it: the offset the   *)
(* runner reads the payload through stays in step with the pattern and     *)
(* step counters through empty patterns, steps of no duration and repeats. *)
TunePlayed ==
    /\ run.active => IsPrefix(items, Tune(run.payload))
    /\ ended # <<>> => IF ended[1] = "whole" THEN items = Tune(ended[2])
                       ELSE clock >= MaxTotal /\ IsPrefix(items, Tune(ended[2]))

(* The tone stops within the total time, give or take how late the main    *)
(* loop comes round, and nothing is left on once the run is over: not the  *)
(* tone, not the amplifier.                                                *)
SoundBounded ==
    /\ sounding => clock <= MaxTotal + Late
    /\ ~run.active => ~sounding /\ ~enable
=============================================================================
