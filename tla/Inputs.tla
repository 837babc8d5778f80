------------------------------- MODULE Inputs -------------------------------
(***************************************************************************)
(* From a pin to the advertisement: the buttons of the three targets       *)
(* (opendisplay_button.c, device_control.cpp, the BG22's opendisplay_ble.c)*)
(* the resistor ladder of the ESP32, and the NFC field detector of the     *)
(* BG22 and of Nordic (opendisplay_nfc.c).                                 *)
(*                                                                         *)
(* A button reports its number, its state and a count of its presses into  *)
(* the byte of its BinaryInputs instance, which it may share with others;  *)
(* the ladder and the field have a byte of their own.  An interrupt        *)
(* handler and the loop run on one core: the loop takes no step while an   *)
(* interrupt waits.                                                        *)
(***************************************************************************)
EXTENDS Integers, Sequences, FiniteSets

CONSTANTS
    Targets,     \* of {"nordic", "silabs", "esp32"}
    Pressed,     \* the buttons that are pressed, per target, in the order they are armed
    Layouts,     \* byte indices the buttons may be given
    FieldModes,  \* field_detect_mode: "poll" (1), "irq" (2); "t2t" or "none" on Nordic
    Thresholds,  \* of the ladder, falling; one more than it has buttons
    AdcMax,      \* largest reading of the ladder's pin
    Debounce,    \* ADC_LADDER_DEBOUNCE
    Wrap,        \* a press count is kept modulo this (16; 128 for the field)
    MaxInput     \* moves of the pins

Buttons == UNION {Pressed[t] : t \in Targets}
Bytes == UNION {{f[b] : b \in Buttons} : f \in Layouts}
No == -1

ASSUME InputsAssumption == Buttons \subseteq Nat \ {0} /\ \A f \in Layouts : DOMAIN f = Buttons

VARIABLES
    target, mode, index,        \* the build and configuration; index: the byte of a button
    slow, armed,                \* the field is debounced, and its pin has its interrupt
    level,                      \* button -> its pin, as pressed or not
    button_irq,                 \* the buttons whose edge waits for its handler
    cs,                         \* current_state
    count,                      \* press_count
    byte,                       \* dynamic_return: the button, its state and its count
    dirty,                      \* s_button_msd_dirty, buttonEventPending, s_msd_publish_pending
    last,                       \* lastChangedButtonIndex, {} for 0xFF
    pc,                         \* where the loop is: "idle", "taken", "read", "build"
    tmp,                        \* the button and the level it holds
    air,                        \* the bytes being advertised
    linked,                     \* a client is connected
    latest,                     \* history: the button of a byte that moved last since they were armed, or 0
    adc, lad,                   \* the ladder: its reading; cur, cand, n, id, count
    fld,                        \* a reader's field is there
    fs,                         \* field detector: state, count, pend, want, win (inside the debounce time)
    fbyte, fair,                \* its byte, and that byte as advertised
    fpc,                        \* the loop is about to apply the pending field state (Nordic)
    raced,                      \* history: an event came while the loop held an older one
    moves

bvars == <<level, button_irq, cs, count, byte, dirty, last, pc, tmp, air, linked, latest>>
lvars == <<adc, lad>>
fvars == <<fld, fs, fbyte, fair, fpc, raced>>
conf == <<target, mode, index, slow, armed>>
inputsVars == <<conf, bvars, lvars, fvars, moves>>

Rest == [on |-> FALSE, n |-> 0]
Blank == [i \in Bytes |-> [id |-> 0, on |-> FALSE, n |-> 0]]

\* The byte of button b, and what becomes of the bytes when the buttons of bs
\* are written in their order.
Encoded(b, on, n) == [id |-> b, on |-> on, n |-> n]
Written(bytes, bs, on, n) ==
    [i \in Bytes |->
        LET here == {b \in bs : index[b] = i}
            b    == CHOOSE b \in here : \A c \in here : c <= b
        IN  IF here = {} THEN bytes[i] ELSE Encoded(b, on[b], n[b])]

\* od_buttons_init_from_config leaves the state of every button in its byte.
None == [b \in Buttons |-> 0]
Armed == Written(Blank, Pressed[target], level, None)

InputsInit ==
    /\ target \in Targets
    /\ mode \in CASE target = "silabs" -> FieldModes \cap {"poll", "irq"}
                  [] target = "nordic" -> FieldModes \cap {"t2t", "none"}
                  [] OTHER -> {"none"}
    /\ slow \in BOOLEAN /\ (slow => mode \in {"poll", "irq"})
    /\ armed \in BOOLEAN /\ (~armed => mode = "irq")
    /\ index \in Layouts
    /\ level \in [Buttons -> BOOLEAN] /\ button_irq = {}
    /\ cs = level /\ count = None
    /\ byte = IF target = "silabs" THEN Armed ELSE Blank
    /\ dirty = FALSE /\ last = {} /\ pc = "idle" /\ tmp = [who |-> {}, on |-> FALSE]
    /\ air = byte /\ linked = FALSE /\ latest = [i \in Bytes |-> 0]
    /\ adc = AdcMax /\ lad = [cur |-> No, cand |-> No, n |-> 0, id |-> 0, count |-> 0, byte |-> Rest]
    /\ fld = FALSE
    /\ fs = [on |-> FALSE, n |-> 0, pend |-> FALSE, want |-> FALSE, win |-> FALSE]
    /\ fbyte = Rest /\ fair = Rest /\ fpc = FALSE /\ raced = FALSE
    /\ moves = 0

-----------------------------------------------------------------------------
(* The world *)

Move(b) ==
    /\ moves < MaxInput /\ moves' = moves + 1
    /\ b \in Pressed[target]
    /\ level' = [level EXCEPT ![b] = ~@]
    /\ button_irq' = IF target = "nordic" THEN button_irq ELSE button_irq \cup {b}
    /\ UNCHANGED <<conf, cs, count, byte, dirty, last, pc, tmp, air, linked, latest, lvars, fvars>>

Turn ==
    /\ moves < MaxInput /\ moves' = moves + 1
    /\ target = "esp32" /\ adc' \in 0 .. AdcMax
    /\ UNCHANGED <<conf, bvars, lad, fvars>>

Link ==
    /\ linked' = ~linked /\ (linked' => moves < MaxInput)
    /\ moves' = IF linked' THEN moves + 1 ELSE moves
    /\ UNCHANGED <<conf, level, button_irq, cs, count, byte, dirty, last, pc, tmp, air, latest, lvars, fvars>>

-----------------------------------------------------------------------------
(* Buttons *)

NoPass == pc = "idle" /\ button_irq = {} /\ ~fpc

Counted(b, on) == IF on THEN (count[b] + 1) % Wrap ELSE count[b]

Mut_od_button_irq_callback(b) ==
    /\ target = "silabs" /\ b \in button_irq /\ button_irq' = button_irq \ {b}
    /\ IF level[b] = cs[b] THEN UNCHANGED <<cs, count, byte, dirty, latest>>
       ELSE /\ cs' = [cs EXCEPT ![b] = level[b]]
            /\ count' = [count EXCEPT ![b] = Counted(b, level[b])]
            /\ byte' = [byte EXCEPT ![index[b]] = Encoded(b, level[b], count'[b])]
            /\ dirty' = (dirty \/ level[b]) /\ latest' = [latest EXCEPT ![index[b]] = b]
    /\ UNCHANGED <<conf, level, last, pc, tmp, air, linked, lvars, fvars, moves>>

(* od_button_irq_callback: the byte is written in the handler. *)
od_button_irq_callback(b) ==
    /\ target = "silabs" /\ b \in button_irq /\ button_irq' = button_irq \ {b}
    /\ IF level[b] = cs[b] THEN UNCHANGED <<cs, count, byte, dirty, latest>>
       ELSE /\ cs' = [cs EXCEPT ![b] = level[b]]
            /\ count' = [count EXCEPT ![b] = Counted(b, level[b])]
            /\ byte' = [byte EXCEPT ![index[b]] = Encoded(b, level[b], count'[b])]
            /\ dirty' = TRUE /\ latest' = [latest EXCEPT ![index[b]] = b]
    /\ UNCHANGED <<conf, level, last, pc, tmp, air, linked, lvars, fvars, moves>>

(* handleButtonISR: one index is kept for all the buttons. *)
handleButtonISR(b) ==
    /\ target = "esp32" /\ b \in button_irq /\ button_irq' = button_irq \ {b}
    /\ IF level[b] = cs[b] THEN UNCHANGED <<cs, count, dirty, last, latest>>
       ELSE /\ cs' = [cs EXCEPT ![b] = level[b]]
            /\ count' = [count EXCEPT ![b] = Counted(b, level[b])]
            /\ last' = {b}
            /\ dirty' = TRUE /\ latest' = [latest EXCEPT ![index[b]] = b]
    /\ raced' = (raced \/ pc # "idle" \/ last \ {b} # {})
    /\ UNCHANGED <<conf, level, byte, pc, tmp, air, linked, lvars, fld, fs, fbyte, fair, fpc, moves>>

(* od_publish_button_msd clears the flag, then build_and_apply_adv reads   *)
(* the bytes: an edge in between raises it again.                          *)
od_publish_button_msd ==
    /\ target = "silabs" /\ NoPass /\ dirty /\ ~linked
    /\ dirty' = FALSE /\ pc' = "build"
    /\ UNCHANGED <<conf, level, button_irq, cs, count, byte, last, tmp, air, linked, latest, lvars, fvars, moves>>

build_and_apply_adv ==
    /\ target = "silabs" /\ pc = "build" /\ button_irq = {}
    /\ air' = byte /\ fair' = fbyte /\ pc' = "idle"
    /\ UNCHANGED <<conf, level, button_irq, cs, count, byte, dirty, last, tmp, linked, latest, lvars,
                   fld, fs, fbyte, fpc, raced, moves>>

(* The refresh every OD_MSD_UPDATE_INTERVAL_MS. *)
periodic_refresh ==
    /\ target = "silabs" /\ NoPass
    /\ air' = byte /\ fair' = fbyte
    /\ UNCHANGED <<conf, level, button_irq, cs, count, byte, dirty, last, pc, tmp, linked, latest, lvars,
                   fld, fs, fbyte, fpc, raced, moves>>

(* opendisplay_ble_reload_config_from_nvm, as far as the buttons go. *)
od_buttons_init_from_config ==
    /\ target = "silabs" /\ NoPass
    /\ cs' = level /\ count' = None
    /\ byte' = Armed
    /\ dirty' = FALSE /\ latest' = [i \in Bytes |-> 0]
    /\ UNCHANGED <<conf, level, button_irq, last, pc, tmp, air, linked, lvars, fvars, moves>>

(* processButtonEvents takes the event with interrupts locked, ...         *)
processButtonEvents ==
    /\ target = "esp32" /\ NoPass /\ dirty
    /\ dirty' = FALSE /\ last' = {} /\ pc' = "taken" /\ tmp' = [tmp EXCEPT !.who = last]
    /\ UNCHANGED <<conf, level, button_irq, cs, count, byte, air, linked, latest, lvars, fvars, moves>>

(* ... reads the pin, ... *)
ReadPin ==
    /\ pc = "taken" /\ button_irq = {}
    /\ pc' = "read" /\ tmp' = [tmp EXCEPT !.on = \E b \in tmp.who : level[b]]
    /\ UNCHANGED <<conf, level, button_irq, cs, count, byte, dirty, last, air, linked, latest, lvars, fvars, moves>>

(* ... and reports it: updatemsdata puts every byte on the air. *)
updatemsdata ==
    /\ pc = "read" /\ button_irq = {} /\ pc' = "idle"
    /\ cs' = [b \in Buttons |-> IF b \in tmp.who THEN tmp.on ELSE cs[b]]
    /\ byte' = Written(byte, tmp.who, cs', count)
    /\ air' = byte'
    /\ UNCHANGED <<conf, level, button_irq, count, dirty, last, tmp, linked, latest, lvars, fvars, moves>>

(* opendisplay_button_process: Nordic compares levels on every pass. *)
opendisplay_button_process ==
    /\ target = "nordic" /\ NoPass /\ cs # level
    /\ cs' = level
    /\ count' = [b \in Buttons |-> IF cs[b] = level[b] THEN count[b] ELSE Counted(b, level[b])]
    /\ byte' = Written(byte, {b \in Buttons : cs[b] # level[b]}, level, count')
    /\ dirty' = TRUE
    /\ latest' = [i \in Bytes |-> IF byte'[i] = byte[i] THEN latest[i] ELSE byte'[i].id]
    /\ UNCHANGED <<conf, level, button_irq, last, pc, tmp, air, linked, lvars, fvars, moves>>

(* opendisplay_ble_update_msd raises a flag; the next pass over the        *)
(* advertising programs the bytes.                                         *)
ble_service_advertising ==
    /\ target = "nordic" /\ NoPass /\ dirty
    /\ dirty' = FALSE /\ air' = byte /\ fair' = fbyte
    /\ UNCHANGED <<conf, level, button_irq, cs, count, byte, last, pc, tmp, linked, latest, lvars,
                   fld, fs, fbyte, fpc, raced, moves>>

-----------------------------------------------------------------------------
(* The resistor ladder *)

classifyAdcLadder(v) ==
    IF v > Thresholds[1] THEN No
    ELSE LET hit == {i \in 1 .. Len(Thresholds) - 1 : v > Thresholds[i + 1]}
         IN  IF hit = {} THEN Len(Thresholds) - 2
             ELSE (CHOOSE i \in hit : \A j \in hit : i <= j) - 1

(* pollAdcButtons; that five seconds have passed since the last press      *)
(* restarts the count.                                                     *)
pollAdcButtons ==
    LET btn == classifyAdcLadder(adc)
        n   == IF btn # lad.cand THEN 1 ELSE IF lad.n < Debounce THEN lad.n + 1 ELSE lad.n
    IN
    /\ target = "esp32" /\ NoPass
    /\ lad.cand # btn \/ lad.cur # btn
    /\ IF n < Debounce \/ btn = lad.cur THEN lad' = [lad EXCEPT !.cand = btn, !.n = n]
       ELSE \E restart \in BOOLEAN :
            LET id == IF btn = No THEN lad.id ELSE btn
                c  == IF btn = No THEN lad.count ELSE ((IF restart THEN 0 ELSE lad.count) + 1) % Wrap
            IN  lad' = [cur |-> btn, cand |-> btn, n |-> n, id |-> id, count |-> c,
                        byte |-> [on |-> btn # No, n |-> c]]
    /\ air' = byte   \* updatemsdata
    /\ UNCHANGED <<conf, level, button_irq, cs, count, byte, dirty, last, pc, tmp, linked, latest, adc, fvars, moves>>

-----------------------------------------------------------------------------
(* The NFC field *)

fpins == <<conf, bvars, lvars>>

(* A reader comes or goes: an edge (mode 2), a callback (Nordic), or       *)
(* nothing at all (mode 1).                                                *)
od_nfc_field_detect_irq_callback ==
    /\ target = "silabs" /\ moves < MaxInput /\ moves' = moves + 1
    /\ fld' = ~fld
    /\ fs' = [fs EXCEPT !.pend = @ \/ (mode = "irq" /\ armed)]
    /\ UNCHANGED <<fpins, fbyte, fair, fpc, raced>>

Scanned(on) == IF on /\ ~fs.on THEN (fs.n + 1) % Wrap ELSE fs.n

(* od_nfc_field_detect_refresh, in a pass that finds a pending edge or     *)
(* that polls.                                                             *)
od_nfc_field_detect_refresh ==
    IF fld = fs.on \/ (slow /\ fs.win)
    THEN fs' = [fs EXCEPT !.pend = FALSE] /\ UNCHANGED <<fbyte, fair, air>>
    ELSE /\ fs' = [fs EXCEPT !.pend = FALSE, !.win = TRUE, !.on = fld, !.n = Scanned(fld)]
         /\ fbyte' = [on |-> fld, n |-> Scanned(fld)]
         /\ fair' = fbyte' /\ air' = byte

od_nfc_field_detect_process ==
    /\ target = "silabs" /\ NoPass
    /\ IF mode = "irq" THEN fs.pend ELSE fld # fs.on
    /\ od_nfc_field_detect_refresh
    /\ UNCHANGED <<conf, level, button_irq, cs, count, byte, dirty, last, pc, tmp, linked, latest, lvars, fld, fpc, raced, moves>>

nfc_apply_field_state(on, f) ==
    IF on = fs.on THEN fs' = f /\ UNCHANGED <<fbyte, dirty>>
    ELSE /\ fs' = [f EXCEPT !.on = on, !.n = Scanned(on)]
         /\ fbyte' = [on |-> on, n |-> Scanned(on)]
         /\ dirty' = TRUE

(* nfc_callback interrupts the loop wherever it is. *)
nfc_callback ==
    /\ target = "nordic" /\ mode = "t2t" /\ moves < MaxInput /\ moves' = moves + 1
    /\ fld' = ~fld /\ raced' = (raced \/ fpc)
    /\ IF fs.win THEN fs' = [fs EXCEPT !.want = ~fld, !.pend = TRUE] /\ UNCHANGED <<fbyte, dirty>>
       ELSE nfc_apply_field_state(~fld, [fs EXCEPT !.win = TRUE, !.pend = FALSE])
    /\ UNCHANGED <<conf, level, button_irq, cs, count, byte, last, pc, tmp, air, linked, latest, lvars, fair, fpc>>

opendisplay_nfc_process ==
    /\ target = "nordic" /\ NoPass /\ fs.pend /\ ~fs.win
    /\ fpc' = TRUE
    /\ UNCHANGED <<fpins, fld, fs, fbyte, fair, raced, moves>>

ApplyPending ==
    /\ fpc /\ fpc' = FALSE
    /\ nfc_apply_field_state(fs.want, [fs EXCEPT !.win = TRUE, !.pend = FALSE])
    /\ UNCHANGED <<conf, level, button_irq, cs, count, byte, last, pc, tmp, air, linked, latest, lvars, fld, fair, raced, moves>>

(* The debounce time runs out. *)
Window ==
    /\ fs.win /\ fs' = [fs EXCEPT !.win = FALSE]
    /\ UNCHANGED <<fpins, fld, fbyte, fair, fpc, raced, moves>>

-----------------------------------------------------------------------------

Loop ==
    \/ od_publish_button_msd \/ build_and_apply_adv \/ periodic_refresh
    \/ processButtonEvents \/ ReadPin \/ updatemsdata
    \/ opendisplay_button_process \/ ble_service_advertising
    \/ pollAdcButtons
    \/ od_nfc_field_detect_process \/ opendisplay_nfc_process \/ ApplyPending

InputsNext ==
    \/ \E b \in Buttons : Move(b) \/ od_button_irq_callback(b) \/ handleButtonISR(b)
    \/ Turn \/ Link \/ od_buttons_init_from_config
    \/ od_nfc_field_detect_irq_callback \/ nfc_callback \/ Window
    \/ Loop

InputsSpec == InputsInit /\ [][InputsNext]_inputsVars

(* Handlers run, time passes, and every pass of the loop makes each of its *)
(* calls.  Nothing is asked of the pins, the readers or the clients.       *)
InputsFairness ==
    /\ \A b \in Buttons : WF_inputsVars(od_button_irq_callback(b)) /\ WF_inputsVars(handleButtonISR(b))
    /\ WF_inputsVars(Window)
    /\ WF_inputsVars(od_publish_button_msd) /\ WF_inputsVars(build_and_apply_adv) /\ WF_inputsVars(periodic_refresh)
    /\ WF_inputsVars(processButtonEvents) /\ WF_inputsVars(ReadPin) /\ WF_inputsVars(updatemsdata)
    /\ WF_inputsVars(opendisplay_button_process) /\ WF_inputsVars(ble_service_advertising)
    /\ WF_inputsVars(pollAdcButtons)
    /\ WF_inputsVars(od_nfc_field_detect_process) /\ WF_inputsVars(opendisplay_nfc_process) /\ WF_inputsVars(ApplyPending)

InputsFairSpec == InputsSpec /\ InputsFairness

-----------------------------------------------------------------------------

(* The byte that is advertised for a BinaryInputs instance is that of the  *)
(* button of it that moved last, and says what its pin says.               *)
Says(i) == latest[i] = 0 \/ (air[i].id = latest[i] /\ air[i].on = level[latest[i]])

(* The last event of the BG22's buttons is not lost between its handler    *)
(* and the air: with no interrupt waiting, no event flagged and the loop   *)
(* between passes, the byte that is advertised for an instance is that of  *)
(* the button of it that moved last, says what its pin says, and has every *)
(* press od_button_irq_callback counted, wherever in od_publish_button_msd *)
(* the interrupt came.  An earlier event of another button of the same     *)
(* instance may have been overwritten: they share the byte.                *)
ButtonsCurrent ==
    target = "silabs" /\ button_irq = {} /\ ~dirty /\ pc = "idle" =>
        \A i \in Bytes : Says(i) /\ (latest[i] # 0 => air[i].n = count[latest[i]])

(* Once the pins stay as they are, so does what is advertised, and it says *)
(* the same: a reader's field, the last button of an instance to move, the *)
(* button of a ladder.  Left out are a Nordic field callback that came     *)
(* while opendisplay_nfc_process was about to apply an older state, which  *)
(* it then does; an edge of an ESP32 button while processButtonEvents held *)
(* an earlier one, or before it took that of another button, which may be  *)
(* lost; and the BG22's field detector in mode 2 when its interrupt was    *)
(* refused, for it does not fall back to polling, or when it is debounced, *)
(* for it discards the edges of the debounce time.                         *)
InputsSettle ==
    <>[](/\ mode # "none" /\ ~raced /\ (mode = "irq" => armed /\ ~slow) => fair.on = fld
         /\ (target = "esp32" => ~raced) => \A i \in Bytes : Says(i)
         /\ target = "esp32" => lad.byte.on = (classifyAdcLadder(adc) # No))
=============================================================================
