------------------------------ MODULE PowerLatch ------------------------------
(***************************************************************************)
(* The ESP32's soft power latch, its long-press buttons and the buttons    *)
(* that wake it from deep sleep (power_latch.cpp, wake_button.cpp, and the *)
(* power commands of device_control.cpp).                                  *)
(*                                                                         *)
(* A latch board keeps its own supply on: a self-holding MOSFET that is    *)
(* cut by driving pwr_pin_2 low, or a D flip-flop whose D input is         *)
(* pwr_pin_2 and whose clock is pwr_pin_3.  The reset that ends a deep     *)
(* sleep, and the sleep itself, leave every pad that is not held floating, *)
(* so the clock of the flip-flop may see an edge there (Glitch).           *)
(***************************************************************************)
EXTENDS Naturals, FiniteSets

CONSTANTS
  Boards,       \* the boards: records of the fields listed at LatchInit
  HOLD,         \* ticks of POWER_OFF_HOLD_MS and of power_off_hold_ms
  MIN_WAKE,     \* ticks of the minimum awake window
  MaxSleeps     \* bound: deep sleeps in a behaviour

NoPin == 0
Timer == 0      \* wokeBy: the timer,
Cold  == 1      \* or a cold boot
LATCH == 2      \* pwr_pin_2
PWR3  == 3      \* pwr_pin_3: power button, or clock of the flip-flop

VARIABLES
  board,        \* the configuration, fixed for the behaviour
  mode,         \* "run", "waiting" (powerOff), "arming" or "forced" (going to
                \* sleep), "asleep", "booting", "off", "dropped" (power lost
                \* to a clock edge while "booting")
  level,        \* level of every input pin, as the user moves it
  drive,        \* pwr_pin_2: [out: "high"/"low"/"float", held: BOOLEAN]
  q,            \* output of the flip-flop / state of the MOSFET's self-hold
  press,        \* per power-off button: [released, pressing, done, for], and
                \* up, a ghost: ticks since a poll saw the button up
  own,          \* the same of powerButtonPoll(), which has state of its own
  armed,        \* pins armed for wake-up: set of <<pin, level>>
  ext0,         \* s_ext0WakePin
  window,       \* ticks left of the minimum awake window
  wokeBy,       \* Cold, Timer or the pin that woke the device
  sleeps,       \* deep sleeps so far (bound)
  asked,        \* ghost: somebody asked for the power to be cut
  moved,        \* ghost: pins that moved since the wake sources were armed
  awake         \* ghost: ticks since the last boot

latchVars == <<board, mode, level, drive, q, press, own, armed, ext0, window,
               wokeBy, sleeps, asked, moved, awake>>

latchHw == <<drive, q>>
input == <<press, own>>
wake  == <<armed, ext0, moved>>

-----------------------------------------------------------------------------
(* The configuration's predicates.                                         *)

dffLatchEnabled == "dff" \in board.flags /\ board.pwr2 /\ board.pwr3

latchEnabled == "battery" \in board.flags /\ board.pwr2

hasButton == board.pwr3

\* Polled for a long press: the latch's own button, and every button the
\* configuration marks as a power-off button.
PowerButton == ~dffLatchEnabled /\ latchEnabled /\ hasButton

Configured == IF dffLatchEnabled \/ latchEnabled
              THEN {b.pin : b \in {x \in board.buttons : x.power_off}}
              ELSE {}

Button(p) == CHOOSE b \in board.buttons : b.pin = p

PressedLevel(p) == IF p \in {b.pin : b \in board.buttons}
                   THEN IF Button(p).inverted THEN 0 ELSE 1
                   ELSE 0

Pins == {b.pin : b \in board.buttons} \cup (IF board.pwr3 THEN {PWR3} ELSE {})

Fresh == [released |-> FALSE, pressing |-> FALSE, done |-> FALSE, for |-> 0, up |-> 0]

Least(S) == CHOOSE p \in S : \A r \in S : p <= r

\* Up to the hold time; beyond it nothing distinguishes the values.
Later(n, cap) == IF n < cap THEN n + 1 ELSE cap

-----------------------------------------------------------------------------
(* The latch.  A clock edge copies D to the output; a floating D reads low.*)

DInput == IF drive.out = "high" THEN 1 ELSE 0

\* The latch pin driven low: a MOSFET lets go of the rail at once, a flip-flop
\* waits for its clock.
DriveLow(held) == /\ drive' = [out |-> "low", held |-> held]
                  /\ q' = IF latchEnabled /\ ~dffLatchEnabled THEN 0 ELSE q

\* D high and one clock pulse.  The holds are released before (WakeUp).
dffLatchEngage ==
  /\ mode = "booting"
  /\ drive' = [out |-> "high", held |-> FALSE]
  /\ q' = 1
  /\ mode' = "run"
  /\ UNCHANGED <<board, level, input, wake, window, wokeBy, sleeps, asked, awake>>

\* padHoldDisable, D low, one clock pulse, D low again and its pad held.
dffLatchRelease == /\ drive' = [out |-> "low", held |-> TRUE]
                   /\ q' = 0

\* The hold of the latch pin ends; a flip-flop is then engaged.
powerLatchBegin ==
  /\ drive' = [out |-> "float", held |-> FALSE]
  /\ mode' = IF dffLatchEnabled THEN "booting" ELSE "run"

\* Without the hold the pad floats once the core is off.
Mut_powerLatchHoldForSleep ==
  IF dffLatchEnabled \/ latchEnabled
  THEN drive' = [out |-> "float", held |-> FALSE]
  ELSE UNCHANGED drive

powerLatchHoldForSleep ==
  IF dffLatchEnabled \/ latchEnabled
  THEN drive' = [out |-> "high", held |-> TRUE]
  ELSE UNCHANGED drive

\* The rail stays up on the flip-flop, on the self-hold, or on a cable.
Rail(output) == output = 1 \/ board.usb \/ ~(dffLatchEnabled \/ latchEnabled)

\* Drives the MOSFET's gate low, isolates the pads and parks in deep sleep.
CutMosfet == DriveLow(TRUE) /\ mode' = "off"

-----------------------------------------------------------------------------
LatchInit ==
  \* [flags, pwr2, pwr3: valid pins?, buttons: {[pin, inverted, power_off]},
  \*  soc: "gpio" | "classic" | "s3", wakeable: pins, usb, optOut, battery]
  /\ board \in Boards
  /\ mode = "run"
  /\ level = [p \in Pins |-> 1 - PressedLevel(p)]
  /\ drive = IF dffLatchEnabled THEN [out |-> "high", held |-> FALSE]
                                ELSE [out |-> "float", held |-> FALSE]
  /\ q = 1
  /\ press = [p \in Configured |-> Fresh] /\ own = Fresh
  /\ armed = {} /\ ext0 = NoPin
  /\ window = MIN_WAKE
  /\ wokeBy = Cold /\ sleeps = 0
  /\ asked = FALSE
  /\ moved = {}
  /\ awake = 0

\* The user presses or releases a button.  The flip-flop's clock is no button.
Press(p) ==
  /\ mode \notin {"off", "dropped"}
  /\ ~(dffLatchEnabled /\ p = PWR3)
  /\ level' = [level EXCEPT ![p] = 1 - @]
  /\ moved' = moved \cup {p}
  /\ UNCHANGED <<board, mode, latchHw, input, armed, ext0, window, wokeBy, sleeps,
                 asked, awake>>

\* A tick of a button's record.
Older(b) == [b EXCEPT !.for = IF b.pressing THEN Later(@, HOLD) ELSE 0,
                      !.up = Later(@, HOLD)]

LatchTick ==
  /\ mode \in {"run", "waiting"}
  /\ press' = [p \in Configured |-> Older(press[p])]
  /\ own' = Older(own)
  /\ window' = IF window > 0 THEN window - 1 ELSE 0
  /\ awake' = Later(awake, MIN_WAKE)
  /\ UNCHANGED <<board, mode, level, latchHw, wake, wokeBy, sleeps, asked>>

\* One poll of a long-press button: what it leaves in the button's record.
Polled(b, down) ==
  IF ~down
  THEN [b EXCEPT !.released = TRUE, !.pressing = FALSE, !.done = FALSE, !.for = 0, !.up = 0]
  ELSE IF b.released /\ ~b.pressing THEN [b EXCEPT !.pressing = TRUE, !.for = 0]
  ELSE b

LongPress(b, down) == down /\ b.released /\ b.pressing /\ b.for >= HOLD

\* The latch's own button is active low, whatever the configuration says of a
\* button on the same pin: powerOff() first waits for its release.
powerButtonPoll ==
  LET down == level[PWR3] = 0 IN
  /\ mode = "run"
  /\ PowerButton
  /\ own' = Polled(own, down)
  /\ IF LongPress(own, down)
     THEN asked' = TRUE /\ mode' = "waiting"
     ELSE UNCHANGED <<asked, mode>>
  /\ UNCHANGED <<board, level, latchHw, press, wake, window, wokeBy, sleeps, awake>>

\* powerOff() once the button is up.
powerOff ==
  /\ mode = "waiting"
  /\ hasButton => level[PWR3] # 0
  /\ CutMosfet
  /\ UNCHANGED <<board, level, input, wake, window, wokeBy, sleeps, asked, awake>>

powerLatchTriggerOff ==
  IF dffLatchEnabled
  THEN /\ dffLatchRelease
       /\ mode' = IF Rail(0) THEN "run" ELSE "off"
  ELSE mode' = "waiting" /\ UNCHANGED latchHw

\* A button of the configuration marked as power-off button.
pollConfiguredPowerOffButtons(p) ==
  LET down == level[p] = PressedLevel(p) IN
  /\ mode = "run"
  /\ p \in Configured
  /\ IF LongPress(press[p], down) /\ ~press[p].done
     THEN /\ press' = [press EXCEPT ![p].done = TRUE]
          /\ asked' = TRUE
          /\ powerLatchTriggerOff
     ELSE /\ press' = [press EXCEPT ![p] = Polled(@, down)]
          /\ UNCHANGED <<asked, mode, latchHw>>
  /\ UNCHANGED <<board, level, own, wake, window, wokeBy, sleeps, awake>>

\* Command 0x0052: the answer is flushed, then the flip-flop released; a board
\* without one refuses.
handlePowerOffCommand ==
  /\ mode = "run"
  /\ dffLatchEnabled
  /\ dffLatchRelease
  /\ asked' = TRUE
  /\ mode' = IF Rail(0) THEN "run" ELSE "off"
  /\ UNCHANGED <<board, level, input, wake, window, wokeBy, sleeps, awake>>

\* pwrmgm(false) drives the display's pins, and the spare rail pins of a board
\* with no latch, low.
configureDisplayPinsLowPower ==
  /\ mode = "run"
  /\ board.flags = {} /\ board.pwr2
  /\ DriveLow(FALSE)
  /\ UNCHANGED <<board, mode, level, input, wake, window, wokeBy, sleeps, asked,
                 awake>>

-----------------------------------------------------------------------------
(* Deep sleep: the wake sources, the latch's hold, the sleep, the wake-up. *)

Candidates ==
  {[pin |-> b.pin, high |-> ~b.inverted] : b \in board.buttons}
  \cup (IF "battery" \in board.flags /\ board.pwr3
        THEN {[pin |-> PWR3, high |-> FALSE]} ELSE {})

Eligible(c) ==
  /\ ~(board.pwr2 /\ c.pin = LATCH)
  /\ ~("dff" \in board.flags /\ board.pwr3 /\ c.pin = PWR3)
  /\ c.pin \in board.wakeable
  /\ level[c.pin] # (IF c.high THEN 1 ELSE 0)

\* What each SoC can arm of the two polarity groups: any number of pins each;
\* all the high ones and one low one; or the larger group and one of the other.
ArmedPins(low, high) ==
  LET one(S) == IF S = {} THEN {} ELSE {Least(S)} IN
  IF board.soc = "gpio" THEN [low |-> low, high |-> high, ext0 |-> NoPin]
  ELSE IF board.soc = "classic" \/ Cardinality(high) >= Cardinality(low)
  THEN [low |-> one(low), high |-> high, ext0 |-> IF low = {} THEN NoPin ELSE Least(low)]
  ELSE [low |-> low, high |-> one(high), ext0 |-> IF high = {} THEN NoPin ELSE Least(high)]

armButtonWakeSources ==
  LET eligible == {c \in Candidates : Eligible(c)}
      group(h)  == {c.pin : c \in {x \in eligible : x.high = h}}
      a         == ArmedPins(group(FALSE), group(TRUE)) IN
  IF board.optOut
  THEN armed' = {} /\ UNCHANGED ext0
  ELSE /\ armed' = {<<p, 0>> : p \in a.low} \cup {<<p, 1>> : p \in a.high}
       /\ ext0' = a.ext0

minWakeHoldActive == window > 0

\* The idle path waits for the minimum window; command 0x0053 does not.
latch_enterDeepSleep(force) ==
  /\ mode = "run"
  /\ board.battery
  /\ sleeps < MaxSleeps
  /\ force \/ ~minWakeHoldActive
  /\ armButtonWakeSources
  /\ moved' = {}
  /\ mode' = IF force THEN "forced" ELSE "arming"
  /\ sleeps' = sleeps + 1
  /\ UNCHANGED <<board, level, latchHw, input, window, wokeBy, asked, awake>>

\* The timer and the wake sources are set; the latch is held; the core stops.
StartSleep ==
  /\ mode \in {"arming", "forced"}
  /\ powerLatchHoldForSleep
  /\ mode' = "asleep"
  /\ UNCHANGED <<board, level, q, input, wake, window, wokeBy, sleeps, asked, awake>>

\* With the core off the clock pad floats, and it does so in the boot until
\* dffLatchEngage() drives it: an edge copies D.
Glitch ==
  /\ mode \in {"asleep", "booting"}
  /\ dffLatchEnabled
  /\ q' = DInput
  /\ mode' = IF Rail(q') THEN mode ELSE IF mode = "asleep" THEN "off" ELSE "dropped"
  /\ UNCHANGED <<board, level, drive, input, wake, window, wokeBy, sleeps, asked, awake>>

\* The wake-up is a boot: RAM is lost, the configuration loaded, the latch
\* asserted, and detectButtonWake() decides about the minimum window.
WakeUp(by) ==
  /\ mode = "asleep"
  /\ by # Timer => <<by, level[by]>> \in armed
  /\ powerLatchBegin
  /\ wokeBy' = by
  /\ window' = IF by = Timer THEN 0 ELSE MIN_WAKE
  /\ press' = [p \in Configured |-> Fresh] /\ own' = Fresh
  /\ armed' = {}
  /\ awake' = 0
  /\ UNCHANGED <<board, level, q, ext0, sleeps, asked, moved>>

LatchNext ==
  \/ \E p \in Pins : Press(p)
  \/ LatchTick
  \/ powerButtonPoll
  \/ powerOff
  \/ \E p \in Pins : pollConfiguredPowerOffButtons(p)
  \/ handlePowerOffCommand
  \/ configureDisplayPinsLowPower
  \/ \E force \in BOOLEAN : latch_enterDeepSleep(force)
  \/ StartSleep
  \/ Glitch
  \/ dffLatchEngage
  \/ \E by \in Pins : WakeUp(by)
  \/ WakeUp(Timer)

LatchSpec == LatchInit /\ [][LatchNext]_latchVars

-----------------------------------------------------------------------------
\* The power is cut only when it was asked for (a long press, or the command),
\* never by a sleep, by a clock that floats in it or by the display's low-power
\* pins; a long press is one whose button was seen up after the boot and has
\* been down in every poll for at least the hold time; and neither the latch
\* pin nor a flip-flop's clock is ever armed as a wake source (power_latch.cpp,
\* wake_button.cpp, pollConfiguredPowerOffButtons).  The exception is the gap in
\* dffLatchEngage() between the end of D's hold and the driving of D
\* (power_latch.cpp:116-118): an edge of the clock there takes a floating D.
PowerKept ==
  /\ mode = "off" => asked
  /\ q = 0 /\ (dffLatchEnabled \/ latchEnabled) => asked \/ mode \in {"booting", "dropped"}
  /\ mode \in {"run", "arming", "forced", "asleep", "booting"} => Rail(q)
  /\ \A b \in {own} \cup {press[p] : p \in Configured} :
       mode = "run" /\ b.pressing => b.released /\ b.up >= b.for
  /\ \A a \in armed : ~(board.pwr2 /\ a[1] = LATCH)
                      /\ ~(dffLatchEnabled /\ a[1] = PWR3)

\* A button wakes the device only by moving after the sources were armed, so a
\* button held or stuck at sleep entry cannot make it wake at once, again and
\* again; and only command 0x0053 puts a device that a button woke, or that was
\* just switched on, to sleep before the minimum awake window has passed
\* (armButtonWakeSources' skip of a pin at its wake level, minWakeHoldActive).
WakeIsAPress ==
  [][/\ mode = "asleep" /\ mode' \in {"run", "booting"} /\ wokeBy' # Timer => wokeBy' \in moved
     /\ mode' = "arming" /\ wokeBy # Timer => awake >= MIN_WAKE]_latchVars

=============================================================================
