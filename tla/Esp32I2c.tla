------------------------------ MODULE Esp32I2c ------------------------------
(* The one I2C controller of the ESP32 target and how a logical bus is       *)
(* brought up on it: the bus selection of display_service.cpp over the      *)
(* handle that hal/od_hal_i2c.c owns.  Pure operators over a record w:       *)
(*   pins, freq    s_sda/s_scl and s_freq of the HAL (pins = NoPins: no bus)  *)
(*   ready, wpins, whz   s_wire_open_display_ready and the cached choice      *)
(*   ok            the result of the last operation                           *)
(*   stray         some transaction ran on pins of a bus nobody asked for     *)
(* A pin pair is one number.  The controller may refuse a bring-up: up is    *)
(* what it accepts, "any" clock, only the "slow" one, or "none".             *)
EXTENDS Integers, Sequences, FiniteSets

CONSTANTS SLOW,    \* the 100 kHz every bus falls back to
          NONE     \* 0xFF, the unassigned bus_id

NoPins == 0

Ups == {"any", "slow", "none"}

Down == [pins |-> NoPins, freq |-> SLOW, ready |-> FALSE, wpins |-> NoPins,
         whz |-> 0, ok |-> FALSE, stray |-> FALSE]

od_hal_i2c_esp_begin(w, pins, hz, accepted) ==
  IF w.pins # NoPins
    THEN [w EXCEPT !.ok = (pins = w.pins)]
    ELSE [w EXCEPT !.freq = hz, !.pins = IF accepted THEN pins ELSE NoPins,
                   !.ok = accepted]

od_hal_i2c_esp_deinit(w) == [w EXCEPT !.pins = NoPins]

\* A bus that is already up wins, whatever pins are asked for.
odI2cBegin(w, pins, hz, accepted) ==
  IF w.pins # NoPins THEN [w EXCEPT !.ok = TRUE]
  ELSE IF pins = NoPins THEN [w EXCEPT !.ok = FALSE]
  ELSE od_hal_i2c_esp_begin(w, pins, hz, accepted)

Chosen(w, pins, hz) ==
  [w EXCEPT !.freq = hz, !.wpins = pins, !.whz = hz, !.ready = TRUE]

wireBeginForOpenDisplay(w, pins, hz, up) ==
  LET first  == odI2cBegin(w, pins, hz, up = "any" \/ (up = "slow" /\ hz <= SLOW))
      second == odI2cBegin(first, pins, SLOW, up = "slow")
  IN  IF first.ok THEN Chosen(first, pins, hz)
      ELSE IF hz > SLOW /\ second.ok THEN Chosen(second, pins, SLOW)
      ELSE [first EXCEPT !.ok = FALSE]

dataBusUsable(b) == b.i2c /\ b.pins # NoPins

\* od_config_data_bus refuses an instance that is absent or declared twice.
Found(conf, id) == {k \in 1 .. Len(conf.buses) : conf.buses[k].id = id}
Usable(conf, id) ==
  /\ Cardinality(Found(conf, id)) = 1
  /\ \A k \in Found(conf, id) : dataBusUsable(conf.buses[k])
Bus(conf, id) == conf.buses[CHOOSE k \in Found(conf, id) : TRUE]

firstUsableI2cBus(conf) == \E k \in 1 .. Len(conf.buses) : dataBusUsable(conf.buses[k])

invalidateOpenDisplayWire(w) ==
  [IF w.ready THEN od_hal_i2c_esp_deinit(w) ELSE w EXCEPT !.ready = FALSE]

selectConfiguredBus(conf, w, id, up) ==
  IF ~Usable(conf, id) THEN [w EXCEPT !.ok = FALSE]
  ELSE LET b    == Bus(conf, id)
           same == w.ready /\ w.wpins = b.pins /\ w.whz = b.hz
       IN  IF same THEN [w EXCEPT !.ok = TRUE]
           ELSE wireBeginForOpenDisplay(invalidateOpenDisplayWire(w), b.pins, b.hz, up)

initOrRestoreWireForBus(conf, w, id, up) ==
  IF id = NONE THEN [w EXCEPT !.ok = FALSE] ELSE selectConfiguredBus(conf, w, id, up)

\* Without a usable first record the default pins are asked for, and there
\* are none: only a bus that is up already counts.
initOrRestoreWireForOpenDisplay(conf, w, up) ==
  IF Len(conf.buses) > 0 /\ dataBusUsable(conf.buses[1])
    THEN initOrRestoreWireForBus(conf, w, conf.buses[1].id, up)
  ELSE IF w.ready THEN w
  ELSE LET b == odI2cBegin(w, NoPins, SLOW, FALSE) IN [b EXCEPT !.ready = b.ok]

initDataBuses(conf, w, up) ==
  IF Len(conf.buses) > 0 /\ dataBusUsable(conf.buses[1])
    THEN initOrRestoreWireForOpenDisplay(conf, w, up)
    ELSE w

\* The select that od_hal_i2c_probe, _write, _read and _write_read begin with,
\* then the transfer itself, on whatever pins the controller is driving.
Transact(conf, w, id, up) ==
  LET s == selectConfiguredBus(conf, w, id, up)
  IN  IF ~s.ok \/ s.pins = NoPins
        THEN [s EXCEPT !.ok = FALSE]
        ELSE [s EXCEPT !.stray = w.stray \/ s.pins # Bus(conf, id).pins]

\* Between two calls: the result is gone, and neither the clock of a bus that
\* is down nor a choice that is not ready is ever read.
Settled(w) == [pins |-> w.pins, freq |-> IF w.pins = NoPins THEN SLOW ELSE w.freq,
               ready |-> w.ready, wpins |-> IF w.ready THEN w.wpins ELSE NoPins,
               whz |-> IF w.ready THEN w.whz ELSE 0, ok |-> FALSE, stray |-> w.stray]

\* What the cached choice says about the controller.
WireInv(w) ==
  /\ ~w.stray
  /\ w.ready <=> w.pins # NoPins
  /\ w.ready => w.pins = w.wpins /\ w.freq = w.whz
=============================================================================
