---------------------------- MODULE Esp32Sensors ----------------------------
(* The sensors of the ESP32 target and what is advertised of them: the SHT40 *)
(* and BQ27220 drivers of shared/core with their poll intervals, the        *)
(* dynamic block of the advertisement they share, the battery reading that  *)
(* is cached over the gauge's cache, and the I2C controller all of them      *)
(* select their bus on.  Everything runs on the loop task; each transaction  *)
(* may fail, and a configuration write replaces the buses and sensors       *)
(* between any two calls.                                                    *)
(*                                                                         *)
(* cfg.sht is the SHT40 records in order (bus, start byte), cfg.bq the gauge's *)
(* record if there is one (the driver uses the first).  A byte of the block  *)
(* is 0, BAD, or the number of the reading it belongs to.                    *)
EXTENDS Esp32I2c

CONSTANTS Configs,     \* the configurations a write may store
          DYN_LEN,     \* OD_MSD_DYNAMIC_LEN
          SHT_DEFAULT, \* where a start of 0 or 0xFF puts the SHT40
          TTL,         \* both poll intervals and the battery cache, in ticks
          W            \* the millisecond clock wraps at W ticks

VARIABLES cfg,    \* globalConfig
          wire,   \* the controller and the cached bus choice
          dyn,    \* dynamicreturndata
          sht,    \* od_sensor_sht40_poll's statics
          bq,     \* the gauge's statics
          batt,   \* readBatteryVoltage's statics
          io,     \* initio has run
          now,    \* od_hal_uptime_ms
          idle,   \* ticks since the last update
          seen    \* what each SHT40 of cfg answered at its last poll

sensorsVars == <<cfg, wire, dyn, sht, bq, batt, io, now, idle, seen>>

BAD  == 255
Readings == 1 .. 2

Unpolled == [have |-> FALSE, last |-> 0]

SensorsInit ==
  /\ cfg \in Configs
  /\ wire = Down
  /\ dyn = [k \in 0 .. DYN_LEN - 1 |-> 0]
  /\ sht = Unpolled
  /\ bq = [have |-> FALSE, last |-> 0, ok |-> FALSE, soc |-> BAD]
  /\ batt = [have |-> FALSE, last |-> 0, from |-> "none"]
  /\ io = FALSE
  /\ now = 0
  /\ idle = 0
  /\ seen = <<>>

----------------------------------------------------------------------------
\* The SHT40 driver.

sht40_msd_start(s) == IF s.start \in {0, NONE} THEN SHT_DEFAULT ELSE s.start

Fits(s) == sht40_msd_start(s) + 3 <= DYN_LEN

\* One pass over the addresses a sensor may have: the command, the wait, the
\* read and both checksums, or a failure of one of them at every address.
Pass(c, w, s, up, answers) ==
  LET t == Transact(c, w, s.bus, up) IN [t EXCEPT !.ok = t.ok /\ answers]

od_sensor_app_bus_recover(c, w, id, up) ==
  initOrRestoreWireForBus(c, invalidateOpenDisplayWire(w), id, up)

\* o.pass is the pass at which the sensor answers, 0 for neither.
sht40_sample(c, w, s, o) ==
  IF s.bus = NONE THEN [w EXCEPT !.ok = FALSE]
  ELSE LET p1 == Pass(c, w, s, o.up[1], o.pass = 1)
       IN  IF p1.ok THEN p1
           ELSE Pass(c, od_sensor_app_bus_recover(c, p1, s.bus, o.up[2]), s, o.up[2],
                     o.pass = 2)

\* The three bytes of a sample, and a zero after them where the block has room.
Field(d, start, v) ==
  [k \in DOMAIN d |-> IF k \in start .. start + 2 THEN v
                      ELSE IF k = start + 3 THEN 0 ELSE d[k]]

\* A failed sample that leaves the bytes of the last good one on air.
Mut_sht40_one(c, st, s, o) ==
  IF ~Fits(s) THEN [st EXCEPT !.seen = Append(@, 0)]
  ELSE LET w == sht40_sample(c, st.wire, s, o)
       IN  [wire |-> w, seen |-> Append(st.seen, IF w.ok THEN o.v ELSE BAD),
            dyn |-> IF w.ok THEN Field(st.dyn, sht40_msd_start(s), o.v) ELSE st.dyn]

sht40_one(c, st, s, o) ==
  IF ~Fits(s) THEN [st EXCEPT !.seen = Append(@, 0)]
  ELSE LET w == sht40_sample(c, st.wire, s, o)
           v == IF w.ok THEN o.v ELSE BAD
       IN  [wire |-> w, seen |-> Append(st.seen, v),
            dyn |-> Field(st.dyn, sht40_msd_start(s), v)]

ReadingDue(p, t) == ~(p.have /\ (t - p.last) % W < TTL)

od_sensor_sht40_poll(c, st, p, t, outs) ==
  LET upto[k \in 0 .. Len(c.sht)] ==
        IF k = 0 THEN [wire |-> st.wire, dyn |-> st.dyn, seen |-> <<>>]
        ELSE sht40_one(c, upto[k - 1], c.sht[k], outs[k])
  IN  IF ReadingDue(p, t) THEN upto[Len(c.sht)] ELSE st

----------------------------------------------------------------------------
\* The BQ27220 driver: o is "fail" (no voltage), "zero" (0 mV), "nosoc", or
\* "good", and the charge it then reads is o.v.

bq27220_read(c, w, s, up) ==
  IF s.bus = NONE THEN [w EXCEPT !.ok = FALSE] ELSE Transact(c, w, s.bus, up)

od_sensor_bq27220_poll(c, st, p, t, o) ==
  IF Len(c.bq) = 0 \/ ~ReadingDue(p, t) THEN [wire |-> st.wire, dyn |-> st.dyn, bq |-> p]
  ELSE LET s    == c.bq[1]
           w    == bq27220_read(c, st.wire, s, o.up[1])
           volt == w.ok /\ o.gauge # "fail"
           w2   == bq27220_read(c, w, s, o.up[2])
           soc  == IF w2.ok /\ o.gauge # "nosoc" THEN o.v ELSE BAD
           ok   == o.gauge # "zero"
       IN  IF ~volt
             THEN [wire |-> w, dyn |-> st.dyn,
                   bq |-> [have |-> TRUE, last |-> t, ok |-> FALSE, soc |-> BAD]]
             ELSE [wire |-> w2, bq |-> [have |-> TRUE, last |-> t, ok |-> ok, soc |-> soc],
                   dyn |-> IF s.start >= DYN_LEN THEN st.dyn
                           ELSE [st.dyn EXCEPT ![s.start] = IF ok THEN soc ELSE BAD]]

----------------------------------------------------------------------------
\* The battery reading and the advertisement.

readBatteryVoltageUncached(c, q) ==
  IF Len(c.bq) > 0 /\ q.ok THEN "gauge"
  ELSE IF c.sense THEN "adc" ELSE "none"

readBatteryVoltage(c, q, t) ==
  IF ~ReadingDue(batt, t) THEN batt
  ELSE [have |-> TRUE, last |-> t, from |-> readBatteryVoltageUncached(c, q)]

\* The payload carries a counter that moves with every update, so it is never
\* the payload before: the comparison with it stops no update from reaching
\* the radio, and what is on air is dyn and batt.
updatemsdata(outs, o, t1, t2) ==
  \E p1 \in {od_sensor_sht40_poll(cfg, [wire |-> wire, dyn |-> dyn, seen |-> seen],
                                  sht, t1, outs)} :
    \E p2 \in {od_sensor_bq27220_poll(cfg, p1, bq, t2, o)} :
      /\ wire' = Settled(p2.wire)
      /\ dyn' = p2.dyn
      /\ seen' = p1.seen
      /\ sht' = IF ReadingDue(sht, t1) THEN [have |-> TRUE, last |-> t1] ELSE sht
      /\ bq' = p2.bq
      /\ batt' = readBatteryVoltage(cfg, p2.bq, t2)

\* How the controller takes the bring-ups of the first and the second pass.
Weather == {<<"any", "none">>, <<"none", "any">>, <<"slow", "slow">>}

Gauge == {"fail", "zero", "nosoc", "good"}

\* The outcomes of a poll that takes place.
Only(due, outcomes, default) == IF due THEN outcomes ELSE {default}

\* The loop, a button, a touch or a link event refreshes the advertisement.
\* The SHT40 poll takes time, so the clock may have moved on when the gauge
\* and the battery ask for it.
Update ==
  \E e \in Only(Len(cfg.bq) > 0, 0 .. 1, 0) :
    LET sd == ReadingDue(sht, now)
        bd == Len(cfg.bq) > 0 /\ ReadingDue(bq, (now + e) % W)
    IN  \E up \in Only(sd \/ bd, Weather, <<"any", "any">>), v \in Only(sd, Readings, 1),
           first \in Only(sd, {0, 2}, 0), rest \in Only(sd /\ Len(cfg.sht) > 1, {0, 1}, 0),
           g \in Only(bd, Gauge, "fail") :
      /\ io
      /\ updatemsdata([k \in 1 .. Len(cfg.sht) |->
                        [up |-> up, pass |-> IF k = 1 THEN first ELSE rest, v |-> v]],
                      [up |-> up, gauge |-> g, v |-> 1], now, (now + e) % W)
      /\ now' = (now + e) % W
      /\ idle' = 0
      /\ UNCHANGED <<cfg, io>>

SensorTick ==
  /\ idle < W - TTL - 1
  /\ idle' = idle + 1
  /\ now' = (now + 1) % W
  /\ UNCHANGED <<cfg, wire, dyn, sht, bq, batt, io, seen>>

----------------------------------------------------------------------------
\* Boot, the panel's power, and a configuration written at run time.

\* initio: the first bus, then a soft reset to every SHT40 and one read of
\* the gauge.
initSensors(c, w, up) ==
  LET reset[k \in 0 .. Len(c.sht)] ==
        IF k = 0 THEN w
        ELSE IF c.sht[k].bus = NONE THEN reset[k - 1]
        ELSE Transact(c, reset[k - 1], c.sht[k].bus, up)
      last == reset[Len(c.sht)]
  IN  IF Len(c.bq) = 0 \/ c.bq[1].bus = NONE THEN last
      ELSE Transact(c, last, c.bq[1].bus, up)

InitIo ==
  /\ ~io
  /\ io' = TRUE
  /\ \E up \in Ups : wire' = Settled(initSensors(cfg, initDataBuses(cfg, wire, up), up))
  /\ UNCHANGED <<cfg, dyn, sht, bq, batt, now, idle, seen>>

\* What Esp32Pmic's power switching leaves of the controller: the panel's bus
\* selected, or no bus at all.
PowerOn ==
  /\ io
  /\ \E up \in Ups : wire' = Settled(initOrRestoreWireForOpenDisplay(cfg, wire, up))
  /\ UNCHANGED <<cfg, dyn, sht, bq, batt, io, now, idle, seen>>

PowerOff ==
  /\ io
  /\ wire' = Settled(invalidateOpenDisplayWire(od_hal_i2c_esp_deinit(wire)))
  /\ UNCHANGED <<cfg, dyn, sht, bq, batt, io, now, idle, seen>>

\* reloadConfigAfterSave: no driver is told, and no static is reset.
Reload ==
  /\ io
  /\ cfg' \in Configs \ {cfg}
  /\ seen' = <<>>
  /\ UNCHANGED <<wire, dyn, sht, bq, batt, io, now, idle>>

SensorsNext == Update \/ SensorTick \/ InitIo \/ PowerOn \/ PowerOff \/ Reload

SensorsSpec == SensorsInit /\ [][SensorsNext]_sensorsVars

----------------------------------------------------------------------------
\* Another record of the configuration, polled after the k-th SHT40, has byte b
\* as its own, or clears it as the fourth byte after its start.
Shared(k, b) ==
  \/ Len(cfg.bq) > 0 /\ cfg.bq[1].start = b
  \/ \E m \in DOMAIN cfg.sht : m > k /\ Fits(cfg.sht[m])
                               /\ b - sht40_msd_start(cfg.sht[m]) \in 0 .. 2
Cleared(k, b) ==
  \E m \in DOMAIN cfg.sht : m > k /\ Fits(cfg.sht[m]) /\ b = sht40_msd_start(cfg.sht[m]) + 3

\* What holds of the sensors whatever fails on the bus.  The cached bus choice
\* agrees with the controller, and no transaction ever ran on the pins of
\* another bus.  The three bytes of an SHT40, where no other record claims them,
\* are one sample, the one of the last poll, or the invalid mark if that poll
\* failed (od_sensor_sht40.h: "writes the invalid marker rather than leaving
\* stale bytes"), and the poll is younger than its interval at every update,
\* across the wrap of the clock.  The exception is a sensor whose field begins
\* three bytes after that of one polled later: opendisplay_structs.h:765, 777
\* give an SHT40 three bytes, but sht40_write_msd clears a fourth
\* (od_sensor_sht40.c:198-200, 208-210), and the first byte of the sample is 0.
SensorsInv ==
  /\ WireInv(wire)
  /\ \A k \in DOMAIN seen : Fits(cfg.sht[k]) =>
       \A b \in sht40_msd_start(cfg.sht[k]) .. sht40_msd_start(cfg.sht[k]) + 2 :
          Shared(k, b) \/ dyn[b] = (IF Cleared(k, b) THEN 0 ELSE seen[k])
  /\ idle = 0 /\ sht.have => (now - sht.last) % W <= TTL

=============================================================================
