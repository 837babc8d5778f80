----------------------------- MODULE Esp32Pmic ------------------------------
(* The AXP2101 behind the panel's power on the ESP32 target: pwrmgm() runs    *)
(* initAXP2101 when the panel is switched on and powerDownAXP2101 when it is  *)
(* switched off, over the I2C controller that the sensors select other       *)
(* buses on in between.  Up to MaxFaults register accesses of one sequence   *)
(* fail.  board.axp is the bus of the first AXP2101 record, if there is one.  *)
EXTENDS Esp32I2c

CONSTANTS Boards,   \* the configurations a write may store
          MaxFaults

VARIABLES board,    \* globalConfig
          pmic_wire,  \* the controller and the cached bus choice
          axp,        \* the registers, s_axp2101_bus_id, and the panel's power
          unread      \* a power-down could not read which DC converters were on

pmicVars == <<board, pmic_wire, axp, unread>>

-----------------------------------------------------------------------------
(* The AXP2101 as display_service.cpp drives it: what the register writes   *)
(* of initAXP2101 and powerDownAXP2101 leave in it.  A register access is    *)
(* two transactions, of which either may fail; f is the set of accesses that *)
(* did.  A register that cannot be read counts as 0, and what was computed   *)
(* from it is written all the same.                                          *)
(*   dc    enabled DC converters: 1 is DC1, 2 stands for DC2 to DC5          *)
(*   ldo   enabled LDOs of CTRL0: 1 is ALDO1-2, 3 ALDO3-4, 5 the upper bits  *)
(*   ldo1  CTRL1 rails on          wake  bits of POWER_WAKEUP_CTL            *)
(*   adc   ADC channels on         irq   interrupts still enabled            *)
PowerOnValues == [dc |-> {1, 2}, ldo |-> {1, 5}, ldo1 |-> TRUE, wake |-> {}, adc |-> TRUE, irq |-> TRUE]

InitSteps == {"probe", "rdDc", "wrDc", "rdLdo", "wrLdo", "rdWake", "wrWake"}

DownSteps == {"probe", "irq", "rdDc", "wrDc", "wrLdo1", "rdLdo", "wrLdo", "rdWake", "wrWake",
              "wrAdc"}

ReadBack(f, step, reg) == IF step \in f THEN {} ELSE reg

Put(f, step, old, new) == IF step \in f THEN old ELSE new

\* The voltages set on the way are not part of the state.
Registers_init(a, f) ==
  [a EXCEPT !.dc   = Put(f, "wrDc", a.dc, ReadBack(f, "rdDc", a.dc) \cup {1}),
            !.ldo  = Put(f, "wrLdo", a.ldo, ReadBack(f, "rdLdo", a.ldo) \cup {3}),
            !.wake = IF "rdWake" \in f THEN a.wake ELSE Put(f, "wrWake", a.wake, a.wake \cup {0})]

\* The mask of the converters to keep, inverted.
Mut_Registers_down(a, f) ==
  [a EXCEPT !.dc = Put(f, "wrDc", a.dc, ReadBack(f, "rdDc", a.dc) \ {1})]

Registers_down(a, f) ==
  [dc   |-> Put(f, "wrDc", a.dc, ReadBack(f, "rdDc", a.dc) \cap {1}),
   ldo  |-> Put(f, "wrLdo", a.ldo, ReadBack(f, "rdLdo", a.ldo) \ {1, 3}),
   ldo1 |-> Put(f, "wrLdo1", a.ldo1, FALSE),
   wake |-> Put(f, "wrWake", a.wake, (ReadBack(f, "rdWake", a.wake) \ {3}) \cup {2, 4, 7}),
   adc  |-> Put(f, "wrAdc", a.adc, FALSE),
   irq  |-> Put(f, "irq", a.irq, FALSE)]

-----------------------------------------------------------------------------

PmicInit ==
  /\ board \in Boards
  /\ pmic_wire = Down
  /\ axp = [regs |-> PowerOnValues, bus |-> NONE, on |-> FALSE, clean |-> TRUE]
  /\ unread = FALSE

Faults(steps) == {f \in SUBSET steps : Cardinality(f) <= MaxFaults}

\* The record must be there and be I2C; the bus is remembered before it is
\* known to come up.
initAXP2101(c, w, a, id, up, f) ==
  LET sel == initOrRestoreWireForBus(c, w, id, up)
      t   == Transact(c, sel, id, up)
      b   == [a EXCEPT !.bus = id, !.clean = FALSE]
  IN  IF Cardinality(Found(c, id)) # 1 \/ ~Bus(c, id).i2c
        THEN [wire |-> w, axp |-> [a EXCEPT !.clean = FALSE]]
      ELSE IF ~sel.ok THEN [wire |-> sel, axp |-> b]
      ELSE IF ~t.ok \/ "probe" \in f THEN [wire |-> t, axp |-> b]
      ELSE [wire |-> t, axp |-> [b EXCEPT !.regs = Registers_init(@, f), !.clean = (f = {})]]

powerDownAXP2101(c, w, a, up, f) ==
  LET t == Transact(c, w, a.bus, up)
      b == [a EXCEPT !.clean = FALSE]
  IN  IF a.bus = NONE THEN [wire |-> w, axp |-> b]
      ELSE IF ~t.ok \/ "probe" \in f THEN [wire |-> t, axp |-> b]
      ELSE [wire |-> t, axp |-> [b EXCEPT !.regs = Registers_down(@, f), !.clean = (f = {})]]

\* The I2C half of pwrmgm(true): the controller's rails, then the panel's bus.
PanelUp ==
  \E up \in Ups, f \in Faults(InitSteps) :
    LET p == IF Len(board.axp) = 0 THEN [wire |-> pmic_wire, axp |-> [axp EXCEPT !.clean = FALSE]]
             ELSE initAXP2101(board, pmic_wire, axp, board.axp[1], up, f)
    IN  /\ ~axp.on
        /\ pmic_wire' = Settled(initOrRestoreWireForOpenDisplay(board, p.wire, up))
        /\ axp' = [p.axp EXCEPT !.on = TRUE]
        /\ UNCHANGED <<board, unread>>

\* The I2C half of pwrmgm(false): the bus is given up with the rails.
PanelDown ==
  \E up \in Ups, f \in Faults(DownSteps) :
    LET p == IF Len(board.axp) = 0 THEN [wire |-> pmic_wire, axp |-> [axp EXCEPT !.clean = FALSE]]
             ELSE powerDownAXP2101(board, pmic_wire, axp, up, f)
        released == invalidateOpenDisplayWire(od_hal_i2c_esp_deinit(p.wire))
    IN  /\ axp.on
        /\ pmic_wire' = Settled(IF Len(board.axp) > 0 \/ ~firstUsableI2cBus(board) THEN released
                                ELSE p.wire)
        /\ axp' = [p.axp EXCEPT !.on = FALSE]
        /\ unread' = (unread \/ (p.axp.regs # axp.regs /\ "rdDc" \in f))
        /\ UNCHANGED board

\* A sensor is polled on its own bus.
Poll ==
  /\ \E k \in 1 .. Len(board.buses), up \in Ups :
       pmic_wire' = Settled(Transact(board, pmic_wire, board.buses[k].id, up))
  /\ UNCHANGED <<board, axp, unread>>

\* A configuration written while the panel is on may drop the record; the
\* switch-off then leaves the rails as they are.
ReloadPmic ==
  /\ board' \in Boards \ {board}
  /\ UNCHANGED <<pmic_wire, axp, unread>>

PmicNext == PanelUp \/ PanelDown \/ Poll \/ ReloadPmic

PmicSpec == PmicInit /\ [][PmicNext]_pmicVars

----------------------------------------------------------------------------
\* The power controller follows the panel.  No sequence runs on another bus's
\* pins, and the cached bus choice agrees with the controller.  A switch-on
\* whose accesses all succeeded has DC1 and ALDO3-4 on; a switch-off has the
\* panel's LDOs off and leaves DC1, which no sequence may disable, as it was,
\* unless the register could not be read.
PmicInv ==
  /\ WireInv(pmic_wire)
  /\ axp.clean /\ axp.on => 1 \in axp.regs.dc /\ 3 \in axp.regs.ldo
  /\ axp.clean /\ ~axp.on /\ axp.bus # NONE =>
       axp.regs.ldo \cap {1, 3} = {} /\ ~axp.regs.ldo1 /\ ~axp.regs.irq /\ 7 \in axp.regs.wake
  /\ 1 \in axp.regs.dc \/ unread

=============================================================================
