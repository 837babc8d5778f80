----------------------------- MODULE MCServices -----------------------------
(***************************************************************************)
(* Services of the ESP32 target: the querier and the browser of multicast  *)
(* DNS, the sensors on their I2C buses, and the power controller.          *)
(*                                                                         *)
(* A behaviour is one of a single component: the variable which says of    *)
(* which, and the variables of the others do not change. They share no     *)
(* state, so the run is the sum of four.                                   *)
(***************************************************************************)
EXTENDS MdnsQuery, MdnsBrowse, Esp32Sensors, Esp32Pmic

VARIABLE which

MCQueries ==
  {[type |-> "PTR", instance |-> "none", service |-> "s", max |-> 1, async |-> FALSE],
   [type |-> "SRV", instance |-> "i", service |-> "s", max |-> 1, async |-> TRUE],
   [type |-> "A", instance |-> "h", service |-> "none", max |-> 0, async |-> FALSE]}

MCAnswers ==
  {[auth |-> TRUE, answers |->
     <<[type |-> "PTR", name |-> "none", service |-> "s", target |-> "i"],
       [type |-> "SRV", name |-> "i", service |-> "s", target |-> "h"],
       [type |-> "PTR", name |-> "none", service |-> "s", target |-> "k"]>>],
   [auth |-> FALSE, answers |->
     <<[type |-> "TXT", name |-> "i", service |-> "s", target |-> "none"],
       [type |-> "A", name |-> "h", service |-> "none", target |-> "none"]>>]}

Ans(type, s, i, h, ttl) == [type |-> type, service |-> s, inst |-> i, host |-> h,
                            port |-> 1, ttl |-> ttl, txt |-> 1]

MCPackets ==
  {<<Ans("PTR", "s", "i", "none", 2), Ans("SRV", "s", "i", "h", 2)>>,
   <<Ans("PTR", "s", "i", "none", 0)>>,
   <<Ans("PTR", "s", "k", "none", 1), Ans("A", "none", "none", "h", 1)>>,
   <<Ans("SRV", "s", "k", "h", 2), Ans("TXT", "s", "k", "none", 1)>>,
   <<Ans("PTR", "u", "i", "none", 2), Ans("SRV", "s", "i", "g", 2)>>,
   <<Ans("PTR", "s", "k", "none", 0), Ans("bad", "none", "none", "none", 0)>>}

I2c(id, pins, hz) == [id |-> id, pins |-> pins, hz |-> hz, i2c |-> TRUE]
Sensor(bus, start) == [bus |-> bus, start |-> start]

\* A fast and a slow bus, with the sensors on either side and no byte between
\* their fields; and the pins exchanged, the fields moved, one sensor for another.
Both == [buses |-> <<I2c(0, 1, 4), I2c(1, 2, 4)>>, sht |-> <<Sensor(0, 0), Sensor(1, 4)>>,
         bq |-> <<>>, sense |-> FALSE]
Swapped == [buses |-> <<I2c(0, 2, 1), I2c(1, 1, 4), I2c(1, 3, 4)>>,
            sht |-> <<Sensor(0, 4)>>, bq |-> <<Sensor(0, 3)>>, sense |-> TRUE]
MCConfigs == {Both, Swapped}

\* A power controller on a bus of its own, on the panel's bus, on a bus that is
\* declared twice, and none at all.
MCBoards ==
  {[buses |-> <<I2c(0, 1, 4), I2c(1, 2, 4)>>, axp |-> <<1>>],
   [buses |-> <<I2c(0, 2, 1)>>, axp |-> <<0>>],
   [buses |-> <<I2c(0, 1, 4), I2c(1, 2, 4), I2c(1, 3, 4)>>, axp |-> <<1>>],
   [buses |-> <<>>, axp |-> <<>>]}

mcVars == <<which, queryVars, browseVars, sensorsVars, pmicVars>>

MCInit ==
  /\ which \in {"querier", "browser", "sensors", "pmic"}
  /\ IF which = "querier" THEN QueryInit
     ELSE /\ heap = 0 /\ list = 0 /\ query_queue = 0 /\ server = 0 /\ task = 0 /\ made = 0
          /\ query_rx = 0 /\ touched = 0 /\ stale = 0
  /\ IF which = "browser" THEN BrowseInit
     ELSE /\ browse = 0 /\ res = 0 /\ queue = 0 /\ hand = 0 /\ rx = 0 /\ calls = 0 /\ dirty = 0
          /\ lost = 0 /\ crossed = 0 /\ dangling = 0
  /\ IF which = "sensors" THEN SensorsInit
     ELSE /\ cfg = 0 /\ wire = 0 /\ dyn = 0 /\ sht = 0 /\ bq = 0 /\ batt = 0 /\ io = 0
          /\ now = 0 /\ idle = 0 /\ seen = 0
  /\ IF which = "pmic" THEN PmicInit
     ELSE /\ board = 0 /\ pmic_wire = 0 /\ axp = 0 /\ unread = 0

MCNext ==
  \/ which = "querier" /\ QueryNext
     /\ UNCHANGED <<which, browseVars, sensorsVars, pmicVars>>
  \/ which = "browser" /\ BrowseNext
     /\ UNCHANGED <<which, queryVars, sensorsVars, pmicVars>>
  \/ which = "sensors" /\ SensorsNext
     /\ UNCHANGED <<which, queryVars, browseVars, pmicVars>>
  \/ which = "pmic" /\ PmicNext
     /\ UNCHANGED <<which, queryVars, browseVars, sensorsVars>>

MCSpec == MCInit /\ [][MCNext]_mcVars

-----------------------------------------------------------------------------
(* Properties.                                                             *)

\* What the querier and the browser of multicast DNS keep for their
\* clients: QueryInv and BrowseInv (mdns_querier.c, mdns_browser.c).
MdnsClientsSafe ==
  /\ which = "querier" => QueryInv
  /\ which = "browser" => BrowseInv

\* SensorsInv: the bytes of a sensor are those of its last poll, one sample
\* or the invalid mark, but for the byte a sensor in front of it clears, and no
\* transaction runs on the pins of another bus (od_sensor_sht40.c,
\* display_service.cpp).
SensorsSafe == which = "sensors" => SensorsInv

\* PmicInv: the power controller follows the panel, and a sequence whose
\* accesses succeeded leaves the rails as it should (initAXP2101,
\* powerDownAXP2101).
PmicSafe == which = "pmic" => PmicInv
=============================================================================
