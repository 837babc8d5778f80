# TLA+ models of the OpenDisplay firmware

These modules model the firmware in `src/`: the shared core (`shared/core`) and the
three targets that embed it, `nordic-zephyr`, `esp32-idf` and `efr32bg22-slc` (called
Nordic, ESP32 and BG22 or Silabs below).  TLC checks them on small instances; TLAPS
proves theorems about eight components for every value of their constants.  `PROJECT.json`
maps every definition to the source lines it models and lists the runs, their mutants,
the hazards and the findings.

## 1. The system

A device shows one image on an e-paper panel.  A client connects over Bluetooth, or on the
ESP32 over a LAN socket, authenticates, and sends commands: configuration, image
transfers, LED and buzzer patterns, NFC records, power.

1. The radio callback queues each written frame in the **command ring**, with the
   generation of its connection.
2. The **main loop** cleans up after a connection that ended, drains replies, continues a
   configuration read, and dispatches frames.  A frame of an older generation is dropped.
3. The **dispatcher** looks a frame up, reserves room for its replies, opens it through
   the **session** (anti-replay window, strikes), and calls the handler.
4. Replies go into the **response queue** under the reservation and leave when the radio
   takes them.
5. Handlers act on the **transfer** state machine and the panel, the **configuration**
   store, and the devices.  The **advertising controller** and the watchdog run beside them.

Two things make this hard: radio callbacks, interrupts and timers run between any two steps
of the loop, and every step into the hardware may fail.

## 2. The modules

| Module | Models | State and actions |
|---|---|---|
| `TxQueue`, `TxFifo` | `od_txq.c` | Ring, indices, reserved count, generation, two tokens; reserve, commit, release, transfer, drain one entry at a time, drop of a dead link, reset. `TxFifo` is what the header promises: a FIFO with credit. |
| `RxRing`, `RxFifo` | `od_rxq.c` | One action per atomic load or store of producer and consumer. `RxFifo` is a bounded FIFO. |
| `NonceWindow`, `NonceBitmap` | `od_nonce_window.h` | The window as a set of ages; the same as shifted words. |
| `Session` | `od_session.c` | Two-step authentication, rate limiter, wrapping clock, open, seal, strikes, teardown. |
| `NordicPump` | Nordic `opendisplay_pipe.c`, `opendisplay_ble.c`, `od_dispatch.c`, `od_config_read.c` | The Bluetooth thread against the main loop; composes rings, session, transfer, read and upload. |
| `SilabsPump` | BG22 `opendisplay_pipe.c`, `opendisplay_ble.c`, `od_hal_radio.c`, `od_cmd_silabs.c` | Event queue with a retained head, the held frame, deadlines, the flush barrier, panel rails, DFU, sleep. |
| `Esp32Link` | `link_owner.cpp`, `session_guard.cpp`, `main.cpp`, `ble_transport_esp32.cpp` | The owner word contended for by the NimBLE task and the loop. |
| `AdvControl` | `od_adv_control.c` | Reconciliation in two halves against a stack that refuses, resets, connects, and reports an end late. |
| `NordicBle`, `Nimble` | Nordic `opendisplay_ble.c`; `od_ble_nimble.cpp` | The hosts around that controller: payload buffers, boost, identity, GAP events, teardown. |
| `Pipe` | `od_pipe.c` | Selective repeat: reorder ring, SACK masks, END; a client over a lossy link. |
| `Transfer` | `od_xfer.c`, `od_xfer_direct.c`, `od_xfer_partial.c` | Ownership, panel power, etag, refresh outcomes, replies. |
| `Inflate` | `od_zlib_inflate.c`, `od_zlib_pump.c`, `od_inflate_tinfl.cpp` | The resumable decoder bit by bit; the pump to the panel. |
| `ConfigWrite` | `od_config_asm.c`, `od_config_store.c`, each target's handler and medium | Uploads of every shape, the record store, cache and medium with failures and resets. |
| `ConfigParse` | `od_config_tlv.c`, `od_config.c`, the three loaders | The packet walk and what each target arms from it. |
| `Watchdog` | `od_watchdog.c` | One retained byte: strikes and breadcrumb. |
| `NordicPanel`, `Esp32Panel` | Nordic `opendisplay_display.cpp`, `od_epd_spi_nrfx.c`; `display_service.cpp` | Rails, bus with completion interrupt, warm session, frame stores. |
| `PowerLatch` | `power_latch.cpp`, `wake_button.cpp` | Both latches through sleep, reset and power-off. |
| `Wifi`, `Mdns`, `MdnsQuery`, `MdnsBrowse` | `wifi_service.cpp`, `components/mdns` | Station, listener, and multicast DNS with its tasks, queue and memory. |
| `Esp32I2c`, `Esp32Sensors`, `Esp32Pmic` | `display_service.cpp`, `hal/od_hal_i2c.c`, `od_sensor_*.c` | One I2C controller shared by logical buses. |
| `Touch`, `Led`, `Buzzer`, `Inputs`, `Nfc` | `od_touch_gt911.c`, `od_led.c`, `od_buzzer.c`, `od_nfc.c`, buttons and field detectors | The devices with their interrupts, timers and failing buses. |

`TxQueueProofs`, `RxRingProofs`, `NonceWindowProofs` and `SessionProofs` hold the proofs of
the modules they are named after; AdvControl, NordicPump, Transfer and Watchdog carry
their own, after their properties.

**Composition.**  NordicPump uses plain FIFOs for its rings, which the refinements of
TxQueue and RxRing justify.  NordicBle and Nimble use the controller's operators from
AdvControl.  Esp32Sensors and Esp32Pmic share the bus selection of Esp32I2c.  NonceBitmap
extends NonceWindow; Session reduces the window to the counters it would refuse.
Esp32Panel and NordicPanel take the order of the hook calls from the transfer core, which
Transfer models.

## 3. The runs

Each `MC` module joins components that share no state.  The variable `which` says which
one a behaviour is of; the variables of the others stay at one initial value.  A run is
therefore the sum of its components' state spaces, not their product, and one component
cannot hide what another does.  Properties named `…Safe` and `…Correct` say
`which = "x" => ` the invariants of component x; their definitions in the `MC` modules
name them.  The ones that are proved (`AdvSafe`, `PumpSafe`, `TransferSafe`, `WatchdogSafe`)
are defined in the component's module, without that guard, and so is `MdnsSafe`: its run
is of Mdns alone, the largest state space of the services.

| Run | Components | Shows | Distinct states |
|---|---|---|---|
| `queues` | TxQueue, RxRing, NordicPump (liveness), AdvControl | `IInv`, `RingInv`, `AdvSafe`; the refinements `ImplementsFifo` and `ImplementsRxFifo`; nothing stays in a queue for ever (`QueuesDrain`); the radio ends up as the policy asks (`AdvSettles`) | 76,304 |
| `radio` | Pipe, Nimble, NordicBle | `PipeSafe`, `NimbleSafe`, `ZephyrSafe`; a persistent client completes (`Completes`); a device is found again with its latest payload (`ComesBack`, `ZephyrCatchesUp`) | 470,488 |
| `devices` | Touch, Led, Inputs | triggers, contacts and patterns, and that reports, patterns and inputs get there (`TouchCorrect`, `LedCorrect`, `InputsCorrect`) | 301,757 |
| `core` | NonceBitmap, Session, Inflate, ConfigParse, Transfer, Buzzer, Watchdog | `NoReplay`, `ImplementsWindow`, `SessionInv`, `SessionSteps`, `InflateSafe`, `ParseSafe`, `TransferSafe`, `BuzzerSafe`, `WatchdogSafe` | 390,477 |
| `nordic` | NordicPump, NordicPanel, Nfc | no connection inherits another's state or replies (`PumpSafe`, `DeliveredToAsker`); the panel is off between its sessions (`NordicPanelCorrect`); what was acknowledged is on the tag (`CommittedIsOnTag`) | 2,458,694 |
| `silabs` | SilabsPump, ConfigWrite | `SilabsSafe`, a hold ends (`HoldEnds`), stored configurations are whole (`ConfigSafe`) | 1,907,095 |
| `esp32` | Esp32Link, Esp32Panel, PowerLatch, Wifi | one owner at a time (`Esp32LinkCorrect`), `Esp32PanelSafe`, the latch (`PowerCorrect`), listener and station follow the configuration (`WifiSafe`) | 2,372,336 |
| `services` | MdnsQuery, MdnsBrowse, Esp32Sensors, Esp32Pmic | `MdnsClientsSafe`, `SensorsSafe`, `PmicSafe` | 220,847 |
| `mdns` | Mdns | names are probed before they are answered for, and nothing queued refers to what is gone (`MdnsSafe`) | 2,158,123 |
| `pipe_wrap` | Pipe, shipped constants | violates `CollisionFree` (section 5) | - |
| `nordic_torn` | NordicBle | violates `AirNotTorn` (section 5) | - |
| `silabs_rail` | SilabsPump | violates `PanelOff` (section 5) | - |

Every property of a passing run has a mutant in `PROJECT.json`: one definition changed the
way a plausible bug would change it, under which TLC finds the property violated.

**Bounds.**  Each is the least that lets the interesting case happen.
- *Queues.*  Four slots hold three entries, so a wrap, a full ring and a compaction with
  survivors on both sides of a gap occur.  The queue's generation is 8 bits: a token kept
  across 256 resets would look fresh again.  No caller holds one that long;
  `od_txq_reset` carries that as a guard (`GenerationReused`) and the run uses modulus 2.
- *Radio.*  Ten chunks exceed the sequence space of nine.  With a window of 3 and four
  slots, chunks 8 and 9 of one window share a slot across that wrap, as chunks 231 and 256
  do with the real constants (run `pipe_wrap`): the properties of Pipe say what holds when
  a frame is displaced and what does not.  Window requests are
  the two clamped ends (0 and 9), and the cadence of 2 is above the one window and
  below the other.  The faults of panel and replies are all on or all
  off, because liveness is claimed only when off.
- *Core.*  Two words of three bits make every kind of shift happen.  The session clock
  wraps at 5 and the windows keep the order of the code's (challenge below rate window).
  The five streams have stored, fixed and dynamic blocks, matches that overlap their own
  output, a wrong checksum and a trailing byte, cut anywhere by frames of 1, 2 and 5.
  Records have up to three packets of seven that the readers tell apart, cut at eleven
  lengths around the packets' ends.  The watchdog's store misbehaves once; the theorem
  of section 4 is for any number of times.
- *Nordic, Silabs, ESP32.*  Two generations of connection, rings of one to three, and
  every deadline of one or two ticks.  The Silabs run has every command, and two panel pins
  of which one is PA0, the pin a zeroed configuration names.  In the Nordic run the
  configuration writes need no session (`Exempt`), as under the key-loss policy.
- *Devices, services.*  Two buttons on every target, of one instance or of two, and a
  ladder of two; patterns with zero delays and counts; one bus transfer of the touch
  controller that fails; sensors whose fields touch; two access points; two searches over
  two heap blocks so that a freed block is reused; an action queue of two.
- *mDNS.*  Two endpoints, of which the second need not be enabled; one service; two events
  (a packet, a change of the network, a restart) beside all that the service sends and
  schedules itself; a queue of two actions, which fills.

`MaxX` constants cap counters that are unbounded in the code (connections, commands,
faults, events); they appear in guards only.

**Deadlock** is checked in `silabs`, `nordic_torn` and `silabs_rail`.  In the other
runs some component may rest: an idle queue, a client that is finished, a device that is off, a
counter at its cap.

**Fairness** is stated for these components; the rest are safety only.

| Component | Fair | Why |
|---|---|---|
| TxQueue | the loop drains (weak); a radio that has room again and again takes the head (strong) | `od_core_process` runs in every pass; RETRY means "later" |
| RxRing | the consumer runs (weak); the producer owes nothing | the loop |
| NordicPump | the main loop, the closing callback (weak); a notification leaves (strong) | the loop; the stack reports every close |
| AdvControl | facts, reconciliation, a late notice (weak); a call that stays wanted is not refused for ever (strong) | one pass per loop |
| Pipe | a client that persists, hears and ends (weak), only while nothing is faulty | losses are bounded by `MaxLoss` |
| Nimble, NordicBle | loop, host task, pass (weak); the stack accepts a start again and again (strong) | both tasks are scheduled |
| Touch, Led, Inputs | the loop, timers, pending interrupts (weak) | as above |

Apart from the persistent client of Pipe, no host, client or finger must ever act.

## 4. What is proved

TLAPS proves these for every value of the constants that meets the named assumptions.

**Response queue** (`TxQueueProofs`; at least two slots, any links, frames, budget and
generation modulus).
- `Accounting` proves `IInv`: types, "reserved = the sum of the live tokens", and
  "queued + reserved <= usable slots".  None is inductive alone: a commit moves a unit from reserved to
  queued, so the bound needs the sum, and the sum needs the generation that makes a token
  stale.  `ReservedCorrect` and `CommitFits` follow.
- `QueueImplementsFifo` proves the refinement `ImplementsFifo`.  The mapping reads the ring
  from the head and a token by its generation.  Beside `IInv` it needs `NoHoles`: what
  is queued is entries, never a cleared slot.  The step that carries the weight is
  `drop_tag`, which compacts in place.  `Rank` numbers the entries that stay;
  `RankIsBijective` shows by counting that every new place is taken once, and
  `DropKeepsOrder` that the ring afterwards holds them in that order.

**Command ring** (`RxRingProofs`; 3 to 255 slots, as the 8-bit indices allow, any payloads and tags).
- `PrivateFill` proves `RingInv`: the slot a push fills is never readable.
- `RingImplementsFifo` proves `ImplementsRxFifo`.  The invariant `RxInd` adds what each side
  knows from an earlier load: the producer's room can only grow, a peeked slot stays the tail,
  and a reset's snapshot of the head is still among the occupied slots.

**Anti-replay window** (`NonceWindowProofs`; any width, counter range, word size and number).
- `WInv`: the bits are exactly the accepted counters in the window, none above `last`.
  It gives `ReplayFree`, `LateFrames` and `MonotoneLast`.
- `WordsImplementWindow`: the shifted words are that set, by cases on the distance (zero,
  within a word, across words, whole words, beyond the width).  `WordsReplayFree`
  carries replay freedom to the words.

**Session** (`SessionProofs`; any limits, windows, clock modulus and number of handshakes,
with `SessionAssumption`: the challenge's life is below the rate window and the clock's
period above twice that window, as in the code).
- `SlotFollowsSession` proves `SessionInv`: fields in range, and the HAL key slot holds
  exactly the key of the authenticated session.
- `NothingTwice` proves the action property `SessionSteps`: no challenge is judged twice,
  a throttled challenge establishes nothing, no nonce is sealed twice under one key, no
  frame is opened twice.  `SessionInd` adds `UsedOnce` (what was sealed or opened is below
  the counter, or in the window, of its key) and `ChallengeAlone` (a pending challenge is unjudged,
  its request is the last one counted, and it is throttled only while the limiter is full).
  The last point is why a throttled challenge dies: the limiter cannot clear within its life.

**Advertising controller** (`AdvControl`; any payloads).
- `RestIsSilence` proves `AdvSafe`.  `Unaware` says exactly when the controller is wrong: it
  takes a running advertisement for ended if and only if a stale end notice stands
  uncorrected (history variable `misled`); the first start that is answered corrects it.
  Outside that interval rest is silence, and what is on the air is current unless a payload
  was programmed within it (`outdated`).  `AdvInd` adds that the stack holds the
  payload the controller does not owe it.

**Nordic loop** (`NordicPump`; any ring and queue size, read length, frames per pass and
number of reconnections, with a queue of at least two replies).
- `NothingInherited` proves `PumpSafe`: a handler meets no session, transfer, assembly or
  read of an earlier connection, a read-back is of one stored record, promised replies fit.
- `RepliesReachTheAsker` proves the action property `DeliveredToAsker`: a reply is checked
  in one step and sent in another, and still goes only to the connection that asked.
- `PumpInd` says why.  `NotAhead`: nothing is of a generation still to come.  `UpToDate`: with
  no link up, nothing is of the current one.  `CloseComes`: state of an earlier generation
  exists only while a close is being marked or waits, and a new link can be up, or come up,
  with a close waiting only where the clean-up is the next step of the loop, because only the
  loop restarts advertising.  `Offered`: between check and send of a reply no new
  link can come up.  `Places` ties the program counter to what the pass holds.  TLC
  checked `PumpInd` on the run's instance before it was proved.

**Image transfer** (`Transfer`; any owners, etags and image size).
- `EtagTellsTheTruth` proves `TransferSafe`: the panel is powered exactly while a transfer
  owns it, the etag names what the glass shows (outside the two cases of section 6), a
  partial image is under way only over its base, and every handler stays within the
  replies reserved for its opcode.  The conjunction is inductive as it stands; the proof
  has one lemma per way a handler ends (closed, aborted, opened, grown, fatal, refreshed,
  refused, inert) and one per handler over them.

**Watchdog** (`Watchdog`; any period, phases and number of store faults, with a healthy time of
at least two periods).
- `WatchdogContains` proves `WatchdogSafe`: as long as no write was lost, three short runs
  in a row end in safe mode, safe mode always has its cause, and the boot after a wedge names its
  phase; the cache is honest even when writes fail.  `WatchdogInd` adds `ByteAgrees` (the
  retained byte says what the state in memory says) and `StrikesBetween` (the strikes lie between
  the runs that were short and the runs never fed once healthy; a run with strikes left was
  last fed before it was healthy).  `AfterBoot` says what a boot leaves for each byte and
  each failure of the store, and both kinds of reset follow from it.

**Checked by TLC only.**  All liveness, since the prover has neither fairness nor ENABLED.
What recursive definitions compute (the decoder, the tune player and the packet walk),
since induction over data is out of its reach.  The other loops, the panels, the services
and the devices: their invariants are conjunctions over many program counters, and no proof
has been written for them.

## 5. What the models found

**The reorder ring is not collision-free across the sequence wrap** (`pipe_wrap`).
`od_pipe.h:30` asserts "PIPE reorder ring needs W+1 collision-free slots", and the slot is
`seq % 33` of an 8-bit number (`od_pipe.c:87`).  256 mod 33 is 25, so chunks 231 and 256
(sequence number 0) of one window share slot 0.  The displaced frame may already have been
acknowledged, and `queued_count` stays too high.

**An advertisement may be torn** (`nordic_torn`).  `opendisplay_ble.c:239-243` (Nordic)
says the bytes on the air "can never be torn by a concurrent write"; the copy at line 876
may be interrupted by the NFC callback that rebuilds its source.  A later publish repairs
it, which `ZephyrCatchesUp` shows.

**A rail may stay on** (`silabs_rail`).  `opendisplay_pipe.c:145` (BG22) calls a transport
reset "the target's fail-safe panel power-off path".  Power-off drives the pin that the
configuration names now.  After a CONFIG_CLEAR during a transfer that is PA0, whatever pin
is on.  `SilabsSafe` says what holds of it: every rail that was not renamed under a transfer
is off.

Differences between code and comment, or corners of the code, that have no run of their own:
- `od_adv_control.c:100-103` says a stale end notice is corrected on the next pass.  If the
  intent was withdrawn meanwhile, the controller rests while the radio advertises; if a
  new payload was programmed, the start is answered ALREADY and the old one stays on the
  air.  `misled` and `outdated` are exactly those two intervals, and `AdvSettles` excuses no other.
- `od_cmd_config.c:176` says the erase comes after the length checks; the declared total is
  checked at 188, after it.  `communication.cpp:495` has the same order, with the erase at
  440.  `BootChangesNothing` excuses it (history variable `doubt`).
- `docs/DIVERGENCE_MATRIX.md:212` calls the assembler shared by all three targets; Nordic
  has its own (`od_cmd_config.c:161-337`).  It does not abandon an open upload when a
  single-frame write arrives (line 251).
- `od_session.c:346` keeps a throttled client's challenge so that it can "answer the one it
  holds once the window clears"; `od_session.h:298-302` says that cannot happen.
  `NothingTwice` shows the header is right.
- `od_watchdog.c:230`: a breadcrumb write that fails having cleared the byte leaves
  `last_phase` naming the old phase (history variable `wiped`).
- `od_adv_app.h:26`: a boost renewed while the loop expires it may be lost, as the header says.
- `opendisplay_nfc.c:129` (Nordic): after a refused restart a READ returns the refused record.
- `opendisplay_ble.c:347` (Nordic): the wait for the boot render is bounded to 30 s.  A START
  may meet a render that takes longer (`StartMeetsRender`); nothing is claimed from there on.
- `opendisplay_ble.c:477` (BG22): a publish while the connection event is still queued
  starts advertising under a connection.
- `ble_transport_esp32.cpp:485`: an instance is checked, then disconnected by its numeric
  handle.  Esp32Link makes check and call one step.
- `display_fastepd.cpp:311`: an aborted direct write leaves glass and framebuffer
  different.  `GlassIsEtag` is claimed for the bb_epaper driver only.
- `display_service.cpp:1254`: after a failed register read DC1 is switched off although the
  message says it is kept.  `PmicInv` is about sequences whose accesses succeeded.
- `wifi_service.cpp:479`: the TLS configuration keeps the pre-shared key of a master key that was
  replaced since; `opendisplay_protocol.h:952-954` derives it from the current one.
- `od_sensor_sht40.c:198`: a poll clears the byte after the three that
  `opendisplay_structs.h:777` gives the sensor.  The first byte of a sensor that begins there
  and was polled earlier is then 0 (`Cleared`).
- `device_control.cpp:404`: an edge of an ESP32 button that comes while an earlier one is
  being handled, or before that of another button was taken, may be lost until the button
  moves again (history variable `raced`).
- `opendisplay_ble.c:811` (BG22): when the interrupt of the field detector is refused, mode 2
  has no trigger left; when it is debounced, edges of the debounce time are discarded.
  `InputsSettle` is about the other modes, and mode 2 with neither.
- Buttons of one BinaryInputs instance share a byte: the last one to move is advertised.
- `od_touch_gt911.c`: the status cleared by a resume or a bring-up may be of a report nobody
  read; a release among those leaves the air at "touch" until the next contact.  A write
  that swaps the interrupt pins of two controllers takes the handler of one away
  (`TouchAssumption` keeps their pins apart).
- `od_ble_nimble.cpp`: `od_on_reset()` does not tell the controller, so that after a host reset
  the device may advertise without its manufacturer data.
- `opendisplay_ble.c:1392-1396` (BG22): the block offset of the tag is one byte.  A record of
  more than 256 bytes is written over itself and acknowledged (`Kept`).
- `od_xfer_direct.c:215-219` keeps the etag when a full refresh without one times out; the
  glass is then unknown (history variables `stale` and `excused`).
- `wifi_service.cpp:1292-1296`: a write that turns Wi-Fi off leaves the old listener up.  A
  client accepted before the mode changed is read in the new mode.
- `power_latch.cpp:116-118`: between the end of D's hold and the driving of D an edge of the
  clock takes a floating D, and may cut the supply.
- `mdns_browser.c:67-82`: a browse that is ended, or a goodbye parsed, while a report about the
  same result is queued frees a result the notifier is then given (history variable
  `crossed`).  A packet with a malformed record (`mdns_receive.c:771-788`, `1322`) and a full
  queue (`mdns_browser.c:813-816`) change the cache and report nothing (`lost`).
- `mdns_pcb.c:153-167`, `445-461`: a packet received on an endpoint that is not ready may set
  it probing; no restart and no removal looks at it until it is set up (`stray`).
- `mdns_send.c:1734-1743`: a packet queued past one whose action was refused stays marked
  queued with no action under way, and holds the queue up until a restart
  empties it (`overtaken`).
- `mdns_querier.c:152`: stopping the service looks a freed search up by address (constant
  `StopMidway`, FALSE: the firmware never stops it with searches pending).

## 6. Abstractions to keep in mind

- Ciphers are symbolic: a frame opens under the key that sealed it and no other.  The
  second handshake step is its outcomes.  Timing and constant-time comparison are absent.
- The loops keep of the core state whose it is, not what it is; what a handler does is in
  the module of its component.  LED, buzzer, NFC and power opcodes are not commands of
  the loops.
- Transfer excuses two cases that keep an etag on purpose (history variable `excused`): a
  full refresh that times out without naming one (`tests/host/xfer_test.c:572`) and a
  raw packed-row image ended short.
- Mdns leaves out known-answer suppression: a shared record that a query lists as known is
  answered all the same.
- A Nordic or ESP32 build may carry a factory configuration (`Embedded`), which is stored
  over whatever is there when the load of a boot fails; `BootChangesNothing` has that fallback.
- ConfigWrite leaves out the LAN origin and the ESP32's reset-pin erase
  (`encryption.cpp:99-125`).
- Nimble's second initialisation in one boot is behind `Reinit` (FALSE: the firmware tears
  the stack down only to sleep): the teardown leaves the identity's counter odd (line 1121),
  so that the next publication would be even while it writes.
- Watchdog does not model the wrap of uptime: strikes are cleared long before it.
- One bus transfer stands for the many of a panel hook; waveforms and timing are absent.
- TxQueue clears a slot when its entry leaves: the bytes are never read before a commit
  overwrites them.

**Not modelled.**  Advertisement encoding, the boot screen, colour conversion and logging
have no state that other parts depend on.  Vendored drivers, mbedTLS, the Bluetooth stacks and the ROM
decoder are seen through their calls.

## 7. What comes next

Proofs, in this order: ConfigWrite (`StoredIsWhole`), the owner word of Esp32Link
(`OwnerOnly`), and the event queue of SilabsPump.
