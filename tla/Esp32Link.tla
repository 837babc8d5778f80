----------------------------- MODULE Esp32Link -----------------------------
(***************************************************************************)
(* The ESP32 target's single client slot: one atomic owner word            *)
(* (link_owner.cpp) contended for by the NimBLE host task, whose           *)
(* callbacks publish and retire link instances (ble_transport_esp32.cpp),  *)
(* and by the loop task, which admits LAN clients (wifi_service.cpp),      *)
(* cleans up after a departed owner, refuses contenders, dispatches,       *)
(* enforces the idle limit and goes to deep sleep (main.cpp,               *)
(* session_guard.cpp).                                                     *)
(*                                                                         *)
(* A word names one connection for good: who, handle and epoch.  Core      *)
(* state is reduced to the word it belongs to.  The loop task is a program *)
(* counter over its service functions; the host task runs between any two  *)
(* of its steps, and inside a service wherever that reads shared state     *)
(* more than once.                                                         *)
(***************************************************************************)
EXTENDS Integers, Sequences, FiniteSets

CONSTANTS
  Handles,     \* connection handles of the BLE controller
  MaxInst,     \* OD_BLE_MAX_INSTANCES, CONFIG_BT_NIMBLE_MAX_CONNECTIONS
  MaxEpoch,    \* bound on connections between two boots
  RxCap,       \* frames the receive ring holds
  TxCap,       \* replies the transmit queue holds
  MaxPass,     \* frames dispatched in one service call
  AbuseLimit,  \* OD_AUTH_ABUSE_THRESHOLD
  IdleLimit,   \* OD_BLE_IDLE_TIMEOUT_MS, in clock ticks
  None

ASSUME LinkAssumption ==
  /\ Handles # {} /\ None \notin Handles
  /\ {MaxInst, MaxEpoch, RxCap, TxCap, MaxPass, AbuseLimit, IdleLimit} \subseteq Nat \ {0}

VARIABLES
  epoch,     \* s_epochCounter
  owner,     \* s_ownerWord
  base,      \* s_baselineMs, as an age, and s_baselineOwner
  inst,      \* s_instances
  link,      \* the controller's links: state, word, and whether refused
  cb,        \* the host task: the callback it is in
  discEv,    \* s_disconnectedEvent
  adv,       \* connectable advertising is on
  rx,        \* the receive ring: tags
  tx,        \* the transmit queue: tags
  core,      \* whose session, and whose transfer or chunked write, there is
  abuse,     \* s_authRejectRun, s_authAbuseDropPending, and whose run it is
  lan,       \* the LAN socket, its TLS session and its receive buffer
  lanIn,     \* a client waits in the listen backlog
  wifi,      \* the station is associated
  cleanup,   \* s_disconnectCleanupPending, s_cleanupForOwner
  advPending,\* s_advertisingRestartPending
  woke,      \* woke_from_deep_sleep, before a client has connected
  drained,   \* frames dispatched in this service call
  scan,      \* the registers of serviceContenderRefusal()
  pc,        \* where the loop task is, and the abort it is in
  silent     \* how long the owner has really been silent

hostVars == <<epoch, inst, link, cb, discEv>>
coreVars == <<rx, tx, core, abuse>>
lanVars == <<lan, lanIn, wifi>>
loopVars == <<cleanup, advPending, woke, drained, scan, pc>>
linkVars == <<hostVars, owner, base, adv, coreVars, lanVars, loopVars, silent>>

Terminal == [who |-> "terminal", h |-> None, e |-> 0]
Ble(h, e) == [who |-> "ble", h |-> h, e |-> e]
Lan(e) == [who |-> "lan", h |-> None, e |-> e]
Epochs == 1 .. MaxEpoch
BleWord == {Ble(h, e) : h \in Handles, e \in Epochs}
LanWord == {Lan(e) : e \in Epochs}
Word == BleWord \union LanWord \union {None}
Slots == 1 .. MaxInst
Ages == 0 .. IdleLimit + 1

NoInst == [word |-> None, decided |-> None, sub |-> FALSE]
NoLink == [st |-> "down", word |-> None, cut |-> FALSE]
NoLan == [fd |-> FALSE, peer |-> FALSE, conn |-> FALSE, word |-> None,
          sock |-> FALSE, buf |-> None, hs |-> FALSE]
Nobody == [sess |-> None, xfer |-> None]
NoAbuse == [run |-> 0, due |-> FALSE, by |-> None]
NoCleanup == [pending |-> FALSE, for |-> None]
Idle == [at |-> "idle", h |-> None, word |-> None]
At(l) == [at |-> l, ret |-> l, id |-> None, drop |-> FALSE]

LinkInit ==
  /\ epoch = 0 /\ owner = None /\ base = [age |-> 0, tag |-> None]
  /\ inst = [s \in Slots |-> NoInst] /\ link = [h \in Handles |-> NoLink]
  /\ cb = Idle /\ discEv = FALSE /\ adv = TRUE
  /\ rx = <<>> /\ tx = <<>> /\ core = Nobody /\ abuse = NoAbuse
  /\ lan = NoLan /\ lanIn = FALSE /\ wifi = FALSE
  /\ cleanup = NoCleanup /\ advPending = FALSE /\ woke \in BOOLEAN /\ drained = 0
  /\ scan = [s |-> 1, w |-> None] /\ pc = At("events") /\ silent = 0

-----------------------------------------------------------------------------
(* The instance table.                                                     *)

instanceIndexOf(h) == {s \in Slots : inst[s].word # None /\ inst[s].word.h = h}
instanceLive(w) == \E s \in Slots : inst[s].word = w
Subscribed(w) == \E s \in Slots : inst[s].word = w /\ inst[s].sub
Connected == \E h \in Handles : link[h].st # "down"

instancePublish(w) ==
  LET free == {s \in Slots : inst[s].word = None} IN
  inst' = IF free = {} THEN inst
          ELSE [inst EXCEPT ![CHOOSE s \in free : \A t \in free : s <= t] =
                  [NoInst EXCEPT !.word = w]]

-----------------------------------------------------------------------------
(* The NimBLE host task.  A callback is several steps; callbacks do not    *)
(* interleave with one another.                                            *)

HostOnly == UNCHANGED <<adv, tx, core, abuse, lanVars, loopVars>>

\* od_ble_evt_connect(): a new epoch, then the instance is published ...
ConnectPublish(h) ==
  /\ cb = Idle /\ adv /\ link[h].st = "down" /\ epoch < MaxEpoch
  /\ Cardinality({g \in Handles : link[g].st # "down"}) < MaxInst
  /\ epoch' = epoch + 1
  /\ LET w == Ble(h, epoch + 1) IN
       /\ instancePublish(w)
       /\ link' = [link EXCEPT ![h] = [NoLink EXCEPT !.st = "up", !.word = w]]
       /\ cb' = [at |-> "claim", h |-> h, word |-> w]
  /\ adv' = FALSE
  /\ UNCHANGED <<owner, base, discEv, coreVars, lanVars, loopVars, silent>>

\* ... then linkClaim(): the slot is taken only from unowned ...
ConnectClaim ==
  /\ cb.at = "claim"
  /\ IF owner = None /\ instanceLive(cb.word)
     THEN owner' = cb.word /\ silent' = 0 /\ cb' = [cb EXCEPT !.at = "stamp"]
     ELSE UNCHANGED <<owner, silent>> /\ cb' = [cb EXCEPT !.at = "decide"]
  /\ UNCHANGED <<epoch, base, inst, link, discEv, rx>> /\ HostOnly

\* ... and its idle clock starts ...
ConnectStamp ==
  /\ cb.at = "stamp"
  /\ base' = [age |-> 0, tag |-> cb.word]
  /\ cb' = [cb EXCEPT !.at = "decide"]
  /\ UNCHANGED <<epoch, owner, inst, link, discEv, rx, silent>> /\ HostOnly

\* ... and last the instance is marked decided.
ConnectDecide ==
  /\ cb.at = "decide"
  /\ inst' = [s \in Slots |-> IF s \in instanceIndexOf(cb.h)
                              THEN [inst[s] EXCEPT !.decided = cb.word] ELSE inst[s]]
  /\ cb' = Idle
  /\ UNCHANGED <<epoch, owner, base, link, discEv, rx, silent>> /\ HostOnly

\* od_ble_evt_disconnect(): the instance is retired ...
DisconnectRetire(h) ==
  /\ cb = Idle /\ link[h].st = "gone"
  /\ inst' = [s \in Slots |-> IF s \in instanceIndexOf(h) THEN NoInst ELSE inst[s]]
  /\ link' = [link EXCEPT ![h] = NoLink]
  /\ cb' = [at |-> "notify", h |-> h, word |-> None]
  /\ UNCHANGED <<epoch, owner, base, discEv, rx, silent>> /\ HostOnly

\* ... before the loop task is told.
DisconnectNotify ==
  /\ cb.at = "notify"
  /\ discEv' = TRUE /\ cb' = Idle
  /\ UNCHANGED <<epoch, owner, base, inst, link, rx, silent>> /\ HostOnly

od_ble_evt_subscribe(h) ==
  /\ cb = Idle /\ link[h].st = "up"
  /\ \E on \in BOOLEAN :
       inst' = [s \in Slots |-> IF s \in instanceIndexOf(h)
                                THEN [inst[s] EXCEPT !.sub = on] ELSE inst[s]]
  /\ UNCHANGED <<epoch, owner, base, link, cb, discEv, rx, silent>> /\ HostOnly

\* od_ble_evt_write(): a write of the owner is queued under its word, any
\* other is dropped.
WriteFilter(h) ==
  /\ cb = Idle /\ link[h].st = "up"
  /\ \E s \in instanceIndexOf(h) :
       inst[s].word = owner /\ cb' = [at |-> "push", h |-> h, word |-> owner]
  /\ UNCHANGED <<epoch, owner, base, inst, link, discEv, rx, silent>> /\ HostOnly

WritePush ==
  /\ cb.at = "push"
  /\ rx' = IF Len(rx) < RxCap THEN Append(rx, cb.word) ELSE rx
  /\ cb' = Idle
  /\ UNCHANGED <<epoch, owner, base, inst, link, discEv, silent>> /\ HostOnly

-----------------------------------------------------------------------------
(* The world: peers, the network and the clock.                            *)

PeerGone(h) ==
  /\ link[h].st = "up"
  /\ link' = [link EXCEPT ![h].st = "gone"]
  /\ UNCHANGED <<epoch, owner, base, inst, cb, discEv, rx, silent>> /\ HostOnly

LanEnv == UNCHANGED <<hostVars, owner, base, adv, coreVars, loopVars, silent>>

LanArrives == wifi /\ ~lanIn /\ lanIn' = TRUE /\ UNCHANGED <<lan, wifi>> /\ LanEnv

LanSends ==
  /\ lan.fd /\ lan.peer /\ ~lan.sock
  /\ lan' = [lan EXCEPT !.sock = TRUE]
  /\ UNCHANGED <<lanIn, wifi>> /\ LanEnv

LanCloses ==
  /\ lan.fd /\ lan.peer
  /\ lan' = [lan EXCEPT !.peer = FALSE]
  /\ UNCHANGED <<lanIn, wifi>> /\ LanEnv

WifiFlips ==
  /\ ~woke /\ pc.at # "off"
  /\ wifi' = ~wifi /\ lanIn' = FALSE
  /\ UNCHANGED lan /\ LanEnv

\* Time matters only to the idle clock of an owner.
Tick ==
  /\ owner \in BleWord \union LanWord
  /\ base' = [base EXCEPT !.age = IF @ > IdleLimit THEN @ ELSE @ + 1]
  /\ silent' = IF silent > IdleLimit THEN silent ELSE silent + 1
  /\ UNCHANGED <<hostVars, owner, adv, coreVars, lanVars, loopVars>>

-----------------------------------------------------------------------------
(* The loop task: what its services share.                                 *)

Goto(l) == pc' = At(l)
Return == Goto(pc.ret)
Stamped == [age |-> 0, tag |-> owner]
LanUp == lan.fd /\ lan.peer
LanLive == lan.conn /\ LanUp

\* requestTransferSessionCleanup()
CleanupFor(w) == [pending |-> TRUE, for |-> w]

\* resetChunkedWriteState(), resetAuthAbuseCounter(), od_rxq_reset() and
\* od_core_reset(), in abortToKnownState().
od_core_reset ==
  core' = Nobody /\ rx' = <<>> /\ tx' = <<>> /\ abuse' = NoAbuse

\* A request to terminate link h, which the stack may fail to take.
od_ble_disconnect(h, ok, cut) ==
  link' = IF ok /\ link[h].st = "up"
          THEN [link EXCEPT ![h].st = "gone", ![h].cut = cut] ELSE link

\* BleTransport::disconnect(): only if the instance is still that one.
disconnect(w, ok, cut) ==
  IF instanceLive(w) THEN od_ble_disconnect(w.h, ok, cut) ELSE UNCHANGED link

\* abortToKnownState(): the state first ...
Abort(w, drop, ret) ==
  /\ od_core_reset
  /\ pc' = [at |-> "drop", ret |-> ret, id |-> w, drop |-> drop]
  /\ UNCHANGED owner

\* ... then the link, waiting a bounded time for a BLE one to go down
\* (bleDropAndWait(), wifiLanDropOwnedSocket()) ...
AbortDrop ==
  /\ pc.at = "drop"
  /\ pc' = [pc EXCEPT !.at = "release"]
  /\ IF pc.drop /\ pc.id \in BleWord
     THEN \E ok \in BOOLEAN : disconnect(pc.id, ok, FALSE) ELSE UNCHANGED link
  /\ lan' = IF pc.drop /\ pc.id \in LanWord THEN NoLan ELSE lan
  /\ UNCHANGED <<epoch, inst, cb, discEv, owner, base, adv, coreVars, lanIn, wifi,
                 cleanup, advPending, woke, drained, scan, silent>>

\* ... and the slot last, whether or not the wait saw the link go.
AbortRelease ==
  /\ pc.at = "release"
  /\ owner' = IF owner = pc.id THEN None ELSE owner
  /\ silent' = 0
  /\ Return
  /\ UNCHANGED <<hostVars, base, adv, coreVars, lanVars, cleanup, advPending, woke,
                 drained, scan>>

\* disconnectWiFiServer()
DisconnectServer ==
  /\ core' = IF lan.fd THEN [core EXCEPT !.sess = None] ELSE core
  /\ lan' = NoLan
  /\ cleanup' = CleanupFor(owner)

-----------------------------------------------------------------------------
(* The loop task, service by service.                                      *)

\* serviceBleEvents(): what has departed is judged by the token and the
\* table, not by the event's own word.
ServiceEvents ==
  /\ pc.at = "events"
  /\ discEv' = FALSE
  /\ cleanup' = IF discEv /\ owner \in BleWord /\ ~instanceLive(owner)
                THEN CleanupFor(owner) ELSE cleanup
  /\ advPending' = (advPending \/ discEv)
  /\ Goto("prologue")
  /\ UNCHANGED <<epoch, inst, link, cb, owner, base, adv, coreVars, lanVars, woke,
                 drained, scan, silent>>

\* platformLoopPrologue(): after a deep sleep only Bluetooth runs until a
\* client has connected.
Prologue ==
  /\ pc.at = "prologue"
  /\ LET full == woke /\ owner \in BleWord /\ instanceLive(owner) IN
       /\ woke' = (woke /\ ~full)
       /\ Goto(IF full THEN "events" ELSE IF woke THEN "cleanup" ELSE "reap")
  /\ UNCHANGED <<hostVars, owner, base, adv, coreVars, lanVars, cleanup, advPending,
                 drained, scan, silent>>

\* wifiLanReapClosedSession()
Reap ==
  /\ pc.at = "reap"
  /\ IF lan.conn /\ ~LanUp THEN DisconnectServer ELSE UNCHANGED <<core, lan, cleanup>>
  /\ Goto("cleanup")
  /\ UNCHANGED <<hostVars, owner, base, adv, rx, tx, abuse, lanIn, wifi, advPending, woke,
                 drained, scan, silent>>

\* serviceBleDisconnectCleanup(): the state of a departed owner is cleared
\* if the slot is still its own and its link is down.
ServiceCleanup ==
  /\ pc.at = "cleanup"
  /\ cleanup' = NoCleanup
  /\ scan' = [s |-> 1, w |-> None]
  /\ LET up == \/ owner \in BleWord /\ instanceLive(owner)
               \/ owner \in LanWord /\ LanLive
     IN IF cleanup.pending /\ cleanup.for # None /\ owner = cleanup.for /\ ~up
        THEN Abort(owner, FALSE, "r1")
        ELSE Goto("r1") /\ UNCHANGED <<coreVars, owner>>
  /\ UNCHANGED <<hostVars, base, adv, lanVars, advPending, woke, drained, silent>>

AfterRefusal == IF woke THEN "adv" ELSE "rx"
NextSlot ==
  /\ scan' = [s |-> IF scan.s = MaxInst THEN 1 ELSE scan.s + 1, w |-> None]
  /\ Goto(IF scan.s = MaxInst THEN AfterRefusal ELSE "r1")

ScanOnly == UNCHANGED <<epoch, inst, cb, discEv, owner, base, adv, coreVars, lanVars,
                        cleanup, advPending, woke, silent>>

\* serviceContenderRefusal(): three loads, in this order: the entry, ...
RefuseEntry ==
  /\ pc.at = "r1"
  /\ IF inst[scan.s].word = None
     THEN NextSlot
     ELSE Goto("r2") /\ scan' = [scan EXCEPT !.w = inst[scan.s].word]
  /\ UNCHANGED <<link, drained>> /\ ScanOnly

\* ... whether its claim has been decided, ...
RefuseDecided ==
  /\ pc.at = "r2"
  /\ IF inst[scan.s].decided # scan.w THEN NextSlot ELSE Goto("r3") /\ UNCHANGED scan
  /\ UNCHANGED <<link, drained>> /\ ScanOnly

\* ... and the owner, read last.
RefuseDrop(ok) ==
  /\ pc.at = "r3"
  /\ IF scan.w = owner THEN UNCHANGED link ELSE disconnect(scan.w, ok, TRUE)
  /\ NextSlot
  /\ UNCHANGED drained /\ ScanOnly

\* serviceBleRx(): frames of departed links are discarded; the owner's next
\* frame is dispatched.
ServiceRx ==
  /\ pc.at = "rx"
  /\ \/ /\ rx # <<>> /\ drained < MaxPass /\ Head(rx) # owner
        /\ rx' = Tail(rx) /\ UNCHANGED <<pc, drained>>
     \/ /\ rx # <<>> /\ drained < MaxPass /\ Head(rx) = owner
        /\ pc' = [At("dispatch") EXCEPT !.id = Head(rx), !.ret = "rx"]
        /\ UNCHANGED <<rx, drained>>
     \/ /\ rx = <<>> \/ drained = MaxPass
        /\ pc' = [At("tx") EXCEPT !.ret = "adv"] /\ drained' = 0 /\ UNCHANGED rx
  /\ UNCHANGED <<hostVars, owner, base, adv, tx, core, abuse, lanVars, cleanup,
                 advPending, woke, scan, silent>>

Ops == {"auth", "data", "rejected", "end", "sleep"}

\* What a served frame leaves behind, and its reply.
Effect(op, w) ==
  CASE op = "auth" -> [core EXCEPT !.sess = w]
    [] op = "data" -> [core EXCEPT !.xfer = w]
    [] OTHER -> core

\* authAbuseAdvance()
Advance(w) ==
  IF abuse.due THEN abuse
  ELSE [run |-> abuse.run + 1, due |-> abuse.run + 1 >= AbuseLimit, by |-> w]

TakeFrame ==
  IF pc.ret = "rx"
  THEN rx' = Tail(rx) /\ UNCHANGED lan
  ELSE lan' = [lan EXCEPT !.buf = None] /\ UNCHANGED rx

\* od_core_frame_done(): only the owner's frame counts, and only a
\* Bluetooth frame moves the abuse run.
FrameDone(op, w) ==
  /\ abuse' = IF w \notin BleWord \/ w # owner THEN abuse
              ELSE IF op = "rejected" THEN Advance(w)
              ELSE NoAbuse
  /\ IF op = "rejected" \/ w \notin {owner} \ {None}
     THEN UNCHANGED <<base, silent>> ELSE base' = Stamped /\ silent' = 0

AfterFrame == [At(IF pc.ret = "rx" THEN "tx" ELSE "wifi3") EXCEPT !.ret = pc.ret]

\* od_dispatch_app_frame() and what the pump does with its outcome.  With no
\* room for the reply the frame stays where it is.
Dispatch(op) ==
  /\ pc.at = "dispatch"
  /\ op = "end" => core.xfer = pc.id
  /\ op = "rejected" => core.sess # pc.id
  /\ IF Len(tx) = TxCap
     THEN /\ pc' = IF pc.ret = "rx" THEN [At("tx") EXCEPT !.ret = "adv"] ELSE At("idle")
          /\ drained' = 0
          /\ UNCHANGED <<base, coreVars, lan, silent>>
     ELSE /\ drained' = drained + 1
          /\ IF op = "end"
             THEN /\ pc' = [pc EXCEPT !.at = "refresh"]
                  /\ UNCHANGED <<base, coreVars, lan, silent>>
             ELSE /\ core' = Effect(op, pc.id)
                  /\ tx' = Append(tx, pc.id)
                  /\ TakeFrame /\ FrameDone(op, pc.id)
                  /\ pc' = IF op = "sleep" THEN At("mark") ELSE AfterFrame
  /\ UNCHANGED <<hostVars, owner, adv, lanIn, wifi, cleanup, advPending, woke, scan>>

\* The panel refresh runs inside the END handler; endRefresh() restarts the
\* idle clock, and the frame is then done like any other.
RefreshDone ==
  /\ pc.at = "refresh"
  /\ core' = [core EXCEPT !.xfer = None]
  /\ tx' = Append(tx, pc.id)
  /\ TakeFrame /\ FrameDone("end", pc.id)
  /\ advPending' = TRUE
  /\ pc' = AfterFrame
  /\ UNCHANGED <<hostVars, owner, adv, lanIn, wifi, cleanup, woke, drained, scan>>

\* od_hal_radio_tag_is_live(): a LAN reply without a word is never stale.
TxTake == tx # <<>> /\ Head(tx) \in {owner, None}

\* notifyReady() and opendisplay_lan_send_frame().
Ready(w) ==
  \/ w \in BleWord /\ Subscribed(w)
  \/ w \notin BleWord /\ LanLive /\ lan.hs

\* od_txq_process(): a dead reply is dropped, a live one offered; the stack
\* may refuse it, and a failed LAN write drops the socket.
TxProcess ==
  /\ pc.at = "tx"
  /\ \/ /\ tx # <<>> /\ ~TxTake
        /\ tx' = Tail(tx) /\ UNCHANGED <<pc, lan>>
     \/ /\ TxTake /\ Ready(Head(tx))
        /\ tx' = Tail(tx) /\ UNCHANGED pc
        /\ lan' \in {lan} \union {[lan EXCEPT !.fd = FALSE, !.sock = FALSE] :
                                   x \in IF Head(tx) \notin BleWord THEN {1} ELSE {}}
     \/ /\ tx = <<>> \/ TxTake
        /\ Return /\ UNCHANGED <<tx, lan>>
  /\ UNCHANGED <<hostVars, owner, base, adv, rx, core, abuse, lanIn, wifi, cleanup,
                 advPending, woke, drained, scan, silent>>

\* serviceBleAdvertisingRestart(), and updatemsdata(), which restarts
\* advertising whenever no link is up.
ServiceAdv ==
  /\ pc.at = "adv"
  /\ advPending' = FALSE
  /\ adv' \in IF Connected THEN {adv} ELSE IF advPending THEN {TRUE} ELSE {adv, TRUE}
  /\ Goto(IF woke THEN "rest" ELSE "timeouts")
  /\ UNCHANGED <<hostVars, owner, base, coreVars, lanVars, cleanup, woke, drained, scan,
                 silent>>

\* checkTransferTimeouts(): a transfer may have run out its watchdog.
CheckTimeouts ==
  /\ pc.at = "timeouts"
  /\ \/ Goto("wifi") /\ UNCHANGED <<coreVars, owner>>
     \/ /\ core.xfer # None
        /\ Abort(owner, \E W \in {BleWord, LanWord} : {core.xfer, owner} \subseteq W, "wifi")
  /\ UNCHANGED <<hostVars, base, adv, lanVars, cleanup, advPending, woke, drained, scan,
                 silent>>

WifiOnly == UNCHANGED <<inst, link, cb, discEv, adv, rx, tx, abuse, wifi, advPending, woke,
                        scan>>

\* handleWiFiServer(): with the station down the session ends; otherwise one
\* waiting client is taken from the backlog, and refused outright while the
\* slot is held.
WifiAccept ==
  /\ pc.at = "wifi"
  /\ \/ /\ ~wifi
        /\ IF lan.conn THEN DisconnectServer ELSE UNCHANGED <<core, lan, cleanup>>
        /\ Goto("idle") /\ UNCHANGED <<epoch, lanIn>>
     \/ /\ wifi /\ (~lanIn \/ owner # None \/ epoch = MaxEpoch)
        /\ lanIn' = FALSE
        /\ Goto("wifi2") /\ UNCHANGED <<epoch, core, lan, cleanup>>
     \/ /\ wifi /\ lanIn /\ owner = None /\ epoch < MaxEpoch
        /\ lanIn' = FALSE /\ epoch' = epoch + 1
        /\ lan' = [NoLan EXCEPT !.fd = TRUE, !.peer = TRUE, !.conn = TRUE,
                                !.word = Lan(epoch + 1)]
        /\ Goto("lanclaim") /\ UNCHANGED <<core, cleanup>>
  /\ UNCHANGED <<owner, base, drained, silent>> /\ WifiOnly

\* A lost claim is not undone: the socket stays.
MutLanClaim ==
  /\ pc.at = "lanclaim"
  /\ IF owner = None
     THEN owner' = lan.word /\ base' = [age |-> 0, tag |-> lan.word] /\ silent' = 0
     ELSE UNCHANGED <<owner, base, silent>>
  /\ Goto("wifi2")
  /\ UNCHANGED <<epoch, core, lan, lanIn, cleanup, drained>> /\ WifiOnly

\* admitOrRefuseLanClient(): a Bluetooth client may have taken the slot in
\* between; the TLS session may fail to start.
LanClaim ==
  /\ pc.at = "lanclaim"
  /\ IF owner = None
     THEN /\ owner' = lan.word /\ base' = [age |-> 0, tag |-> lan.word] /\ silent' = 0
          /\ \/ UNCHANGED <<core, lan, cleanup>>
             \/ core' = [core EXCEPT !.sess = None] /\ lan' = NoLan /\ cleanup' = CleanupFor(lan.word)
     ELSE lan' = NoLan /\ UNCHANGED <<owner, base, silent, core, cleanup>>
  /\ Goto("wifi2")
  /\ UNCHANGED <<epoch, lanIn, drained>> /\ WifiOnly

\* The handshake goes on, completes, which counts as a sign of life, or
\* fails.
LanHandshake ==
  /\ pc.at = "wifi2"
  /\ \/ /\ lan.conn /\ ~LanUp
        /\ DisconnectServer /\ Goto("idle") /\ UNCHANGED <<base, silent>>
     \/ /\ ~lan.conn
        /\ Goto("idle") /\ UNCHANGED <<core, lan, cleanup, base, silent>>
     \/ /\ LanLive /\ lan.hs
        /\ Goto("wifi3") /\ UNCHANGED <<core, lan, cleanup, base, silent>>
     \/ /\ LanLive /\ ~lan.hs
        /\ \/ Goto("wifi3") /\ UNCHANGED <<core, lan, cleanup, base, silent>>
           \/ /\ lan' = [lan EXCEPT !.hs = TRUE] /\ base' = Stamped /\ silent' = 0
              /\ Goto("wifi3") /\ UNCHANGED <<core, cleanup>>
           \/ DisconnectServer /\ Goto("idle") /\ UNCHANGED <<base, silent>>
  /\ UNCHANGED <<epoch, owner, lanIn, drained>> /\ WifiOnly

\* One frame is read and dispatched under the owner's word.  A closed or
\* failed channel, or a malformed length, ends the session.
LanRead ==
  /\ pc.at = "wifi3"
  /\ \/ /\ lan.buf # None /\ drained < MaxPass
        /\ pc' = [At("dispatch") EXCEPT !.id = IF owner \in LanWord THEN owner ELSE None,
                                        !.ret = "wifi3"]
        /\ UNCHANGED <<core, lan, cleanup, drained>>
     \/ /\ lan.buf = None /\ LanLive /\ lan.hs /\ lan.sock /\ drained < MaxPass
        /\ lan' = [lan EXCEPT !.sock = FALSE, !.buf = lan.word]
        /\ UNCHANGED <<core, cleanup, pc, drained>>
     \/ /\ LanLive /\ lan.buf = None
        /\ DisconnectServer /\ Goto("idle") /\ drained' = 0
     \/ /\ \/ drained = MaxPass \/ ~LanLive
           \/ lan.buf = None /\ ~(lan.hs /\ lan.sock)
        /\ Goto("idle") /\ drained' = 0 /\ UNCHANGED <<core, lan, cleanup>>
  /\ UNCHANGED <<epoch, owner, base, silent, lanIn>> /\ WifiOnly

\* A baseline counts only for the owner it was written for.
linkMsSinceOwnerCommand ==
  IF owner \in BleWord \union LanWord /\ base.tag = owner THEN base.age ELSE 0

serviceIdleTimeout ==
  /\ pc.at = "idle"
  /\ IF linkMsSinceOwnerCommand > IdleLimit
     THEN Abort(owner, TRUE, "abuse")
     ELSE Goto("abuse") /\ UNCHANGED <<coreVars, owner>>
  /\ UNCHANGED <<hostVars, base, adv, lanVars, cleanup, advPending, woke, drained, scan,
                 silent>>

\* serviceBleAuthAbuseDisconnect(): replies get out first, within a bound.
ServiceAbuse ==
  /\ pc.at = "abuse"
  /\ \/ /\ Goto("rest")
        /\ abuse' = IF abuse.due /\ owner \notin BleWord THEN NoAbuse ELSE abuse
        /\ UNCHANGED <<rx, tx, core, owner>>
     \/ abuse.due /\ owner \in BleWord /\ Abort(owner, TRUE, "rest")
  /\ UNCHANGED <<hostVars, base, adv, lanVars, cleanup, advPending, woke, drained, scan,
                 silent>>

WorkInFlight == rx # <<>> \/ tx # <<>> \/ Connected \/ discEv \/ advPending \/ LanLive

\* platformIdle(): the next pass, or deep sleep when nothing is going on and
\* no link is up.
Rest ==
  /\ pc.at = "rest"
  /\ \/ Goto("events")
     \/ ~Connected /\ (woke \/ ~WorkInFlight) /\ Goto("mark")
  /\ UNCHANGED <<hostVars, owner, base, adv, coreVars, lanVars, cleanup, advPending, woke,
                 drained, scan, silent>>

\* enterDeepSleep(): linkMarkTerminal() closes admission for good, then the
\* displaced owner's state is cleared ...
MarkTerminal ==
  /\ pc.at = "mark"
  /\ owner' = Terminal
  /\ od_core_reset
  /\ Goto("down")
  /\ UNCHANGED <<hostVars, base, adv, lanVars, cleanup, advPending, woke, drained, scan,
                 silent>>

\* ... advertising stops ...
StopAdvertising ==
  /\ pc.at = "down"
  /\ adv' = FALSE
  /\ Goto("end")
  /\ UNCHANGED <<hostVars, owner, base, coreVars, lanVars, cleanup, advPending, woke,
                 drained, scan, silent>>

\* ... and the stack and the core go down.
BleEnd ==
  /\ pc.at = "end"
  /\ inst' = [s \in Slots |-> NoInst] /\ link' = [h \in Handles |-> NoLink]
  /\ cb' = Idle /\ lan' = NoLan /\ lanIn' = FALSE /\ wifi' = FALSE
  /\ Goto("off")
  /\ UNCHANGED <<epoch, discEv, owner, base, adv, coreVars, cleanup, advPending, woke,
                 drained, scan, silent>>

\* Waking is a boot: nothing of this state is kept in RTC memory.
Wake ==
  /\ pc.at = "off"
  /\ epoch' = 0 /\ owner' = None /\ base' = [age |-> 0, tag |-> None]
  /\ discEv' = FALSE /\ adv' = TRUE /\ rx' = <<>> /\ abuse' = NoAbuse
  /\ cleanup' = NoCleanup /\ advPending' = FALSE /\ woke' = TRUE /\ drained' = 0
  /\ scan' = [s |-> 1, w |-> None] /\ silent' = 0
  /\ Goto("events")
  /\ UNCHANGED <<inst, link, cb, tx, core, lanVars>>

HostCallback ==
  \/ ConnectClaim \/ ConnectStamp \/ ConnectDecide
  \/ \E h \in Handles : DisconnectRetire(h)
  \/ DisconnectNotify \/ WritePush

LoopStep ==
  \/ AbortDrop \/ AbortRelease
  \/ ServiceEvents \/ Prologue \/ Reap \/ ServiceCleanup
  \/ RefuseEntry \/ RefuseDecided \/ \E ok \in BOOLEAN : RefuseDrop(ok)
  \/ ServiceRx \/ (\E op \in Ops : Dispatch(op)) \/ RefreshDone \/ TxProcess
  \/ ServiceAdv \/ CheckTimeouts
  \/ WifiAccept \/ LanClaim \/ LanHandshake \/ LanRead
  \/ serviceIdleTimeout \/ ServiceAbuse
  \/ Rest \/ MarkTerminal \/ StopAdvertising \/ BleEnd \/ Wake

LinkNext ==
  \/ \E h \in Handles : \/ ConnectPublish(h) \/ od_ble_evt_subscribe(h) \/ WriteFilter(h)
                        \/ PeerGone(h)
  \/ HostCallback
  \/ LanArrives \/ LanSends \/ LanCloses \/ WifiFlips \/ Tick
  \/ LoopStep

LinkSpec == LinkInit /\ [][LinkNext]_linkVars

-----------------------------------------------------------------------------
(* Properties.                                                             *)

Clients == BleWord \union LanWord
CoreWords == {core.sess, core.xfer, abuse.by} \ {None}

\* Types, and CONNECTION_POLICY R1: outside the accept step an open LAN
\* session is the owner's, so a LAN reply, whose tag od_hal_radio_send() does
\* not look at, reaches the client it answers.
LinkInv ==
  /\ epoch \in 0 .. MaxEpoch /\ owner \in Word \union {Terminal}
  /\ base \in [age : Ages, tag : Word \union {Terminal}]
  /\ rx \in Seq(BleWord) /\ Len(rx) <= RxCap /\ tx \in Seq(Clients) /\ Len(tx) <= TxCap
  /\ core \in [sess : Word, xfer : Word]
  /\ abuse.run \in 0 .. AbuseLimit /\ silent \in Ages
  /\ lan.conn /\ pc.at \notin {"lanclaim", "down", "end"} => owner = lan.word

\* Nothing is inherited across owners (abortToKnownState(), CONNECTION_POLICY):
\* session, transfer, chunked write, abuse run and queued replies belong to
\* the client that holds the slot, and a free slot means there are none.  A
\* frame is only ever dispatched for the holder that sent it.
OwnerOnly ==
  /\ CoreWords \subseteq {owner} /\ {tx[i] : i \in 1 .. Len(tx)} \subseteq {owner}
  /\ pc.at \in {"dispatch", "refresh"} => pc.id = owner /\ owner \in Clients
  /\ pc.at = "dispatch" /\ pc.ret = "wifi3" => lan.buf = owner

\* The winner of the slot is never taken for a contender: a link that
\* serviceContenderRefusal() has ended never holds the slot.
WinnerKept == \A h \in Handles : link[h].cut => owner # link[h].word

\* A client is dropped for silence only when it has been silent for longer
\* than the limit, counted from its own admission or its own last command.
IdleDropJustified ==
  [][pc.at = "idle" /\ pc'.at = "drop" => silent > IdleLimit]_linkVars

\* Once deep sleep has begun no client is admitted, and the radio goes down
\* with no client's state left behind.
SleepIsClean ==
  pc.at \in {"down", "end", "off"} => owner \notin Clients /\ core = Nobody /\ tx = <<>>

Aborting == pc.at \in {"drop", "release"} /\ pc.id = owner
Noticed == cb.at = "notify" \/ discEv

\* No departure is forgotten.  While the slot names a client whose link is
\* gone, something still says so: the event not yet taken, the cleanup
\* requested for that very owner, the closed socket not yet reaped, or the
\* abort under way.  And with neither a link nor advertising, a restart is
\* still due.  (Events coalesce: serviceBleEvents() sees one flag however
\* many links came and went.)
NoticesKept ==
  /\ owner \in BleWord /\ ~instanceLive(owner) =>
       Noticed \/ cleanup = CleanupFor(owner) \/ Aborting
  /\ owner \in LanWord /\ ~LanLive =>
       lan.conn \/ cleanup = CleanupFor(owner) \/ Aborting
  /\ ~Connected /\ ~adv /\ pc.at \notin {"end", "off"} => Noticed \/ advPending
=============================================================================
