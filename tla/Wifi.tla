-------------------------------- MODULE Wifi --------------------------------
(***************************************************************************)
(* The ESP32's Wi-Fi station and the LAN service on it, wifi_service.cpp:  *)
(* the choice of an access point kept in RTC memory, reconnection and      *)
(* roaming, the listener and its TLS configuration, and the mDNS records   *)
(* that tell clients where to find it.  The driver's event task and the    *)
(* loop share plain flags.  Who may own the link is Esp32Link's subject,   *)
(* and the mDNS component is Mdns's; here a client is there or not.        *)
(*                                                                         *)
(* The driver is external: a join ends in an association or in a           *)
(* disconnect event, and connecting an associated station changes nothing. *)
(***************************************************************************)
EXTENDS Integers, Sequences, FiniteSets

CONSTANTS
  AP,             \* access points of the SSID, positive integers
  Keys,           \* master keys; 0 is "encryption disabled"
  SLOTS,          \* OD_TLS_RECORD_SLOTS
  MaxWifiEvents,  \* driver events waiting for the event task
  MaxWrites       \* configuration writes in a behaviour

ASSUME WifiAssumption == 0 \notin AP /\ 0 \in Keys

VARIABLES
  wifi_cfg,    \* what the stored configuration says: Wi-Fi on, and the key
  sta,         \* the flags of the station
  cache,       \* the access point in RTC memory, or 0
  station,     \* the driver
  evq,         \* its events
  lan_server,  \* tcpReceiveBuffer, the listener (-1: none, else its tls flag) and the client
  tls,         \* tlsMode, tlsInited with its key, the session, pool slots in use
  mdns,        \* s_mdnsUp, s_mdnsServiceUp and the tls record
  wifi_pc,     \* the loop's place in a pass
  writes

wifiVars == <<wifi_cfg, sta, cache, station, evq, lan_server, tls, mdns, wifi_pc, writes>>

FreshStation == [init |-> FALSE, conn |-> FALSE, cached |-> FALSE, rescan |-> FALSE, cacheFail |-> FALSE,
                 gotIp |-> FALSE, roam |-> FALSE, rssiLow |-> FALSE]
DriverOff == [state |-> "idle", pin |-> 0, ap |-> 0, armed |-> FALSE]
NoListener == [rx |-> FALSE, listen |-> -1, client |-> FALSE]
NoTls == [mode |-> 0, inited |-> FALSE, psk |-> 0, session |-> "none", busy |-> 0]
NoMdns == [up |-> FALSE, svc |-> FALSE, tls |-> 0]

WifiInit ==
  /\ wifi_cfg \in [wifi : BOOLEAN, key : Keys]
  /\ sta = FreshStation /\ cache = 0 /\ station = DriverOff /\ evq = <<>>
  /\ lan_server = NoListener /\ tls = NoTls /\ mdns = NoMdns
  /\ wifi_pc = "boot" /\ writes = 0

Up == station.state = "on"
Mode(c) == IF c.key = 0 THEN 0 ELSE 1

-----------------------------------------------------------------------------
(* Joining.                                                                *)

\* lanBeginConnect(): whether this attempt is the cache's.
lanBeginConnect(s, ca) == [s EXCEPT !.cached = ca # 0]

\* odWifiBegin(): a pinned station, or a scan of all channels.
odWifiBegin(d, ca) == [d EXCEPT !.pin = ca, !.state = IF d.state = "on" THEN "on" ELSE "joining"]

odWifiDisconnect(d) == [d EXCEPT !.state = "idle", !.ap = 0]

\* The event the driver posts for it.
Told(d) == IF d.state = "idle" THEN <<>> ELSE <<"disconnected">>

\* initWiFi(false).
initWiFi(c) ==
  IF ~c.wifi THEN sta' = [sta EXCEPT !.init = FALSE] /\ UNCHANGED station
  ELSE /\ sta' = lanBeginConnect([sta EXCEPT !.conn = FALSE, !.init = TRUE], cache)
       /\ station' = odWifiBegin(station, cache)

\* odLanReserveRxBuffer() may find no memory.
Boot ==
  /\ wifi_pc = "boot" /\ wifi_pc' = "top"
  /\ \E got \in BOOLEAN : lan_server' = [lan_server EXCEPT !.rx = got]
  /\ initWiFi(wifi_cfg)
  /\ UNCHANGED <<wifi_cfg, cache, evq, tls, mdns, writes>>

\* A configuration is stored and reloaded.
wifi_reloadConfigAfterSave(c) ==
  /\ wifi_pc = "top" /\ writes < MaxWrites
  /\ writes' = writes + 1
  /\ wifi_cfg' = c
  /\ initWiFi(c)
  /\ UNCHANGED <<cache, evq, lan_server, tls, mdns, wifi_pc>>

-----------------------------------------------------------------------------
(* The event task.                                                         *)

\* A cached choice that failed is for the loop to replace.
OnDisconnected(s) ==
  IF s.cached THEN [s EXCEPT !.cached = FALSE, !.cacheFail = TRUE, !.rescan = TRUE] ELSE s

odWifiEventHandler ==
  /\ evq # <<>> /\ evq' = Tail(evq)
  /\ CASE Head(evq) = "disconnected" ->
            /\ sta' = OnDisconnected(sta)
            /\ station' = IF sta.cached \/ Up THEN station ELSE [station EXCEPT !.state = "joining"]
       [] Head(evq) = "ip" -> sta' = [sta EXCEPT !.gotIp = TRUE] /\ UNCHANGED station
       [] Head(evq) = "rssi" -> sta' = [sta EXCEPT !.roam = TRUE, !.rssiLow = TRUE] /\ UNCHANGED station
  /\ UNCHANGED <<wifi_cfg, cache, lan_server, tls, mdns, wifi_pc, writes>>

-----------------------------------------------------------------------------
(* The driver and the air.                                                 *)

Driver(e) ==
  /\ Len(evq) < MaxWifiEvents
  /\ evq' = Append(evq, e)
  /\ UNCHANGED <<wifi_cfg, sta, cache, lan_server, tls, mdns, wifi_pc, writes>>

\* Any access point may be in reach when the driver looks.
Joined ==
  /\ station.state = "joining"
  /\ \E a \in AP : station.pin \in {0, a} /\ station' = [station EXCEPT !.state = "on", !.ap = a]
  /\ Driver("ip")

JoinFails ==
  /\ station.state = "joining"
  /\ station' = odWifiDisconnect(station)
  /\ Driver("disconnected")

Dropped == Up /\ station' = odWifiDisconnect(station) /\ Driver("disconnected")

\* The threshold fires once per arming.
Weak == Up /\ station.armed /\ station' = [station EXCEPT !.armed = FALSE] /\ Driver("rssi")

-----------------------------------------------------------------------------
(* TLS.                                                                    *)

\* A record buffer comes from a free slot of the pool, or from the heap.
od_tls_calloc(busy) == IF busy < SLOTS THEN busy + 1 ELSE busy

od_tls_free(busy) == IF busy > 0 THEN busy - 1 ELSE 0

\* A session that is active holds two record buffers.
tlsCloseSession(t) ==
  IF t.session = "none" THEN t
  ELSE [t EXCEPT !.session = "none", !.busy = od_tls_free(od_tls_free(@))]

\* The configuration is built once; the key is the one of that moment.
tlsEnsureConfig(t) == IF t.inited THEN t ELSE [t EXCEPT !.inited = TRUE, !.psk = wifi_cfg.key]

\* tlsBeginSession(): the record buffers are taken, or a failed setup gives
\* them back.
tlsBeginSession(t, ok) ==
  LET e == tlsEnsureConfig(t) IN
  IF ok THEN [e EXCEPT !.session = "begun", !.busy = od_tls_calloc(od_tls_calloc(@))] ELSE e

\* disconnectWiFiServer(), the part that is this module's.
NoClient ==
  /\ tls' = tlsCloseSession(tls)
  /\ lan_server' = [lan_server EXCEPT !.client = FALSE]

-----------------------------------------------------------------------------
(* The listener and its records.                                           *)

\* A listener that is there is kept, as Arduino's did.
Mut_lanListenBegin(l, mode, ok) ==
  IF l.listen # -1 THEN l ELSE [l EXCEPT !.listen = IF ok THEN mode ELSE -1]

\* startLanServer() closes the old socket first.
lanListenBegin(l, mode, ok) == [l EXCEPT !.listen = IF ok THEN mode ELSE -1]

\* The service is added again under its new port and records, or mDNS is
\* stopped.
restartLanService(mode, ok) == IF ok THEN [up |-> TRUE, svc |-> TRUE, tls |-> mode] ELSE NoMdns

\* From listener l and TLS state t; without a receive buffer nothing starts.
startLanServer(l, t, bound, named) ==
  LET mode == Mode(wifi_cfg) IN
  IF ~l.rx THEN lan_server' = l /\ tls' = t /\ UNCHANGED mdns
  ELSE /\ lan_server' = lanListenBegin(l, mode, bound)
       /\ tls' = [t EXCEPT !.mode = mode]
       /\ mdns' = IF bound THEN restartLanService(mode, named) ELSE mdns

-----------------------------------------------------------------------------
(* The loop.                                                               *)

serviceWifiEventFollowUp ==
  /\ wifi_pc = "top" /\ wifi_pc' = "roam"
  /\ cache' = IF sta.gotIp /\ Up THEN station.ap ELSE IF sta.cacheFail THEN 0 ELSE cache
  /\ sta' = [sta EXCEPT !.cacheFail = FALSE, !.gotIp = FALSE, !.rssiLow = FALSE]
  /\ station' = [station EXCEPT !.armed = @ \/ sta.gotIp \/ sta.rssiLow]
  /\ UNCHANGED <<wifi_cfg, evq, lan_server, tls, mdns, writes>>

\* The access point a rejoin starts from: none after a roam.
Choice(roaming, ca) == IF roaming THEN 0 ELSE ca

Rejoin(roaming) ==
  /\ cache' = Choice(roaming, cache)
  /\ sta' = lanBeginConnect([sta EXCEPT !.rescan = FALSE,
                                      !.roam = @ /\ ~roaming,
                                      !.conn = @ /\ ~roaming], cache')
  /\ evq' = evq \o Told(station)
  /\ station' = odWifiBegin(odWifiDisconnect(station), cache')

\* serviceLanRoam() after the follow-up.
serviceLanRoam ==
  /\ wifi_pc = "roam" /\ wifi_pc' = "serve"
  /\ IF sta.rescan /\ ~sta.conn THEN Rejoin(FALSE)
     ELSE \/ sta.roam /\ sta.conn /\ ~lan_server.client /\ Rejoin(TRUE)
          \/ UNCHANGED <<cache, sta, evq, station>>
  /\ UNCHANGED <<wifi_cfg, lan_server, tls, mdns, writes>>

\* handleWiFiServer() up to the accept.
handleWiFiServer ==
  /\ wifi_pc = "serve"
  /\ IF sta.init /\ Up /\ ~sta.conn
     THEN /\ sta' = [sta EXCEPT !.conn = TRUE]
          /\ \E bound, named \in BOOLEAN : startLanServer(lan_server, tls, bound, named)
          /\ wifi_pc' = "clients"
     ELSE /\ UNCHANGED <<sta, mdns>>
          /\ IF sta.conn /\ Up THEN wifi_pc' = "clients" /\ UNCHANGED <<lan_server, tls>>
             ELSE wifi_pc' = "check" /\ NoClient
  /\ UNCHANGED <<wifi_cfg, cache, station, evq, writes>>

\* A client comes; without a TLS session where one is due it is turned away.
Accept ==
  /\ lan_server.listen # -1 /\ ~lan_server.client
  /\ \E ok \in BOOLEAN :
       LET t == IF tls.mode = 1 THEN tlsBeginSession(tls, ok) ELSE tls
           kept == tls.mode = 0 \/ t.session = "begun"
       IN /\ tls' = t
          /\ lan_server' = [lan_server EXCEPT !.client = kept]

\* The handshake of a client that holds the key the listener was given, or
\* its failure.
Handshake ==
  /\ lan_server.client /\ tls.mode = 1 /\ tls.session = "begun"
  /\ \/ tls' = [tls EXCEPT !.session = "done"] /\ UNCHANGED lan_server
     \/ NoClient

\* A read that fails, a frame of no legal length, or a client that left.
Leaves == lan_server.client /\ NoClient

\* The client is read in the mode of now, which need not be the one it was
\* accepted in.  TLS records read as plain frames are served, or drop the
\* client; the read of a TLS session that was never begun fails, once what
\* is buffered has been parsed.
LanClients ==
  /\ wifi_pc = "clients" /\ wifi_pc' = "check"
  /\ \/ Accept \/ Handshake \/ Leaves
     \/ UNCHANGED <<lan_server, tls>>
  /\ UNCHANGED <<wifi_cfg, sta, cache, station, evq, mdns, writes>>

\* The loop's check of the link, every ten seconds.
LinkCheck(due) ==
  /\ wifi_pc = "check" /\ wifi_pc' = "top"
  /\ CASE due /\ sta.init /\ ~Up /\ sta.conn ->
            sta' = [sta EXCEPT !.conn = FALSE] /\ NoClient /\ UNCHANGED mdns
       [] due /\ sta.init /\ Up /\ ~sta.conn ->
            /\ sta' = [sta EXCEPT !.conn = TRUE]
            /\ \E bound, named \in BOOLEAN :
                 startLanServer([lan_server EXCEPT !.client = FALSE], tlsCloseSession(tls), bound, named)
       [] OTHER -> UNCHANGED <<sta, lan_server, tls, mdns>>
  /\ UNCHANGED <<wifi_cfg, cache, station, evq, writes>>

\* opendisplay_lan_teardown() and the reset it precedes; RTC memory outlives
\* a deep sleep.
opendisplay_lan_teardown ==
  /\ wifi_pc = "top" /\ wifi_pc' = "boot"
  /\ lan_server' = NoListener /\ tls' = NoTls /\ mdns' = NoMdns
  /\ sta' = FreshStation /\ station' = DriverOff /\ evq' = <<>>
  /\ cache' \in {cache, 0}
  /\ UNCHANGED <<wifi_cfg, writes>>

-----------------------------------------------------------------------------
WifiNext ==
  \/ Boot \/ serviceWifiEventFollowUp \/ serviceLanRoam \/ handleWiFiServer \/ LanClients
  \/ \E due \in BOOLEAN : LinkCheck(due)
  \/ \E c \in [wifi : BOOLEAN, key : Keys] : wifi_reloadConfigAfterSave(c)
  \/ opendisplay_lan_teardown
  \/ odWifiEventHandler
  \/ Joined \/ JoinFails \/ Dropped \/ Weak

WifiSpec == WifiInit /\ [][WifiNext]_wifiVars

-----------------------------------------------------------------------------
(* Properties.                                                             *)

\* Once the loop has taken the association up, what listens is what the
\* stored configuration asks for, whatever was written while the link was
\* up, down or coming back.  The exception is a write that turns Wi-Fi off:
\* initWiFi() returns before it clears wifiConnected (1292-1296), so the old
\* listener and its record stay up and are served.  Even then listener, the
\* mode its clients are read in and the record that tells clients about it
\* are of one configuration; and a TLS session lives exactly as long as the
\* client slot it was begun for, and gives its record buffers back.
WifiInv ==
  /\ sta.init /\ sta.conn => lan_server.listen \in {-1, Mode(wifi_cfg)}
  /\ lan_server.listen \in {-1, tls.mode}
  /\ mdns.svc /\ lan_server.listen # -1 => mdns.tls = tls.mode
  /\ ~lan_server.client => tls.session = "none"
  /\ tls.session = "none" => tls.busy = 0

\* Nobody is left waiting: a station that is neither joined nor joining has
\* an event on its way or the loop asked to rejoin, and one that is pinned to
\* an access point will be released from it when that fails, although the
\* flags are set by one task and tested by another.
StationAsks ==
  sta.init =>
    /\ station.state = "idle" => sta.rescan \/ evq # <<>>
    /\ station.state = "joining" /\ station.pin # 0 => sta.cached \/ sta.rescan \/ evq # <<>>

=============================================================================
