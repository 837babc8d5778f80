----------------------------- MODULE ConfigParse -----------------------------
(***************************************************************************)
(* What a stored configuration means: the packet walk (od_config_tlv.c),   *)
(* the aggregate it fills (od_config.c), and how each target loads it at   *)
(* boot and after a write, down to the buttons it arms from it.            *)
(*                                                                         *)
(* A blob is the packets its writer put in it, less the bytes cut off its  *)
(* end.  The contents of a packet are one value; for the security packet   *)
(* "zero" is encryption switched on with a key of zeros.                   *)
(***************************************************************************)
EXTENDS Integers, Sequences, FiniteSets
LOCAL INSTANCE SequencesExt

CONSTANTS
    Targets,  \* of {"esp32", "nordic", "silabs"}
    Packets,  \* the packets of blobs: an id and contents
    MaxPackets,
    Cuts,     \* how many bytes a blob may be short
    MaxWrites, \* configuration writes
    Factory   \* the embedded factory blob, {} for none

-----------------------------------------------------------------------------
(* opendisplay_structs.h: the packed structures, as the widths of their    *)
(* fields                                                                  *)

Ids == {p.id : p \in Packets}

Ones(n) == [i \in 1 .. n |-> 1]

SystemConfig == <<2>> \o Ones(3) \o <<15>> \o Ones(2)
ManufacturerData == <<2, 1, 1, 2, 2, 2, 6, 6>>
PowerOption == <<1, 3, 2>> \o Ones(6) \o <<2, 4, 2>> \o Ones(3) \o <<2, 1, 4>>
DisplayConfig == <<1, 1, 2, 2, 2, 2, 2, 2>> \o Ones(17) \o <<2, 13>>
LedConfig == Ones(7) \o <<15>>
SensorData == <<1, 2>> \o Ones(3) \o <<24>>
DataBus == Ones(9) \o <<4>> \o Ones(3) \o <<14>>
BinaryInputs == Ones(18) \o <<12>>
WifiConfig == <<32, 32, 1, 64, 2, 29>>
SecurityConfig == <<1, 16, 2, 1, 1, 43>>
TouchController == <<1, 2>> \o Ones(9) \o <<20>>
BuzzerConfig == Ones(5) \o <<27>>
NfcConfig == Ones(16) \o <<16>>
FlashConfig == Ones(12) \o <<20>>
DataExtended == [i \in 1 .. 9 |-> 32]

sizeof(s) == FoldLeft(+, 0, s)

(* Zero: an id this firmware does not know. *)
od_config_tlv_body_size == [id \in Ids |->
    CASE id = 1  -> sizeof(SystemConfig)
      [] id = 2  -> sizeof(ManufacturerData)
      [] id = 4  -> sizeof(PowerOption)
      [] id = 32 -> sizeof(DisplayConfig)
      [] id = 33 -> sizeof(LedConfig)
      [] id = 35 -> sizeof(SensorData)
      [] id = 36 -> sizeof(DataBus)
      [] id = 37 -> sizeof(BinaryInputs)
      [] id = 38 -> sizeof(WifiConfig)
      [] id = 39 -> sizeof(SecurityConfig)
      [] id = 40 -> sizeof(TouchController)
      [] id = 41 -> sizeof(BuzzerConfig)
      [] id = 42 -> sizeof(NfcConfig)
      [] id = 43 -> sizeof(FlashConfig)
      [] id = 44 -> sizeof(DataExtended)
      [] OTHER   -> 0]

-----------------------------------------------------------------------------
(* Blobs *)

Header == 3
Crc == 2

Blobs == [pkts : UNION {[1 .. n -> Packets] : n \in 0 .. MaxPackets}, cut : Cuts]

Upto(b, k) == FoldLeft(LAMBDA n, p : n + 2 + od_config_tlv_body_size[p.id], 0, SubSeq(b.pkts, 1, k))
Length(b) == Header + Upto(b, Len(b.pkts)) + Crc - b.cut

-----------------------------------------------------------------------------
(* The aggregate *)

Inputs == 37
Security == 39

(* One of a kind, and how many instances there is room for otherwise. *)
Single == {1, 2, 4, 38, 39, 44}
Slots(id) == IF id \in {42, 43} THEN 2 ELSE 4

(* The packets a target's build has no room for. *)
NotBuilt(t) == IF t = "silabs" THEN {40, 41, 38, 44} ELSE {}

VARIABLES
    target,
    stored,  \* the blob in storage, {} for none
    cfg,     \* globalConfig: held (id -> the contents stored, in order) and loaded
    armed,   \* the binary inputs the button driver has armed
    up,      \* the device has booted
    writes

parseVars == <<target, stored, cfg, armed, up, writes>>

Reset == [held |-> [id \in Ids |-> <<>>], loaded |-> FALSE]

(* encryption_enabled is taken back when the key is zeros. *)
Normal(p) == IF p.id = Security /\ p.v = "zero" THEN "off" ELSE p.v

MutStored(held, p) ==
    IF p.id \in NotBuilt(target) THEN held
    ELSE IF p.id \in Single THEN [held EXCEPT ![p.id] = <<Normal(p)>>]
    ELSE IF Len(held[p.id]) >= 1 + Slots(p.id) THEN held
    ELSE [held EXCEPT ![p.id] = Append(@, Normal(p))]

(* od_config_apply_packet *)
od_config_apply_packet(held, p) ==
    IF p.id \in NotBuilt(target) THEN held
    ELSE IF p.id \in Single THEN [held EXCEPT ![p.id] = <<Normal(p)>>]
    ELSE IF Len(held[p.id]) >= Slots(p.id) THEN held
    ELSE [held EXCEPT ![p.id] = Append(@, Normal(p))]

(* One turn of od_config_tlv_walk: w.n bytes are left, and the walk is     *)
(* over once w.result says something.                                      *)
Sized(w, p, size) ==
    IF w.result # "walking" THEN w
    ELSE IF w.n < 2 \/ size = 0 THEN [w EXCEPT !.result = "ok"]
    ELSE IF w.n - 2 < size THEN [w EXCEPT !.result = "truncated"]
    ELSE [w EXCEPT !.n = @ - 2 - size, !.held = od_config_apply_packet(@, p)]

Turn(w, p) == Sized(w, p, od_config_tlv_body_size[p.id])

Walked(b, n) ==
    IF n < 0 THEN [held |-> Reset.held, result |-> "short"]
    ELSE FoldLeft(Turn, [n |-> n, held |-> Reset.held, result |-> "walking"], b.pkts)

od_config_tlv_walk(b) == Walked(b, Length(b) - Header - Crc)

(* A walk that came to the end of the packets is over and well.            *)
Loaded(w) == [held |-> w.held, loaded |-> w.result \in {"ok", "walking"}]

od_config_parse(b) == Loaded(od_config_tlv_walk(b))

(* loadGlobalConfig, whose answer is that the configuration is loaded. *)
loadGlobalConfig(s) == IF s = {} THEN Reset ELSE od_config_parse(CHOOSE b \in s : TRUE)

-----------------------------------------------------------------------------
(* The targets *)

ParseInit ==
    /\ target \in Targets
    /\ stored = {} /\ cfg = Reset /\ armed = <<>> /\ up = FALSE /\ writes = 0

(* The inputs a button driver takes from a configuration.  Nordic's looks  *)
(* at loaded, the others' at the count.                                    *)
initButtons(c) ==
    IF Inputs \notin Ids \/ (target = "nordic" /\ ~c.loaded) THEN <<>> ELSE c.held[Inputs]

(* full_config_init and opendisplay_ble_init: a configuration that does    *)
(* not load is replaced by the factory's, where the build embeds one.      *)
BootParse ==
    LET provision == ~loadGlobalConfig(stored).loaded /\ Factory # {} /\ target # "silabs"
        s == IF provision THEN Factory ELSE stored
    IN
    /\ stored' = s
    /\ cfg' = loadGlobalConfig(s)
    /\ armed' = initButtons(cfg')
    /\ up' = TRUE
    /\ UNCHANGED <<target, writes>>

(* A configuration write is stored, then loaded: reloadConfigAfterSave,    *)
(* opendisplay_ble_reload_config_from_nvm.  Nordic forgets a configuration *)
(* that did not load; the BG22 sets its buttons up again.                  *)
SaveAndReload(b) ==
    /\ up /\ writes < MaxWrites /\ writes' = writes + 1
    /\ stored' = {b}
    /\ cfg' = IF target = "nordic" /\ ~loadGlobalConfig({b}).loaded THEN Reset ELSE loadGlobalConfig({b})
    /\ armed' = IF target = "silabs" THEN initButtons(cfg') ELSE armed
    /\ UNCHANGED <<target, up>>

ClearConfig ==
    /\ up /\ stored' = {} /\ cfg' = Reset
    /\ armed' = IF target = "silabs" THEN <<>> ELSE armed
    /\ UNCHANGED <<target, up, writes>>

ParseNext ==
    \/ BootParse
    \/ \E b \in Blobs : SaveAndReload(b)
    \/ ClearConfig

ParseSpec == ParseInit /\ [][ParseNext]_parseVars

-----------------------------------------------------------------------------

(* The leading packets of blob b that are there to the last byte, up to    *)
(* the first one this firmware does not know.                              *)
Intact(b) ==
    LET ks == {k \in 0 .. Len(b.pkts) :
                  /\ Upto(b, k) <= Length(b) - Header - Crc
                  /\ \A i \in 1 .. k : od_config_tlv_body_size[b.pkts[i].id] # 0}
    IN  IF ks = {} THEN <<>> ELSE SubSeq(b.pkts, 1, CHOOSE k \in ks : \A j \in ks : j <= k)

(* What packets say of an id: of one kind, the last word; of several       *)
(* instances, the first that there is room for.                            *)
Meaning(ps, id) ==
    LET mine == SelectSeq(ps, LAMBDA p : p.id = id)
        vs   == [i \in 1 .. Len(mine) |-> Normal(mine[i])]
    IN  IF id \in NotBuilt(target) \/ vs = <<>> THEN <<>>
        ELSE IF id \in Single THEN <<vs[Len(vs)]>>
        ELSE SubSeq(vs, 1, IF Len(vs) <= Slots(id) THEN Len(vs) ELSE Slots(id))

(* A loaded configuration says what its blob says, kind by kind, of the    *)
(* packets that are intact, past packets the build has no room for and     *)
(* instances it has no slot for; with no byte missing and no unknown       *)
(* packet, that is all of them.  Encryption is never on with a zero key.   *)
(* A blob cut inside a packet does not load.                               *)
ParseMatches ==
    up => \A b \in stored :
        /\ cfg.loaded => \A id \in Ids : cfg.held[id] = Meaning(Intact(b), id)
        /\ b.cut = 0 => cfg.loaded
        /\ LET k == Len(Intact(b)) + 1 IN
           /\ k <= Len(b.pkts) /\ od_config_tlv_body_size[b.pkts[k].id] # 0
           /\ Upto(b, k - 1) + 2 <= Length(b) - Header - Crc
           => ~cfg.loaded

=============================================================================
