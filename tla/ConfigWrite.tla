---------------------------- MODULE ConfigWrite ----------------------------
(***************************************************************************)
(* Configuration upload and storage.  A host writes the configuration with *)
(* one CONFIG_WRITE frame, or with a CONFIG_WRITE that declares a total    *)
(* and CONFIG_CHUNK frames after it.  The reassembled record goes through  *)
(* od_config_store into the non-volatile medium; the medium is read back   *)
(* through a RAM cache (Nordic, ESP32) and becomes the running             *)
(* configuration.  ESP32 and Silabs reassemble with shared/core/           *)
(* od_config_asm.c; Nordic has its own assembler in od_cmd_config.c.       *)
(*                                                                         *)
(* Lengths are small units: ChunkSize stands for CONFIG_CHUNK_SIZE (200),  *)
(* Prefix for the two bytes of the declared total, so that a length        *)
(* strictly between ChunkSize and ChunkSize + Prefix is the 201-byte case. *)
(* A record keeps what the properties tell apart: how many units were      *)
(* kept, sent and declared, and its security settings.                     *)
(***************************************************************************)
EXTENDS Integers, FiniteSetsExt

CONSTANTS Targets,      \* the firmware builds to check
          ChunkSize, Prefix, MaxChunks,
          MaxSize,      \* OD_CONFIG_MAX_SIZE
          SmallSize,    \* OD_CONFIG_MAX_SIZE of the Silabs profile
          Lengths,      \* payload lengths of a CONFIG_WRITE
          Totals,       \* declared totals of a CONFIG_WRITE
          Embedded      \* builds that carry a factory configuration

ASSUME SizesAssumption ==
    /\ Targets \subseteq {"nordic", "esp32", "silabs"}
    /\ ChunkSize \in Nat \ {0} /\ Prefix \in Nat \ {0, 1}
    /\ MaxChunks \in Nat \ {0} /\ MaxSize \in Nat /\ SmallSize \in 0..MaxSize
    /\ Lengths \subseteq Nat /\ Totals \subseteq Nat
    /\ Embedded \subseteq Targets \ {"silabs"}

VARIABLES target,    \* the build; never changes
          asm,       \* reassembly state
          medium,    \* the record in non-volatile storage
          cache,     \* the HAL's copy of it, or Invalid
          running,   \* the parsed configuration in RAM
          session,   \* an application session is authenticated
          doubt      \* history: some storage step since the last load failed

configVars == <<target, asm, medium, cache, running, session, doubt>>

Nothing == [kind |-> "nothing"]
Invalid == [kind |-> "invalid"]
Blank == [kind |-> "blank"]       \* a record overwritten with zeros

WithPrefix == ChunkSize + Prefix
Cap == IF target = "silabs" THEN SmallSize ELSE MaxSize
Keys == {"none", "key", "rewrite"}

Idle == [active |-> FALSE, total |-> 0, received |-> 0, chunks |-> 0,
         expected |-> 0, unauth |-> FALSE, offered |-> 0, key |-> "none"]

Record(kept, sent, total, key) ==
    [kind |-> "record", kept |-> kept, sent |-> sent, total |-> total, key |-> key]

ConfigInit ==
    /\ target \in Targets
    /\ asm = Idle /\ medium = Nothing /\ cache = Invalid /\ running = Nothing
    /\ session = FALSE /\ doubt = FALSE

----------------------------------------------------------------------------
(* The storage: [medium, cache] pairs; each operation yields the set of its *)
(* outcomes.  A write or an erase that fails may have changed the medium.   *)

Store == [medium |-> medium, cache |-> cache]
Cached(r) == IF target = "silabs" THEN Invalid ELSE r

WriteFails(st, rec) ==
    {[ok |-> FALSE, touched |-> TRUE, st |-> [medium |-> m, cache |-> Invalid]]
        : m \in {st.medium, rec}}

\* od_config_store_save over od_hal_nvs_write; the third case is the storage
\* refusing before it touches anything.
od_hal_nvs_write(st, rec) ==
    {[ok |-> TRUE, touched |-> TRUE, st |-> [medium |-> rec, cache |-> Cached(rec)]]}
    \cup WriteFails(st, rec)
    \cup {[ok |-> FALSE, touched |-> FALSE, st |-> st]}

od_hal_nvs_erase(st) ==
    {[ok |-> TRUE, st |-> [medium |-> Nothing, cache |-> Invalid]]}
    \cup {[ok |-> FALSE, st |-> [medium |-> m, cache |-> Invalid]]
            : m \in {st.medium, Nothing}}
    \cup {[ok |-> FALSE, st |-> st]}

\* The ESP32's zero-write-then-erase; a failure may leave the zeros behind.
od_hal_nvs_secure_erase(st) ==
    {st} \cup {[medium |-> m, cache |-> Invalid]
                 : m \in {st.medium, Nothing}
                         \cup (IF st.medium = Nothing THEN {} ELSE {Blank})}

\* What od_config_store_load makes of a stored record: the header and CRC
\* checks refuse zeros.
Value(r) == IF r.kind = "record" THEN r ELSE Nothing

\* od_hal_nvs_size and od_hal_nvs_read with cache_fill.
Filled(st) == IF st.cache # Invalid \/ st.medium = Nothing
              THEN st ELSE [st EXCEPT !.cache = Cached(st.medium)]
Readable(st) == IF st.cache # Invalid /\ ~(target = "esp32" /\ st.medium = Nothing)
                THEN st.cache ELSE st.medium
ReadMayFail(st) == target # "nordic" \/ st.cache = Invalid

od_config_store_load(st) ==
    {[value |-> Value(Readable(st)), st |-> Filled(st)]}
    \cup (IF ReadMayFail(st) THEN {[value |-> Nothing, st |-> st]} ELSE {})

----------------------------------------------------------------------------
(* Reassembly.  A result is a verdict, the assembler after it and, when the *)
(* upload is complete, the record to store.                                 *)

Verdict(v, a) == [verdict |-> v, asm |-> a, rec |-> Nothing]
Rejected(a) == Verdict("rejected", a)
Commits(r) == r.verdict \in {"single", "complete"}

Opened(total, received, expected, offered, key) ==
    [active |-> TRUE, total |-> total, received |-> received, chunks |-> 1,
     expected |-> expected, unauth |-> target = "nordic" /\ ~session,
     offered |-> offered, key |-> key]

MutOversized(n) == FALSE

\* Longer than a chunked start: neither legal shape.
Oversized(n) == n > WithPrefix

\* Declared totals that a single frame would have carried, that MAX_CONFIG_CHUNKS
\* chunks cannot deliver, or that the storage cannot hold.
BadTotal(total) ==
    \/ total <= ChunkSize
    \/ total > MaxChunks * ChunkSize
    \/ total > Cap

od_config_asm_start(n, total, key) ==
    IF n = 0 \/ Oversized(n) THEN Rejected(Idle)
    ELSE IF n < WithPrefix
    THEN [verdict |-> "single", asm |-> Idle, rec |-> Record(n, n, n, key)]
    ELSE IF BadTotal(total) THEN Rejected(Idle)
    ELSE Verdict("accepted", Opened(total, ChunkSize, 0, n - Prefix, key))

Extended(n) == [asm EXCEPT !.received = @ + n, !.chunks = @ + 1, !.offered = @ + n]
Complete(a) == [verdict |-> "complete", asm |-> [a EXCEPT !.active = FALSE],
                rec |-> Record(a.received, a.offered, a.total, a.key)]

od_config_asm_chunk(n) ==
    LET remaining == asm.total - asm.received
    IN  IF ~asm.active THEN Rejected(asm)
        ELSE IF \/ n = 0 \/ n > ChunkSize \/ n > remaining
                \/ n < ChunkSize /\ n # remaining
                \/ asm.chunks >= MaxChunks
        THEN Rejected(Idle)
        ELSE IF n = remaining THEN Complete(Extended(n))
        ELSE Verdict("accepted", Extended(n))

\* Nordic's opening frame: the declared total is bounded by the storage cap
\* only, and whatever follows the first ChunkSize units is not copied.
NordicStart(n, declared, key) ==
    LET prefixed == n >= WithPrefix
        total == IF prefixed THEN declared ELSE n
        sent == IF prefixed THEN n - Prefix ELSE n
        kept == Min({sent, ChunkSize, total})
        chunksLeft == (total - kept + ChunkSize - 1) \div ChunkSize
        a == Opened(total, kept, 1 + chunksLeft, sent, key)
    IN  IF n = 0 THEN Rejected(asm)
        ELSE IF n <= ChunkSize
        THEN [verdict |-> "single", asm |-> asm, rec |-> Record(n, n, n, key)]
        ELSE IF total = 0 \/ total > Cap THEN Rejected(Idle)
        ELSE IF kept >= total THEN Complete(a)
        ELSE Verdict("accepted", a)

NordicChunk(n) ==
    LET a == Extended(n)
    IN  IF ~asm.active THEN Rejected(asm)
        ELSE IF asm.unauth # ~session THEN Rejected(Idle)
        ELSE IF n = 0 THEN Rejected(asm)
        ELSE IF n > ChunkSize \/ a.received > asm.total \/ asm.chunks >= MaxChunks
        THEN Rejected(Idle)
        ELSE IF a.chunks < asm.expected THEN Verdict("accepted", a)
        ELSE IF a.received # a.total THEN Rejected(Idle)
        ELSE Complete(a)

----------------------------------------------------------------------------
(* The handlers.  od_dispatch refuses a frame without a session while the  *)
(* running configuration has a key, except for the key-loss rewrite, which  *)
(* erases the stored record first.                                          *)

Secured == running # Nothing /\ running.key # "none"
KeyLoss == Secured /\ ~session /\ running.key = "rewrite" /\ target # "silabs"
MayWrite == ~Secured \/ session \/ KeyLoss
MayReadOrClear == ~Secured \/ session

erase_before_unauthenticated_rewrite(st) ==
    IF ~KeyLoss THEN {st}
    ELSE IF target = "esp32" THEN od_hal_nvs_secure_erase(st)
    ELSE {e.st : e \in od_hal_nvs_erase(st)}

\* The assembler after a save.  On Silabs the record header is written over
\* the assembler's own words, so a save that got that far must reset it; one
\* refused earlier leaves it as it was.
AfterSave(r, touched) ==
    IF target = "silabs" /\ touched THEN Idle
    ELSE IF target # "silabs" /\ r.verdict = "complete" THEN Idle
    ELSE r.asm

\* Reload from storage after a successful save, and drop the session whose
\* key the new record may have replaced (the ESP32 keeps it if the load fails).
Reloaded(l) ==
    /\ medium' = l.st.medium /\ cache' = l.st.cache
    /\ running' = l.value
    /\ session' = (session /\ target = "esp32" /\ l.value = Nothing)
    /\ doubt' = (l.value = Nothing)

saveConfig(st, r) ==
    \E w \in od_hal_nvs_write(st, r.rec) :
        /\ asm' = AfterSave(r, w.touched)
        /\ IF w.ok
           THEN \E l \in od_config_store_load(w.st) : Reloaded(l)
           ELSE /\ medium' = w.st.medium /\ cache' = w.st.cache
                /\ doubt' = TRUE
                /\ UNCHANGED <<running, session>>

Apply(st, r) ==
    IF Commits(r) THEN saveConfig(st, r)
    ELSE /\ asm' = r.asm
         /\ medium' = st.medium /\ cache' = st.cache
         /\ doubt' = (doubt \/ KeyLoss)
         /\ UNCHANGED <<running, session>>

ConfigWrite(n, total, key) ==
    /\ MayWrite
    /\ target = "silabs" \/ n > 0
    /\ \E st \in erase_before_unauthenticated_rewrite(Store) :
       \E r \in {IF target = "nordic" THEN NordicStart(n, total, key)
                 ELSE od_config_asm_start(n, total, key)} : Apply(st, r)
    /\ UNCHANGED target

\* The ESP32 asks again on the first continuation, and erases again.
ConfigChunk(n) ==
    /\ MayWrite
    /\ \E st \in IF target = "esp32" /\ asm.active /\ asm.chunks = 1
                 THEN erase_before_unauthenticated_rewrite(Store) ELSE {Store} :
       \E r \in {IF target = "nordic" THEN NordicChunk(n)
                 ELSE od_config_asm_chunk(n)} : Apply(st, r)
    /\ UNCHANGED target

\* Nordic and Silabs reload what the storage now holds; the ESP32 zeroes the
\* running configuration itself.  Only Silabs ends an upload in progress.
ConfigClear ==
    /\ MayReadOrClear
    /\ \E e \in od_hal_nvs_erase(Store) :
         IF ~e.ok
         THEN /\ medium' = e.st.medium /\ cache' = e.st.cache
              /\ doubt' = TRUE
              /\ UNCHANGED <<asm, running, session>>
         ELSE /\ asm' = IF target = "silabs" THEN Idle ELSE asm
              /\ medium' = e.st.medium /\ cache' = e.st.cache
              /\ running' = Nothing
              /\ session' = (session /\ target # "silabs")
              /\ doubt' = FALSE
    /\ UNCHANGED target

ConfigRead ==
    /\ MayReadOrClear
    /\ ~(target = "silabs" /\ asm.active)
    /\ \E l \in od_config_store_load(Store) : cache' = l.st.cache
    /\ UNCHANGED <<target, asm, medium, running, session, doubt>>

\* The session layer, modelled by Session: a session opens, or expires.
SessionChanges ==
    /\ session' = ~session
    /\ session' => Secured
    /\ UNCHANGED <<target, asm, medium, cache, running, doubt>>

\* The link goes down: every target's teardown drops the upload.
LinkDown ==
    /\ asm' = Idle /\ session' = FALSE
    /\ UNCHANGED <<target, medium, cache, running, doubt>>

Factory == Record(1, 1, 1, "none")

\* The record a boot ends with.  A load that fails, for whatever reason, is made
\* good with the embedded configuration, which is stored and loaded.
tryProvisionFactoryEmbed(l) ==
    IF l.value # Nothing \/ target \notin Embedded THEN {l}
    ELSE UNION {IF w.ok THEN od_config_store_load(w.st) ELSE {[value |-> Nothing, st |-> w.st]} :
                  w \in od_hal_nvs_write(l.st, Factory)}

\* A reset at any point between handlers; RAM is lost and the boot loads.
Reboot ==
    /\ asm' = Idle /\ session' = FALSE
    /\ \E first \in od_config_store_load([medium |-> medium, cache |-> Invalid]) :
       \E l \in tryProvisionFactoryEmbed(first) :
         /\ running' = l.value /\ cache' = l.st.cache /\ medium' = l.st.medium
         /\ doubt' = (l.value # Value(medium'))
    /\ UNCHANGED target

ConfigNext ==
    \/ \E n \in Lengths, key \in Keys :
         \E total \in IF n < WithPrefix THEN {0} ELSE Totals : ConfigWrite(n, total, key)
    \/ \E n \in 0..(ChunkSize + 1) : ConfigChunk(n)
    \/ ConfigClear \/ ConfigRead
    \/ SessionChanges \/ LinkDown \/ Reboot

ConfigSpec == ConfigInit /\ [][ConfigNext]_configVars

----------------------------------------------------------------------------
Stored == {r \in {medium, cache, running} : r.kind = "record"}

\* Type correctness of the assembler, the storage and the session.
ConfigTypeOK ==
    /\ target \in Targets
    /\ asm.active \in BOOLEAN /\ asm.unauth \in BOOLEAN /\ asm.key \in Keys
    /\ asm.total \in 0..Cap /\ asm.received \in 0..Cap
    /\ asm.chunks \in 0..MaxChunks /\ asm.expected \in Nat /\ asm.offered \in Nat
    /\ medium.kind \in {"nothing", "blank", "record"}
    /\ cache.kind \in {"invalid", "blank", "record"}
    /\ running.kind \in {"nothing", "record"}
    /\ session \in BOOLEAN /\ doubt \in BOOLEAN

\* What is stored, cached or running is a complete upload: as long as its
\* opening frame declared and, with the shared assembler, with nothing of what
\* the host sent left out, whatever mix of frames, restarts, failures and
\* resets came before (od_config_asm.c: commit on the byte count).  Nordic's
\* own assembler is held to the declared length only: it drops the tail of an
\* opening frame longer than one chunk.
StoredIsWhole ==
    \A r \in Stored :
        /\ r.kept = r.total
        /\ target # "nordic" => r.sent = r.kept

\* An upload that the shared assembler has left open can still be finished:
\* something is owed, and the chunks left are enough to carry it.  This is why
\* od_config_asm_start bounds the declaration, and why a Silabs save must reset
\* the words it has overwritten.
CanFinish ==
    asm.active /\ target # "nordic" =>
        /\ asm.received = asm.offered
        /\ asm.received < asm.total
        /\ asm.total - asm.received <= (MaxChunks - asm.chunks) * ChunkSize

\* A valid cache holds what the medium holds, after every failing write, erase
\* and secure erase: what the device serves is what it will serve after a reset
\* (the contract of shared/hal/od_hal_nvs.h).
CacheIsMedium == cache # Invalid => cache = medium

\* Assembler and storage in their ranges, and the HAL's cache true to the medium.
StorageInv == ConfigTypeOK /\ CacheIsMedium

\* Unless a storage step has reported a failure since the last load, or an
\* unauthenticated rewrite has erased the old record, the running
\* configuration is the stored one: a reset changes nothing, save that a build
\* with a factory configuration falls back to it where none is stored.
BootChangesNothing == ~doubt => running = Value(medium)
============================================================================
