--------------------------------- MODULE Nfc ---------------------------------
(***************************************************************************)
(* The NFC endpoint: the shared machine that assembles a record from the   *)
(* chunks of its owner (od_nfc.c) and the tag it is written to, emulated   *)
(* by the SoC (Nordic) or a TNB132M behind I2C (BG22).                     *)
(*                                                                         *)
(* A byte is a symbol.  An NDEF record is its header, one symbol naming    *)
(* the type, and the payload; a raw record is its own payload, and its     *)
(* first symbol is read as a header.                                       *)
(***************************************************************************)
EXTENDS Integers, Sequences

CONSTANTS
    Clients,     \* reply addresses: transport, epoch and sequence base
    Symbols,     \* payload bytes; none of them is a header
    AssemblyMax, \* OD_NFC_ASSEMBLY_MAX, and the size of both targets' record buffers
    ShortMax,    \* longest payload of a record with a one-byte length (255)
    ReadMax,     \* OD_NFC_READ_MAX
    BoardReadMax,\* s_od_nfc_read_data of the BG22, shorter than what it can write
    Pages,       \* blocks of the TNB132M a one-byte offset can name (16)
    MaxWrites,   \* writes, inline or started
    MaxFault     \* failures of the tag

Types == {"text", "raw"}   \* text and URI, MIME and well-known records differ in their header only
Zero == "zero"
Free == [active |-> FALSE, owner |-> {}, type |-> "text", total |-> 0, data |-> <<>>]

VARIABLES
    target,  \* "nordic" or "silabs"
    enabled, \* the configuration names a usable tag
    asm,     \* s_nfc: the assembly
    ndef,    \* s_ndef: the record buffer (Nordic)
    air,     \* what the emulated tag answers a reader with (Nordic); <<>>: not emulating
    ai,      \* the record length in the attribute block (BG22)
    page,    \* the data blocks, one symbol each (BG22)
    sent,    \* what each client has had acknowledged of its record
    told,    \* the record a client was last told is committed; <<>> once the tag has failed
    writes, faults

nfcVars == <<target, enabled, asm, ndef, air, ai, page, sent, told, writes, faults>>

NfcInit ==
    /\ target \in {"nordic", "silabs"} /\ enabled = FALSE
    /\ asm = Free /\ ndef = <<>> /\ air = <<>>
    /\ ai = 0 /\ page = [p \in 0 .. Pages - 1 |-> Zero]
    /\ sent = [c \in Clients |-> <<>>] /\ told = <<>>
    /\ writes = 0 /\ faults = 0

Payloads == UNION {[1 .. n -> Symbols] : n \in 1 .. AssemblyMax}

-----------------------------------------------------------------------------
(* The tag *)

Header(type) == <<type>>

(* nfc_encode_ndef, and the same ladder of od_nfc_write_record_raw. *)
Encodable(type, d) ==
    /\ d # <<>> /\ Len(d) <= AssemblyMax
    /\ type = "text" => Len(d) <= ShortMax /\ Len(Header(type) \o d) <= AssemblyMax
Encoded(type, d) == IF type = "raw" THEN d ELSE Header(type) \o d

(* The buffer is wiped before the record is looked at. *)
Wiped(b) == [i \in 1 .. Len(b) |-> Zero]
Empty == Header("empty")

(* nfc_apply_payload: emulation stops, takes the payload, starts again.    *)
(* Either of the last two may fail, and the tag is then off the air.       *)
nfc_apply_payload(b, ok) ==
    /\ ok \/ faults < MaxFault
    /\ faults' = IF ok THEN faults ELSE faults + 1
    /\ ndef' = IF b = <<>> THEN Empty ELSE b
    /\ air' = IF ok THEN ndef' ELSE <<>>

(* The page a block goes to: (uint8_t)(0x10 + i * 0x10).  The seventeenth  *)
(* block of a long record goes where its first went.                       *)
BlockAt(i) == (1 + i) % Pages

(* The blocks of record b that reach the tag before the n-th fails. *)
Paged(b, n) == [p \in 0 .. Pages - 1 |->
    LET is == {i \in 0 .. n - 1 : BlockAt(i) = p} IN
    IF is = {} THEN page[p] ELSE b[1 + (CHOOSE i \in is : \A j \in is : j <= i)]]

(* od_nfc_write_record_raw: the attribute block goes first, the data after *)
(* it, and a failure leaves what has been written.                         *)
od_nfc_write_record_raw(b, ok) ==
    /\ ok \/ faults < MaxFault
    /\ faults' = IF ok THEN faults ELSE faults + 1
    /\ \E n \in 0 .. Len(b) :
          /\ (n = Len(b)) = ok
          /\ page' = Paged(b, n)
          /\ ai' \in IF ok \/ n > 0 THEN {Len(b)} ELSE {ai, Len(b)}

(* od_nfc_app_write, which answers ok. *)
od_nfc_app_write(type, d, ok) ==
    IF ~enabled \/ ~Encodable(type, d)
    THEN /\ ~ok
         /\ ndef' = IF enabled /\ target = "nordic" /\ d # <<>> /\ Len(d) <= AssemblyMax
                    THEN Wiped(ndef) ELSE ndef
         /\ UNCHANGED <<air, ai, page, faults>>
    ELSE IF target = "nordic"
    THEN nfc_apply_payload(Encoded(type, d), ok) /\ UNCHANGED <<ai, page>>
    ELSE od_nfc_write_record_raw(Encoded(type, d), ok) /\ UNCHANGED <<ndef, air>>

-----------------------------------------------------------------------------
(* The endpoint *)

(* A write that was not even tried leaves the last word standing. *)
Word(type, d, ok, theirs) ==
    /\ told' = IF ok THEN Encoded(type, theirs) ELSE IF Encodable(type, d) THEN <<>> ELSE told

MutOwnedBy(c) == asm.active

owned_by(c) == asm.active /\ c \in asm.owner

od_nfc_reset == asm' = Free

Tag == <<ndef, air, ai, page, faults>>

handle_inline_write(c, type, d) ==
    /\ writes < MaxWrites /\ writes' = writes + 1
    /\ \E ok \in BOOLEAN :
          /\ od_nfc_app_write(type, d, ok)
          /\ Word(type, d, ok, d)
    /\ UNCHANGED <<target, enabled, asm, sent>>

(* The acknowledgement of a START or a DATA may find no room: the assembly *)
(* goes with it.                                                           *)
ack_armed(c, a, s, queued) ==
    /\ asm' = IF queued THEN a ELSE Free
    /\ sent' = [sent EXCEPT ![c] = IF queued THEN s ELSE <<>>]

handle_start(c, type, total) ==
    /\ writes < MaxWrites /\ writes' = writes + 1
    /\ \E queued \in BOOLEAN :
          ack_armed(c, [active |-> TRUE, owner |-> {c}, type |-> type, total |-> total, data |-> <<>>],
                    <<>>, queued)
    /\ UNCHANGED <<target, enabled, told, Tag>>

handle_data(c, chunk) ==
    /\ IF ~owned_by(c) THEN UNCHANGED <<asm, sent>>
       ELSE IF Len(asm.data) + Len(chunk) > asm.total
       THEN od_nfc_reset /\ sent' = [sent EXCEPT ![c] = <<>>]
       ELSE \E queued \in BOOLEAN :
                ack_armed(c, [asm EXCEPT !.data = @ \o chunk], sent[c] \o chunk, queued)
    /\ UNCHANGED <<target, enabled, told, writes, Tag>>

(* A short END leaves the assembly for the rest to come. *)
handle_end(c) ==
    /\ IF ~owned_by(c) \/ Len(asm.data) # asm.total
       THEN UNCHANGED <<asm, sent, told, Tag>>
       ELSE /\ \E ok \in BOOLEAN :
                  /\ od_nfc_app_write(asm.type, asm.data, ok)
                  /\ Word(asm.type, asm.data, ok, sent[c])
            /\ od_nfc_reset
            /\ sent' = [sent EXCEPT ![c] = <<>>]
    /\ UNCHANGED <<target, enabled, writes>>

(* od_core_reset, when a session's transport goes. *)
od_nfc_core_reset ==
    /\ asm.active /\ od_nfc_reset
    /\ UNCHANGED <<target, enabled, sent, told, writes, Tag>>

(* A configuration is applied: the tag goes off the air, or comes up with  *)
(* whatever the buffer holds.                                              *)
opendisplay_nfc_apply_config ==
    /\ target = "nordic"
    /\ \/ enabled' = FALSE /\ air' = <<>> /\ told' = <<>> /\ UNCHANGED <<ndef, ai, page, faults>>
       \/ \E ok \in BOOLEAN :
              /\ nfc_apply_payload(ndef, ok) /\ enabled' = ok
              /\ told' = IF ok /\ ndef = told THEN told ELSE <<>>
              /\ UNCHANGED <<ai, page>>
    /\ UNCHANGED <<target, asm, sent, writes>>

od_nfc_autoinit_from_config ==
    /\ target = "silabs"
    /\ enabled' \in BOOLEAN
    /\ UNCHANGED <<target, asm, sent, told, writes, Tag>>

NfcNext ==
    \/ \E c \in Clients, t \in Types, d \in Payloads : handle_inline_write(c, t, d)
    \/ \E c \in Clients, t \in Types, n \in 1 .. AssemblyMax : handle_start(c, t, n)
    \/ \E c \in Clients, s \in Symbols : handle_data(c, <<s>>) \/ handle_data(c, <<s, s>>)
    \/ \E c \in Clients : handle_end(c)
    \/ od_nfc_core_reset \/ opendisplay_nfc_apply_config \/ od_nfc_autoinit_from_config

NfcSpec == NfcInit /\ [][NfcNext]_nfcVars

-----------------------------------------------------------------------------

(* What a reader finds on the tag. *)
OnTag == IF target = "nordic" THEN air
         ELSE [i \in 1 .. ai |-> page[i % Pages]]

(* What READ answers: the record's type and payload, or nothing.  A header *)
(* symbol of the wiped buffer, or of a raw record that has no short form,  *)
(* is not one the parser takes.  Nordic cuts a long payload to the cap,    *)
(* the BG22 refuses it.                                                    *)
Parsed(b) == IF b[1] = "text" THEN <<"text", Tail(b)>> ELSE <<"raw", b>>
Cut(d) == SubSeq(d, 1, IF Len(d) < ReadMax THEN Len(d) ELSE ReadMax)
Unparsed == Symbols \ {CHOOSE s \in Symbols : TRUE}
Readable(b) == b # <<>> /\ b[1] # Zero /\ b[1] \notin Unparsed
handle_read ==
    LET b == IF target = "nordic" THEN ndef ELSE OnTag
        r == Parsed(b)
    IN  IF ~enabled \/ ~Readable(b) THEN <<>>
        ELSE IF target = "nordic" THEN <<r[1], Cut(r[2])>>
        ELSE IF ai > BoardReadMax \/ Len(r[2]) > ReadMax THEN <<>> ELSE r

(* The part of a record its tag keeps: all of it when emulated, and of a   *)
(* record longer than the BG22's one-byte block offset can name only the   *)
(* last blocks, the first having been overwritten by them.                 *)
Kept(b) == IF target = "nordic" THEN DOMAIN b
           ELSE {i \in DOMAIN b : i + Pages > Len(b)}

(* A client that was told its record is committed finds it on the tag: the *)
(* chunks that it sent and saw acknowledged, all of them and in order,     *)
(* whatever another client started, sent or ended in between, and whatever *)
(* was refused since; and a READ answers with that record, or what of it   *)
(* the cap lets through, or fails.  The exception is a BG22 record of more *)
(* than 256 bytes, which opendisplay_ble.c:1392-1396 writes over itself    *)
(* and acknowledges: the tag states its length and has only its last 256   *)
(* bytes in their place.                                                   *)
CommittedIsOnTag ==
    /\ told # <<>> => /\ Len(OnTag) = Len(told)
                      /\ \A i \in Kept(told) : OnTag[i] = told[i]
    /\ told # <<>> /\ handle_read # <<>> =>
           handle_read \in {Parsed(told), <<Parsed(told)[1], Cut(Parsed(told)[2])>>}

=============================================================================
