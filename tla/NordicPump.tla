----------------------------- MODULE NordicPump -----------------------------
(***************************************************************************)
(* The Nordic target's transport: the Bluetooth receive thread, which only *)
(* queues writes and marks disconnects, and the main thread's pump, which  *)
(* cleans up, drains replies, feeds a running configuration read and       *)
(* dispatches frames (targets/nordic-zephyr/src/opendisplay_pipe.c and     *)
(* opendisplay_ble.c), composed with the shared core it drives             *)
(* (od_dispatch.c, od_config_read.c, od_core.c).                           *)
(*                                                                         *)
(* The two threads interleave at every step of the pump.  The rings are    *)
(* the FIFOs that RxRing and TxQueue are shown to implement.  Core state   *)
(* is reduced to whose it is: the connection that authenticated, the one   *)
(* that owns the transfer, the one whose chunked write is being assembled. *)
(***************************************************************************)
EXTENDS Integers, Sequences, TLAPS

CONSTANTS
  RxCap,      \* OD_RXQ_SLOTS - 1
  TxCap,      \* OD_TXQ_SLOTS - 1
  Chunks,     \* chunks of a configuration read-back
  MaxPass,    \* frames dispatched per pass, OD_RXQ_SLOTS
  MaxGen,     \* bound on reconnections
  Ops,        \* frame kinds the peer sends
  Exempt,     \* those that need no session: the configuration writes under the
              \* key-loss policy, or all of them with encryption off
  NoOwner

ASSUME PumpAssumption ==
  /\ RxCap \in Nat \ {0} /\ TxCap \in Nat /\ TxCap >= 2
  /\ Chunks \in Nat \ {0} /\ MaxPass \in Nat \ {0} /\ MaxGen \in Nat
  /\ Ops \subseteq {"auth", "data", "end", "read", "save", "chunk"}
  /\ Exempt \subseteq Ops \ {"auth"}
  /\ NoOwner \notin Nat

VARIABLES
  ble,       \* the connection, as the receive thread sees it
  onAir,     \* connectable advertising is running
  link_gen,  \* s_conn_gen
  close,     \* s_close_pending
  rx,        \* the receive ring
  tx,        \* the transmit queue: the tags its frames answer
  units,     \* units a handler still holds across a refresh
  core,      \* owners of session, transfer and chunked write
  read,      \* the configuration read: s of od_config_read.c
  flash,     \* stored configuration, and the blob config_data holds
  main_pc,   \* where the main thread is
  drained    \* frames dispatched in this pass

btVars == <<ble, onAir, link_gen, close>>
coreVars == <<units, core, read, flash>>
pumpVars == <<btVars, rx, tx, coreVars, main_pc, drained>>

Gens == 0 .. MaxGen
Owner == Gens \union {NoOwner}
Nobody == [sess |-> NoOwner, xfer |-> NoOwner, asm |-> NoOwner]
NoRead == [active |-> FALSE, tag |-> NoOwner, left |-> 0, blob |-> <<0, 0>>]

PumpTypeOK ==
  /\ ble \in {"down", "up", "closing"}
  /\ onAir \in BOOLEAN
  /\ link_gen \in Gens
  /\ close \in BOOLEAN
  /\ rx \in Seq([tag : Gens, op : Ops]) /\ Len(rx) <= RxCap
  /\ tx \in Seq(Gens)
  /\ units \in 0 .. 1
  /\ core \in [sess : Owner, xfer : Owner, asm : Owner]
  /\ read \in [active : BOOLEAN, tag : Owner, left : 0 .. Chunks, blob : (0 .. 1) \X (0 .. 1)]
  /\ flash \in (0 .. 1) \X (0 .. 1)
  /\ main_pc \in [at : {"cleanup", "tx", "notify", "pump", "discard", "recheck", "dispatch",
                        "refresh", "adv"},
                  then : {"pump", "refresh", "adv"}]
  /\ drained \in 0 .. MaxPass

PumpInit ==
  /\ ble = "down" /\ onAir = TRUE /\ link_gen = 0 /\ close = FALSE
  /\ rx = <<>> /\ tx = <<>>
  /\ units = 0 /\ core = Nobody /\ read = NoRead /\ flash = <<0, 0>>
  /\ main_pc = [at |-> "cleanup", then |-> "pump"]
  /\ drained = 0

-----------------------------------------------------------------------------
(* The Bluetooth receive thread.                                           *)

connected ==
  /\ ble = "down" /\ onAir
  /\ ble' = "up" /\ onAir' = FALSE
  /\ UNCHANGED <<link_gen, close, rx, tx, coreVars, main_pc, drained>>

\* A full ring drops the newest frame.
opendisplay_pipe_on_write(op) ==
  /\ ble = "up"
  /\ Len(rx) < RxCap
  /\ rx' = Append(rx, [tag |-> link_gen, op |-> op])
  /\ UNCHANGED <<btVars, tx, coreVars, main_pc, drained>>

\* disconnected() runs two stores in opendisplay_pipe_on_connection_closed();
\* the main thread may run between them.
CloseGen ==
  /\ ble = "up" /\ link_gen < MaxGen
  /\ ble' = "closing" /\ link_gen' = link_gen + 1
  /\ UNCHANGED <<onAir, close, rx, tx, coreVars, main_pc, drained>>

\* The restart the disconnect callback used to make for itself.
MutCloseMark ==
  /\ ble = "closing"
  /\ ble' = "down" /\ close' = TRUE /\ onAir' = TRUE
  /\ UNCHANGED <<link_gen, rx, tx, coreVars, main_pc, drained>>

CloseMark ==
  /\ ble = "closing"
  /\ ble' = "down" /\ close' = TRUE
  /\ UNCHANGED <<onAir, link_gen, rx, tx, coreVars, main_pc, drained>>

-----------------------------------------------------------------------------
(* The main thread.                                                        *)

Goto(at) == main_pc' = [main_pc EXCEPT !.at = at]
DrainThen(then) == main_pc' = [at |-> "tx", then |-> then]
Live(tag) == tag = link_gen
Take == rx' = Tail(rx)

\* A reply is queued for its own connection; a dead one takes none.
Commit(tag) == tx' = IF Live(tag) THEN Append(tx, tag) ELSE tx

\* The chunked write is left in place.
Mut_od_core_reset ==
  /\ core' = [Nobody EXCEPT !.asm = core.asm]
  /\ read' = NoRead
  /\ tx' = <<>>

\* od_core_reset() and od_cmd_config_reset().
od_core_reset ==
  /\ core' = Nobody
  /\ read' = NoRead
  /\ tx' = <<>>

\* Step 1: the deferred disconnect.
Cleanup ==
  /\ main_pc.at = "cleanup"
  /\ close' = FALSE
  /\ IF close THEN od_core_reset ELSE UNCHANGED <<core, read, tx>>
  /\ drained' = 0
  /\ DrainThen("pump")
  /\ UNCHANGED <<ble, onAir, link_gen, rx, units, flash>>

\* od_txq_process(): frames of a departed connection are dropped, others
\* are offered to the stack until it refuses one.
TxGone ==
  /\ main_pc.at = "tx" /\ tx # <<>>
  /\ ~Live(Head(tx))
  /\ tx' = Tail(tx)
  /\ UNCHANGED <<btVars, rx, coreVars, main_pc, drained>>

TxOffer ==
  /\ main_pc.at = "tx" /\ tx # <<>>
  /\ Live(Head(tx))
  /\ Goto("notify")
  /\ UNCHANGED <<btVars, rx, tx, coreVars, drained>>

TxSent ==
  /\ main_pc.at = "notify" /\ ble = "up"
  /\ tx' = Tail(tx)
  /\ Goto("tx")
  /\ UNCHANGED <<btVars, rx, coreVars, drained>>

\* The stack refuses.  Inside the refresh barrier the pump polls again or
\* gives the refresh its turn; elsewhere it moves on.
TxRetry ==
  /\ main_pc.at = "notify"
  /\ Goto(main_pc.then) \/ (main_pc.then = "refresh" /\ Goto("tx"))
  /\ UNCHANGED <<btVars, rx, tx, coreVars, drained>>

TxDone ==
  /\ main_pc.at = "tx" /\ tx = <<>>
  /\ Goto(main_pc.then)
  /\ UNCHANGED <<btVars, rx, tx, coreVars, drained>>

\* Step 3: one chunk if a slot is free.  A chunk that cannot be sealed
\* leaves a plain refusal in its place; that and a dead peer end the read.
od_config_read_pump ==
  /\ main_pc.at = "pump"
  /\ IF read.active /\ Len(tx) + units < TxCap
     THEN /\ Commit(read.tag)
          /\ read' = IF core.sess = NoOwner \/ ~Live(read.tag) \/ read.left = 1
                     THEN NoRead ELSE [read EXCEPT !.left = @ - 1]
     ELSE UNCHANGED <<tx, read>>
  /\ Goto("discard")
  /\ UNCHANGED <<btVars, rx, units, core, flash, drained>>

\* Step 4: stale frames go, one per turn; then the head is peeked.
Discard ==
  /\ main_pc.at = "discard" /\ rx # <<>>
  /\ ~Live(Head(rx).tag)
  /\ Take
  /\ UNCHANGED <<btVars, tx, coreVars, main_pc, drained>>

Peek ==
  /\ main_pc.at = "discard"
  /\ \/ rx # <<>> /\ Live(Head(rx).tag) /\ Goto("recheck")
     \/ rx = <<>> /\ DrainThen("adv")
  /\ UNCHANGED <<btVars, rx, tx, coreVars, drained>>

NextTurn ==
  /\ drained' = drained + 1
  /\ DrainThen(IF drained + 1 < MaxPass THEN "pump" ELSE "adv")

\* The identity is checked again at the handler boundary.
Recheck ==
  /\ main_pc.at = "recheck"
  /\ IF Live(Head(rx).tag)
     THEN Goto("dispatch") /\ UNCHANGED <<rx, drained>>
     ELSE Take /\ NextTurn
  /\ UNCHANGED <<btVars, tx, coreVars>>

-----------------------------------------------------------------------------
(* Step 5: od_dispatch_frame(), and 7: consumption of all but DEFERRED.    *)

od_dispatch_budget(op) == IF op = "end" THEN 2 ELSE 1

od_cmd_mutates_config(op) == op \in {"save", "chunk"}

\* Producer conflict, tested before the reservation and before decryption.
Conflict(op) == read.active /\ (op = "read" \/ od_cmd_mutates_config(op))

NoRoom(op) == Len(tx) + units + od_dispatch_budget(op) > TxCap

Dispatching(op) == main_pc.at = "dispatch" /\ Head(rx).op = op

\* DEFERRED: the frame stays at the head and the pass ends.
Defer ==
  /\ main_pc.at = "dispatch"
  /\ Live(Head(rx).tag)
  /\ Conflict(Head(rx).op) \/ NoRoom(Head(rx).op)
  /\ DrainThen("adv")
  /\ UNCHANGED <<btVars, rx, tx, coreVars, drained>>

StaleTag ==
  /\ main_pc.at = "dispatch"
  /\ ~Live(Head(rx).tag)
  /\ Take /\ NextTurn
  /\ UNCHANGED <<btVars, tx, coreVars>>

Admit(op) ==
  /\ Dispatching(op)
  /\ Live(Head(rx).tag)
  /\ ~Conflict(op) /\ ~NoRoom(op)

\* The handler ran and answered once: release, consume.
Answered(tag) == Commit(tag) /\ Take /\ NextTurn /\ UNCHANGED <<btVars, units>>

\* A challenge or a refusal leaves the session as it was; a good proof
\* replaces it.
od_gate_authenticate ==
  /\ Admit("auth")
  /\ \E owner \in {Head(rx).tag, core.sess} : core' = [core EXCEPT !.sess = owner]
  /\ Answered(link_gen)
  /\ UNCHANGED <<read, flash>>

AuthRequired ==
  /\ \E op \in Ops \ ({"auth"} \union Exempt) : Admit(op)
  /\ core.sess = NoOwner
  /\ Answered(link_gen)
  /\ UNCHANGED <<core, read, flash>>

Protected(op) == Admit(op) /\ (core.sess # NoOwner \/ op \in Exempt)

\* Transfer START and DATA: begun or continued for the sender, or refused
\* and torn down.
od_xfer_data ==
  /\ Protected("data")
  /\ \E owner \in {Head(rx).tag, NoOwner} : core' = [core EXCEPT !.xfer = owner]
  /\ Answered(link_gen)
  /\ UNCHANGED <<read, flash>>

\* CONFIG_READ loads config_data and emits chunk 0 with the dispatcher's
\* unit; a load that fails is answered with an error frame.
od_cmd_app_config_read ==
  /\ Protected("read")
  /\ \/ /\ flash' = <<flash[1], 1 - flash[2]>>
        /\ read' = IF read.active \/ Chunks = 1 THEN read
                   ELSE [active |-> TRUE, tag |-> Head(rx).tag, left |-> Chunks - 1,
                         blob |-> flash']
     \/ UNCHANGED <<flash, read>>
  /\ Answered(link_gen)
  /\ UNCHANGED core

\* A single-frame CONFIG_WRITE, a final chunk or CONFIG_CLEAR: stored and
\* acknowledged under the old session, then reloaded, a write dropping the
\* session; or not stored, and refused.  Only a final chunk ends a chunked
\* write.
Save ==
  /\ Protected("save")
  /\ \/ /\ flash' = <<1 - flash[1], flash[2]>>
        /\ \/ \E asm \in {NoOwner, core.asm} :
                core' = [core EXCEPT !.sess = NoOwner, !.asm = asm]
           \/ UNCHANGED core
     \/ /\ UNCHANGED flash
        /\ \E asm \in {NoOwner, core.asm} : core' = [core EXCEPT !.asm = asm]
  /\ Answered(link_gen)
  /\ UNCHANGED read

\* A CONFIG_WRITE that opens a chunked write, or a chunk: taken, or refused
\* and the assembly dropped.
od_cmd_app_config_chunk ==
  /\ Protected("chunk")
  /\ \E owner \in {Head(rx).tag, NoOwner} : core' = [core EXCEPT !.asm = owner]
  /\ Answered(link_gen)
  /\ UNCHANGED <<read, flash>>

\* END: the acknowledgement is queued, the barrier drains it, and one unit
\* is kept for the status that follows the refresh.
EndBegin ==
  /\ Protected("end")
  /\ IF core.xfer = Head(rx).tag
     THEN /\ Commit(link_gen)
          /\ units' = od_dispatch_budget("end") - 1
          /\ DrainThen("refresh")
          /\ UNCHANGED <<rx, drained>>
     ELSE Take /\ NextTurn /\ UNCHANGED <<tx, units>>
  /\ UNCHANGED <<btVars, core, read, flash>>

\* The refresh ends, perhaps a minute and a disconnect later.
EndFinish ==
  /\ main_pc.at = "refresh"
  /\ core' = [core EXCEPT !.xfer = NoOwner]
  /\ Commit(Head(rx).tag)
  /\ units' = 0
  /\ Take /\ NextTurn
  /\ UNCHANGED <<btVars, read, flash>>

-----------------------------------------------------------------------------
\* The last step of a pass: advertising restarts only here, from the main
\* thread.  The board has one connection object and s_conn keeps it until
\* disconnected() has marked the close and let go, so a start before that
\* fails with -ENOMEM and is retried, as is any other failed start.
ble_service_advertising ==
  /\ main_pc.at = "adv"
  /\ onAir' \in {onAir, onAir \/ ble = "down"}
  /\ main_pc' = [at |-> "cleanup", then |-> "pump"]
  /\ UNCHANGED <<ble, link_gen, close, rx, tx, coreVars, drained>>

\* The session timeout passes at any time.
SessionExpires ==
  /\ core.sess # NoOwner
  /\ core' = [core EXCEPT !.sess = NoOwner]
  /\ UNCHANGED <<btVars, rx, tx, units, read, flash, main_pc, drained>>

Handler ==
  \/ od_gate_authenticate
  \/ AuthRequired
  \/ od_xfer_data
  \/ od_cmd_app_config_read
  \/ Save
  \/ od_cmd_app_config_chunk
  \/ EndBegin
  \/ EndFinish

Main ==
  \/ Cleanup
  \/ TxGone \/ TxOffer \/ TxSent \/ TxRetry \/ TxDone
  \/ od_config_read_pump
  \/ Discard \/ Peek \/ Recheck
  \/ Defer \/ StaleTag \/ Handler
  \/ ble_service_advertising

BtThread ==
  \/ connected
  \/ \E op \in Ops : opendisplay_pipe_on_write(op)
  \/ CloseGen
  \/ CloseMark

PumpNext == Main \/ BtThread \/ SessionExpires

PumpSpec == PumpInit /\ [][PumpNext]_pumpVars

\* The main loop never stops, a callback that began finishes, and a link
\* that stays up takes a notification now and then.
PumpFairSpec ==
  /\ PumpSpec
  /\ WF_pumpVars(Main)
  /\ WF_pumpVars(CloseMark)
  /\ SF_pumpVars(TxSent)

-----------------------------------------------------------------------------
(* Properties.                                                             *)

\* A handler never meets state of an earlier connection: session, transfer,
\* read and chunked write are nobody's or the sender's own, although the
\* disconnect was only marked and the new link came up meanwhile.
NoInheritance ==
  main_pc.at = "dispatch" /\ Live(Head(rx).tag) =>
    \A o \in {core.sess, core.xfer, core.asm, read.tag} : o \in {NoOwner, Head(rx).tag}

\* A reply goes out only on the connection that asked, although the check
\* and the notification are two steps and the link may drop in between.
DeliveredToAsker == [][TxSent => Head(tx) = link_gen]_pumpVars

\* A read-back is of one configuration: while it runs, neither the stored
\* blob nor the buffer its later chunks come from changes.
ReadIsWhole == read.active => read.blob = flash

\* Every handler that was let in can say what it did: the queue never
\* exceeds its capacity, units held across a refresh included.
RepliesFit == Len(tx) + units <= TxCap

\* What holds at every step of the main loop and of the radio thread: the
\* rings within their sizes, room for every promised reply, one blob per read
\* (od_dispatch_frame's conflict test and reservation).
PumpInv == PumpTypeOK /\ RepliesFit /\ ReadIsWhole

\* No connection inherits the session, the transfer, the read or the
\* replies of the one before it, what a read sends is the record in flash,
\* and every reply reserved fits (opendisplay_pipe.c).
PumpSafe == PumpInv /\ NoInheritance

\* Every frame in the ring is dispatched or discarded, deferrals included: a
\* ring that stays occupied is taken from again and again.
FrameServed == <>[](rx # <<>>) => []<><<rx # <<>> /\ Take>>_pumpVars

-----------------------------------------------------------------------------
(* Proofs.                                                                 *)

\* Whose session, transfer, assembly and read the core holds.
Owners == {core.sess, core.xfer, core.asm, read.tag}

\* The places of a pass: what follows a drain is recorded while it lasts, the
\* pass has a frame to go where it goes on, and what a handler keeps across a
\* refresh is one unit and the frame it answers.
Places ==
  /\ \/ main_pc.at \in {"tx", "notify"}
     \/ main_pc.at \in {"adv", "refresh"} /\ main_pc.then = main_pc.at
     \/ main_pc.at \in {"cleanup", "pump", "discard", "recheck", "dispatch"}
        /\ main_pc.then = "pump"
  /\ main_pc.at = "cleanup" \/ main_pc.then = "adv" \/ drained < MaxPass
  /\ main_pc.at \in {"recheck", "dispatch"} \/ main_pc.then = "refresh" => rx # <<>>
  /\ main_pc.then = "refresh" => units = 1
  /\ read.active => read.left > 0

\* No frame, reply or owner is of a connection still to come.
NotAhead ==
  /\ \A i \in 1 .. Len(rx) : rx[i].tag <= link_gen
  /\ \A i \in 1 .. Len(tx) : tx[i] <= link_gen
  /\ \A o \in Owners \ {NoOwner} : o <= link_gen

\* Only a connection that is up has frames in the ring, replies in the queue
\* or state in the core.
UpToDate ==
  ble # "up" =>
    /\ \A i \in 1 .. Len(rx) : rx[i].tag # link_gen
    /\ \A i \in 1 .. Len(tx) : tx[i] # link_gen
    /\ link_gen \notin Owners

\* State of an earlier connection is found only while its close is being
\* marked or waits for the loop, and as long as it waits a new connection is
\* up, or may come up, only where the clean-up is the next step.
CloseComes ==
  /\ (\E o \in Owners : o \notin {NoOwner, link_gen}) => ble = "closing" \/ close
  /\ close /\ (onAir \/ ble = "up") => main_pc.at = "cleanup"
  /\ ble # "down" => ~onAir

\* A reply offered to the stack is the current connection's, and no other
\* connection can come up before the answer.
Offered ==
  main_pc.at = "notify" => ~onAir /\ tx # <<>> /\ (ble = "up" => Head(tx) = link_gen)

\* The inductive invariant.
PumpInd == PumpInv /\ Places /\ NotAhead /\ UpToDate /\ CloseComes /\ Offered

\* PumpTypeOK by parts: the frames of the ring, the core, the place of the pass.
RxFrames == [tag : Gens, op : Ops]
CoreTypeOK ==
  /\ core \in [sess : Owner, xfer : Owner, asm : Owner]
  /\ read \in [active : BOOLEAN, tag : Owner, left : 0 .. Chunks, blob : (0 .. 1) \X (0 .. 1)]
  /\ flash \in (0 .. 1) \X (0 .. 1)
PcTypeOK ==
  /\ main_pc \in [at : {"cleanup", "tx", "notify", "pump", "discard", "recheck", "dispatch",
                        "refresh", "adv"},
                  then : {"pump", "refresh", "adv"}]
  /\ drained \in 0 .. MaxPass

\* The type of the pump's state, in the parts the steps below disturb.
LEMMA TypeParts ==
  PumpTypeOK <=> /\ ble \in {"down", "up", "closing"} /\ onAir \in BOOLEAN
                 /\ link_gen \in Gens /\ close \in BOOLEAN
                 /\ rx \in Seq(RxFrames) /\ Len(rx) <= RxCap /\ tx \in Seq(Gens)
                 /\ units \in 0 .. 1 /\ CoreTypeOK /\ PcTypeOK
BY DEF PumpTypeOK, RxFrames, CoreTypeOK, PcTypeOK

\* What od_core_reset and the end of a read leave has its type.
LEMMA NoneTyped ==
  /\ Nobody \in [sess : Owner, xfer : Owner, asm : Owner]
  /\ NoRead \in [active : BOOLEAN, tag : Owner, left : 0 .. Chunks, blob : (0 .. 1) \X (0 .. 1)]
<1>1. NoOwner \in Owner /\ 0 \in 0 .. Chunks /\ <<0, 0>> \in (0 .. 1) \X (0 .. 1)
  BY PumpAssumption DEF Owner
<1> QED
  BY <1>1 DEF Nobody, NoRead

\* Where what a step leaves in the ring, in the queue and in the core comes
\* from: it was there, or it is of the connection that is up.
RingFrom ==
  \A i \in 1 .. Len(rx') : \/ \E j \in 1 .. Len(rx) : rx'[i] = rx[j]
                           \/ ble = "up" /\ rx'[i].tag = link_gen
QueueFrom ==
  \A i \in 1 .. Len(tx') : \/ \E j \in 1 .. Len(tx) : tx'[i] = tx[j]
                           \/ ble = "up" /\ tx'[i] = link_gen
OwnersFrom ==
  \A o \in Owners' : o \in Owners \union {NoOwner} \/ (ble = "up" /\ o = link_gen)

\* While the link does not change, nothing of another connection appears.
LEMMA LinkKeeps ==
  ASSUME PumpInd, UNCHANGED btVars, RingFrom, QueueFrom, OwnersFrom,
         main_pc.at # "cleanup" \/ main_pc' = main_pc
  PROVE  NotAhead' /\ UpToDate' /\ CloseComes'
<1> USE DEF PumpInd, PumpInv
<1>1. UNCHANGED <<ble, onAir, link_gen, close>>
  BY DEF btVars
<1>2. link_gen \in Int
  BY PumpAssumption DEF PumpTypeOK, Gens
<1>3. NotAhead'
  <2>1. \A i \in 1 .. Len(rx') : rx'[i].tag <= link_gen
    BY <1>2 DEF RingFrom, NotAhead
  <2>2. \A i \in 1 .. Len(tx') : tx'[i] <= link_gen
    BY <1>2 DEF QueueFrom, NotAhead
  <2>3. \A o \in Owners' \ {NoOwner} : o <= link_gen
    BY <1>2 DEF OwnersFrom, NotAhead
  <2> QED
    BY <1>1, <2>1, <2>2, <2>3 DEF NotAhead
<1>4. UpToDate'
  <2>1. link_gen # NoOwner
    BY PumpAssumption DEF PumpTypeOK, Gens
  <2> SUFFICES ASSUME ble' # "up"
               PROVE  /\ \A i \in 1 .. Len(rx') : rx'[i].tag # link_gen'
                      /\ \A i \in 1 .. Len(tx') : tx'[i] # link_gen'
                      /\ link_gen' \notin Owners'
    BY DEF UpToDate
  <2>2. \A i \in 1 .. Len(rx') : rx'[i].tag # link_gen'
    BY <1>1 DEF RingFrom, UpToDate
  <2>3. \A i \in 1 .. Len(tx') : tx'[i] # link_gen'
    BY <1>1 DEF QueueFrom, UpToDate
  <2>4. link_gen' \notin Owners'
    BY <1>1, <2>1 DEF OwnersFrom, UpToDate
  <2> QED
    BY <2>2, <2>3, <2>4
<1>5. CloseComes'
  <2>1. (\E o \in Owners' : o \notin {NoOwner, link_gen}) => ble = "closing" \/ close
    BY DEF OwnersFrom, CloseComes
  <2>2. close /\ (onAir \/ ble = "up") => main_pc'.at = "cleanup"
    BY DEF CloseComes
  <2>3. ble # "down" => ~onAir
    BY DEF CloseComes
  <2> QED
    BY <1>1, <2>1, <2>2, <2>3 DEF CloseComes
<1> QED
  BY <1>3, <1>4, <1>5

\* Steps that leave the core's owners, the ring or the queue alone.
LEMMA SameFrom ==
  /\ rx' = rx => RingFrom
  /\ tx' = tx => QueueFrom
  /\ UNCHANGED <<core, read>> => OwnersFrom
<1>1. rx' = rx => RingFrom
  BY DEF RingFrom
<1>2. tx' = tx => QueueFrom
  BY DEF QueueFrom
<1>3. UNCHANGED <<core, read>> => Owners' = Owners
  BY DEF Owners
<1> QED
  BY <1>1, <1>2, <1>3 DEF OwnersFrom

\* The tail of a sequence holds what the sequence held.
LEMMA TailFrom ==
  ASSUME NEW S, NEW s \in Seq(S), s # <<>>
  PROVE  /\ Tail(s) \in Seq(S) /\ Len(Tail(s)) = Len(s) - 1 /\ Len(s) \in Nat /\ Len(s) >= 1
         /\ \A i \in 1 .. Len(Tail(s)) : \E j \in 1 .. Len(s) : Tail(s)[i] = s[j]
<1>1. Tail(s) \in Seq(S) /\ Len(Tail(s)) = Len(s) - 1 /\ Len(s) \in Nat /\ Len(s) >= 1
  OBVIOUS
<1>2. ASSUME NEW i \in 1 .. Len(Tail(s)) PROVE \E j \in 1 .. Len(s) : Tail(s)[i] = s[j]
  <2>1. Tail(s)[i] = s[i + 1] /\ i + 1 \in 1 .. Len(s)
    BY <1>1
  <2> QED
    BY <2>1
<1> QED
  BY <1>1, <1>2

\* A frame that is taken.
LEMMA TakeFrom ==
  ASSUME PumpTypeOK, rx # <<>>, Take
  PROVE  rx' \in Seq(RxFrames) /\ Len(rx') <= RxCap /\ RingFrom
<1>1. PICK s \in Seq(RxFrames) : s = rx
  BY TypeParts
<1>2. Tail(s) \in Seq(RxFrames) /\ Len(Tail(s)) = Len(s) - 1 /\ Len(s) \in Nat
      /\ \A i \in 1 .. Len(Tail(s)) : \E j \in 1 .. Len(s) : Tail(s)[i] = s[j]
  BY <1>1, TailFrom
<1>3. rx' = Tail(s)
  BY <1>1 DEF Take
<1>4. Len(rx') <= RxCap
  BY <1>1, <1>2, <1>3, PumpAssumption DEF PumpTypeOK
<1> QED
  BY <1>1, <1>2, <1>3, <1>4 DEF RingFrom, PumpTypeOK

\* A reply that is queued for a connection that, if it is the current one, is up.
LEMMA CommitFrom ==
  ASSUME PumpTypeOK, NEW tag \in Gens, Commit(tag), tag = link_gen => ble = "up"
  PROVE  tx' \in Seq(Gens) /\ Len(tx') \in Nat /\ Len(tx') <= Len(tx) + 1 /\ QueueFrom
<1>1. PICK s \in Seq(Gens) : s = tx
  BY DEF PumpTypeOK
<1>2. CASE tag = link_gen
  <2>1. tx' = Append(s, tag)
    BY <1>1, <1>2 DEF Commit, Live
  <2>2. /\ Append(s, tag) \in Seq(Gens) /\ Len(Append(s, tag)) = Len(s) + 1 /\ Len(s) \in Nat
        /\ \A i \in 1 .. Len(s) + 1 : Append(s, tag)[i] = IF i = Len(s) + 1 THEN tag ELSE s[i]
    OBVIOUS
  <2>3. \A i \in 1 .. Len(tx') : (i \in 1 .. Len(tx) /\ tx'[i] = tx[i]) \/ tx'[i] = link_gen
    BY <1>1, <1>2, <2>1, <2>2
  <2> QED
    BY <1>1, <1>2, <2>1, <2>2, <2>3 DEF QueueFrom
<1>3. CASE tag # link_gen
  <2>1. tx' = tx
    BY <1>3 DEF Commit, Live
  <2> QED
    BY <1>1, <2>1, SameFrom
<1> QED
  BY <1>2, <1>3

\* The end of a turn, of any but the last turn of a pass.
LEMMA NextTurnPlaces ==
  ASSUME PumpTypeOK, drained < MaxPass, NextTurn
  PROVE  /\ PcTypeOK'
         /\ main_pc'.at = "tx" /\ main_pc'.then \in {"pump", "adv"}
         /\ main_pc'.then = "adv" \/ drained' < MaxPass
<1>1. drained + 1 \in 0 .. MaxPass
  BY PumpAssumption DEF PumpTypeOK
<1>2. CASE drained + 1 < MaxPass
  BY <1>1, <1>2 DEF NextTurn, DrainThen, PcTypeOK
<1>3. CASE ~(drained + 1 < MaxPass)
  BY <1>1, <1>3 DEF NextTurn, DrainThen, PcTypeOK
<1> QED
  BY <1>2, <1>3

\* A frame of the current connection at the head of the ring: the connection
\* is up, no close is pending, and the core's state is its own or nobody's.
LEMMA HeadIsUp ==
  ASSUME PumpInd, rx # <<>>, Live(Head(rx).tag)
  PROVE  /\ ble = "up" /\ Head(rx) \in RxFrames /\ Head(rx).tag = link_gen
         /\ main_pc.at # "cleanup" => Owners \subseteq {NoOwner, link_gen}
<1> USE DEF PumpInd, PumpInv
<1>1. Head(rx) = rx[1] /\ 1 \in 1 .. Len(rx) /\ Head(rx) \in RxFrames
  BY TypeParts
<1>2. ble = "up"
  BY <1>1 DEF UpToDate, Live
<1>3. main_pc.at # "cleanup" => Owners \subseteq {NoOwner, link_gen}
  BY <1>2 DEF CloseComes
<1> QED
  BY <1>1, <1>2, <1>3 DEF Live

-----------------------------------------------------------------------------
(* The Bluetooth thread's steps, and the two of the loop that concern it.  *)

\* A new connection: it finds no close pending unless the clean-up is next.
LEMMA ConnectedKeeps ==
  ASSUME PumpInd, connected
  PROVE  PumpInd'
<1> USE DEF PumpInd, PumpInv
<1>1. /\ ble = "down" /\ onAir /\ ble' = "up" /\ onAir' = FALSE
      /\ UNCHANGED <<link_gen, close, rx, tx, units, core, read, flash, main_pc, drained>>
  BY DEF connected, coreVars
<1>2. UNCHANGED <<CoreTypeOK, PcTypeOK, Owners, Places, RepliesFit, ReadIsWhole, NotAhead>>
  BY <1>1 DEF CoreTypeOK, PcTypeOK, Owners, Places, RepliesFit, ReadIsWhole, NotAhead
<1>3. PumpTypeOK'
  BY <1>1 DEF PumpTypeOK
<1>4. UpToDate' /\ CloseComes' /\ Offered'
  BY <1>1, <1>2 DEF UpToDate, CloseComes, Offered
<1> QED
  BY <1>2, <1>3, <1>4

\* The radio thread queues a write of the connection that is up.
LEMMA OnWriteKeeps ==
  ASSUME PumpInd, NEW op \in Ops, opendisplay_pipe_on_write(op)
  PROVE  PumpInd'
<1> USE DEF PumpInd, PumpInv
<1>1. /\ ble = "up" /\ Len(rx) < RxCap /\ rx' = Append(rx, [tag |-> link_gen, op |-> op])
      /\ UNCHANGED btVars
      /\ UNCHANGED <<tx, units, core, read, flash, main_pc, drained>>
  BY DEF opendisplay_pipe_on_write, coreVars
<1>2. [tag |-> link_gen, op |-> op] \in RxFrames
  BY TypeParts DEF RxFrames
<1>3. PICK s \in Seq(RxFrames), f \in RxFrames : s = rx /\ f = [tag |-> link_gen, op |-> op]
  BY <1>2, TypeParts
<1>4. /\ Append(s, f) \in Seq(RxFrames) /\ Len(Append(s, f)) = Len(s) + 1 /\ Len(s) \in Nat
      /\ \A i \in 1 .. Len(s) + 1 : Append(s, f)[i] = IF i = Len(s) + 1 THEN f ELSE s[i]
  OBVIOUS
<1>5. rx' \in Seq(RxFrames) /\ Len(rx') <= RxCap /\ rx' # <<>>
  BY <1>1, <1>3, <1>4, PumpAssumption
<1>6. RingFrom
  <2>1. \A i \in 1 .. Len(rx') : (i \in 1 .. Len(rx) /\ rx'[i] = rx[i]) \/ rx'[i].tag = link_gen
    BY <1>1, <1>3, <1>4
  <2> QED
    BY <1>1, <2>1 DEF RingFrom
<1>7. PumpTypeOK'
  BY <1>1, <1>5, TypeParts DEF PumpTypeOK, RxFrames, btVars
<1>8. NotAhead' /\ UpToDate' /\ CloseComes'
  BY <1>1, <1>6, SameFrom, LinkKeeps
<1>9. Places' /\ RepliesFit' /\ ReadIsWhole' /\ Offered'
  BY <1>1, <1>5 DEF Places, RepliesFit, ReadIsWhole, Offered, btVars
<1> QED
  BY <1>7, <1>8, <1>9

\* The generation moves on: nothing is of the new one yet.
LEMMA CloseGenKeeps ==
  ASSUME PumpInd, CloseGen
  PROVE  PumpInd'
<1> USE DEF PumpInd, PumpInv
<1>1. /\ ble = "up" /\ link_gen < MaxGen /\ ble' = "closing" /\ link_gen' = link_gen + 1
      /\ UNCHANGED <<onAir, close, rx, tx, units, core, read, flash, main_pc, drained>>
  BY DEF CloseGen, coreVars
<1>2. link_gen \in Gens /\ link_gen' \in Gens /\ link_gen \in Int
  BY <1>1, PumpAssumption DEF PumpTypeOK, Gens
<1>3. Owners' = Owners /\ Owners \subseteq Owner /\ NoOwner \notin Nat
  BY <1>1, PumpAssumption DEF Owners, PumpTypeOK
<1>4. /\ \A i \in 1 .. Len(rx) : rx[i].tag \in Int /\ rx[i].tag <= link_gen
      /\ \A i \in 1 .. Len(tx) : tx[i] \in Int /\ tx[i] <= link_gen
      /\ \A o \in Owners \ {NoOwner} : o \in Int /\ o <= link_gen
  <2>1. \A i \in 1 .. Len(rx) : rx[i] \in RxFrames
    BY TypeParts
  <2>2. \A i \in 1 .. Len(tx) : tx[i] \in Gens
    BY DEF PumpTypeOK
  <2>3. Gens \subseteq Int
    BY PumpAssumption DEF Gens
  <2> QED
    BY <1>3, <2>1, <2>2, <2>3 DEF NotAhead, RxFrames, Owner
<1>5. PumpTypeOK'
  BY <1>1, <1>2 DEF PumpTypeOK
<1>6. NotAhead'
  BY <1>1, <1>2, <1>3, <1>4 DEF NotAhead
<1>7. UpToDate'
  <2>1. link_gen' \in Nat /\ link_gen' = link_gen + 1
    BY <1>1, <1>2, PumpAssumption DEF Gens
  <2>2. link_gen' \notin Owners
    BY <1>2, <1>3, <1>4, <2>1
  <2>3. /\ \A i \in 1 .. Len(rx) : rx[i].tag # link_gen'
        /\ \A i \in 1 .. Len(tx) : tx[i] # link_gen'
    BY <1>2, <1>4, <2>1
  <2> QED
    BY <1>1, <1>3, <2>2, <2>3 DEF UpToDate
<1>8. CloseComes' /\ Offered'
  BY <1>1 DEF CloseComes, Offered
<1>9. Places' /\ RepliesFit' /\ ReadIsWhole'
  BY <1>1 DEF Places, RepliesFit, ReadIsWhole
<1> QED
  BY <1>5, <1>6, <1>7, <1>8, <1>9

\* The radio thread marks the close it has counted: from here on the mark
\* accounts for what the old connection left.
LEMMA CloseMarkKeeps ==
  ASSUME PumpInd, CloseMark
  PROVE  PumpInd'
<1> USE DEF PumpInd, PumpInv
<1>1. /\ ble = "closing" /\ ble' = "down" /\ close' = TRUE
      /\ UNCHANGED <<onAir, link_gen, rx, tx, units, core, read, flash, main_pc, drained>>
  BY DEF CloseMark, coreVars
<1>2. Owners' = Owners
  BY <1>1 DEF Owners
<1>3. PumpTypeOK'
  BY <1>1 DEF PumpTypeOK
<1>4. NotAhead' /\ UpToDate' /\ CloseComes' /\ Offered'
  BY <1>1, <1>2 DEF NotAhead, UpToDate, CloseComes, Offered
<1>5. Places' /\ RepliesFit' /\ ReadIsWhole'
  BY <1>1 DEF Places, RepliesFit, ReadIsWhole
<1> QED
  BY <1>3, <1>4, <1>5

\* The clean-up leaves nothing of any connection in the core or the queue, or
\* finds no close, and then there is nothing of an earlier one.
LEMMA CleanupKeeps ==
  ASSUME PumpInd, Cleanup
  PROVE  PumpInd'
<1> USE DEF PumpInd, PumpInv
<1>1. /\ main_pc.at = "cleanup" /\ close' = FALSE /\ drained' = 0
      /\ main_pc' = [at |-> "tx", then |-> "pump"]
      /\ UNCHANGED <<ble, onAir, link_gen, rx, units, flash>>
  BY DEF Cleanup, DrainThen
<1>2. PcTypeOK' /\ drained' < MaxPass
  BY <1>1, PumpAssumption DEF PcTypeOK
<1>3. CASE close
  <2>1. core' = Nobody /\ read' = NoRead /\ tx' = <<>>
    BY <1>3 DEF Cleanup, od_core_reset
  <2>2. Owners' = {NoOwner} /\ Len(tx') = 0 /\ ~read'.active
    BY <2>1 DEF Owners, Nobody, NoRead
  <2>3. CoreTypeOK'
    <3>1. flash' \in (0 .. 1) \X (0 .. 1)
      BY <1>1 DEF PumpTypeOK
    <3> QED
      BY <2>1, <3>1, NoneTyped DEF CoreTypeOK
  <2>4. PumpTypeOK'
    <3>1. tx' \in Seq(Gens)
      BY <2>1
    <3> HIDE DEF PumpInd
    <3>2. PumpTypeOK
      BY DEF PumpInd
    <3> QED
      BY <1>1, <1>2, <2>3, <3>1, <3>2 DEF PumpTypeOK, CoreTypeOK, PcTypeOK
  <2>5. RepliesFit' /\ ReadIsWhole'
    BY <1>1, <2>2, PumpAssumption DEF RepliesFit, ReadIsWhole, PumpTypeOK
  <2>6. Places' /\ Offered'
    BY <1>1, <1>2, <2>2 DEF Places, Offered
  <2>7. NotAhead' /\ CloseComes'
    BY <1>1, <2>2 DEF NotAhead, CloseComes
  <2>8. UpToDate'
    BY <1>1, <2>2, PumpAssumption DEF UpToDate, PumpTypeOK, Gens
  <2> QED
    BY <2>4, <2>5, <2>6, <2>7, <2>8
<1>4. CASE ~close
  <2>1. UNCHANGED <<core, read, tx>> /\ Owners' = Owners
    BY <1>4 DEF Cleanup, Owners
  <2>2. PumpTypeOK'
    BY <1>1, <1>2, <2>1 DEF PumpTypeOK, PcTypeOK
  <2>3. RepliesFit' /\ ReadIsWhole' /\ Places' /\ Offered'
    BY <1>1, <1>2, <2>1 DEF RepliesFit, ReadIsWhole, Places, Offered
  <2>4. NotAhead' /\ UpToDate' /\ CloseComes'
    BY <1>1, <1>4, <2>1 DEF NotAhead, UpToDate, CloseComes
  <2> QED
    BY <2>2, <2>3, <2>4
<1> QED
  BY <1>3, <1>4

\* Advertising restarts where the clean-up is the next step of the loop.
LEMMA AdvertisingKeeps ==
  ASSUME PumpInd, ble_service_advertising
  PROVE  PumpInd'
<1> USE DEF PumpInd, PumpInv
<1>1. /\ main_pc.at = "adv" /\ main_pc' = [at |-> "cleanup", then |-> "pump"]
      /\ onAir' \in {onAir, onAir \/ ble = "down"}
      /\ UNCHANGED <<ble, link_gen, close, rx, tx, units, core, read, flash, drained>>
  BY DEF ble_service_advertising, coreVars
<1>2. onAir' \in BOOLEAN /\ (ble # "down" => ~onAir')
  BY <1>1 DEF PumpTypeOK, CloseComes
<1>3. Owners' = Owners
  BY <1>1 DEF Owners
<1>4. PumpTypeOK'
  BY <1>1, <1>2 DEF PumpTypeOK
<1>5. NotAhead' /\ UpToDate' /\ CloseComes' /\ Offered'
  BY <1>1, <1>2, <1>3 DEF NotAhead, UpToDate, CloseComes, Offered
<1>6. Places' /\ RepliesFit' /\ ReadIsWhole'
  BY <1>1 DEF Places, RepliesFit, ReadIsWhole
<1> QED
  BY <1>4, <1>5, <1>6

-----------------------------------------------------------------------------
(* The loop's other steps leave the link alone.                            *)

\* Steps that only move the loop on.
LEMMA MoveKeeps ==
  ASSUME PumpInd, UNCHANGED <<btVars, rx, tx, coreVars>>, PcTypeOK', Places', Offered',
         main_pc.at # "cleanup"
  PROVE  PumpInd'
<1> USE DEF PumpInd, PumpInv
<1>1. UNCHANGED <<rx, tx, units, core, read, flash>> /\ UNCHANGED btVars
  BY DEF coreVars
<1>2. PumpTypeOK'
  BY <1>1 DEF PumpTypeOK, PcTypeOK, btVars
<1>3. RepliesFit' /\ ReadIsWhole'
  BY <1>1 DEF RepliesFit, ReadIsWhole
<1>4. NotAhead' /\ UpToDate' /\ CloseComes'
  BY <1>1, SameFrom, LinkKeeps
<1> QED
  BY <1>2, <1>3, <1>4

\* The drain drops a reply whose connection is gone.
LEMMA TxGoneKeeps ==
  ASSUME PumpInd, TxGone
  PROVE  PumpInd'
<1> USE DEF PumpInd, PumpInv
<1>1. /\ main_pc.at = "tx" /\ tx # <<>> /\ tx' = Tail(tx)
      /\ UNCHANGED btVars /\ UNCHANGED <<rx, units, core, read, flash, main_pc, drained>>
  BY DEF TxGone, coreVars
<1>2. PICK s \in Seq(Gens) : s = tx
  BY DEF PumpTypeOK
<1>3. /\ Tail(s) \in Seq(Gens) /\ Len(Tail(s)) = Len(s) - 1 /\ Len(s) \in Nat
      /\ \A i \in 1 .. Len(Tail(s)) : \E j \in 1 .. Len(s) : Tail(s)[i] = s[j]
  BY <1>1, <1>2, TailFrom
<1>4. tx' \in Seq(Gens) /\ Len(tx') = Len(tx) - 1 /\ Len(tx) \in Nat /\ QueueFrom
  BY <1>1, <1>2, <1>3 DEF QueueFrom
<1>5. PumpTypeOK'
  BY <1>1, <1>4 DEF PumpTypeOK, btVars
<1>6. RepliesFit' /\ ReadIsWhole'
  BY <1>1, <1>4, PumpAssumption DEF RepliesFit, ReadIsWhole, PumpTypeOK
<1>7. Places' /\ Offered'
  BY <1>1 DEF Places, Offered
<1>8. NotAhead' /\ UpToDate' /\ CloseComes'
  BY <1>1, <1>4, SameFrom, LinkKeeps
<1> QED
  BY <1>5, <1>6, <1>7, <1>8

\* A reply of the current connection is offered while that connection is up,
\* so advertising is off, and stays off until the loop comes to restart it.
LEMMA TxOfferKeeps ==
  ASSUME PumpInd, TxOffer
  PROVE  PumpInd'
<1> USE DEF PumpInd, PumpInv
<1>1. /\ main_pc.at = "tx" /\ tx # <<>> /\ Head(tx) = link_gen
      /\ main_pc' = [main_pc EXCEPT !.at = "notify"]
      /\ UNCHANGED <<btVars, rx, tx, coreVars, drained>>
  BY DEF TxOffer, Goto, Live
<1>2. PcTypeOK' /\ main_pc'.at = "notify" /\ main_pc'.then = main_pc.then
  BY <1>1 DEF PcTypeOK, PumpTypeOK
<1>3. Places'
  BY <1>1, <1>2 DEF Places, coreVars
<1>4. ble = "up"
  <2>1. Head(tx) = tx[1] /\ 1 \in 1 .. Len(tx)
    BY <1>1 DEF PumpTypeOK
  <2> QED
    BY <1>1, <2>1 DEF UpToDate
<1>5. Offered'
  BY <1>1, <1>4 DEF Offered, CloseComes, btVars
<1> QED
  BY <1>1, <1>2, <1>3, <1>5, MoveKeeps

\* The stack takes the reply offered to it.
LEMMA TxSentKeeps ==
  ASSUME PumpInd, TxSent
  PROVE  PumpInd'
<1> USE DEF PumpInd, PumpInv
<1>1. /\ main_pc.at = "notify" /\ tx' = Tail(tx) /\ main_pc' = [main_pc EXCEPT !.at = "tx"]
      /\ UNCHANGED btVars /\ UNCHANGED <<rx, units, core, read, flash, drained>>
  BY DEF TxSent, coreVars, Goto
<1>2. PICK s \in Seq(Gens) : s = tx /\ s # <<>>
  BY <1>1 DEF PumpTypeOK, Offered
<1>3. /\ Tail(s) \in Seq(Gens) /\ Len(Tail(s)) = Len(s) - 1 /\ Len(s) \in Nat
      /\ \A i \in 1 .. Len(Tail(s)) : \E j \in 1 .. Len(s) : Tail(s)[i] = s[j]
  BY <1>2, TailFrom
<1>4. tx' \in Seq(Gens) /\ Len(tx') = Len(tx) - 1 /\ Len(tx) \in Nat /\ QueueFrom
  BY <1>1, <1>2, <1>3 DEF QueueFrom
<1>5. PcTypeOK' /\ main_pc'.at = "tx" /\ main_pc'.then = main_pc.then
  BY <1>1 DEF PcTypeOK, PumpTypeOK
<1>6. PumpTypeOK'
  BY <1>1, <1>4, <1>5 DEF PumpTypeOK, PcTypeOK, btVars
<1>7. RepliesFit' /\ ReadIsWhole'
  BY <1>1, <1>4, PumpAssumption DEF RepliesFit, ReadIsWhole, PumpTypeOK
<1>8. Places' /\ Offered'
  BY <1>1, <1>5 DEF Places, Offered
<1>9. NotAhead' /\ UpToDate' /\ CloseComes'
  BY <1>1, <1>4, SameFrom, LinkKeeps
<1> QED
  BY <1>6, <1>7, <1>8, <1>9

\* The drain gives way to what was recorded, or polls again.
LEMMA DrainEndsKeeps ==
  ASSUME PumpInd, TxRetry \/ TxDone
  PROVE  PumpInd'
<1> USE DEF PumpInd, PumpInv
<1>1. /\ main_pc.at \in {"tx", "notify"}
      /\ \/ main_pc' = [main_pc EXCEPT !.at = main_pc.then]
         \/ main_pc' = [main_pc EXCEPT !.at = "tx"]
      /\ UNCHANGED <<btVars, rx, tx, coreVars, drained>>
  BY DEF TxRetry, TxDone, Goto
<1>2. /\ PcTypeOK' /\ main_pc'.then = main_pc.then /\ main_pc'.at \in {main_pc.then, "tx"}
      /\ main_pc.then \in {"pump", "refresh", "adv"}
  BY <1>1 DEF PcTypeOK, PumpTypeOK
<1>3. Places' /\ Offered'
  BY <1>1, <1>2 DEF Places, Offered, coreVars
<1> QED
  BY <1>1, <1>2, <1>3, MoveKeeps

\* Step 3: the chunk is for the reader, if that is still connected.
LEMMA ReadPumpKeeps ==
  ASSUME PumpInd, od_config_read_pump
  PROVE  PumpInd'
<1> USE DEF PumpInd, PumpInv
<1>1. /\ main_pc.at = "pump" /\ main_pc' = [main_pc EXCEPT !.at = "discard"]
      /\ UNCHANGED btVars /\ UNCHANGED <<rx, units, core, flash, drained>>
  BY DEF od_config_read_pump, Goto
<1>2. PcTypeOK' /\ main_pc'.at = "discard" /\ main_pc'.then = main_pc.then
  BY <1>1 DEF PcTypeOK, PumpTypeOK
<1>3. CASE read.active /\ Len(tx) + units < TxCap
  <2>1. /\ Commit(read.tag)
        /\ \/ read' = NoRead
           \/ read.left # 1 /\ read' = [read EXCEPT !.left = @ - 1]
    BY <1>3 DEF od_config_read_pump
  <2>2. PICK r \in [active : BOOLEAN, tag : Owner, left : 0 .. Chunks,
                    blob : (0 .. 1) \X (0 .. 1)] : r = read
    BY DEF PumpTypeOK
  <2>3. r.left \in 1 .. Chunks /\ (r.left # 1 => r.left - 1 \in 1 .. Chunks)
    BY <1>3, <2>2, PumpAssumption DEF Places
  <2>4. /\ read' \in [active : BOOLEAN, tag : Owner, left : 0 .. Chunks,
                      blob : (0 .. 1) \X (0 .. 1)]
        /\ read'.active => read'.left \in 1 .. Chunks /\ read'.blob = read.blob
        /\ read'.tag \in {NoOwner, read.tag}
    <3>1. CASE read' = NoRead
      BY <3>1, NoneTyped DEF NoRead
    <3>2. CASE r.left # 1 /\ read' = [r EXCEPT !.left = r.left - 1]
      BY <2>2, <2>3, <3>2
    <3> QED
      BY <2>1, <2>2, <3>1, <3>2
  <2>5. tx' \in Seq(Gens) /\ Len(tx') \in Nat /\ Len(tx') <= Len(tx) + 1 /\ QueueFrom
    <3>1. CASE read.tag \in Gens
      <4>1. read.tag = link_gen => ble = "up"
        BY DEF UpToDate, Owners
      <4> QED
        BY <2>1, <3>1, <4>1, CommitFrom
    <3>2. CASE read.tag \notin Gens
      <4>1. tx' = tx
        BY <2>1, <3>2 DEF Commit, Live, PumpTypeOK
      <4> QED
        BY <4>1, SameFrom DEF PumpTypeOK
    <3> QED
      BY <3>1, <3>2
  <2>6. OwnersFrom
    BY <1>1, <2>4 DEF OwnersFrom, Owners
  <2>7. PumpTypeOK'
    BY <1>1, <1>2, <2>4, <2>5 DEF PumpTypeOK, PcTypeOK, btVars
  <2>8. RepliesFit'
    BY <1>1, <1>3, <2>5, PumpAssumption DEF RepliesFit, PumpTypeOK
  <2>9. ReadIsWhole'
    <3>1. read'.active => read'.blob = flash
      BY <1>3, <2>4 DEF ReadIsWhole
    <3> QED
      BY <1>1, <3>1 DEF ReadIsWhole
  <2>10. Places' /\ Offered'
    <3>1. read'.active => read'.left > 0
      BY <2>4
    <3> QED
      BY <1>1, <1>2, <3>1 DEF Places, Offered
  <2>11. NotAhead' /\ UpToDate' /\ CloseComes'
    BY <1>1, <2>5, <2>6, SameFrom, LinkKeeps
  <2> QED
    BY <2>7, <2>8, <2>9, <2>10, <2>11
<1>4. CASE ~(read.active /\ Len(tx) + units < TxCap)
  <2>1. UNCHANGED <<btVars, rx, tx, coreVars>> /\ UNCHANGED <<read, drained, units>>
    BY <1>1, <1>4 DEF od_config_read_pump, coreVars
  <2>2. Places' /\ Offered'
    BY <1>1, <1>2, <2>1 DEF Places, Offered
  <2> QED
    BY <1>1, <1>2, <2>1, <2>2, MoveKeeps
<1> QED
  BY <1>3, <1>4

\* A frame whose connection is gone leaves the ring undispatched.
LEMMA DiscardKeeps ==
  ASSUME PumpInd, Discard
  PROVE  PumpInd'
<1> USE DEF PumpInd, PumpInv
<1>1. /\ main_pc.at = "discard" /\ rx # <<>> /\ Take
      /\ UNCHANGED btVars /\ UNCHANGED <<tx, units, core, read, flash, main_pc, drained>>
  BY DEF Discard, coreVars
<1>2. rx' \in Seq(RxFrames) /\ Len(rx') <= RxCap /\ RingFrom
  BY <1>1, TakeFrom
<1>3. PumpTypeOK'
  BY <1>1, <1>2 DEF PumpTypeOK, RxFrames, btVars
<1>4. RepliesFit' /\ ReadIsWhole' /\ Places' /\ Offered'
  BY <1>1 DEF RepliesFit, ReadIsWhole, Places, Offered
<1>5. NotAhead' /\ UpToDate' /\ CloseComes'
  BY <1>1, <1>2, SameFrom, LinkKeeps
<1> QED
  BY <1>3, <1>4, <1>5

\* A frame is found and dispatched, deferred, or there is none.
LEMMA PeekKeeps ==
  ASSUME PumpInd, Peek \/ Defer
  PROVE  PumpInd'
<1> USE DEF PumpInd, PumpInv
<1>1. /\ main_pc.at \in {"discard", "dispatch"}
      /\ \/ rx # <<>> /\ main_pc.at = "discard" /\ main_pc' = [main_pc EXCEPT !.at = "recheck"]
         \/ main_pc' = [at |-> "tx", then |-> "adv"]
      /\ UNCHANGED <<btVars, rx, tx, coreVars, drained>>
  BY DEF Peek, Defer, Goto, DrainThen
<1>2. /\ PcTypeOK'
      /\ \/ rx # <<>> /\ main_pc'.at = "recheck" /\ main_pc'.then = main_pc.then
         \/ main_pc'.at = "tx" /\ main_pc'.then = "adv"
  BY <1>1 DEF PcTypeOK, PumpTypeOK
<1>3. Places' /\ Offered'
  BY <1>1, <1>2 DEF Places, Offered, coreVars
<1> QED
  BY <1>1, <1>2, <1>3, MoveKeeps

\* A frame leaves the ring and the turn ends, without an answer.
LEMMA DroppedKeeps ==
  ASSUME PumpInd, main_pc.at \in {"recheck", "dispatch"}, Take, NextTurn,
         UNCHANGED <<btVars, tx, coreVars>>
  PROVE  PumpInd'
<1> USE DEF PumpInd, PumpInv
<1>1. rx # <<>> /\ drained < MaxPass
  BY DEF Places
<1>2. UNCHANGED btVars /\ UNCHANGED <<tx, units, core, read, flash>>
  BY DEF coreVars
<1>3. rx' \in Seq(RxFrames) /\ Len(rx') <= RxCap /\ RingFrom
  BY <1>1, TakeFrom
<1>4. /\ PcTypeOK' /\ main_pc'.at = "tx" /\ main_pc'.then \in {"pump", "adv"}
      /\ main_pc'.then = "adv" \/ drained' < MaxPass
  BY <1>1, NextTurnPlaces
<1>5. PumpTypeOK'
  BY <1>2, <1>3, <1>4 DEF PumpTypeOK, RxFrames, PcTypeOK, btVars
<1>6. RepliesFit' /\ ReadIsWhole' /\ Places' /\ Offered'
  BY <1>2, <1>4 DEF RepliesFit, ReadIsWhole, Places, Offered
<1>7. NotAhead' /\ UpToDate' /\ CloseComes'
  BY <1>2, <1>3, SameFrom, LinkKeeps
<1> QED
  BY <1>5, <1>6, <1>7

\* A frame peeked is dispatched if its connection is still up, else dropped.
LEMMA RecheckKeeps ==
  ASSUME PumpInd, Recheck
  PROVE  PumpInd'
<1> USE DEF PumpInd, PumpInv
<1>1. CASE Live(Head(rx).tag)
  <2>1. /\ main_pc.at = "recheck" /\ main_pc' = [main_pc EXCEPT !.at = "dispatch"]
        /\ UNCHANGED <<btVars, rx, tx, coreVars, drained>>
    BY <1>1 DEF Recheck, Goto
  <2>2. PcTypeOK' /\ main_pc'.at = "dispatch" /\ main_pc'.then = main_pc.then
    BY <2>1 DEF PcTypeOK, PumpTypeOK
  <2>3. Places' /\ Offered'
    BY <2>1, <2>2 DEF Places, Offered, coreVars
  <2> QED
    BY <2>1, <2>2, <2>3, MoveKeeps
<1>2. CASE ~Live(Head(rx).tag)
  BY <1>2, DroppedKeeps DEF Recheck
<1> QED
  BY <1>1, <1>2

\* The dispatcher drops a frame whose connection went after the recheck.
LEMMA StaleTagKeeps ==
  ASSUME PumpInd, StaleTag
  PROVE  PumpInd'
BY DroppedKeeps DEF StaleTag

\* The session times out at any moment.
LEMMA SessionExpiresKeeps ==
  ASSUME PumpInd, SessionExpires
  PROVE  PumpInd'
<1> USE DEF PumpInd, PumpInv
<1>1. /\ core' = [core EXCEPT !.sess = NoOwner] /\ UNCHANGED btVars
      /\ UNCHANGED <<rx, tx, units, read, flash, main_pc, drained>>
  BY DEF SessionExpires
<1>2. NoOwner \in Owner
  BY DEF Owner
<1>3. /\ core' \in [sess : Owner, xfer : Owner, asm : Owner]
      /\ core'.sess = NoOwner /\ core'.xfer = core.xfer /\ core'.asm = core.asm
  BY <1>1, <1>2 DEF PumpTypeOK
<1>4. OwnersFrom
  BY <1>1, <1>3 DEF OwnersFrom, Owners
<1>5. PumpTypeOK'
  BY <1>1, <1>3 DEF PumpTypeOK, btVars
<1>6. RepliesFit' /\ ReadIsWhole' /\ Places' /\ Offered'
  BY <1>1 DEF RepliesFit, ReadIsWhole, Places, Offered, btVars
<1>7. NotAhead' /\ UpToDate' /\ CloseComes'
  BY <1>1, <1>4, SameFrom, LinkKeeps
<1> QED
  BY <1>5, <1>6, <1>7

-----------------------------------------------------------------------------
(* The handlers.                                                           *)

\* What a handler may make of the core: owners are nobody, those there were,
\* or the sender, and a read it leaves running is of the stored blob.
CoreFrom ==
  /\ CoreTypeOK'
  /\ core'.sess \in {core.sess, NoOwner, link_gen}
  /\ core'.xfer \in {core.xfer, NoOwner, link_gen}
  /\ core'.asm \in {core.asm, NoOwner, link_gen}
  /\ read'.tag \in {read.tag, link_gen}
  /\ read'.active => read'.left > 0 /\ read'.blob = flash'

\* A handler that was let in and answers once.
LEMMA AnsweredKeeps ==
  ASSUME PumpInd, NEW op \in Ops, Admit(op), Answered(link_gen), CoreFrom
  PROVE  PumpInd'
<1> USE DEF PumpInd, PumpInv
<1>1. /\ main_pc.at = "dispatch" /\ Live(Head(rx).tag)
      /\ ~(Len(tx) + units + od_dispatch_budget(op) > TxCap)
      /\ Commit(link_gen) /\ Take /\ NextTurn /\ UNCHANGED btVars /\ units' = units
  BY DEF Admit, Dispatching, NoRoom, Answered
<1>2. rx # <<>> /\ drained < MaxPass
  BY <1>1 DEF Places
<1>3. ble = "up"
  BY <1>1, <1>2, HeadIsUp
<1>4. rx' \in Seq(RxFrames) /\ Len(rx') <= RxCap /\ RingFrom
  BY <1>1, <1>2, TakeFrom
<1>5. tx' \in Seq(Gens) /\ Len(tx') \in Nat /\ Len(tx') <= Len(tx) + 1 /\ QueueFrom
  BY <1>1, <1>3, CommitFrom DEF PumpTypeOK
<1>6. /\ PcTypeOK' /\ main_pc'.at = "tx" /\ main_pc'.then \in {"pump", "adv"}
      /\ main_pc'.then = "adv" \/ drained' < MaxPass
  BY <1>1, <1>2, NextTurnPlaces
<1>7. OwnersFrom
  BY <1>3 DEF CoreFrom, OwnersFrom, Owners
<1>8. PumpTypeOK'
  BY <1>1, <1>4, <1>5, <1>6 DEF PumpTypeOK, CoreFrom, CoreTypeOK, RxFrames, PcTypeOK, btVars
<1>9. RepliesFit'
  <2>1. od_dispatch_budget(op) \in {1, 2}
    BY DEF od_dispatch_budget
  <2>2. Len(tx) \in Nat
    BY DEF PumpTypeOK
  <2> QED
    BY <1>1, <1>5, <2>1, <2>2, PumpAssumption DEF RepliesFit, PumpTypeOK
<1>10. ReadIsWhole' /\ Places' /\ Offered'
  BY <1>1, <1>6 DEF CoreFrom, ReadIsWhole, Places, Offered
<1>11. NotAhead' /\ UpToDate' /\ CloseComes'
  BY <1>1, <1>4, <1>5, <1>7, LinkKeeps
<1> QED
  BY <1>8, <1>9, <1>10, <1>11

\* The frame a handler is given: its tag is the current connection's.
LEMMA SenderIsUp ==
  ASSUME PumpInd, NEW op, Admit(op)
  PROVE  Head(rx).tag = link_gen /\ link_gen \in Owner /\ link_gen \in Gens
<1>1. rx # <<>> /\ Live(Head(rx).tag)
  BY DEF Admit, Dispatching, PumpInd, Places
<1> QED
  BY <1>1 DEF Live, PumpInd, PumpInv, PumpTypeOK, Owner

\* A frame the dispatcher admits is of a kind the peer sends.
LEMMA AdmittedOp ==
  ASSUME PumpInd, NEW op, Admit(op)
  PROVE  op \in Ops
<1>1. rx # <<>> /\ Head(rx).op = op
  BY DEF Admit, Dispatching, PumpInd, Places
<1>2. Head(rx) \in RxFrames
  BY <1>1, TypeParts DEF PumpInd, PumpInv
<1> QED
  BY <1>1, <1>2 DEF RxFrames

\* A handler that leaves the read and the stored configuration alone.
LEMMA CoreOnly ==
  ASSUME PumpInd, UNCHANGED <<read, flash>>, NEW s \in {core.sess, NoOwner, link_gen},
         NEW x \in {core.xfer, NoOwner, link_gen}, NEW a \in {core.asm, NoOwner, link_gen},
         core' = [sess |-> s, xfer |-> x, asm |-> a]
  PROVE  CoreFrom
<1> USE DEF PumpInd, PumpInv
<1>1. s \in Owner /\ x \in Owner /\ a \in Owner
  BY DEF PumpTypeOK, Owner
<1>2. CoreTypeOK'
  BY <1>1 DEF PumpTypeOK, CoreTypeOK
<1> QED
  BY <1>2 DEF CoreFrom, Places, ReadIsWhole

\* The core's owners, field by field.
LEMMA CoreFields ==
  ASSUME PumpInd
  PROVE  /\ core = [sess |-> core.sess, xfer |-> core.xfer, asm |-> core.asm]
         /\ \A o : /\ [core EXCEPT !.sess = o] = [sess |-> o, xfer |-> core.xfer, asm |-> core.asm]
                   /\ [core EXCEPT !.xfer = o] = [sess |-> core.sess, xfer |-> o, asm |-> core.asm]
                   /\ [core EXCEPT !.asm = o] = [sess |-> core.sess, xfer |-> core.xfer, asm |-> o]
BY DEF PumpInd, PumpInv, PumpTypeOK

\* An authentication frame: the session is its sender's or stays as it was.
LEMMA AuthenticateKeeps ==
  ASSUME PumpInd, od_gate_authenticate
  PROVE  PumpInd'
<1>1. /\ Admit("auth") /\ Answered(link_gen) /\ UNCHANGED <<read, flash>>
      /\ \E owner \in {Head(rx).tag, core.sess} : core' = [core EXCEPT !.sess = owner]
  BY DEF od_gate_authenticate
<1>2. Head(rx).tag = link_gen
  BY <1>1, SenderIsUp
<1>3. PICK owner \in {link_gen, core.sess} :
        core' = [sess |-> owner, xfer |-> core.xfer, asm |-> core.asm]
  BY <1>1, <1>2, CoreFields
<1>4. CoreFrom
  BY <1>1, <1>3, CoreOnly
<1>5. "auth" \in Ops
  BY <1>1, AdmittedOp
<1> QED
  BY <1>1, <1>4, <1>5, AnsweredKeeps

\* A protected command without a session is only answered.
LEMMA AuthRequiredKeeps ==
  ASSUME PumpInd, AuthRequired
  PROVE  PumpInd'
<1>1. PICK op \in Ops : Admit(op)
  BY DEF AuthRequired
<1>2. Answered(link_gen) /\ UNCHANGED <<core, read, flash>>
  BY DEF AuthRequired
<1>3. CoreFrom
  BY <1>2, CoreFields, CoreOnly
<1> QED
  BY <1>1, <1>2, <1>3, AnsweredKeeps

\* A data frame: the transfer is its sender's, or over.
LEMMA DataKeeps ==
  ASSUME PumpInd, od_xfer_data
  PROVE  PumpInd'
<1>1. /\ Admit("data") /\ Answered(link_gen) /\ UNCHANGED <<read, flash>>
      /\ \E owner \in {Head(rx).tag, NoOwner} : core' = [core EXCEPT !.xfer = owner]
  BY DEF od_xfer_data, Protected
<1>2. Head(rx).tag = link_gen
  BY <1>1, SenderIsUp
<1>3. PICK owner \in {link_gen, NoOwner} :
        core' = [sess |-> core.sess, xfer |-> owner, asm |-> core.asm]
  BY <1>1, <1>2, CoreFields
<1>4. CoreFrom
  BY <1>1, <1>3, CoreOnly
<1>5. "data" \in Ops
  BY <1>1, AdmittedOp
<1> QED
  BY <1>1, <1>4, <1>5, AnsweredKeeps

\* A chunk of a configuration: the assembly is its sender's, or over.
LEMMA ChunkKeeps ==
  ASSUME PumpInd, od_cmd_app_config_chunk
  PROVE  PumpInd'
<1>1. /\ Admit("chunk") /\ Answered(link_gen) /\ UNCHANGED <<read, flash>>
      /\ \E owner \in {Head(rx).tag, NoOwner} : core' = [core EXCEPT !.asm = owner]
  BY DEF od_cmd_app_config_chunk, Protected
<1>2. Head(rx).tag = link_gen
  BY <1>1, SenderIsUp
<1>3. PICK owner \in {link_gen, NoOwner} :
        core' = [sess |-> core.sess, xfer |-> core.xfer, asm |-> owner]
  BY <1>1, <1>2, CoreFields
<1>4. CoreFrom
  BY <1>1, <1>3, CoreOnly
<1>5. "chunk" \in Ops
  BY <1>1, AdmittedOp
<1> QED
  BY <1>1, <1>4, <1>5, AnsweredKeeps

\* A read is begun only when none runs, and takes the blob it loads.
LEMMA ConfigReadKeeps ==
  ASSUME PumpInd, od_cmd_app_config_read
  PROVE  PumpInd'
<1> USE DEF PumpInd, PumpInv
<1>1. /\ Admit("read") /\ Answered(link_gen) /\ core' = core
      /\ \/ /\ flash' = <<flash[1], 1 - flash[2]>>
            /\ read' = IF read.active \/ Chunks = 1 THEN read
                       ELSE [active |-> TRUE, tag |-> Head(rx).tag, left |-> Chunks - 1,
                             blob |-> flash']
         \/ UNCHANGED <<flash, read>>
  BY DEF od_cmd_app_config_read, Protected
<1>2. Head(rx).tag = link_gen /\ link_gen \in Owner /\ ~read.active
  BY <1>1, SenderIsUp DEF Admit, Conflict
<1>3. CASE UNCHANGED <<flash, read>>
  BY <1>1, <1>3, CoreFields, CoreOnly, AdmittedOp, AnsweredKeeps
<1>4. CASE /\ flash' = <<flash[1], 1 - flash[2]>>
           /\ read' = IF read.active \/ Chunks = 1 THEN read
                      ELSE [active |-> TRUE, tag |-> Head(rx).tag, left |-> Chunks - 1,
                            blob |-> flash']
  <2>1. flash' \in (0 .. 1) \X (0 .. 1)
    <3>1. flash[1] \in 0 .. 1 /\ flash[2] \in 0 .. 1
      BY DEF PumpTypeOK
    <3>2. 1 - flash[2] \in 0 .. 1
      BY <3>1
    <3> QED
      BY <1>4, <3>1, <3>2
  <2>2. Chunks - 1 \in 0 .. Chunks /\ (Chunks # 1 => Chunks - 1 > 0)
    BY PumpAssumption
  <2>3. /\ read' \in [active : BOOLEAN, tag : Owner, left : 0 .. Chunks,
                      blob : (0 .. 1) \X (0 .. 1)]
        /\ read'.tag \in {read.tag, link_gen}
        /\ read'.active => read'.left > 0 /\ read'.blob = flash'
    <3>1. CASE Chunks = 1
      BY <1>2, <1>4, <3>1 DEF PumpTypeOK
    <3>2. CASE Chunks # 1
      <4>1. read' = [active |-> TRUE, tag |-> link_gen, left |-> Chunks - 1, blob |-> flash']
        BY <1>2, <1>4, <3>2
      <4> QED
        BY <1>2, <2>1, <2>2, <3>2, <4>1
    <3> QED
      BY <3>1, <3>2
  <2>4. CoreFrom
    BY <1>1, <2>1, <2>3 DEF CoreFrom, CoreTypeOK, PumpTypeOK
  <2> QED
    BY <1>1, <2>4, AdmittedOp, AnsweredKeeps
<1> QED
  BY <1>1, <1>3, <1>4

\* The stored configuration changes only when no read runs.
LEMMA SaveKeeps ==
  ASSUME PumpInd, Save
  PROVE  PumpInd'
<1> USE DEF PumpInd, PumpInv
<1>1. /\ Admit("save") /\ Answered(link_gen) /\ read' = read
      /\ flash' = <<1 - flash[1], flash[2]>> \/ flash' = flash
      /\ \E asm \in {NoOwner, core.asm} :
            core' \in {[core EXCEPT !.sess = NoOwner, !.asm = asm], core, [core EXCEPT !.asm = asm]}
  BY DEF Save, Protected
<1>2. ~read.active
  BY <1>1 DEF Admit, Conflict, od_cmd_mutates_config
<1>3. flash' \in (0 .. 1) \X (0 .. 1)
  <2>1. flash[1] \in 0 .. 1 /\ flash[2] \in 0 .. 1 /\ flash \in (0 .. 1) \X (0 .. 1)
    BY DEF PumpTypeOK
  <2>2. 1 - flash[1] \in 0 .. 1
    BY <2>1
  <2> QED
    BY <1>1, <2>1, <2>2
<1>4. /\ core' \in [sess : Owner, xfer : Owner, asm : Owner]
      /\ core'.sess \in {core.sess, NoOwner} /\ core'.xfer = core.xfer
      /\ core'.asm \in {core.asm, NoOwner}
  <2>1. PICK asm \in {NoOwner, core.asm} :
          core' \in {[core EXCEPT !.sess = NoOwner, !.asm = asm], core, [core EXCEPT !.asm = asm]}
    BY <1>1
  <2>2. asm \in Owner /\ NoOwner \in Owner
    BY DEF PumpTypeOK, Owner
  <2> QED
    BY <2>1, <2>2 DEF PumpTypeOK
<1>5. CoreFrom
  BY <1>1, <1>2, <1>3, <1>4 DEF CoreFrom, CoreTypeOK, PumpTypeOK
<1> QED
  BY <1>1, <1>5, AdmittedOp, AnsweredKeeps

\* END of a transfer: two units are reserved, one is spent on the
\* acknowledgement and one is kept.
LEMMA EndBeginKeeps ==
  ASSUME PumpInd, EndBegin
  PROVE  PumpInd'
<1> USE DEF PumpInd, PumpInv
<1>1. /\ main_pc.at = "dispatch" /\ Live(Head(rx).tag) /\ UNCHANGED <<btVars, core, read, flash>>
      /\ ~(Len(tx) + units + 2 > TxCap)
  BY DEF EndBegin, Protected, Admit, Dispatching, NoRoom, od_dispatch_budget
<1>2. CASE core.xfer = Head(rx).tag
  <2>1. /\ Commit(link_gen) /\ units' = 1 /\ main_pc' = [at |-> "tx", then |-> "refresh"]
        /\ UNCHANGED btVars /\ UNCHANGED <<rx, core, read, flash, drained>>
    BY <1>1, <1>2 DEF EndBegin, DrainThen, od_dispatch_budget
  <2>2. rx # <<>> /\ drained < MaxPass
    BY <1>1 DEF Places
  <2>3. ble = "up"
    BY <1>1, <2>2, HeadIsUp
  <2>4. tx' \in Seq(Gens) /\ Len(tx') \in Nat /\ Len(tx') <= Len(tx) + 1 /\ QueueFrom
    BY <2>1, <2>3, CommitFrom DEF PumpTypeOK
  <2>5. PcTypeOK' /\ main_pc'.at = "tx" /\ main_pc'.then = "refresh"
    BY <2>1 DEF PcTypeOK, PumpTypeOK
  <2>6. PumpTypeOK'
    BY <2>1, <2>4, <2>5 DEF PumpTypeOK, PcTypeOK, btVars
  <2>7. RepliesFit'
    <3>1. Len(tx) \in Nat /\ units \in Nat /\ TxCap \in Nat
      BY PumpAssumption DEF PumpTypeOK
    <3> QED
      BY <1>1, <2>1, <2>4, <3>1 DEF RepliesFit
  <2>8. ReadIsWhole' /\ Places' /\ Offered'
    BY <2>1, <2>2, <2>5 DEF ReadIsWhole, Places, Offered
  <2>9. NotAhead' /\ UpToDate' /\ CloseComes'
    BY <1>1, <2>1, <2>4, SameFrom, LinkKeeps
  <2> QED
    BY <2>6, <2>7, <2>8, <2>9
<1>3. CASE core.xfer # Head(rx).tag
  BY <1>1, <1>3, DroppedKeeps DEF EndBegin, coreVars
<1> QED
  BY <1>2, <1>3

\* The refresh is over: the unit kept is spent on the status, if the sender is
\* still there.
LEMMA EndFinishKeeps ==
  ASSUME PumpInd, EndFinish
  PROVE  PumpInd'
<1> USE DEF PumpInd, PumpInv
<1>1. /\ main_pc.at = "refresh" /\ core' = [core EXCEPT !.xfer = NoOwner] /\ Commit(Head(rx).tag)
      /\ units' = 0 /\ Take /\ NextTurn /\ UNCHANGED btVars /\ UNCHANGED <<read, flash>>
  BY DEF EndFinish
<1>2. rx # <<>> /\ drained < MaxPass /\ units = 1
  BY <1>1 DEF Places
<1>3. Head(rx).tag \in Gens /\ (Head(rx).tag = link_gen => ble = "up")
  <2>1. Head(rx) = rx[1] /\ 1 \in 1 .. Len(rx) /\ Head(rx) \in RxFrames
    BY <1>2, TypeParts
  <2> QED
    BY <2>1 DEF UpToDate, RxFrames
<1>4. rx' \in Seq(RxFrames) /\ Len(rx') <= RxCap /\ RingFrom
  BY <1>1, <1>2, TakeFrom
<1>5. tx' \in Seq(Gens) /\ Len(tx') \in Nat /\ Len(tx') <= Len(tx) + 1 /\ QueueFrom
  BY <1>1, <1>3, CommitFrom
<1>6. /\ PcTypeOK' /\ main_pc'.at = "tx" /\ main_pc'.then \in {"pump", "adv"}
      /\ main_pc'.then = "adv" \/ drained' < MaxPass
  BY <1>1, <1>2, NextTurnPlaces
<1>7. core' = [sess |-> core.sess, xfer |-> NoOwner, asm |-> core.asm]
  BY <1>1, CoreFields
<1>8. CoreFrom
  BY <1>1, <1>7, CoreOnly
<1>9. OwnersFrom
  BY <1>1, <1>7 DEF OwnersFrom, Owners
<1>10. PumpTypeOK'
  BY <1>1, <1>4, <1>5, <1>6, <1>8 DEF PumpTypeOK, CoreFrom, CoreTypeOK, RxFrames, PcTypeOK, btVars
<1>11. RepliesFit'
  <2>1. Len(tx) \in Nat /\ TxCap \in Nat
    BY PumpAssumption DEF PumpTypeOK
  <2> QED
    BY <1>1, <1>2, <1>5, <2>1 DEF RepliesFit
<1>12. ReadIsWhole' /\ Places' /\ Offered'
  BY <1>1, <1>6, <1>8 DEF CoreFrom, ReadIsWhole, Places, Offered
<1>13. NotAhead' /\ UpToDate' /\ CloseComes'
  BY <1>1, <1>4, <1>5, <1>9, LinkKeeps
<1> QED
  BY <1>10, <1>11, <1>12, <1>13

-----------------------------------------------------------------------------

\* The state before the first connection.
LEMMA PumpInitially == PumpInit => PumpInd
<1> SUFFICES ASSUME PumpInit PROVE PumpInd
  OBVIOUS
<1>1. /\ link_gen \in Gens /\ units \in 0 .. 1 /\ flash \in (0 .. 1) \X (0 .. 1)
      /\ drained \in 0 .. MaxPass /\ Len(rx) = 0 /\ Len(tx) = 0 /\ Len(rx) <= RxCap
      /\ rx \in Seq(RxFrames) /\ tx \in Seq(Gens)
  BY PumpAssumption DEF PumpInit, Gens
<1>2. CoreTypeOK /\ Owners = {NoOwner} /\ ~read.active
  BY <1>1, NoneTyped DEF PumpInit, CoreTypeOK, Owners, Nobody, NoRead
<1>3. PcTypeOK /\ main_pc.at = "cleanup" /\ main_pc.then = "pump"
  BY <1>1 DEF PumpInit, PcTypeOK
<1>4. PumpTypeOK
  BY <1>1, <1>2, <1>3, TypeParts DEF PumpInit
<1>5. link_gen # NoOwner
  BY PumpAssumption DEF PumpInit
<1>6. RepliesFit /\ ReadIsWhole /\ Places
  BY <1>1, <1>2, <1>3, PumpAssumption DEF PumpInit, RepliesFit, ReadIsWhole, Places
<1>7. NotAhead /\ UpToDate /\ CloseComes /\ Offered
  BY <1>1, <1>2, <1>3, <1>5 DEF PumpInit, NotAhead, UpToDate, CloseComes, Offered
<1> QED
  BY <1>4, <1>6, <1>7 DEF PumpInd, PumpInv

\* Every step of the two threads keeps PumpInd.
LEMMA PumpStep == PumpInd /\ [PumpNext]_pumpVars => PumpInd'
<1> SUFFICES ASSUME PumpInd, [PumpNext]_pumpVars PROVE PumpInd'
  OBVIOUS
<1>1. CASE Handler
  BY <1>1, AuthenticateKeeps, AuthRequiredKeeps, DataKeeps, ConfigReadKeeps, SaveKeeps, ChunkKeeps,
     EndBeginKeeps, EndFinishKeeps DEF Handler
<1>2. CASE Main
  BY <1>1, <1>2, CleanupKeeps, TxGoneKeeps, TxOfferKeeps, TxSentKeeps, DrainEndsKeeps,
     ReadPumpKeeps, DiscardKeeps, PeekKeeps, RecheckKeeps, StaleTagKeeps, AdvertisingKeeps DEF Main
<1>3. CASE BtThread
  BY <1>3, ConnectedKeeps, OnWriteKeeps, CloseGenKeeps, CloseMarkKeeps DEF BtThread
<1>4. CASE SessionExpires
  BY <1>4, SessionExpiresKeeps
<1>5. CASE UNCHANGED pumpVars
  <2>1. UNCHANGED <<ble, onAir, link_gen, close, rx, tx, units, core, read, flash, main_pc, drained>>
    BY <1>5 DEF pumpVars, btVars, coreVars
  <2>2. PumpTypeOK' /\ RepliesFit' /\ ReadIsWhole' /\ Places' /\ Offered'
    BY <2>1 DEF PumpInd, PumpInv, PumpTypeOK, RepliesFit, ReadIsWhole, Places, Offered
  <2>3. NotAhead' /\ UpToDate' /\ CloseComes'
    BY <2>1, SameFrom, LinkKeeps DEF btVars
  <2> QED
    BY <2>2, <2>3 DEF PumpInd, PumpInv
<1> QED
  BY <1>2, <1>3, <1>4, <1>5 DEF PumpNext

\* PumpInd holds throughout.
LEMMA PumpIndHolds == PumpSpec => []PumpInd
BY PumpInitially, PumpStep, PTL DEF PumpSpec

\* For every ring and queue size, every length of a read and every number of
\* reconnections: no handler meets state of an earlier connection, a read-back
\* is of one configuration, and every promised reply has its place, however
\* the two threads interleave (opendisplay_pipe.c, od_dispatch.c).
THEOREM NothingInherited == PumpSpec => []PumpSafe
<1>1. PumpInd => PumpSafe
  <2> SUFFICES ASSUME PumpInd, main_pc.at = "dispatch", Live(Head(rx).tag)
               PROVE  \A o \in Owners : o \in {NoOwner, Head(rx).tag}
    BY DEF PumpInd, PumpSafe, NoInheritance, Owners
  <2>1. rx # <<>>
    BY DEF PumpInd, Places
  <2> QED
    BY <2>1, HeadIsUp
<1> QED
  BY PumpIndHolds, <1>1, PTL

\* A reply leaves only on the connection that asked, although it is checked in
\* one step and sent in another and the link may drop and come back in between
\* (od_txq_process, ble_notify).
THEOREM RepliesReachTheAsker == PumpSpec => DeliveredToAsker
<1>1. PumpInd /\ [PumpNext]_pumpVars => [TxSent => Head(tx) = link_gen]_pumpVars
  BY DEF PumpInd, Offered, TxSent
<1> QED
  BY PumpIndHolds, <1>1, PTL DEF PumpSpec, DeliveredToAsker
=============================================================================
