-------------------------------- MODULE Pipe --------------------------------
(***************************************************************************)
(* The PIPE command machine of shared/core/od_pipe.c: negotiation at 0x80, *)
(* the reorder ring and the selective acknowledgements at 0x81, the        *)
(* completeness test at 0x82.  The chunks of one image are numbered        *)
(* 0..Chunks-1 and every chunk carries one unit of the image; on the wire  *)
(* a chunk is known by its number modulo SeqMod (a uint8_t).               *)
(*                                                                         *)
(* The client is external.  It keeps to the protocol: it never sends past  *)
(* the window that starts at its first unacknowledged chunk and sends END  *)
(* only when every chunk is acknowledged.  A frame can be lost before the  *)
(* handler sees it (a full RX ring); what it then resends arrives out of   *)
(* order or twice.  SACKs return in order, with delay.                     *)
(*                                                                         *)
(* What a completed stream does to the panel is in module Transfer.        *)
(***************************************************************************)
EXTENDS Integers, Sequences, FiniteSets, FiniteSetsExt

CONSTANTS
    SeqMod,         \* values of the sequence byte (256)
    OD_PIPE_MAX_W,  \* largest window (32; 16 on the small-DRAM boards)
    MaskBits,       \* PIPE_ACK_MASK_BITS (32)
    Chunks,         \* chunks of the image
    ReqWindows,     \* windows a client asks for
    ReqCadences,    \* ACK cadences a client asks for
    Kinds,          \* subset of {"raw", "zlib", "partial"}
    FaultSets,      \* the environments: each a set of what may go wrong (faults)
    Eager,          \* TRUE: the client may send any chunk of its window at any time
    MaxLoss,        \* bound: frames the link loses
    MaxStarts,      \* bound: START commands
    MaxSacks        \* bound: SACKs under way (the handler's reserved reply room)

OD_PIPE_REORDER_SLOTS == OD_PIPE_MAX_W + 1

ASSUME PipeConstants ==
    /\ SeqMod \in Nat /\ OD_PIPE_MAX_W \in 1..MaskBits /\ MaskBits < SeqMod
    /\ Chunks \in Nat \ {0}
    /\ ReqWindows \subseteq Nat /\ ReqCadences \subseteq Nat
    /\ Kinds \subseteq {"raw", "zlib", "partial"}
    /\ \A f \in FaultSets : f \subseteq {"reply", "sink", "header", "frame", "end"}

VARIABLES
    mode,     \* "idle", "open" (OD_XFER_PIPE_*), "fatal" (OD_XFER_FATAL), "done"
    kind,     \* what the open stream is
    window, ack_every,                           \* negotiated
    expected_seq, has_received, highest_seen, received_count,
    frames_since_ack, ooo_acks_since_gap, gap_open, queued_count,
    reorder,  \* [slot -> Empty or a stored frame]
    written,  \* the image as it reached the panel: a sequence of chunks
    acked,    \* client: the chunks it has been told are received
    next,     \* client: the first chunk it has not sent yet
    sacks,    \* SACKs under way to the client
    lost, starts,
    faults    \* what may go wrong here: a "reply" or the panel ("sink") fails under a
              \* handler, the client sends a bad "header", a "frame" of the wrong size
              \* or beyond every window, or an "end" too early

device == <<mode, kind, window, ack_every, expected_seq, has_received, highest_seen,
            received_count, frames_since_ack, ooo_acks_since_gap, gap_open,
            queued_count, reorder, written>>
client == <<acked, next>>
pipeVars == <<device, client, sacks, lost, starts, faults>>

Empty == [seq |-> -1, chunk |-> -1]
SlotIds == 0..(OD_PIPE_REORDER_SLOTS - 1)

Fresh ==
    /\ expected_seq = 0 /\ has_received = FALSE /\ highest_seen = 0
    /\ received_count = 0 /\ frames_since_ack = 0 /\ ooo_acks_since_gap = 0
    /\ gap_open = FALSE /\ queued_count = 0
    /\ reorder = [i \in SlotIds |-> Empty]

PipeInit ==
    /\ mode = "idle" /\ kind = "raw" /\ window = 0 /\ ack_every = 0
    /\ Fresh
    /\ written = <<>>
    /\ acked = {} /\ next = 0 /\ sacks = <<>> /\ lost = 0 /\ starts = 0
    /\ faults \in FaultSets

(* memset of s_pipe and s_reorder. *)
od_pipe_reset_state ==
    /\ expected_seq' = 0 /\ has_received' = FALSE /\ highest_seen' = 0
    /\ received_count' = 0 /\ frames_since_ack' = 0 /\ ooo_acks_since_gap' = 0
    /\ gap_open' = FALSE /\ queued_count' = 0
    /\ reorder' = [i \in SlotIds |-> Empty]

U8(n) == n % SeqMod
Lesser(a, b) == IF a < b THEN a ELSE b
Clamp(n, top) == IF n = 0 THEN 1 ELSE Lesser(n, top)

pipe_slot(seq) == seq % OD_PIPE_REORDER_SLOTS
Holds(ring, seq) == ring[pipe_slot(seq)].seq = seq

(***************************************************************************)
(* SACKs                                                                   *)
(***************************************************************************)

(* Consumed lately, or waiting in its slot. *)
pipe_chunk_received(exp, count, ring, seq) ==
    \/ U8(exp - 1 - seq) < Lesser(count, MaskBits)
    \/ Holds(ring, seq)

(* The acknowledgement of a state: the highest frame seen and, below it,   *)
(* the set bits of the mask.                                               *)
pipe_build_sack(has, high, exp, count, ring) ==
    LET top == IF has THEN high ELSE U8(exp - 1)
    IN  [highest |-> top,
         mask |-> {i \in 0..(MaskBits - 1) :
                     pipe_chunk_received(exp, count, ring, U8(top - 1 - i))}]

HighestAfter(seq) ==
    LET fwd == U8(seq - highest_seen)
    IN  IF ~has_received \/ (fwd # 0 /\ fwd <= MaskBits) THEN seq ELSE highest_seen

pipe_update_highest(seq) ==
    /\ has_received' = TRUE
    /\ highest_seen' = HighestAfter(seq)

(* A SACK is due: it goes out and restarts both cadences, or its reply     *)
(* fails and the transfer is lost.                                         *)
pipe_sack_or_fatal ==
    /\ frames_since_ack' = 0 /\ ooo_acks_since_gap' = 0
    /\ \/ /\ mode' = "open"
          /\ sacks' = Append(sacks, pipe_build_sack(has_received', highest_seen',
                                expected_seq', received_count', reorder'))
       \/ "reply" \in faults /\ mode' = "fatal" /\ UNCHANGED sacks

NoSack == mode' = "open" /\ UNCHANGED sacks

(***************************************************************************)
(* 0x80                                                                    *)
(***************************************************************************)

(* A refused header, size or region and an ACK that cannot be queued leave *)
(* no transfer; a panel that does not come up after the ACK, a fatal one.  *)
StartOutcome ==
    \/ mode' = "open"
    \/ {"header", "reply"} \cap faults # {} /\ mode' = "idle"
    \/ "sink" \in faults /\ mode' = "fatal"

(* Negotiation: window and cadence are clamped to what the build allows    *)
(* and the cadence to the window, zero standing for one.  A START replaces *)
(* whatever was open; the client forgets the acknowledgements of the old   *)
(* transfer.                                                               *)
od_pipe_start(w, n, k) ==
    /\ starts < MaxStarts
    /\ starts' = starts + 1
    /\ StartOutcome
    /\ kind' = k
    /\ window' = Clamp(w, OD_PIPE_MAX_W)
    /\ ack_every' = Lesser(Clamp(n, OD_PIPE_MAX_W), window')
    /\ od_pipe_reset_state
    /\ written' = <<>>
    /\ acked' = {} /\ next' = 0 /\ sacks' = <<>>
    /\ UNCHANGED <<lost, faults>>

(***************************************************************************)
(* 0x81                                                                    *)
(***************************************************************************)

Shape == UNCHANGED <<kind, window, ack_every>>

od_xfer_pipe_complete(n) == n = Chunks

(* The stream is whole: END is acknowledged, the panel refreshed, the      *)
(* state cleared.  A failure on the way leaves no transfer either.         *)
pipe_finish ==
    /\ od_pipe_reset_state
    /\ \/ mode' = "done"
       \/ {"reply", "sink"} \cap faults # {} /\ mode' = "idle"

(* How many frames the drain loop takes from the ring after `seq'.         *)
Successors(seq) ==
    Max({n \in 0..OD_PIPE_REORDER_SLOTS :
            \A i \in 1..n : Holds(reorder, U8(seq + i))})

MutDrained(seq, n) ==
    [s \in SlotIds |-> IF \E i \in 2..n : s = pipe_slot(U8(seq + i)) THEN Empty
                                                                    ELSE reorder[s]]

(* The ring without the n frames that follow seq. *)
Drained(seq, n) ==
    [s \in SlotIds |-> IF \E i \in 1..n : s = pipe_slot(U8(seq + i)) THEN Empty
                                                                    ELSE reorder[s]]

(* The frame the stream waits for.  It and the stored frames that follow   *)
(* it go to the panel; a raw full image that is now complete is finished   *)
(* on the spot, without an END.  (The counters of a fatal transfer are     *)
(* never read again.)                                                      *)
DataInOrder(chunk, seq) ==
    LET n == Successors(seq)
        taken == [i \in 1..n |-> reorder[pipe_slot(U8(seq + i))].chunk]
        exp == U8(expected_seq + 1 + n)
        count == received_count + 1 + n
        frames == frames_since_ack + 1 + n
        ring == Drained(seq, n)
        queue == IF queued_count > n THEN queued_count - n ELSE 0
    IN  /\ seq = expected_seq
        /\ written' = Append(written, chunk) \o taken
        /\ Shape
        /\ IF kind = "raw" /\ od_xfer_pipe_complete(Len(written'))
           THEN \/ /\ sacks' = Append(sacks, pipe_build_sack(TRUE, HighestAfter(seq),
                                                           exp, count, ring))
                   /\ pipe_finish
                \/ /\ "reply" \in faults /\ mode' = "fatal"
                   /\ UNCHANGED <<expected_seq, has_received, highest_seen,
                                  received_count, frames_since_ack,
                                  ooo_acks_since_gap, gap_open, queued_count,
                                  reorder, sacks>>
           ELSE /\ expected_seq' = exp /\ received_count' = count /\ reorder' = ring
                /\ queued_count' = queue
                /\ gap_open' = (gap_open /\ queue # 0)
                /\ pipe_update_highest(seq)
                /\ IF frames >= ack_every
                   THEN pipe_sack_or_fatal
                   ELSE /\ frames_since_ack' = frames
                        /\ NoSack /\ UNCHANGED ooo_acks_since_gap

(* The cadence of SACKs while a gap is open, and for duplicates.           *)
GapCadence ==
    IF ~gap_open \/ ooo_acks_since_gap + 1 >= ack_every
    THEN pipe_sack_or_fatal
    ELSE /\ ooo_acks_since_gap' = ooo_acks_since_gap + 1
         /\ NoSack /\ UNCHANGED frames_since_ack

(* A frame ahead of the stream, inside the window, is stored in its slot.  *)
DataAhead(chunk, seq) ==
    /\ U8(seq - expected_seq) \in 1..(window - 1)
    /\ reorder' = [reorder EXCEPT ![pipe_slot(seq)] = [seq |-> seq, chunk |-> chunk]]
    /\ queued_count' = IF Holds(reorder, seq) THEN queued_count ELSE queued_count + 1
    /\ Shape
    /\ UNCHANGED <<expected_seq, received_count, written>>
    /\ IF queued_count' >= OD_PIPE_REORDER_SLOTS
       THEN /\ mode' = "fatal"
            /\ UNCHANGED <<has_received, highest_seen, gap_open, frames_since_ack,
                           ooo_acks_since_gap, sacks>>
       ELSE /\ pipe_update_highest(seq)
            /\ gap_open' = TRUE
            /\ GapCadence

MutDataBehind(seq) ==
    LET fwd == U8(seq - expected_seq)
        back == U8(expected_seq - seq) IN
    /\ fwd # 0 /\ fwd >= window /\ back <= window
    /\ Shape
    /\ UNCHANGED <<expected_seq, received_count, written, reorder, queued_count,
                   gap_open, has_received, highest_seen>>
    /\ IF gap_open THEN GapCadence
                   ELSE NoSack /\ UNCHANGED <<frames_since_ack, ooo_acks_since_gap>>

(* A frame the stream is past: only acknowledged.                          *)
DataBehind(seq) ==
    LET fwd == U8(seq - expected_seq)
        back == U8(expected_seq - seq) IN
    /\ fwd # 0 /\ fwd >= window /\ back <= window
    /\ Shape
    /\ UNCHANGED <<expected_seq, received_count, written, reorder, queued_count,
                   gap_open, has_received, highest_seen>>
    /\ GapCadence

(* A NACK ends the stream: the window is broken, the panel or the inflater *)
(* refused what it was given, or the frame has the wrong size.             *)
DataNack(seq) ==
    LET fwd == U8(seq - expected_seq)
        back == U8(expected_seq - seq) IN
    /\ \/ fwd # 0 /\ fwd >= window /\ back > window
       \/ fwd = 0 /\ "sink" \in faults
       \/ "frame" \in faults
    /\ mode' = "fatal"
    /\ Shape
    /\ UNCHANGED <<expected_seq, received_count, written, reorder, queued_count,
                   gap_open, has_received, highest_seen, frames_since_ack,
                   ooo_acks_since_gap, sacks>>

od_pipe_data(chunk) ==
    IF mode = "open"
    THEN LET seq == U8(chunk) IN
         \/ DataInOrder(chunk, seq)
         \/ DataAhead(chunk, seq)
         \/ DataBehind(seq)
         \/ DataNack(seq)
    ELSE UNCHANGED <<device, sacks>>

(***************************************************************************)
(* 0x82                                                                    *)
(***************************************************************************)

(* No hole remains and the byte count is the declared one. *)
EndComplete == queued_count = 0 /\ od_xfer_pipe_complete(Len(written))

(* END answers a SACK first.  An incomplete stream is refused and closed;  *)
(* a complete one is finished.  On a fatal stream END only retires the     *)
(* latch.                                                                  *)
od_pipe_end ==
    /\ UNCHANGED <<kind, window, ack_every, written>>
    /\ \/ /\ mode = "open"
          /\ sacks' = Append(sacks, pipe_build_sack(has_received, highest_seen,
                                  expected_seq, received_count, reorder))
          /\ IF EndComplete THEN pipe_finish
                            ELSE mode' = "idle" /\ od_pipe_reset_state
       \/ /\ mode = "open" /\ "reply" \in faults
          /\ mode' = "fatal"
          /\ frames_since_ack' = 0 /\ ooo_acks_since_gap' = 0
          /\ UNCHANGED <<expected_seq, has_received, highest_seen, received_count,
                         gap_open, queued_count, reorder, sacks>>
       \/ /\ mode = "fatal"
          /\ mode' = "idle"
          /\ od_pipe_reset_state
          /\ UNCHANGED sacks

(***************************************************************************)
(* The client (external)                                                   *)
(***************************************************************************)

Base == CHOOSE k \in 0..Chunks : k \notin acked /\ 0..(k - 1) \subseteq acked
InWindow == Base..(Lesser(Base + window, Chunks) - 1)
(* A patient client sends new chunks while its window has room and repeats *)
(* its first unacknowledged one otherwise.                                 *)
Sendable == IF Eager THEN InWindow \ acked
           ELSE IF next \in InWindow THEN {next} ELSE InWindow \cap {Base}

Send(k) ==
    /\ starts > 0
    /\ k \in Sendable \/ ("frame" \in faults /\ k - Len(written) \in window..(SeqMod - window - 1))
    /\ Len(sacks) < MaxSacks
    /\ next' = IF k >= next THEN k + 1 ELSE next
    /\ od_pipe_data(k)
    /\ UNCHANGED <<acked, lost, starts, faults>>

Lose(k) ==
    /\ mode = "open" /\ lost < MaxLoss
    /\ k \in Sendable
    /\ lost' = lost + 1
    /\ next' = IF k >= next THEN k + 1 ELSE next
    /\ UNCHANGED <<device, acked, sacks, starts, faults>>

(* The chunks a SACK speaks of, from where the client's window stands.     *)
Told(sack) ==
    LET tops == {k \in (Base - 1)..(Base + window - 1) : U8(k) = sack.highest}
    IN  UNION {{k} \cup {k - 1 - i : i \in sack.mask} : k \in tops} \cap (0..(Chunks - 1))

Hear ==
    /\ sacks # <<>>
    /\ acked' = acked \cup Told(Head(sacks))
    /\ sacks' = Tail(sacks)
    /\ UNCHANGED <<device, next, lost, starts, faults>>

End ==
    /\ \/ /\ mode = "open" /\ Len(sacks) < MaxSacks
          /\ acked = 0..(Chunks - 1) \/ "end" \in faults
       \/ mode = "fatal"
    /\ od_pipe_end
    /\ UNCHANGED <<client, lost, starts, faults>>

PipeNext ==
    \/ \E w \in ReqWindows, n \in ReqCadences, k \in Kinds : od_pipe_start(w, n, k)
    \/ \E k \in 0..(Chunks - 1) : Send(k) \/ Lose(k)
    \/ Hear
    \/ End

(* Where nothing fails, the client keeps sending what is missing, reads    *)
(* what it is sent, and ends what is complete.  Losses are finite, so a    *)
(* chunk sent often enough arrives.                                        *)
PipeFairness ==
    /\ WF_pipeVars(faults = {} /\ \E k \in {Base} : k < Chunks /\ Send(k))
    /\ WF_pipeVars(faults = {} /\ Hear)
    /\ WF_pipeVars(faults = {} /\ End)

PipeSpec == PipeInit /\ [][PipeNext]_pipeVars
PipeFairSpec == PipeSpec /\ PipeFairness

-----------------------------------------------------------------------------

(* The counters, the ring and the negotiated values stay in their ranges:  *)
(* the cadence never exceeds the window, neither is zero while a stream is *)
(* open.                                                                   *)
PipeTypeOK ==
    /\ mode \in {"idle", "open", "fatal", "done"}
    /\ kind \in {"raw", "zlib", "partial"}
    /\ window \in 0..OD_PIPE_MAX_W /\ ack_every \in 0..window
    /\ mode = "open" => ack_every > 0
    /\ expected_seq \in 0..(SeqMod - 1) /\ highest_seen \in 0..(SeqMod - 1)
    /\ has_received \in BOOLEAN /\ gap_open \in BOOLEAN
    /\ received_count \in 0..Chunks /\ queued_count \in 0..OD_PIPE_REORDER_SLOTS
    /\ frames_since_ack \in 0..Chunks /\ ooo_acks_since_gap \in 0..ack_every
    /\ reorder \in [SlotIds -> [seq : -1..(SeqMod - 1), chunk : -1..(Chunks - 1)]]
    /\ acked \subseteq 0..(Chunks - 1) /\ next \in 0..Chunks

Waiting == {reorder[s].chunk : s \in {s \in SlotIds : reorder[s] # Empty}}
Consumed == {written[i] : i \in 1..Len(written)}

(* A stored frame was displaced by another one of the same window, which   *)
(* pipe_slot() sent to the same slot: queued_count then counts a frame     *)
(* that is in no slot, and goes on doing so until the next START.          *)
Displaced == queued_count # Cardinality({s \in SlotIds : reorder[s] # Empty})

(* Every frame counted in queued_count has a slot of its own, which is     *)
(* what lets END read queued_count as "a hole remains".  With the shipped  *)
(* constants this fails across the wrap of the sequence byte.              *)
CollisionFree == mode = "open" => ~Displaced

(* The panel is given the chunks of the image in order, each exactly once, *)
(* whatever was lost, resent, stored or displaced on the way, and across   *)
(* the wrap of the sequence byte (the fwd == 0 path of od_pipe_data and    *)
(* its drain).                                                             *)
InOrder == \A i \in 1..Len(written) : written[i] = i - 1

(* What the client has been told is received is in the image or in the     *)
(* reorder ring, so a client may drop an acknowledged chunk from its       *)
(* buffer (pipe_build_sack).  This is lost with the first displaced frame: *)
(* its acknowledgement may be under way or heard.                          *)
AckedIsHeld == mode = "open" => Displaced \/ acked \subseteq Consumed \cup Waiting

(* A client that keeps to the window never meets the sequence-window NACK, *)
(* and a full ring only when frames were displaced: without a failing      *)
(* reply or panel the stream does not become fatal otherwise, however late *)
(* the SACKs are.                                                          *)
NoFalseNack == faults = {} /\ mode = "fatal" => Displaced

(* The receiver's counters in their ranges, its output in order, and no    *)
(* NACK for a client that keeps to the protocol (od_pipe_data).            *)
PipeInv == PipeTypeOK /\ InOrder /\ NoFalseNack

(* Only a whole image is finished, by auto-completion or by END, displaced *)
(* frames or not.                                                          *)
DoneIsWhole == mode = "done" => Len(written) = Chunks /\ Consumed = 0..(Chunks - 1)

(* Every stream a client opens is finished, if the client persists,        *)
(* neither replies nor the panel fail and no stored frame is displaced:    *)
(* duplicates and gaps always call forth the SACK the client waits for, so *)
(* that no such stream stays open for ever, and one that is open goes on   *)
(* or is done.                                                             *)
Clear == mode = "open" /\ faults = {} /\ ~Displaced
Completes ==
    /\ [][Clear => Clear' \/ Displaced' \/ mode' = "done"]_pipeVars
    /\ []<>~Clear
=============================================================================
