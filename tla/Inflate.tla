------------------------------ MODULE Inflate ------------------------------
(***************************************************************************)
(* The resumable zlib decoder of shared/core/od_zlib_inflate.c: the        *)
(* decoder the Nordic, Silabs and small ESP32 builds put behind the        *)
(* compressed image transfers.  It may be suspended between any two bits   *)
(* of its input and between any two bytes of its output, and has to come   *)
(* back to exactly the place it left.                                      *)
(*                                                                         *)
(* The static `s` of the source is a record.  Its fields `v` and `rc`      *)
(* stand for the value and the return code a helper hands back (1 go on,   *)
(* 0 no input, -1 error, 2 output full), `out` and `cap` for the buffer    *)
(* od_zlib_stream_poll() was lent.  The loops of the source that suspend   *)
(* are written as one Step, repeated by od_zlib_stream_poll().             *)
(***************************************************************************)
EXTENDS Integers, Sequences, FiniteSets

CONSTANTS
    WINDOW,       \* OPENDISPLAY_ZLIB_WINDOW_SIZE
    WINDOW_BITS   \* OPENDISPLAY_ZLIB_WINDOW_BITS, what a header may declare

length_bits == <<0,0,0,0,0,0,0,0,1,1,1,1,2,2,2,2,3,3,3,3,4,4,4,4,5,5,5,5,0,0>>
length_base == <<3,4,5,6,7,8,9,10,11,13,15,17,19,23,27,31,35,43,51,59,67,83,99,
                 115,131,163,195,227,258,0>>
dist_bits == <<0,0,0,0,1,1,2,2,3,3,4,4,5,5,6,6,7,7,8,8,9,9,10,10,11,11,12,12,13,13>>
dist_base == <<1,2,3,4,5,7,9,13,17,25,33,49,65,97,129,193,257,385,513,769,1025,1537,
               2049,3073,4097,6145,8193,12289,16385,24577>>
clcidx == <<16,17,18,0,8,7,9,6,10,5,11,4,12,3,13,2,14,1,15>>

set_error(s) == [s EXCEPT !.stage = "error", !.rc = -1]

----------------------------------------------------------------------------
(* Reading.  A helper that runs out of input keeps what it has so far in   *)
(* the record and is called again with the same arguments.                 *)

read_byte(s) ==
    IF s.in # <<>> THEN [s EXCEPT !.v = Head(s.in), !.in = Tail(@), !.rc = 1]
    ELSE IF s.final THEN set_error(s)
    ELSE [s EXCEPT !.rc = 0]

(* What follows a read, once it has succeeded.                             *)
Then(t, F(_)) == IF t.rc = 1 THEN F(t) ELSE t

read_bit(s) ==
    Then(IF s.cnt > 0 THEN [s EXCEPT !.rc = 1]
         ELSE Then(read_byte(s), LAMBDA b : [b EXCEPT !.tag = b.v, !.cnt = 8]),
         LAMBDA t : [t EXCEPT !.v = t.tag % 2, !.tag = @ \div 2, !.cnt = @ - 1])

RECURSIVE BitsOn(_)
BitsOn(s) ==
    IF s.bits.pos = s.bits.num
    THEN [s EXCEPT !.v = s.bits.value + s.bits.base, !.bits.active = FALSE, !.rc = 1]
    ELSE Then(read_bit(s), LAMBDA t :
             BitsOn([t EXCEPT !.bits.value = @ + t.v * 2^t.bits.pos, !.bits.pos = @ + 1]))

(* Mutant: a read that was suspended starts over and forgets its bits.     *)
Mut_read_bits(s, num, base) ==
    BitsOn([s EXCEPT !.bits = [active |-> TRUE, num |-> num, base |-> base,
                               pos |-> 0, value |-> 0]])

read_bits(s, num, base) ==
    BitsOn(IF s.bits.active THEN s
           ELSE [s EXCEPT !.bits = [active |-> TRUE, num |-> num, base |-> base,
                                    pos |-> 0, value |-> 0]])

RECURSIVE SymbolOn(_, _, _)
SymbolOn(s, tree, size) ==
    Then(read_bit(s), LAMBDA t :
        LET len == t.sym.len + 1
            cur == 2 * t.sym.cur + t.v - tree.table[len]
            sum == t.sym.sum + tree.table[len]
        IN IF len = 16 THEN set_error(t)
           ELSE IF cur >= 0
           THEN SymbolOn([t EXCEPT !.sym = [active |-> TRUE, sum |-> sum, cur |-> cur, len |-> len]],
                         tree, size)
           ELSE IF sum + cur \notin 0..(size - 1) THEN set_error(t)
           ELSE [t EXCEPT !.v = tree.trans[sum + cur], !.sym.active = FALSE, !.rc = 1])

decode_symbol(s, tree, size) ==
    SymbolOn(IF s.sym.active THEN s
             ELSE [s EXCEPT !.sym = [active |-> TRUE, sum |-> 0, cur |-> 0, len |-> 0]],
             tree, size)

reset_code_readers(s) == [s EXCEPT !.bits.active = FALSE, !.sym.active = FALSE]

----------------------------------------------------------------------------
(* Code trees.  A tree built over an older one keeps the entries of trans  *)
(* it does not overwrite.  The tree of the distances and the tree of the   *)
(* code lengths share their storage.                                       *)

build_tree(s, part, size, first, num) ==
    LET Of(len) == SelectSeq([i \in 1..num |-> i - 1],
                             LAMBDA i : s.lengths[first + i] = len)
        trans == LET Upto[len \in 0..15] == IF len = 0 THEN <<>> ELSE Upto[len - 1] \o Of(len)
                 IN Upto[15]
    IN IF \E i \in 0..(num - 1) : s.lengths[first + i] >= 16 THEN set_error(s)
       ELSE IF Len(trans) > size THEN set_error(s)
       ELSE [s EXCEPT ![part] =
                 [table |-> [len \in 0..15 |-> IF len = 0 THEN 0 ELSE Len(Of(len))],
                  trans |-> [i \in DOMAIN @.trans |->
                                 IF i < Len(trans) THEN trans[i + 1] ELSE @.trans[i]]],
                      !.rc = 1]

build_fixed_trees(s) ==
    [s EXCEPT
        !.ltree = [table |-> [len \in 0..15 |-> CASE len = 7 -> 24 [] len = 8 -> 152
                                                  [] len = 9 -> 112 [] OTHER -> 0],
                   trans |-> [i \in 0..287 |-> CASE i < 24 -> 256 + i
                                                 [] i \in 24..167 -> i - 24
                                                 [] i \in 168..175 -> 280 + (i - 168)
                                                 [] OTHER -> 144 + (i - 176)]],
        !.dtree = [table |-> [len \in 0..15 |-> IF len = 5 THEN 32 ELSE 0],
                   trans |-> [i \in 0..31 |-> i]]]

----------------------------------------------------------------------------
(* Output.                                                                 *)

adler_update_byte(adler, byte) ==
    LET s1 == (adler[1] + byte) % 65521
    IN <<s1, (adler[2] + s1) % 65521>>

put_output_byte(s, byte) ==
    IF Len(s.out) >= s.cap THEN [s EXCEPT !.rc = 2]
    ELSE IF s.count >= s.expected THEN set_error(s)
    ELSE [s EXCEPT !.out = Append(@, byte), !.window[s.wpos] = byte,
                   !.wpos = (@ + 1) % WINDOW, !.count = @ + 1,
                   !.adler = adler_update_byte(@, byte), !.rc = 1]

----------------------------------------------------------------------------
(* The description of a dynamic block: process_dynamic_trees(), one case   *)
(* of its switch at a time.                                                *)

Repeat(t, fill, bits, base) ==
    [t EXCEPT !.fill = fill, !.rbits = bits, !.rbase = base, !.dyn = "repeat"]

LengthRead(t) ==
    CASE t.v < 16 -> [t EXCEPT !.lengths[t.num] = t.v, !.num = @ + 1]
      [] t.v = 16 -> IF t.num = 0 THEN set_error(t)
                     ELSE Repeat(t, t.lengths[t.num - 1], 2, 3)
      [] t.v = 17 -> Repeat(t, 0, 3, 3)
      [] t.v = 18 -> Repeat(t, 0, 7, 11)
      [] OTHER    -> set_error(t)

BuildBoth(s) ==
    IF s.lengths[256] = 0 THEN set_error(s)
    ELSE Then(build_tree(s, "ltree", 288, 0, s.hlit), LAMBDA l :
         Then(build_tree(l, "dtree", 32, s.hlit, s.hdist), LAMBDA d :
             [reset_code_readers(d) EXCEPT
                 !.dyn = "hlit", !.blk = "symbol", !.stage = "block_data"]))

process_dynamic_trees(s) ==
    CASE s.dyn = "hlit" ->
            Then(read_bits(s, 5, 257), LAMBDA t : [t EXCEPT !.hlit = t.v, !.dyn = "hdist"])
      [] s.dyn = "hdist" ->
            Then(read_bits(s, 5, 1), LAMBDA t : [t EXCEPT !.hdist = t.v, !.dyn = "hclen"])
      [] s.dyn = "hclen" ->
            Then(read_bits(s, 4, 4), LAMBDA t :
                IF t.hlit > 286 \/ t.hdist > 32 THEN set_error(t)
                ELSE [t EXCEPT !.hclen = t.v, !.i = 0, !.dyn = "read_clen",
                               !.lengths = [n \in DOMAIN @ |-> IF n < 19 THEN 0 ELSE @[n]]])
      [] s.dyn = "read_clen" /\ s.i < s.hclen ->
            Then(read_bits(s, 3, 0), LAMBDA t :
                [t EXCEPT !.lengths[clcidx[t.i + 1]] = t.v, !.i = @ + 1])
      [] s.dyn = "read_clen" /\ s.i >= s.hclen ->
            Then(build_tree(s, "dtree", 19, 0, 19), LAMBDA t :
                [reset_code_readers(t) EXCEPT !.hlimit = t.hlit + t.hdist, !.num = 0,
                                              !.dyn = "read_lengths"])
      [] s.dyn = "read_lengths" /\ s.num < s.hlimit ->
            Then(decode_symbol(s, s.dtree, 19), LengthRead)
      [] s.dyn = "read_lengths" /\ s.num >= s.hlimit -> BuildBoth(s)
      [] s.dyn = "repeat" ->
            Then(read_bits(s, s.rbits, s.rbase), LAMBDA t :
                IF t.num + t.v > t.hlimit THEN set_error(t)
                ELSE [t EXCEPT !.lengths = [n \in DOMAIN @ |->
                                   IF n \in t.num..(t.num + t.v - 1) THEN t.fill ELSE @[n]],
                               !.num = @ + t.v, !.dyn = "read_lengths"])

----------------------------------------------------------------------------
(* The blocks.                                                             *)

NextBlock(s) == [s EXCEPT !.stage = IF s.bfinal = 1 THEN "trailer" ELSE "block_final", !.rc = 1]

(* Two bytes of length, two of its complement.                             *)
process_stored_header(s) ==
    Then(read_byte(s), LAMBDA t :
        LET h == Append(t.shdr, t.v)
        IN IF Len(h) < 4 THEN [t EXCEPT !.shdr = h]
           ELSE IF h[1] + h[3] # 255 \/ h[2] + h[4] # 255 THEN set_error(t)
           ELSE [t EXCEPT !.shdr = <<>>, !.slen = h[1] + 256 * h[2], !.stage = "stored_data"])

process_stored_data(s) ==
    IF s.slen = 0 THEN NextBlock(s)
    ELSE Then(read_byte(s), LAMBDA t :
         Then(put_output_byte(t, t.v), LAMBDA u : [u EXCEPT !.slen = @ - 1]))

SymbolRead(t) ==
    CASE t.v < 256 -> put_output_byte(t, t.v)
      [] t.v = 256 -> NextBlock(t)
      [] t.v \in 257..285 -> [t EXCEPT !.lsym = t.v - 257, !.blk = "len_extra"]
      [] OTHER -> set_error(t)

process_block_data(s) ==
    CASE s.blk = "symbol" -> Then(decode_symbol(s, s.ltree, 288), SymbolRead)
      [] s.blk = "len_extra" ->
            Then(read_bits(s, length_bits[s.lsym + 1], length_base[s.lsym + 1]), LAMBDA t :
                [t EXCEPT !.mlen = t.v, !.blk = "dist_symbol"])
      [] s.blk = "dist_symbol" ->
            Then(decode_symbol(s, s.dtree, 32), LAMBDA t :
                IF t.v >= 30 THEN set_error(t) ELSE [t EXCEPT !.dsym = t.v, !.blk = "dist_extra"])
      [] s.blk = "dist_extra" ->
            Then(read_bits(s, dist_bits[s.dsym + 1], dist_base[s.dsym + 1]), LAMBDA t :
                IF t.v = 0 \/ t.v > WINDOW \/ t.v > t.count THEN set_error(t)
                ELSE [t EXCEPT !.moff = t.v, !.blk = "match_copy"])
      [] s.blk = "match_copy" /\ s.mlen = 0 -> [s EXCEPT !.blk = "symbol", !.rc = 1]
      [] s.blk = "match_copy" /\ s.mlen > 0 ->
            Then(put_output_byte(s, s.window[(s.wpos + WINDOW - s.moff) % WINDOW]), LAMBDA u :
                [u EXCEPT !.mlen = @ - 1])

(* The checksum, its high half first, then the size, then nothing more.    *)
process_trailer(s) ==
    Then(read_byte(s), LAMBDA t :
        LET w == Append(t.trailer, t.v)
        IN IF Len(w) < 4 THEN [t EXCEPT !.trailer = w]
           ELSE IF \/ <<w[3] * 256 + w[4], w[1] * 256 + w[2]>> # t.adler
                   \/ t.count # t.expected
                   \/ t.in # <<>>
           THEN set_error(t)
           ELSE [t EXCEPT !.trailer = w, !.stage = "done"])

(* od_zlib_header_check().                                                 *)
od_zlib_header_check(cmf, flg) ==
    IF \/ (256 * cmf + flg) % 31 # 0 \/ cmf % 16 # 8 \/ (flg \div 32) % 2 = 1 THEN "bad"
    ELSE IF cmf \div 16 + 8 > WINDOW_BITS THEN "too_big"
    ELSE "ok"

BlockType(t) ==
    CASE t.v = 0 -> [t EXCEPT !.cnt = 0, !.shdr = <<>>, !.slen = 0, !.stage = "stored_len"]
      [] t.v = 1 -> [reset_code_readers(build_fixed_trees(t)) EXCEPT
                        !.blk = "symbol", !.stage = "block_data"]
      [] t.v = 2 -> [reset_code_readers(t) EXCEPT !.dyn = "hlit", !.stage = "dynamic_trees"]
      [] OTHER   -> set_error(t)

(* One turn of the loop of od_zlib_stream_poll().                          *)
Step(s) ==
    CASE s.stage = "cmf" ->
            Then(read_byte(s), LAMBDA t : [t EXCEPT !.cmf = t.v, !.stage = "flg"])
      [] s.stage = "flg" ->
            Then(read_byte(s), LAMBDA t :
                IF od_zlib_header_check(t.cmf, t.v) # "ok" THEN set_error(t)
                ELSE [t EXCEPT !.stage = "block_final"])
      [] s.stage = "block_final" ->
            Then(read_bit(s), LAMBDA t : [t EXCEPT !.bfinal = t.v, !.stage = "block_type"])
      [] s.stage = "block_type"    -> Then(read_bits(s, 2, 0), BlockType)
      [] s.stage = "dynamic_trees" -> process_dynamic_trees(s)
      [] s.stage = "stored_len"    -> process_stored_header(s)
      [] s.stage = "stored_data"   -> process_stored_data(s)
      [] s.stage = "block_data"    -> process_block_data(s)
      [] s.stage = "trailer"       -> process_trailer(s)

----------------------------------------------------------------------------
(* The interface.  od_zlib_stream_poll() leaves what it produced in `out`  *)
(* and its status in `status`.                                             *)

(* The state, every byte of it zero.                                       *)
Zeroed ==
    LET noTree(n) == [table |-> [i \in 0..15 |-> 0], trans |-> [i \in 0..(n - 1) |-> 0]]
    IN [stage |-> "cmf", blk |-> "symbol", dyn |-> "hlit", in |-> <<>>, final |-> FALSE,
        tag |-> 0, cnt |-> 0, v |-> 0, rc |-> 1, status |-> "input", out |-> <<>>, cap |-> 0,
        bits |-> [active |-> FALSE, num |-> 0, base |-> 0, pos |-> 0, value |-> 0],
        sym |-> [active |-> FALSE, sum |-> 0, cur |-> 0, len |-> 0],
        cmf |-> 0, bfinal |-> 0, ltree |-> noTree(288), dtree |-> noTree(32),
        lengths |-> [i \in 0..319 |-> 0], hlit |-> 0, hdist |-> 0, hclen |-> 0, hlimit |-> 0,
        i |-> 0, num |-> 0, fill |-> 0, rbits |-> 0, rbase |-> 0, shdr |-> <<>>, slen |-> 0,
        mlen |-> 0, moff |-> 0, lsym |-> 0, dsym |-> 0, window |-> [i \in 0..(WINDOW - 1) |-> 0],
        wpos |-> 0, expected |-> 0, count |-> 0, adler |-> <<0, 0>>, trailer |-> <<>>]

od_zlib_stream_reset(expected) == [Zeroed EXCEPT !.expected = expected, !.adler = <<1, 0>>]

od_zlib_stream_push(s, input, final) ==
    LET taken == [s EXCEPT !.in = input, !.final = final]
    IN IF s.in # <<>> THEN [set_error(s) EXCEPT !.status = "error"]
       ELSE IF s.stage # "done" THEN [taken EXCEPT !.status = "input"]
       ELSE IF input # <<>> THEN [set_error(taken) EXCEPT !.status = "error"]
       ELSE [taken EXCEPT !.status = "done"]

(* What a stage that found no input answers.                               *)
Starved(t) ==
    IF t.stage \in {"stored_data", "block_data", "trailer"} /\ t.out # <<>> THEN "ready" ELSE "input"

RECURSIVE PollOn(_), Turned(_)
PollOn(s) == IF Len(s.out) >= s.cap THEN [s EXCEPT !.status = "ready"] ELSE Turned(Step(s))

Turned(t) ==
    CASE t.rc = -1 -> [t EXCEPT !.status = "error"]
      [] t.rc = 0  -> [t EXCEPT !.status = Starved(t)]
      [] t.rc = 2  -> [t EXCEPT !.status = "ready"]
      [] t.rc = 1  -> IF t.stage = "done" THEN [t EXCEPT !.status = "done"] ELSE PollOn(t)

od_zlib_stream_poll(s, capacity) ==
    LET t == [s EXCEPT !.out = <<>>, !.cap = capacity]
    IN IF s.stage \in {"error", "done"} THEN [t EXCEPT !.status = s.stage] ELSE PollOn(t)

-----------------------------------------------------------------------------
(***************************************************************************)
(* A compressed image on its way to the panel: od_xfer_stream_push() of    *)
(* shared/core/od_xfer.c, the pump of od_zlib_pump.c, and behind it one of *)
(* the two decoders a build may select: the one above, or the adapter of   *)
(* the ESP32 (od_inflate_tinfl.cpp) around the decoder in the chip's ROM.  *)
(* The client cuts the stream where it likes, may end it early, and may    *)
(* start over; the panel may refuse a write.                               *)
(***************************************************************************)
CONSTANTS
    Streams,     \* what a client may send: bytes, what they stand for, and whether they are sound
    FrameSizes,  \* how many bytes a frame carries
    Scratches,   \* sizes of the scratch buffer a target lends
    DICT,        \* OD_TINFL_DICT_SIZE
    MaxStarts    \* bound: transfers of one behaviour

VARIABLES
    engine,   \* the decoder of this build, with its state
    scratch,  \* size of the scratch buffer
    pump,     \* the statics of od_zlib_pump.c
    stream,   \* the stream being sent
    sent,     \* how many of its bytes have been sent
    drawn,    \* what the panel has taken
    result,   \* how the last push ended
    starts    \* transfers begun

inflateVars == <<engine, scratch, pump, stream, sent, drawn, result, starts>>

----------------------------------------------------------------------------
(* The decoder in ROM.  It decodes what the decoder above does, stops at   *)
(* the end of the stream and leaves what follows unread, and has no        *)
(* opinion on how long the output should be.                               *)

tinfl_init(st) == [d |-> od_zlib_stream_reset(Len(st.plain)), left |-> st.end]

Polled(p, r, in, n, room) ==
    [rom |-> [d |-> p, left |-> r.left - (n - Len(p.in))],
     in |-> p.in \o SubSeq(in, n + 1, Len(in)), out |-> p.out,
     st |-> IF p.status \in {"error", "done"} THEN p.status
            ELSE IF Len(p.out) = room THEN "more_output"
            ELSE "more_input"]

tinfl_decompress(r, in, room, more) ==
    LET n == IF Len(in) < r.left THEN Len(in) ELSE r.left
    IN Polled(od_zlib_stream_poll([r.d EXCEPT !.in = SubSeq(in, 1, n), !.final = ~more], room),
              r, in, n, room)

----------------------------------------------------------------------------
(* The adapter.                                                            *)

od_zlib_header_reset == [cmf |-> 0, have |-> 0, validated |-> FALSE]

od_zlib_header_observe(h, in) ==
    LET bytes == (IF h.have > 0 THEN <<h.cmf>> ELSE <<>>) \o in
    IN IF h.validated THEN [h |-> h, rc |-> "ok"]
       ELSE IF bytes = <<>> THEN [h |-> h, rc |-> "need_more"]
       ELSE IF Len(bytes) = 1
       THEN [h |-> [h EXCEPT !.cmf = bytes[1], !.have = 1], rc |-> "need_more"]
       ELSE LET rc == od_zlib_header_check(bytes[1], bytes[2])
            IN [h |-> [cmf |-> bytes[1], have |-> 2, validated |-> rc = "ok"], rc |-> rc]

od_inflate_tinfl_reset(st, expected) ==
    [kind |-> "tinfl", rom |-> tinfl_init(st), dict |-> [i \in 0..(DICT - 1) |-> 0],
     dict_ofs |-> 0, deliver_ofs |-> 0, pending |-> 0, in |-> <<>>, more |-> TRUE,
     expected |-> expected, produced |-> 0, done |-> FALSE, error |-> FALSE,
     header |-> od_zlib_header_reset, out |-> <<>>, status |-> "input"]

od_inflate_tinfl_push(a, input, final) ==
    LET h      == od_zlib_header_observe(a.header, input)
        failed == [a EXCEPT !.error = TRUE, !.status = "error"]
    IN IF a.error THEN [a EXCEPT !.status = "error"]
       ELSE IF a.in # <<>> THEN failed
       ELSE IF a.done THEN IF input # <<>> THEN failed ELSE [a EXCEPT !.status = "done"]
       ELSE IF h.rc \in {"bad", "too_big"} THEN [failed EXCEPT !.header = h.h]
       ELSE [a EXCEPT !.header = h.h, !.in = input, !.more = ~final, !.status = "input"]

(* Hand over what is pending, as far as there is room.                     *)
Deliver(a, capacity) ==
    LET room == capacity - Len(a.out)
        n    == IF a.pending < room THEN a.pending ELSE room
    IN [a EXCEPT !.out = @ \o [i \in 1..n |-> a.dict[a.deliver_ofs + i - 1]],
                 !.deliver_ofs = @ + n, !.pending = @ - n]

Decompressed(a, t) ==
    LET n == Len(t.out)
    IN [a EXCEPT !.rom = t.rom, !.in = t.in, !.pending = n, !.produced = @ + n,
                 !.deliver_ofs = a.dict_ofs, !.dict_ofs = (@ + n) % DICT,
                 !.dict = [i \in DOMAIN @ |-> IF i \in a.dict_ofs..(a.dict_ofs + n - 1)
                                              THEN t.out[i - a.dict_ofs + 1] ELSE @[i]],
                 !.done = t.st = "done", !.error = t.st = "error", !.status = t.st]

RECURSIVE TinflOn(_, _), Refilled(_, _)
TinflOn(b, capacity) ==
    IF b.pending > 0 THEN [b EXCEPT !.status = "ready"]
    ELSE IF b.done
    THEN IF b.expected # 0 /\ b.produced # b.expected
         THEN [b EXCEPT !.error = TRUE, !.status = "error"]
         ELSE [b EXCEPT !.status = "done"]
    ELSE IF Len(b.out) = capacity THEN [b EXCEPT !.status = "ready"]
    ELSE Refilled(Decompressed(b, tinfl_decompress(b.rom, b.in, DICT - b.dict_ofs, b.more)), capacity)

Refilled(c, capacity) ==
    IF c.error THEN c
    ELSE IF c.status = "more_input" /\ c.pending = 0 THEN [c EXCEPT !.status = "input"]
    ELSE TinflOn(Deliver(c, capacity), capacity)

od_inflate_tinfl_poll(a, capacity) ==
    IF a.error THEN [a EXCEPT !.out = <<>>, !.status = "error"]
    ELSE TinflOn(Deliver([a EXCEPT !.out = <<>>], capacity), capacity)

----------------------------------------------------------------------------
(* od_inflate_app.c: the decoder the build selected.                       *)

od_inflate_app_reset(kind, st, expected) ==
    IF kind = "tinfl" THEN od_inflate_tinfl_reset(st, expected)
    ELSE [kind |-> "uzlib", z |-> od_zlib_stream_reset(expected), out |-> <<>>, status |-> "input"]

Uzlib(e, z) == [e EXCEPT !.z = [z EXCEPT !.out = <<>>], !.out = z.out, !.status = z.status]

od_inflate_app_push(e, input, final) ==
    IF e.kind = "tinfl" THEN od_inflate_tinfl_push(e, input, final)
    ELSE Uzlib(e, od_zlib_stream_push(e.z, input, final))

od_inflate_app_poll(e, capacity) ==
    IF e.kind = "tinfl" THEN od_inflate_tinfl_poll(e, capacity)
    ELSE Uzlib(e, od_zlib_stream_poll(e.z, capacity))

od_inflate_app_output_count(e) == IF e.kind = "tinfl" THEN e.produced ELSE e.z.count

----------------------------------------------------------------------------
(* The pump.  x: the engine, the statics, what the panel holds, the writes *)
(* the panel still takes before it refuses one.                            *)

(* stream_sink(): the panel takes all of a piece or the stream has failed. *)
stream_sink(x, bytes) ==
    IF Len(x.glass) + Len(bytes) > x.pump.expected THEN [x EXCEPT !.st = "error"]
    ELSE IF x.writes = 0 THEN [x EXCEPT !.st = "error", !.refused = TRUE]
    ELSE [x EXCEPT !.glass = @ \o bytes, !.writes = @ - 1]

CountedOut(y, n) == IF y.st = "error" THEN y ELSE [y EXCEPT !.pump.emitted = @ + n]

Emit(x, bytes) ==
    IF bytes = <<>> THEN x
    ELSE IF Len(bytes) > x.pump.expected - x.pump.emitted THEN [x EXCEPT !.st = "error"]
    ELSE CountedOut(stream_sink(x, bytes), Len(bytes))

Drained(x, e) == Emit([x EXCEPT !.engine = e], e.out)

RECURSIVE PumpOn(_, _, _), Emitted(_, _, _)
PumpOn(x, final, capacity) ==
    Emitted(Drained(x, od_inflate_app_poll(x.engine, capacity)), final, capacity)

Emitted(y, final, capacity) ==
    IF y.st = "error" THEN y
    ELSE CASE y.engine.status = "ready" -> PumpOn(y, final, capacity)
           [] y.engine.status = "input" -> [y EXCEPT !.st = IF final THEN "error" ELSE "more"]
           [] y.engine.status = "done"  ->
                 [y EXCEPT !.st = IF \/ y.pump.emitted # y.pump.expected
                                     \/ od_inflate_app_output_count(y.engine) # y.pump.emitted
                                  THEN "error" ELSE "done"]
           [] y.engine.status = "error" -> [y EXCEPT !.st = "error"]

Pushed(y, final, capacity) ==
    IF y.engine.status = "error" THEN [y EXCEPT !.st = "error"] ELSE PumpOn(y, final, capacity)

od_zlib_pump_push(x, input, final, capacity) ==
    Pushed([x EXCEPT !.engine = od_inflate_app_push(@, input, final)], final, capacity)

(* od_xfer_stream_push(): writes is how many writes the panel will take.   *)
Applied(x, final) ==
    /\ engine' = x.engine
    /\ pump' = x.pump
    /\ drawn' = x.glass
    /\ result' = CASE x.st = "error" -> IF x.refused THEN "write_failed" ELSE "inflate_failed"
                   [] x.st = "done" /\ final -> "complete"
                   [] x.st = "more" /\ final -> "inflate_failed"
                   [] OTHER -> "ok"

od_xfer_stream_push(input, final, takes) ==
    Applied(od_zlib_pump_push([engine |-> engine, pump |-> pump, glass |-> drawn, st |-> "go",
                               writes |-> takes, refused |-> FALSE], input, final, scratch), final)

od_xfer_stream_reset(kind, st, expected) ==
    /\ pump' = [expected |-> expected, emitted |-> 0]
    /\ engine' = od_inflate_app_reset(kind, st, expected)

----------------------------------------------------------------------------
(* The panel takes every write of a push, or refuses the first or second.  *)
Writes == {0, 1, 1000}

InflateInit ==
    /\ stream \in Streams
    /\ scratch \in Scratches
    /\ \E kind \in {"uzlib", "tinfl"}, d \in {-1, 0, 1} :
          LET expected == Len(stream.plain) + d
          IN /\ pump = [expected |-> expected, emitted |-> 0]
             /\ engine = od_inflate_app_reset(kind, stream, expected)
    /\ sent = 0 /\ drawn = <<>> /\ result = "ok" /\ starts = 1

(* A START at any time, over whatever the transfer before has left.        *)
StartStream(st) ==
    /\ starts < MaxStarts
    /\ od_xfer_stream_reset(engine.kind, st, Len(st.plain))
    /\ stream' = st /\ sent' = 0 /\ drawn' = <<>> /\ result' = "ok" /\ starts' = starts + 1
    /\ UNCHANGED scratch

(* A data frame.  A transfer that has failed takes no more of them.        *)
Data(n, takes) ==
    /\ result = "ok" /\ sent < Len(stream.bytes)
    /\ LET m == IF sent + n < Len(stream.bytes) THEN sent + n ELSE Len(stream.bytes)
       IN /\ od_xfer_stream_push(SubSeq(stream.bytes, sent + 1, m), FALSE, takes)
          /\ sent' = m
    /\ UNCHANGED <<scratch, stream, starts>>

(* END.                                                                    *)
End(takes) ==
    /\ result = "ok"
    /\ od_xfer_stream_push(<<>>, TRUE, takes)
    /\ UNCHANGED <<scratch, stream, sent, starts>>

InflateNext ==
    \/ \E st \in Streams : StartStream(st)
    \/ \E n \in FrameSizes, w \in Writes : Data(n, w)
    \/ \E w \in Writes : End(w)

InflateSpec == InflateInit /\ [][InflateNext]_inflateVars

----------------------------------------------------------------------------
Sound == stream.good /\ pump.expected = Len(stream.plain)

(* Wherever the stream is cut, whichever decoder the build has and however *)
(* small its scratch buffer: the panel holds a prefix of the image, as     *)
(* many bytes as were counted; a transfer completes only with the whole    *)
(* image of a sound stream whose declared size is right, sent to its last  *)
(* byte and not beyond; such a stream never fails on a panel that works,   *)
(* and all of the image is on the panel before END asks.                   *)
InflateInv ==
    /\ Len(drawn) = pump.emitted /\ pump.emitted <= pump.expected
    /\ Len(drawn) <= Len(stream.plain) /\ drawn = SubSeq(stream.plain, 1, Len(drawn))
    /\ result = "complete" => Sound /\ sent = stream.end /\ drawn = stream.plain
    /\ result = "inflate_failed" => ~(Sound /\ sent = stream.end)
    /\ result = "ok" /\ Sound /\ sent >= stream.end => drawn = stream.plain
=============================================================================
