----------------------------- MODULE NonceWindow -----------------------------
(***************************************************************************)
(* The inbound counter window of shared/core/od_nonce_window.h, as         *)
(* session_open() uses it: a counter is checked, the frame that carries it *)
(* is authenticated, and only then is the counter committed.               *)
(*                                                                         *)
(* The bitmap is the set of its one bits here; NonceBitmap keeps the words *)
(* of the code and is shown to implement this module.                      *)
(***************************************************************************)
EXTENDS Integers

CONSTANTS
  Width,       \* OD_NONCE_BACKWARD_BITS
  MaxCounter   \* the largest counter value, 2^64 - 1 in the code

ASSUME WidthAssumption == Width \in Nat \ {0}
ASSUME CounterAssumption == MaxCounter \in Nat

Counter == 0 .. MaxCounter
Bits == 0 .. Width - 1

VARIABLES
  seen,      \* rx_seen: bit b stands for the counter last - b
  last,      \* rx_last
  consumed   \* history: the counters committed under this session's key

vars == <<seen, last, consumed>>

TypeOK ==
  /\ seen \in SUBSET Bits
  /\ last \in Counter
  /\ consumed \in SUBSET Counter

Init ==
  /\ seen = {}
  /\ last = 0
  /\ consumed = {}

\* od_nonce_check(): a counter ahead is accepted at any distance; one behind only while its
\* bit is represented and clear.
Verdict(bits, l, c) ==
  IF c > l THEN "NONCE_OK"
  ELSE IF l - c < Width
       THEN IF l - c \in bits THEN "NONCE_REPLAY" ELSE "NONCE_OK"
       ELSE "NONCE_OUT_OF_WINDOW"

\* od_nonce_bitmap_shift_left().
Aged(bits, n) == {b \in Bits : b >= n /\ b - n \in bits}

\* od_nonce_commit().
Commit(c) ==
  IF c <= last
  THEN /\ seen' = seen \union ({last - c} \intersect Bits)
       /\ last' = last
  ELSE /\ seen' = Aged(seen, c - last) \union {0}
       /\ last' = c

\* A frame whose counter passes the check and whose tag then verifies.
Accept(c) ==
  /\ consumed' = consumed \union {c}
  /\ Verdict(seen, last, c) = "NONCE_OK"
  /\ Commit(c)

\* A new handshake: new key, fresh window.
Restart ==
  /\ seen' = {}
  /\ last' = 0
  /\ consumed' = {}

Next == Restart \/ \E c \in Counter : Accept(c)

Spec == Init /\ [][Next]_vars

-----------------------------------------------------------------------------
\* Every bit tells the truth about its counter, no counter above last_seen
\* was ever consumed, and last_seen itself was, once it has moved.  This is
\* the inductive invariant.
BitsExact ==
  /\ \A b \in Bits : b \in seen <=> last - b \in consumed
  /\ \A c \in consumed : c <= last
  /\ last # 0 => last \in consumed

\* The header's invariant: "a consumed counter is never returned NONCE_OK
\* again", whatever jumps and late frames came in between.
NoReplay ==
  \A c \in consumed : Verdict(seen, last, c) # "NONCE_OK"

\* The converse, which keeps a lossy link usable: a counter inside the
\* window, or ahead of it, that was not consumed is still accepted.
LateFramesAccepted ==
  \A c \in Counter \ consumed :
    c + Width > last => Verdict(seen, last, c) = "NONCE_OK"

\* last_seen never moves backward within one session, and no jump, however
\* wide, takes a consumed counter out of the history the window protects.
LastMonotone == [][consumed \subseteq consumed' => last' >= last]_vars
=============================================================================
