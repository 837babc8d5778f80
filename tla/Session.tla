------------------------------- MODULE Session -------------------------------
(***************************************************************************)
(* The application session of shared/core/od_session.c: the two-step       *)
(* handshake with its rate limiter, the inbound envelope with its strikes  *)
(* and the outbound one with its counter, over a 32-bit millisecond clock  *)
(* that wraps.                                                             *)
(*                                                                         *)
(* Each successful handshake derives a key of its own: a key is the number *)
(* of the handshake.  A server nonce is the number of the challenge.  The  *)
(* inbound window is the set of counters it would refuse; NonceWindow is   *)
(* the module about how the bitmap keeps that set.                         *)
(***************************************************************************)
EXTENDS Integers

CONSTANTS
  RATE_MAX_ATTEMPTS,  \* 10
  RATE_WINDOW,        \* 60 s
  CHALLENGE_WINDOW,   \* 30 s
  STRIKES,            \* 3
  Timeout,            \* session_timeout_seconds, 0 for none
  ClockMod,           \* 2^32
  TxMax,              \* the last outbound counter, UINT64_MAX
  RxCounters,         \* inbound counters the peer uses
  MaxKeys, MaxChallenges

ASSUME SessionAssumption ==
  /\ RATE_MAX_ATTEMPTS \in Nat \ {0} /\ RATE_WINDOW \in Nat /\ CHALLENGE_WINDOW \in Nat
  /\ STRIKES \in Nat \ {0} /\ Timeout \in Nat /\ TxMax \in Nat
  /\ ClockMod \in Nat /\ MaxKeys \in Nat /\ MaxChallenges \in Nat
  /\ ClockMod > 2 * RATE_WINDOW /\ CHALLENGE_WINDOW < RATE_WINDOW

VARIABLES
  sess,       \* struct od_session, the nonce fields of an idle session zeroed
  slotKey,    \* the key the HAL slot holds, 0 for none
  now,        \* od_session_app_now_ms()
  keys,       \* history: handshakes completed
  issued,     \* history: challenges issued
  judged,     \* history: challenges a proof was compared against
  throttled,  \* history: challenges held while a request was rate-limited
  sealed,     \* history: <<key, counter>> given to the cipher
  opened      \* history: <<key, counter>> of frames handed to a handler

history == <<keys, issued, judged, throttled, sealed, opened>>
sessionVars == <<sess, slotKey, now, history>>

Cleared ==
  [authenticated |-> FALSE, key_loaded |-> FALSE, id |-> 0, tx |-> 0, rx |-> {},
   start |-> 0, challenge |-> 0, challenge_ms |-> 0, last_auth |-> 0,
   attempts |-> 0, failures |-> 0]

Time == 0 .. ClockMod - 1
Age(stamp) == (now - stamp + ClockMod) % ClockMod

SessionRecord ==
  [authenticated : BOOLEAN, key_loaded : BOOLEAN, id : 0 .. MaxKeys,
   tx : 0 .. TxMax, rx : SUBSET RxCounters, start : Time,
   challenge : 0 .. MaxChallenges, challenge_ms : Time, last_auth : Time,
   attempts : 0 .. RATE_MAX_ATTEMPTS, failures : 0 .. STRIKES - 1]

SessionTypeOK ==
  /\ sess \in SessionRecord
  /\ slotKey \in 0 .. MaxKeys
  /\ now \in Time
  /\ keys \in 0 .. MaxKeys
  /\ issued \in 0 .. MaxChallenges
  /\ judged \subseteq 1 .. MaxChallenges
  /\ throttled \subseteq 1 .. MaxChallenges
  /\ sealed \subseteq (1 .. MaxKeys) \X (0 .. TxMax)
  /\ opened \subseteq (1 .. MaxKeys) \X RxCounters

SessionInit ==
  /\ sess = Cleared
  /\ slotKey = 0
  /\ now = 0
  /\ keys = 0
  /\ issued = 0
  /\ judged = {}
  /\ throttled = {}
  /\ sealed = {}
  /\ opened = {}

-----------------------------------------------------------------------------
(* Clearing, expiry and the clock.                                         *)

\* A clear that forgets the key in the HAL slot.
Mut_od_session_clear == sess' = Cleared /\ UNCHANGED slotKey

\* od_session_clear(): the key slot is released if this session loaded it.
od_session_clear ==
  /\ sess' = Cleared
  /\ slotKey' = IF sess.key_loaded THEN 0 ELSE slotKey

Expired == Timeout # 0 /\ Age(sess.start) >= Timeout

\* od_session_alive() tears an expired session down as it answers.
Expire ==
  /\ sess.authenticated
  /\ Expired
  /\ od_session_clear
  /\ UNCHANGED <<now, history>>

Alive == sess.authenticated /\ ~Expired

\* A stamp in use is looked at again before the 49.7-day clock laps it.
NoLap(inUse, stamp) == inUse => Age(stamp) < ClockMod - 1

ClockTick ==
  /\ NoLap(sess.authenticated /\ Timeout # 0, sess.start)
  /\ NoLap(sess.attempts # 0, sess.last_auth)
  /\ NoLap(sess.challenge # 0, sess.challenge_ms)
  /\ now' = (now + 1) % ClockMod
  /\ UNCHANGED <<sess, slotKey, history>>

-----------------------------------------------------------------------------
(* The handshake: session_authenticate().                                  *)

WindowOpen == sess.attempts # 0 /\ Age(sess.last_auth) < RATE_WINDOW

\* The limiter refuses before the request is looked at; the challenge stays.
RateLimited ==
  /\ WindowOpen
  /\ sess.attempts >= RATE_MAX_ATTEMPTS
  /\ throttled' = throttled \union ({sess.challenge} \ {0})
  /\ UNCHANGED <<sess, slotKey, now, keys, issued, judged, sealed, opened>>

\* An accepted request is counted and stamped before anything else.
Counted ==
  [sess EXCEPT !.attempts = (IF WindowOpen THEN @ ELSE 0) + 1, !.last_auth = now]

Accepted == ~(WindowOpen /\ sess.attempts >= RATE_MAX_ATTEMPTS)

challenge_consume(x) == [x EXCEPT !.challenge = 0, !.challenge_ms = 0]

\* Step 1: a live session is cleared, the limiter's count with it; then a
\* fresh challenge is issued if the random generator delivers.
Step1(rng_ok) ==
  /\ Accepted
  /\ issued < MaxChallenges
  /\ LET base == IF sess.authenticated THEN Cleared ELSE Counted
     IN  IF rng_ok
         THEN /\ sess' = [base EXCEPT !.challenge = issued + 1, !.challenge_ms = now]
              /\ issued' = issued + 1
         ELSE sess' = challenge_consume(base) /\ UNCHANGED issued
  /\ slotKey' = IF sess.authenticated /\ sess.key_loaded THEN 0 ELSE slotKey
  /\ UNCHANGED <<now, keys, judged, throttled, sealed, opened>>

Step2Outcomes == {"no_proof", "rejected", "no_key", "no_reply", "established"}

\* Step 2 with no challenge pending: counted and refused.
Step2Unasked ==
  /\ Accepted
  /\ sess.challenge = 0
  /\ sess' = Counted
  /\ UNCHANGED <<slotKey, now, history>>

ChallengeFresh == Age(sess.challenge_ms) <= CHALLENGE_WINDOW

Step2Expired ==
  /\ Accepted
  /\ sess.challenge # 0
  /\ ~ChallengeFresh
  /\ sess' = challenge_consume(Counted)
  /\ UNCHANGED <<slotKey, now, history>>

Spend(outcome, x) == challenge_consume(x)

Establish(x) ==
  [x EXCEPT !.authenticated = TRUE, !.key_loaded = TRUE, !.id = keys + 1, !.tx = 0,
            !.rx = {}, !.failures = 0, !.start = now, !.attempts = 0]

\* Step 2 up to the proof comparison and past it.  "no_proof" is an engine
\* fault before the comparison; "no_key" one between the comparison and the
\* key slot; "no_reply" one that clears the session: the device's own proof
\* or the key slot.
Step2(outcome) ==
  /\ sess.challenge # 0
  /\ Accepted
  /\ ChallengeFresh
  /\ outcome = "established" => keys < MaxKeys
  /\ judged' = IF outcome = "no_proof" THEN judged ELSE judged \union {sess.challenge}
  /\ CASE outcome = "established" ->
            /\ sess' = Spend(outcome, Establish(Counted))
            /\ slotKey' = keys + 1
            /\ keys' = keys + 1
       [] outcome = "no_reply" -> od_session_clear /\ UNCHANGED keys
       [] OTHER -> sess' = Spend(outcome, Counted) /\ UNCHANGED <<slotKey, keys>>
  /\ UNCHANGED <<now, issued, throttled, sealed, opened>>

\* A body of neither shape spends a pending challenge.
Malformed ==
  /\ Accepted
  /\ sess' = challenge_consume(Counted)
  /\ UNCHANGED <<slotKey, now, history>>

-----------------------------------------------------------------------------
(* The inbound envelope: session_open().                                   *)

\* A frame of the current session whose counter the window would accept.
Admissible(k, c) == Alive /\ k = sess.id /\ c \notin sess.rx

\* The tag fails: a strike, and at the last one the session goes.
strike(k, c) ==
  /\ Admissible(k, c)
  /\ IF sess.failures + 1 >= STRIKES
     THEN od_session_clear
     ELSE sess' = [sess EXCEPT !.failures = @ + 1] /\ UNCHANGED slotKey
  /\ UNCHANGED <<now, history>>

\* Authentic but misshapen: committed all the same.  It counts as opened so
\* that no later copy may be.
OpenBadLength(k, c) ==
  /\ Admissible(k, c)
  /\ sess' = [sess EXCEPT !.rx = @ \union {c}]
  /\ opened' = opened \union {<<k, c>>}
  /\ UNCHANGED <<slotKey, now, keys, issued, judged, throttled, sealed>>

OpenOk(k, c) ==
  /\ Admissible(k, c)
  /\ sess' = [sess EXCEPT !.rx = @ \union {c}, !.failures = 0]
  /\ opened' = opened \union {<<k, c>>}
  /\ UNCHANGED <<slotKey, now, keys, issued, judged, throttled, sealed>>

-----------------------------------------------------------------------------
(* The outbound envelope: session_seal() as od_reply() calls it.           *)

\* The counter wraps instead of running out.
MutSeal ==
  /\ Alive
  /\ sess' = [sess EXCEPT !.tx = (@ + 1) % (TxMax + 1)]
  /\ sealed' = sealed \union {<<sess.id, sess.tx>>}
  /\ UNCHANGED <<slotKey, now, keys, issued, judged, throttled, opened>>

\* The counter is spent whether or not the cipher then succeeds.
Seal ==
  /\ Alive
  /\ sess.tx < TxMax
  /\ sess' = [sess EXCEPT !.tx = @ + 1]
  /\ sealed' = sealed \union {<<sess.id, sess.tx>>}
  /\ UNCHANGED <<slotKey, now, keys, issued, judged, throttled, opened>>

\* The counter would wrap: od_reply() clears the session.
SealExhausted ==
  /\ Alive
  /\ sess.tx = TxMax
  /\ od_session_clear
  /\ UNCHANGED <<now, history>>

\* A disconnect (od_core_reset) or a saved configuration clears the session.
Teardown ==
  /\ od_session_clear
  /\ UNCHANGED <<now, history>>

SessionNext ==
  \/ ClockTick
  \/ Expire
  \/ RateLimited
  \/ \E rng_ok \in BOOLEAN : Step1(rng_ok)
  \/ Step2Unasked
  \/ Step2Expired
  \/ \E outcome \in Step2Outcomes : Step2(outcome)
  \/ Malformed
  \/ \E k \in 1 .. keys, c \in RxCounters :
       strike(k, c) \/ OpenBadLength(k, c) \/ OpenOk(k, c)
  \/ Seal
  \/ SealExhausted
  \/ Teardown

SessionSpec == SessionInit /\ [][SessionNext]_sessionVars

-----------------------------------------------------------------------------
(* Properties.                                                             *)

\* The HAL slot holds a key exactly while a session is authenticated, and it
\* is that session's key; an authenticated session holds no open challenge.
KeySlotAgrees ==
  /\ sess.authenticated <=> sess.key_loaded
  /\ slotKey = IF sess.authenticated THEN sess.id ELSE 0
  /\ sess.authenticated => sess.challenge = 0 /\ sess.id # 0

\* Session state in its ranges, the limiter's count included, and in step with
\* the key slot (od_session_clear, step 2 of od_session_authenticate).
SessionInv == SessionTypeOK /\ KeySlotAgrees

\* "One challenge answers one step 2": no challenge has a proof compared
\* against it twice, however the attempt ended.
OneProofPerChallenge ==
  [][\A o \in Step2Outcomes \ {"no_proof"} : Step2(o) => sess.challenge \notin judged]_sessionVars

\* The header's remark on the limiter: a challenge preserved by a throttled
\* request has expired before the peer is let through again.
ThrottledChallengeIsDead ==
  [][Step2("established") => sess.challenge \notin throttled]_sessionVars

\* No nonce is given to the cipher twice under one key, across counter
\* exhaustion, engine faults and re-authentication.
NonceNeverReused == [][Seal => <<sess.id, sess.tx>> \notin sealed]_sessionVars

\* An authentic frame reaches a handler at most once over the whole life of
\* the device, copies from earlier sessions included.
OpenedOnce ==
  [][\A k \in 1 .. MaxKeys, c \in RxCounters :
       OpenOk(k, c) => <<k, c>> \notin opened]_sessionVars

\* What a step of the session may never do: the four together.
SessionSteps ==
  /\ OneProofPerChallenge /\ ThrottledChallengeIsDead
  /\ NonceNeverReused /\ OpenedOnce
=============================================================================
