---------------------------- MODULE SessionProofs ----------------------------
(***************************************************************************)
(* What Session promises, for every limit, window and clock.               *)
(***************************************************************************)
EXTENDS Session, TLAPS

\* What a session sealed or opened it did under a key of its own, below the
\* counter it is at, or inside its window.
UsedOnce ==
  /\ sess.authenticated => sess.id <= keys
  /\ \A k \in 1 .. MaxKeys, c \in 0 .. TxMax : <<k, c>> \in sealed =>
       k <= keys /\ (sess.authenticated /\ k = sess.id => c < sess.tx)
  /\ \A k \in 1 .. MaxKeys, c \in RxCounters : <<k, c>> \in opened =>
       k <= keys /\ (sess.authenticated /\ k = sess.id => c \in sess.rx)

\* A challenge that is pending was issued, no proof was compared with it, and
\* its request is the last one the limiter counted, if it counts any; it was
\* throttled only if the limiter is full.
ChallengeAlone ==
  /\ sess.challenge <= issued
  /\ \A n \in judged \union throttled : n <= issued
  /\ sess.challenge \notin judged
  /\ sess.challenge # 0 /\ sess.attempts # 0 => sess.last_auth = sess.challenge_ms
  /\ sess.challenge \in throttled => sess.attempts >= RATE_MAX_ATTEMPTS

\* The inductive invariant of the session.
SessionInd == SessionInv /\ UsedOnce /\ ChallengeAlone

-----------------------------------------------------------------------------
\* The limiter's count stays within its limit, and counting a request touches
\* nothing but the count and its stamp.
LEMMA CountedFits ==
  ASSUME SessionTypeOK, Accepted
  PROVE  \E n \in 1 .. RATE_MAX_ATTEMPTS :
           Counted = [sess EXCEPT !.attempts = n, !.last_auth = now]
<1>1. sess.attempts \in 0 .. RATE_MAX_ATTEMPTS /\ (WindowOpen => sess.attempts < RATE_MAX_ATTEMPTS)
  BY SessionAssumption DEF SessionTypeOK, SessionRecord, Accepted
<1>2. (IF WindowOpen THEN sess.attempts ELSE 0) + 1 \in 1 .. RATE_MAX_ATTEMPTS
  BY <1>1, SessionAssumption
<1>3. Counted = [sess EXCEPT !.attempts = (IF WindowOpen THEN sess.attempts ELSE 0) + 1,
                             !.last_auth = now]
  BY DEF Counted
<1> QED
  BY <1>2, <1>3

\* A set of numbers, with one more that is not 0.
LEMMA OneMore ==
  ASSUME NEW m \in Nat, NEW i, NEW c \in 0 .. m, c <= i,
         NEW S \in SUBSET (1 .. m), \A n \in S : n <= i,
         NEW T, T = S \/ T = S \union ({c} \ {0})
  PROVE  T \subseteq 1 .. m /\ \A n \in T : n <= i
<1>1. c # 0 => c \in 1 .. m
  OBVIOUS
<1> QED
  BY <1>1

\* A challenge that is judged was issued.
LEMMA JudgedStays ==
  ASSUME SessionTypeOK, ChallengeAlone,
         judged' = judged \/ judged' = judged \union ({sess.challenge} \ {0})
  PROVE  judged' \subseteq 1 .. MaxChallenges /\ (\A n \in judged' : n <= issued)
<1>1. sess.challenge \in 0 .. MaxChallenges /\ sess.challenge <= issued
  BY DEF SessionTypeOK, SessionRecord, ChallengeAlone
<1>2. judged \subseteq 1 .. MaxChallenges /\ \A n \in judged : n <= issued
  BY DEF SessionTypeOK, ChallengeAlone
<1>3. MaxChallenges \in Nat
  BY SessionAssumption
<1>4. PICK i \in {issued}, c \in 0 .. MaxChallenges, S \in SUBSET (1 .. MaxChallenges),
           T \in {judged'} : c = sess.challenge /\ S = judged
  BY <1>1, <1>2, <1>3
<1>5. c <= i /\ (\A n \in S : n <= i) /\ (T = S \/ T = S \union ({c} \ {0}))
  BY <1>1, <1>2, <1>4
<1>6. T \subseteq 1 .. MaxChallenges /\ (\A n \in T : n <= i)
  BY <1>3, <1>5, OneMore
<1> QED
  BY <1>4, <1>6

LEMMA ClearedTyped == Cleared \in SessionRecord
BY SessionAssumption DEF Cleared, SessionRecord, Time

\* A cleared session satisfies the invariant, whatever came before.
LEMMA ClearKeeps ==
  ASSUME SessionInd, od_session_clear, UNCHANGED <<now, keys, issued, throttled, sealed, opened>>,
         judged' = judged \/ judged' = judged \union ({sess.challenge} \ {0})
  PROVE  SessionInd'
<1>t. SessionTypeOK /\ KeySlotAgrees /\ UsedOnce /\ ChallengeAlone
  BY DEF SessionInd, SessionInv
<1>j. judged' \subseteq 1 .. MaxChallenges /\ (\A n \in judged' : n <= issued)
  BY <1>t, JudgedStays
<1>s. sess' = Cleared /\ slotKey' = 0
  BY <1>t DEF od_session_clear, KeySlotAgrees, SessionTypeOK, SessionRecord
<1>0. /\ ~sess'.authenticated /\ ~sess'.key_loaded /\ sess'.challenge = 0
      /\ sess' \in SessionRecord
  BY <1>s, ClearedTyped DEF Cleared
<1>1. SessionTypeOK'
  BY <1>0, <1>s, <1>t, <1>j, SessionAssumption DEF SessionTypeOK
<1>2. KeySlotAgrees'
  BY <1>0, <1>s DEF KeySlotAgrees
<1>3. UsedOnce'
  BY <1>0, <1>t DEF UsedOnce
<1>4. ChallengeAlone'
  <2>1. 0 \notin judged' /\ 0 \notin throttled' /\ 0 <= issued'
    BY <1>t, <1>j, SessionAssumption DEF SessionTypeOK
  <2> QED
    BY <1>0, <1>t, <1>j, <2>1 DEF ChallengeAlone
<1> QED
  BY <1>1, <1>2, <1>3, <1>4 DEF SessionInd, SessionInv

\* A step that leaves the key, its use and the histories of it alone, and
\* leaves no session with a challenge, keeps what the invariant says of them.
LEMMA SameKeyKeeps ==
  ASSUME SessionInd, UNCHANGED <<slotKey, keys, sealed, opened>>,
         sess'.authenticated = sess.authenticated, sess'.key_loaded = sess.key_loaded,
         sess'.id = sess.id, sess'.tx = sess.tx, sess'.rx = sess.rx,
         sess.authenticated => sess'.challenge = 0
  PROVE  KeySlotAgrees' /\ UsedOnce'
BY DEF SessionInd, SessionInv, KeySlotAgrees, UsedOnce

\* A step that leaves no session behind, and no key in the slot, keeps what
\* the invariant says of keys.
LEMMA NoKeyKeeps ==
  ASSUME SessionInd, UNCHANGED <<keys, sealed, opened>>,
         ~sess'.authenticated, ~sess'.key_loaded, slotKey' = 0
  PROVE  KeySlotAgrees' /\ UsedOnce'
BY DEF SessionInd, SessionInv, KeySlotAgrees, UsedOnce

LEMMA SessionStep ==
  ASSUME SessionInd, [SessionNext]_sessionVars
  PROVE  SessionInd'
<1> USE SessionAssumption
<1>t. SessionTypeOK /\ KeySlotAgrees /\ UsedOnce /\ ChallengeAlone
  BY DEF SessionInd, SessionInv
<1>r. /\ sess \in SessionRecord /\ now \in Time /\ 0 \in Time
      /\ sess.challenge \in 0 .. MaxChallenges /\ sess.attempts \in 0 .. RATE_MAX_ATTEMPTS
      /\ issued \in 0 .. MaxChallenges
  BY <1>t DEF SessionTypeOK, SessionRecord, Time
<1>1. CASE UNCHANGED sessionVars
  BY <1>1, <1>t DEF sessionVars, history, SessionInd, SessionInv, SessionTypeOK, KeySlotAgrees,
     UsedOnce, ChallengeAlone
<1>2. CASE ClockTick
  <2>1. now' \in Time
    BY <1>2, <1>r DEF ClockTick, Time
  <2> QED
    BY <1>2, <1>t, <2>1 DEF ClockTick, history, SessionInd, SessionInv, SessionTypeOK, KeySlotAgrees,
       UsedOnce, ChallengeAlone
<1>3. CASE Expire \/ SealExhausted \/ Teardown
  BY <1>3, ClearKeeps DEF Expire, SealExhausted, Teardown, history
<1>4. CASE RateLimited
  <2>1. SessionTypeOK' /\ KeySlotAgrees' /\ UsedOnce'
    <3>1. throttled' \subseteq 1 .. MaxChallenges
      <4>1. sess.challenge # 0 => sess.challenge \in 1 .. MaxChallenges
        BY <1>r
      <4>2. throttled \subseteq 1 .. MaxChallenges
        BY <1>t DEF SessionTypeOK
      <4> QED
        BY <1>4, <4>1, <4>2 DEF RateLimited
    <3> QED
      BY <1>4, <1>t, <3>1 DEF RateLimited, SessionTypeOK, KeySlotAgrees, UsedOnce
  <2>2. ChallengeAlone'
    <3>1. sess' = sess /\ issued' = issued /\ judged' = judged /\ sess.attempts >= RATE_MAX_ATTEMPTS
      BY <1>4 DEF RateLimited
    <3>2. \A n \in throttled' : n <= issued
      <4> TAKE n \in throttled'
      <4>1. n \in throttled \/ n = sess.challenge
        BY <1>4 DEF RateLimited
      <4> QED
        BY <1>t, <4>1 DEF ChallengeAlone
    <3> QED
      BY <1>t, <3>1, <3>2 DEF ChallengeAlone
  <2> QED
    BY <2>1, <2>2 DEF SessionInd, SessionInv
\* The requests that count and spend: the challenge is gone, nothing else moved.
<1>5. ASSUME Accepted, sess' = challenge_consume(Counted) \/ (sess' = Counted /\ sess.challenge = 0),
             UNCHANGED <<slotKey, now, keys, issued, throttled, sealed, opened>>,
             judged' = judged \/ judged' = judged \union ({sess.challenge} \ {0})
      PROVE  SessionInd'
  <2>1. PICK n \in 1 .. RATE_MAX_ATTEMPTS :
          Counted = [sess EXCEPT !.attempts = n, !.last_auth = now]
    BY <1>5, <1>t, CountedFits
  <2>2. sess' \in SessionRecord /\ sess'.challenge = 0
    <3>1. n \in 0 .. RATE_MAX_ATTEMPTS /\ 0 \in 0 .. MaxChallenges
      OBVIOUS
    <3>2. Counted \in SessionRecord /\ Counted.challenge = sess.challenge
      BY <1>r, <2>1, <3>1 DEF SessionRecord
    <3> QED
      BY <1>5, <1>r, <3>1, <3>2 DEF challenge_consume, SessionRecord
  <2>3. KeySlotAgrees' /\ UsedOnce'
    <3>1. /\ sess'.authenticated = sess.authenticated /\ sess'.key_loaded = sess.key_loaded
          /\ sess'.id = sess.id /\ sess'.tx = sess.tx /\ sess'.rx = sess.rx
      BY <1>5, <1>r, <2>1 DEF challenge_consume, SessionRecord
    <3> QED
      BY <1>5, <2>2, <3>1, SameKeyKeeps
  <2>4. SessionTypeOK'
    BY <1>5, <1>t, <1>r, <2>2, JudgedStays DEF SessionTypeOK
  <2>5. ChallengeAlone'
    <3>0. judged' \subseteq 1 .. MaxChallenges /\ (\A m \in judged' : m <= issued)
      BY <1>5, <1>t, JudgedStays
    <3>1. 0 \notin judged' /\ 0 \notin throttled' /\ 0 <= issued' /\ \A m \in judged' : m <= issued'
      BY <1>5, <1>t, <1>r, <3>0 DEF SessionTypeOK
    <3> QED
      BY <1>5, <1>t, <2>2, <3>1 DEF ChallengeAlone
  <2> QED
    BY <2>3, <2>4, <2>5 DEF SessionInd, SessionInv
<1>6. ASSUME NEW rng_ok \in BOOLEAN, Step1(rng_ok)
      PROVE  SessionInd'
  <2> DEFINE base == IF sess.authenticated THEN Cleared ELSE Counted
  <2>1. PICK n \in 1 .. RATE_MAX_ATTEMPTS :
          Counted = [sess EXCEPT !.attempts = n, !.last_auth = now]
    BY <1>6, <1>t, CountedFits DEF Step1
  <2>2. /\ base \in SessionRecord /\ base.authenticated = FALSE /\ base.key_loaded = FALSE
        /\ base.attempts = 0 \/ base.last_auth = now
    <3>1. CASE sess.authenticated
      BY <3>1, ClearedTyped DEF Cleared
    <3>2. CASE ~sess.authenticated
      <4>1. n \in 0 .. RATE_MAX_ATTEMPTS
        OBVIOUS
      <4>2. sess.authenticated = FALSE /\ sess.key_loaded = FALSE
        BY <3>2, <1>t, <1>r DEF KeySlotAgrees, SessionRecord
      <4>3. base = [sess EXCEPT !.attempts = n, !.last_auth = now]
        BY <3>2, <2>1
      <4> QED
        BY <4>1, <4>2, <4>3, <1>r DEF SessionRecord
    <3> QED
      BY <3>1, <3>2
  <2>3. slotKey' = 0
    BY <1>6, <1>t DEF Step1, KeySlotAgrees
  <2> HIDE DEF base
  <2>4. /\ UNCHANGED <<now, keys, judged, throttled, sealed, opened>> /\ issued < MaxChallenges
        /\ IF rng_ok
           THEN /\ sess' = [base EXCEPT !.challenge = issued + 1, !.challenge_ms = now]
                /\ issued' = issued + 1
           ELSE sess' = challenge_consume(base) /\ UNCHANGED issued
    BY <1>6 DEF Step1, base
  <2>5. issued' \in 0 .. MaxChallenges /\ issued <= issued' /\ issued + 1 \in 0 .. MaxChallenges
    BY <2>4, <1>r
  <2>6. /\ sess' \in SessionRecord /\ ~sess'.authenticated /\ ~sess'.key_loaded
        /\ sess'.attempts = base.attempts /\ sess'.last_auth = base.last_auth
        /\ \/ sess'.challenge = issued + 1 /\ sess'.challenge_ms = now /\ issued' = issued + 1
           \/ sess'.challenge = 0
    <3>1. CASE rng_ok
      BY <3>1, <2>2, <2>4, <2>5, <1>r DEF SessionRecord
    <3>2. CASE ~rng_ok
      <4>1. 0 \in 0 .. MaxChallenges
        OBVIOUS
      <4> QED
        BY <3>2, <4>1, <2>2, <2>4, <1>r DEF SessionRecord, challenge_consume
    <3> QED
      BY <3>1, <3>2
  <2>7. SessionTypeOK'
    BY <2>3, <2>4, <2>5, <2>6, <1>t DEF SessionTypeOK
  <2>8. KeySlotAgrees' /\ UsedOnce'
    BY <2>3, <2>4, <2>6, NoKeyKeeps
  <2>9. ChallengeAlone'
    <3>1. \A m \in judged \union throttled : m \in 1 .. MaxChallenges /\ m <= issued
      BY <1>t DEF ChallengeAlone, SessionTypeOK
    <3>2. sess'.challenge \notin judged \union throttled /\ sess'.challenge <= issued'
      BY <2>5, <2>6, <3>1, <1>r
    <3>3. \A m \in judged \union throttled : m <= issued'
      BY <2>5, <3>1, <1>r
    <3>4. sess'.challenge # 0 /\ sess'.attempts # 0 => sess'.last_auth = sess'.challenge_ms
      BY <2>2, <2>6
    <3> QED
      BY <2>4, <3>2, <3>3, <3>4 DEF ChallengeAlone
  <2> QED
    BY <2>7, <2>8, <2>9 DEF SessionInd, SessionInv
<1>7. CASE Step2Unasked \/ Step2Expired \/ Malformed
  <2>1. /\ Accepted /\ UNCHANGED <<slotKey, now, keys, issued, throttled, sealed, opened, judged>>
        /\ sess' = challenge_consume(Counted) \/ (sess' = Counted /\ sess.challenge = 0)
    BY <1>7 DEF Step2Unasked, Step2Expired, Malformed, history
  <2> QED
    BY <2>1, <1>5
<1>8. ASSUME NEW outcome \in Step2Outcomes, Step2(outcome)
      PROVE  SessionInd'
  <2>1. /\ Accepted /\ UNCHANGED <<now, issued, throttled, sealed, opened>>
        /\ judged' = judged \/ judged' = judged \union ({sess.challenge} \ {0})
    <3>1. sess.challenge # 0 /\ (judged' = judged \/ judged' = judged \union {sess.challenge})
      BY <1>8 DEF Step2
    <3>2. {sess.challenge} = {sess.challenge} \ {0}
      BY <3>1
    <3>3. Accepted /\ UNCHANGED <<now, issued, throttled, sealed, opened>>
      BY <1>8 DEF Step2
    <3> QED
      BY <3>1, <3>2, <3>3
  <2>2. CASE outcome = "no_reply"
    BY <2>1, <2>2, <1>8, ClearKeeps DEF Step2
  <2>3. CASE outcome \notin {"no_reply", "established"}
    <3>1. sess' = challenge_consume(Counted) /\ UNCHANGED <<slotKey, keys>>
      BY <2>3, <1>8 DEF Step2, Spend
    <3> QED
      BY <2>1, <3>1, <1>5
  <2>4. CASE outcome = "established"
    <3>1. /\ sess' = challenge_consume(Establish(Counted)) /\ slotKey' = keys + 1
          /\ keys' = keys + 1 /\ keys < MaxKeys
      BY <2>4, <1>8 DEF Step2, Spend
    <3>2. PICK n \in 1 .. RATE_MAX_ATTEMPTS :
            Counted = [sess EXCEPT !.attempts = n, !.last_auth = now]
      BY <2>1, <1>t, CountedFits
    <3>3. keys \in Nat /\ keys + 1 \in 1 .. MaxKeys /\ keys + 1 \in 0 .. MaxKeys
      BY <3>1, <1>t DEF SessionTypeOK
    <3>4. /\ sess' \in SessionRecord /\ sess'.authenticated = TRUE /\ sess'.key_loaded = TRUE
          /\ sess'.id = keys + 1 /\ sess'.rx = {} /\ sess'.challenge = 0
      <4>1. n \in 0 .. RATE_MAX_ATTEMPTS /\ 0 \in 0 .. MaxChallenges /\ 0 \in 0 .. TxMax
            /\ 0 \in 0 .. STRIKES - 1 /\ 0 \in 0 .. RATE_MAX_ATTEMPTS
        OBVIOUS
      <4>2. Counted \in SessionRecord
        BY <4>1, <3>2, <1>r DEF SessionRecord
      <4>3. Establish(Counted) \in SessionRecord /\ Establish(Counted).authenticated = TRUE
            /\ Establish(Counted).key_loaded = TRUE /\ Establish(Counted).id = keys + 1
            /\ Establish(Counted).rx = {}
        BY <4>1, <4>2, <3>3, <1>r DEF Establish, SessionRecord
      <4> QED
        BY <4>1, <4>3, <3>1, <1>r DEF challenge_consume, SessionRecord
    <3>5. judged' \subseteq 1 .. MaxChallenges /\ (\A m \in judged' : m <= issued)
      BY <2>1, <1>t, JudgedStays
    <3>6. SessionTypeOK'
      BY <2>1, <3>1, <3>3, <3>4, <3>5, <1>t DEF SessionTypeOK
    <3>7. KeySlotAgrees'
      BY <3>1, <3>3, <3>4 DEF KeySlotAgrees
    <3>8. UsedOnce'
      <4>1. \A k \in 1 .. MaxKeys : k <= keys => k <= keys' /\ k # sess'.id
        BY <3>1, <3>3, <3>4
      <4>2. sess'.id <= keys'
        BY <3>1, <3>3, <3>4
      <4> QED
        BY <4>1, <4>2, <2>1, <1>t DEF UsedOnce
    <3>9. ChallengeAlone'
      <4>1. 0 \notin judged' /\ 0 \notin throttled' /\ 0 <= issued'
        BY <2>1, <3>5, <1>t, <1>r DEF SessionTypeOK
      <4> QED
        BY <2>1, <3>4, <3>5, <4>1, <1>t DEF ChallengeAlone
    <3> QED
      BY <3>6, <3>7, <3>8, <3>9 DEF SessionInd, SessionInv
  <2> QED
    BY <2>2, <2>3, <2>4
\* A frame of the live session that leaves the handshake alone.
<1>9. ASSUME sess.authenticated, sess' \in SessionRecord, sess'.challenge = sess.challenge,
             sess'.challenge_ms = sess.challenge_ms, sess'.attempts = sess.attempts,
             sess'.last_auth = sess.last_auth, sess'.authenticated = sess.authenticated,
             sess'.key_loaded = sess.key_loaded, sess'.id = sess.id,
             UNCHANGED <<slotKey, now, keys, issued, judged, throttled>>
      PROVE  /\ KeySlotAgrees' /\ ChallengeAlone'
             /\ sealed' \subseteq (1 .. MaxKeys) \X (0 .. TxMax)
                /\ opened' \subseteq (1 .. MaxKeys) \X RxCounters => SessionTypeOK'
  <2>1. KeySlotAgrees'
    BY <1>9, <1>t DEF KeySlotAgrees
  <2>2. ChallengeAlone'
    BY <1>9, <1>t DEF ChallengeAlone
  <2> QED
    BY <1>9, <1>t, <2>1, <2>2 DEF SessionTypeOK
<1>k. sess.authenticated => sess.id \in 1 .. MaxKeys /\ sess.id <= keys
  BY <1>t, <1>r DEF KeySlotAgrees, UsedOnce, SessionRecord
<1>10. ASSUME NEW k \in 1 .. keys, NEW c \in RxCounters, strike(k, c)
       PROVE  SessionInd'
  <2>1. CASE sess.failures + 1 >= STRIKES
    BY <1>10, <2>1, ClearKeeps DEF strike, history
  <2>2. CASE ~(sess.failures + 1 >= STRIKES)
    <3>1. /\ sess' = [sess EXCEPT !.failures = sess.failures + 1] /\ sess.authenticated
          /\ UNCHANGED <<slotKey, now, keys, issued, judged, throttled, sealed, opened>>
      BY <1>10, <2>2 DEF strike, history, Admissible, Alive
    <3>2. sess.failures + 1 \in 0 .. STRIKES - 1
      BY <2>2, <1>r DEF SessionRecord
    <3>3. sess' \in SessionRecord /\ sess'.tx = sess.tx /\ sess'.rx = sess.rx
      BY <3>1, <3>2, <1>r DEF SessionRecord
    <3>4. KeySlotAgrees' /\ ChallengeAlone' /\ SessionTypeOK'
      BY <3>1, <3>3, <1>9, <1>t, <1>r DEF SessionTypeOK, SessionRecord
    <3>5. UsedOnce'
      BY <3>1, <3>3, <1>t, <1>r DEF UsedOnce, SessionRecord
    <3> QED
      BY <3>4, <3>5 DEF SessionInd, SessionInv
  <2> QED
    BY <2>1, <2>2
<1>11. ASSUME NEW k \in 1 .. keys, NEW c \in RxCounters, OpenBadLength(k, c) \/ OpenOk(k, c)
       PROVE  SessionInd'
  <2>1. /\ sess.authenticated /\ k = sess.id /\ opened' = opened \union {<<k, c>>}
        /\ UNCHANGED <<slotKey, now, keys, issued, judged, throttled, sealed>>
        /\ \/ sess' = [sess EXCEPT !.rx = sess.rx \union {c}]
           \/ sess' = [sess EXCEPT !.rx = sess.rx \union {c}, !.failures = 0]
    BY <1>11 DEF OpenBadLength, OpenOk, Admissible, Alive
  <2>2. sess' \in SessionRecord /\ sess'.rx = sess.rx \union {c} /\ sess'.tx = sess.tx
    <3>1. 0 \in 0 .. STRIKES - 1 /\ sess.rx \union {c} \in SUBSET RxCounters
      BY <1>r DEF SessionRecord
    <3> QED
      BY <2>1, <3>1, <1>r DEF SessionRecord
  <2>3. KeySlotAgrees' /\ ChallengeAlone' /\ SessionTypeOK'
    <3>1. opened' \subseteq (1 .. MaxKeys) \X RxCounters
      BY <2>1, <1>k, <1>t DEF SessionTypeOK
    <3>2. sealed' \subseteq (1 .. MaxKeys) \X (0 .. TxMax)
      BY <2>1, <1>t DEF SessionTypeOK
    <3> QED
      BY <2>1, <2>2, <3>1, <3>2, <1>9, <1>r DEF SessionRecord
  <2>4. UsedOnce'
    <3>0. sess'.authenticated = sess.authenticated /\ sess'.id = sess.id
      BY <2>1, <1>r DEF SessionRecord
    <3>1. ASSUME NEW j \in 1 .. MaxKeys, NEW d \in RxCounters, <<j, d>> \in opened'
          PROVE  j <= keys /\ (sess.authenticated /\ j = sess.id => d \in sess'.rx)
      <4>1. CASE <<j, d>> \in opened
        BY <4>1, <2>2, <1>t DEF UsedOnce
      <4>2. CASE j = k /\ d = c
        BY <4>2, <2>1, <2>2, <1>k
      <4> QED
        BY <3>1, <4>1, <4>2, <2>1
    <3> QED
      BY <2>1, <2>2, <3>0, <3>1, <1>t DEF UsedOnce
  <2> QED
    BY <2>3, <2>4 DEF SessionInd, SessionInv
<1>12. CASE Seal
  <2>1. /\ sess.authenticated /\ sealed' = sealed \union {<<sess.id, sess.tx>>} /\ sess.tx < TxMax
        /\ UNCHANGED <<slotKey, now, keys, issued, judged, throttled, opened>>
        /\ sess' = [sess EXCEPT !.tx = sess.tx + 1]
    BY <1>12 DEF Seal, Alive
  <2>2. sess.tx \in 0 .. TxMax /\ sess.tx + 1 \in 0 .. TxMax
    BY <2>1, <1>r DEF SessionRecord
  <2>3. sess' \in SessionRecord /\ sess'.rx = sess.rx /\ sess'.tx = sess.tx + 1
    BY <2>1, <2>2, <1>r DEF SessionRecord
  <2>4. KeySlotAgrees' /\ ChallengeAlone' /\ SessionTypeOK'
    <3>1. sealed' \subseteq (1 .. MaxKeys) \X (0 .. TxMax)
      BY <2>1, <2>2, <1>k, <1>t DEF SessionTypeOK
    <3>2. opened' \subseteq (1 .. MaxKeys) \X RxCounters
      BY <2>1, <1>t DEF SessionTypeOK
    <3> QED
      BY <2>1, <2>3, <3>1, <3>2, <1>9, <1>r DEF SessionRecord
  <2>5. UsedOnce'
    <3>0. sess'.authenticated = sess.authenticated /\ sess'.id = sess.id
      BY <2>1, <1>r DEF SessionRecord
    <3>1. ASSUME NEW j \in 1 .. MaxKeys, NEW d \in 0 .. TxMax, <<j, d>> \in sealed'
          PROVE  j <= keys /\ (sess.authenticated /\ j = sess.id => d < sess'.tx)
      <4>1. CASE <<j, d>> \in sealed
        <5>1. j <= keys /\ (sess.authenticated /\ j = sess.id => d < sess.tx)
          BY <4>1, <1>t DEF UsedOnce
        <5> QED
          BY <5>1, <2>2, <2>3
      <4>2. CASE j = sess.id /\ d = sess.tx
        BY <4>2, <2>1, <2>2, <2>3, <1>k
      <4> QED
        BY <3>1, <4>1, <4>2, <2>1
    <3> QED
      BY <2>1, <2>3, <3>0, <3>1, <1>t DEF UsedOnce
  <2> QED
    BY <2>4, <2>5 DEF SessionInd, SessionInv
<1> QED
  BY <1>1, <1>2, <1>3, <1>4, <1>6, <1>7, <1>8, <1>10, <1>11, <1>12 DEF SessionNext

LEMMA SessionStart == SessionInit => SessionInd
<1> SUFFICES ASSUME SessionInit PROVE SessionInd
  OBVIOUS
<1>1. SessionTypeOK
  BY ClearedTyped, SessionAssumption DEF SessionInit, SessionTypeOK, Time
<1>2. KeySlotAgrees
  BY DEF SessionInit, KeySlotAgrees, Cleared
<1>3. UsedOnce
  BY DEF SessionInit, UsedOnce, Cleared
<1>4. ChallengeAlone
  BY DEF SessionInit, ChallengeAlone, Cleared
<1> QED
  BY <1>1, <1>2, <1>3, <1>4 DEF SessionInd, SessionInv

LEMMA SessionInvariant == SessionSpec => []SessionInd
BY SessionStart, SessionStep, PTL DEF SessionSpec

\* The session's fields stay in their ranges, the limiter's count included,
\* and the HAL slot holds a key exactly while a session is authenticated, that
\* session's own, for every limit, timeout, clock and number of handshakes
\* (od_session_clear, session_authenticate).
THEOREM SlotFollowsSession == SessionSpec => []SessionInv
BY SessionInvariant, PTL DEF SessionInd

-----------------------------------------------------------------------------
\* A challenge is compared with a proof only while it is pending, and it is
\* never pending once it was compared.
LEMMA ProofOnce ==
  ASSUME SessionInd, NEW o \in Step2Outcomes \ {"no_proof"}, Step2(o)
  PROVE  sess.challenge \notin judged
BY DEF SessionInd, ChallengeAlone

\* The request that a throttled challenge answers is the last one counted: the
\* limiter lets nobody through before its window is over, and then the
\* challenge, as old as the window, is stale.
LEMMA ThrottledIsDead ==
  ASSUME SessionInd, Step2("established")
  PROVE  sess.challenge \notin throttled
<1> SUFFICES ASSUME sess.challenge \in throttled
             PROVE  FALSE
  OBVIOUS
<1>1. sess.challenge # 0 /\ Accepted /\ Age(sess.challenge_ms) <= CHALLENGE_WINDOW
  BY DEF Step2, ChallengeFresh
<1>2. sess.attempts \in Nat /\ sess.attempts >= RATE_MAX_ATTEMPTS
  BY DEF SessionInd, SessionInv, SessionTypeOK, SessionRecord, ChallengeAlone
<1>3. sess.attempts # 0
  BY <1>2, SessionAssumption
<1>4. sess.last_auth = sess.challenge_ms
  BY <1>1, <1>3 DEF SessionInd, ChallengeAlone
<1>5. ~(Age(sess.challenge_ms) < RATE_WINDOW)
  BY <1>1, <1>2, <1>3, <1>4 DEF Accepted, WindowOpen
<1>6. Age(sess.challenge_ms) \in Int
  <2>1. sess.challenge_ms \in Int /\ now \in Int /\ ClockMod \in Nat \ {0}
    BY SessionAssumption DEF SessionInd, SessionInv, SessionTypeOK, SessionRecord, Time
  <2> QED
    BY <2>1 DEF Age
<1> QED
  BY <1>1, <1>5, <1>6, SessionAssumption

\* A session seals at its counter, above all it sealed before.
LEMMA SealedOnce ==
  ASSUME SessionInd, Seal
  PROVE  <<sess.id, sess.tx>> \notin sealed
<1>1. sess.authenticated /\ sess.tx \in 0 .. TxMax /\ sess.id \in 1 .. MaxKeys
  BY SessionAssumption DEF Seal, Alive, SessionInd, SessionInv, SessionTypeOK, SessionRecord, KeySlotAgrees
<1>2. <<sess.id, sess.tx>> \in sealed => sess.tx < sess.tx
  BY <1>1 DEF SessionInd, UsedOnce
<1> QED
  BY <1>1, <1>2

\* A session opens what its window would accept, and its window would refuse
\* all it opened before.
LEMMA FrameOnce ==
  ASSUME SessionInd, NEW k \in 1 .. MaxKeys, NEW c \in RxCounters, OpenOk(k, c)
  PROVE  <<k, c>> \notin opened
BY DEF SessionInd, UsedOnce, OpenOk, Admissible, Alive

\* No proof is compared with a challenge twice; a challenge that outlived a
\* throttled request establishes nothing; no nonce goes to the cipher twice
\* under one key, and no authentic frame reaches a handler twice, over every
\* sequence of handshakes, faults, expiries and counter exhaustions of
\* od_session.c.
THEOREM NothingTwice == SessionSpec => SessionSteps
<1>1. SessionInd /\ [SessionNext]_sessionVars
        => [\A o \in Step2Outcomes \ {"no_proof"} : Step2(o) => sess.challenge \notin judged]_sessionVars
  BY ProofOnce
<1>2. SessionInd /\ [SessionNext]_sessionVars
        => [Step2("established") => sess.challenge \notin throttled]_sessionVars
  BY ThrottledIsDead
<1>3. SessionInd /\ [SessionNext]_sessionVars
        => [Seal => <<sess.id, sess.tx>> \notin sealed]_sessionVars
  BY SealedOnce
<1>4. SessionInd /\ [SessionNext]_sessionVars
        => [\A k \in 1 .. MaxKeys, c \in RxCounters :
              OpenOk(k, c) => <<k, c>> \notin opened]_sessionVars
  BY FrameOnce
<1> QED
  BY <1>1, <1>2, <1>3, <1>4, SessionInvariant, PTL
     DEF SessionSpec, SessionSteps, OneProofPerChallenge, ThrottledChallengeIsDead, NonceNeverReused,
         OpenedOnce
=============================================================================
