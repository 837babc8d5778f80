------------------------------ MODULE Watchdog ------------------------------
(***************************************************************************)
(* The watchdog policy of shared/core/od_watchdog.c.  One retained byte    *)
(* survives a reset; it carries a validity tag, a strike count and the     *)
(* phase the firmware was last in.  Each boot that follows a watchdog      *)
(* reset adds a strike, three strikes put the boot in safe mode, and a     *)
(* boot that stays up for OD_WDT_HEALTHY_MS clears them.  Phase writes     *)
(* (breadcrumbs) share the byte with the strikes.                          *)
(*                                                                         *)
(* The retained store may fail: be unreadable, refuse a write and keep the *)
(* byte, or refuse it having cleared the byte (the clear+set pair that     *)
(* od_watchdog_breadcrumb's comment mentions).  Time advances in units     *)
(* of which Limit make OD_WDT_TIMEOUT_S and Healthy OD_WDT_HEALTHY_MS.     *)
(***************************************************************************)
EXTENDS Integers, TLAPS

CONSTANTS Phases,    \* breadcrumb phases, 0 = OD_WDT_PHASE_IDLE
          Limit,     \* OD_WDT_TIMEOUT_S
          Healthy,   \* OD_WDT_HEALTHY_MS
          MaxFaults  \* bound: actions during which the store misbehaves

ASSUME WatchdogAssumption ==
    /\ 0 \in Phases /\ Phases \subseteq Nat
    /\ Limit \in Nat \ {0} /\ Healthy \in Nat /\ Healthy >= 2 * Limit
    /\ MaxFaults \in Nat

VARIABLES retained,  \* the retained byte
          wd,        \* struct od_watchdog
          report,    \* struct od_watchdog_boot_report
          uptime,    \* since boot, counted up to Healthy + Limit
          idle,      \* since the hardware watchdog was last fed
          at,        \* history: the phase the code last entered
          wedged,    \* history: the phase it was in at the last reset
          short,     \* history: consecutive watchdog-ended runs shorter than Healthy
          runs,      \* history: consecutive ones that were never fed once Healthy
          lost,      \* history: a store fault since the last clean cold boot
          wiped,     \* history: a failed write has cleared the byte
          store_faults

watchdogVars == <<retained, wd, report, uptime, idle, at, wedged, short, runs, lost, wiped,
                  store_faults>>

Strikes == 0..3
SafeModeStrikes == 3
Saturated(n) == IF n > 3 THEN 3 ELSE n
Unknown == -1                       \* last_phase = 0xFF
PhaseIdle == 0

\* The byte, by its fields; an untagged byte is discarded whatever it holds.
Foreign == [tag |-> FALSE, strikes |-> 0, phase |-> 0]
od_watchdog_retained_pack(n, phase) == [tag |-> TRUE, strikes |-> Saturated(n), phase |-> phase]
Bare == od_watchdog_retained_pack(0, PhaseIdle)
RetainedWords ==
    {Foreign} \cup {od_watchdog_retained_pack(n, phase) : n \in Strikes, phase \in Phases}

Modes == {"ok", "kept", "wiped", "unreadable"}
Written(how, b, v) ==
    CASE how = "ok" -> v [] how = "wiped" -> Foreign [] OTHER -> b

Ours(b) == IF b.tag THEN b ELSE Bare

MutWithPhase(b, phase) == od_watchdog_retained_pack(0, phase)

\* retained_update on the phase field, and on the strike field.
WithPhase(b, phase) == [Ours(b) EXCEPT !.phase = phase]
WithStrikes(b, n) == [Ours(b) EXCEPT !.strikes = Saturated(n)]

retained_update(how, usable, b, v) ==
    [ok |-> usable /\ how = "ok", byte |-> IF usable THEN Written(how, b, v) ELSE b]

\* od_watchdog_breadcrumb's write cache after an attempt.
Cached(old, phase, u) == IF u.ok THEN phase ELSE old

----------------------------------------------------------------------------
\* Strike accounting: one more after a watchdog reset, none after any other.
StrikesAtBoot(watchdog, before) == IF watchdog THEN Saturated(before + 1) ELSE 0

\* od_watchdog_boot_init followed by od_watchdog_arm, as main() calls them.
Boot(b, watchdog, how, enabled) ==
    LET readable == how # "unreadable"
        valid == readable /\ b.tag
        b1 == IF readable /\ ~b.tag THEN Written(how, b, Bare) ELSE b
        usable == readable /\ (b.tag \/ how = "ok")
        before == IF valid THEN b.strikes ELSE 0
        strikes == StrikesAtBoot(watchdog, before)
        b2 == IF watchdog \/ before # 0
              THEN retained_update(how, usable, b1, WithStrikes(b1, strikes)).byte
              ELSE b1
        u == retained_update(how, usable, b2, WithPhase(b2, PhaseIdle))
    IN  /\ retained' = u.byte
        /\ wd' = [strikes |-> strikes, safe_mode |-> strikes >= SafeModeStrikes,
                  strikes_to_clear |-> strikes # 0, retained_usable |-> usable,
                  last_phase |-> Cached(Unknown, PhaseIdle, u),
                  write_failed |-> ~u.ok, armed |-> enabled]
        /\ report' = [was_watchdog |-> watchdog, breadcrumb_valid |-> valid,
                      prev_phase |-> IF valid THEN b.phase ELSE 0]
        /\ uptime' = 0 /\ idle' = 0 /\ at' = PhaseIdle
        /\ wiped' = FALSE

Fault(how) ==
    /\ how # "ok" => store_faults < MaxFaults
    /\ store_faults' = IF how = "ok" THEN store_faults ELSE store_faults + 1

WatchdogInit ==
    /\ retained = Bare
    /\ wd = [strikes |-> 0, safe_mode |-> FALSE, strikes_to_clear |-> FALSE,
             retained_usable |-> TRUE, last_phase |-> PhaseIdle, write_failed |-> FALSE,
             armed |-> TRUE]
    /\ report = [was_watchdog |-> FALSE, breadcrumb_valid |-> FALSE, prev_phase |-> 0]
    /\ uptime = 0 /\ idle = 0 /\ at = PhaseIdle /\ wedged = PhaseIdle
    /\ short = 0 /\ runs = 0 /\ lost = FALSE /\ wiped = FALSE /\ store_faults = 0

\* The hardware watchdog fires: nothing has fed it for Limit.
WatchdogReset(how, enabled) ==
    /\ wd.armed /\ idle = Limit
    /\ Fault(how)
    /\ Boot(retained, TRUE, how, enabled)
    /\ wedged' = at
    /\ short' = IF uptime < Healthy THEN Saturated(short + 1) ELSE 0
    /\ runs' = IF uptime < Healthy + Limit THEN Saturated(runs + 1) ELSE 1
    /\ lost' = (lost \/ how # "ok")

\* Any other reset: a reboot command, a pin reset, or a power cycle, after
\* which the retained byte may hold anything.
OtherReset(b, how, enabled) ==
    /\ Fault(how)
    /\ Boot(b, FALSE, how, enabled)
    /\ wedged' = at
    /\ short' = 0 /\ runs' = 0
    /\ lost' = (how # "ok")

\* strikes_clear_if_healthy: the uptime rule, evaluated on every feed.
ClearsStrikes == wd.strikes_to_clear /\ uptime >= Healthy

od_watchdog_feed(how) ==
    LET u == retained_update(how, wd.retained_usable, retained, WithStrikes(retained, 0))
    IN  /\ idle' = 0
        /\ IF ClearsStrikes
           THEN /\ Fault(how)
                /\ wd' = [wd EXCEPT !.strikes_to_clear = FALSE, !.strikes = 0]
                /\ retained' = u.byte
                /\ lost' = (lost \/ how # "ok")
                /\ wiped' = (wiped \/ (wd.retained_usable /\ how = "wiped"))
           ELSE how = "ok" /\ UNCHANGED <<wd, retained, lost, wiped, store_faults>>
        /\ UNCHANGED <<report, uptime, at, wedged, short, runs>>

\* A breadcrumb that repeats the cached phase is not written.
Stamps(phase) == phase # wd.last_phase

od_watchdog_breadcrumb(phase, how) ==
    LET u == retained_update(how, wd.retained_usable, retained, WithPhase(retained, phase))
    IN  /\ at' = phase
        /\ IF Stamps(phase)
           THEN /\ Fault(how)
                /\ retained' = u.byte
                /\ wd' = [wd EXCEPT !.last_phase = Cached(@, phase, u),
                                    !.write_failed = @ \/ ~u.ok]
                /\ lost' = (lost \/ how # "ok")
                /\ wiped' = (~u.ok /\ (wiped \/ (wd.retained_usable /\ how = "wiped")))
           ELSE how = "ok" /\ UNCHANGED <<wd, retained, lost, wiped, store_faults>>
        /\ UNCHANGED <<report, uptime, idle, wedged, short, runs>>

\* Time passes; an armed watchdog lets at most Limit go by unfed.
Tick ==
    /\ wd.armed => idle < Limit
    /\ uptime' = IF uptime < Healthy + Limit THEN uptime + 1 ELSE uptime
    /\ idle' = IF idle < Limit THEN idle + 1 ELSE idle
    /\ UNCHANGED <<retained, wd, report, at, wedged, short, runs, lost, wiped, store_faults>>

WatchdogNext ==
    \/ \E how \in Modes, enabled \in BOOLEAN : WatchdogReset(how, enabled)
    \/ \E b \in RetainedWords, how \in Modes, enabled \in BOOLEAN : OtherReset(b, how, enabled)
    \/ \E how \in Modes : od_watchdog_feed(how)
    \/ \E phase \in Phases, how \in Modes : od_watchdog_breadcrumb(phase, how)
    \/ Tick

WatchdogSpec == WatchdogInit /\ [][WatchdogNext]_watchdogVars

----------------------------------------------------------------------------
\* Type correctness of the byte, the policy state and the report.
WatchdogTypeOK ==
    /\ retained \in RetainedWords
    /\ wd \in [strikes : Strikes, safe_mode : BOOLEAN, strikes_to_clear : BOOLEAN,
               retained_usable : BOOLEAN, last_phase : Phases \cup {Unknown},
               write_failed : BOOLEAN, armed : BOOLEAN]
    /\ report \in [was_watchdog : BOOLEAN, breadcrumb_valid : BOOLEAN,
                   prev_phase : Phases]
    /\ uptime \in 0..(Healthy + Limit) /\ idle \in 0..Limit
    /\ at \in Phases /\ wedged \in Phases
    /\ short \in Strikes /\ runs \in Strikes
    /\ lost \in BOOLEAN /\ wiped \in BOOLEAN /\ store_faults \in 0..MaxFaults

\* A boot loop is contained: after three runs in a row that a watchdog ended
\* before they were healthy, this boot is in safe mode, whatever breadcrumbs
\* were written in between (od_watchdog_boot_init; the byte's layout).
SafeModeReached == ~lost /\ short >= SafeModeStrikes => wd.safe_mode

\* Safe mode is never entered without cause: the last three runs all ended in a
\* watchdog reset, and none of them had been fed once it was healthy.  A cold
\* boot with arbitrary retained content is not a cause.
SafeModeJustified == ~lost /\ wd.safe_mode => runs >= SafeModeStrikes

\* The boot after a watchdog reset names the phase the firmware was stuck in.
BreadcrumbSurvives ==
    ~lost /\ report.was_watchdog =>
        report.breadcrumb_valid /\ report.prev_phase = wedged

\* The breadcrumb write cache never claims a phase the retained byte does not
\* hold, after failed writes too, unless a failing write cleared the byte
\* (od_watchdog_breadcrumb: "Advance the cache ONLY on success").
CacheHonest ==
    ~wiped /\ wd.last_phase # Unknown => retained.tag /\ retained.phase = wd.last_phase

\* The policy's state in its ranges (strikes saturate), and an honest cache.
WatchdogInv == WatchdogTypeOK /\ CacheHonest

\* A boot loop reaches safe mode, nothing else does, the boot after a wedge
\* names the phase it wedged in, and the cached word is what the retained
\* store holds (od_watchdog.c).
WatchdogSafe == WatchdogInv /\ SafeModeReached /\ SafeModeJustified /\ BreadcrumbSurvives

----------------------------------------------------------------------------
(* Proofs.                                                                 *)

\* While no write was lost, the byte says what the policy's state says, and
\* both name the phase the code is in.
ByteAgrees ==
    ~lost => /\ wd.retained_usable /\ retained.tag /\ ~wiped
             /\ retained.strikes = wd.strikes
             /\ retained.phase = at /\ wd.last_phase = at

\* The strikes lie between the short runs and the runs that were not fed once
\* healthy.  An armed run that still has strikes was last fed before it was
\* healthy, so a watchdog that ends it does so within the limit of that time.
StrikesBetween ==
    /\ ~lost => wd.strikes <= runs /\ (uptime < Healthy => short <= wd.strikes)
    /\ wd.strikes_to_clear <=> wd.strikes # 0
    /\ wd.armed /\ wd.strikes # 0 => uptime < Healthy + idle

WatchdogInd == WatchdogSafe /\ ByteAgrees /\ StrikesBetween

\* A count saturates in its two bits.
LEMMA SaturatedCount ==
  ASSUME NEW n \in Nat
  PROVE  Saturated(n) \in Strikes /\ (n \in Strikes => Saturated(n) = n)
BY DEF Saturated, Strikes

\* A change of one field of the byte.
LEMMA Fields ==
  \A t, n, p, m :
    /\ [[tag |-> t, strikes |-> n, phase |-> p] EXCEPT !.phase = m]
         = [tag |-> t, strikes |-> n, phase |-> m]
    /\ [[tag |-> t, strikes |-> n, phase |-> p] EXCEPT !.strikes = m]
         = [tag |-> t, strikes |-> m, phase |-> p]
OBVIOUS

\* What the byte holds, and what an update of one field makes of it: the other
\* field stays, unless the byte was not ours (retained_update).
LEMMA Updated ==
  ASSUME NEW b \in RetainedWords
  PROVE  /\ b.tag \in BOOLEAN /\ b.strikes \in Strikes /\ b.phase \in Phases
         /\ Foreign \in RetainedWords /\ Bare \in RetainedWords
         /\ Bare.tag /\ Bare.strikes = 0 /\ Bare.phase = PhaseIdle
         /\ \A phase \in Phases :
              /\ WithPhase(b, phase) \in RetainedWords
              /\ WithPhase(b, phase).tag /\ WithPhase(b, phase).phase = phase
              /\ b.tag => WithPhase(b, phase).strikes = b.strikes
         /\ \A n \in Strikes :
              /\ WithStrikes(b, n) \in RetainedWords
              /\ WithStrikes(b, n).tag /\ WithStrikes(b, n).strikes = n
              /\ b.tag => WithStrikes(b, n).phase = b.phase
<1>1. \A n \in Strikes, phase \in Phases :
        od_watchdog_retained_pack(n, phase) = [tag |-> TRUE, strikes |-> n, phase |-> phase]
  <2>1. \A n \in Strikes : Saturated(n) = n
    BY SaturatedCount DEF Strikes
  <2> QED
    BY <2>1 DEF od_watchdog_retained_pack
<1>2. 0 \in Strikes /\ 0 \in Phases
  BY WatchdogAssumption DEF Strikes
<1>3. Bare = [tag |-> TRUE, strikes |-> 0, phase |-> 0] /\ Bare \in RetainedWords
  BY <1>1, <1>2 DEF Bare, RetainedWords, PhaseIdle
<1>4. b = Foreign \/ \E n \in Strikes, phase \in Phases :
                        b = [tag |-> TRUE, strikes |-> n, phase |-> phase]
  BY <1>1 DEF RetainedWords
<1>5. b.tag \in BOOLEAN /\ b.strikes \in Strikes /\ b.phase \in Phases
  <2>1. CASE b = Foreign
    BY <1>2, <2>1 DEF Foreign
  <2>2. ASSUME NEW n \in Strikes, NEW p \in Phases, b = [tag |-> TRUE, strikes |-> n, phase |-> p]
        PROVE  b.tag \in BOOLEAN /\ b.strikes \in Strikes /\ b.phase \in Phases
    BY <2>2
  <2> QED
    BY <1>4, <2>1, <2>2
<1>6. PICK n \in Strikes, p \in Phases :
        /\ Ours(b) = [tag |-> TRUE, strikes |-> n, phase |-> p]
        /\ b.tag => b.strikes = n /\ b.phase = p
  <2>1. CASE b = Foreign
    BY <1>2, <1>3, <2>1 DEF Ours, Foreign
  <2>2. CASE b # Foreign
    <3>1. PICK n \in Strikes, p \in Phases : b = [tag |-> TRUE, strikes |-> n, phase |-> p]
      BY <1>4, <2>2
    <3>2. Ours(b) = b
      BY <3>1 DEF Ours
    <3> QED
      BY <3>1, <3>2
  <2> QED
    BY <2>1, <2>2
<1>7. ASSUME NEW phase \in Phases
      PROVE  /\ WithPhase(b, phase) \in RetainedWords
             /\ WithPhase(b, phase).tag /\ WithPhase(b, phase).phase = phase
             /\ b.tag => WithPhase(b, phase).strikes = b.strikes
  <2>1. WithPhase(b, phase) = [tag |-> TRUE, strikes |-> n, phase |-> phase]
    <3>1. WithPhase(b, phase) = [[tag |-> TRUE, strikes |-> n, phase |-> p] EXCEPT !.phase = phase]
      BY <1>6 DEF WithPhase
    <3> QED
      BY <3>1, Fields
  <2>2. WithPhase(b, phase) \in RetainedWords
    BY <1>1, <2>1 DEF RetainedWords
  <2>3. WithPhase(b, phase).tag = TRUE /\ WithPhase(b, phase).phase = phase
        /\ WithPhase(b, phase).strikes = n
    BY <2>1
  <2> QED
    BY <1>6, <2>2, <2>3
<1>8. ASSUME NEW m \in Strikes
      PROVE  /\ WithStrikes(b, m) \in RetainedWords
             /\ WithStrikes(b, m).tag /\ WithStrikes(b, m).strikes = m
             /\ b.tag => WithStrikes(b, m).phase = b.phase
  <2>1. Saturated(m) = m
    BY SaturatedCount DEF Strikes
  <2>2. WithStrikes(b, m) = [tag |-> TRUE, strikes |-> m, phase |-> p]
    <3>1. WithStrikes(b, m) = [[tag |-> TRUE, strikes |-> n, phase |-> p] EXCEPT !.strikes = m]
      BY <1>6, <2>1 DEF WithStrikes
    <3> QED
      BY <3>1, Fields
  <2>3. WithStrikes(b, m) \in RetainedWords
    BY <1>1, <2>2 DEF RetainedWords
  <2>4. WithStrikes(b, m).tag = TRUE /\ WithStrikes(b, m).phase = p
        /\ WithStrikes(b, m).strikes = m
    BY <2>2
  <2> QED
    BY <1>6, <2>3, <2>4
<1> QED
  BY <1>3, <1>5, <1>7, <1>8 DEF PhaseIdle, RetainedWords

\* An update that reports success has written; one that does not leaves the
\* byte or clears it, and clears it only in the failure that does so.
LEMMA UpdateWrites ==
  ASSUME NEW b \in RetainedWords, NEW v \in RetainedWords, NEW how \in Modes,
         NEW usable \in BOOLEAN
  PROVE  LET u == retained_update(how, usable, b, v)
         IN  /\ u.ok \in BOOLEAN /\ u.byte \in RetainedWords
             /\ u.ok <=> usable /\ how = "ok"
             /\ u.ok => u.byte = v
             /\ ~u.ok => u.byte = b \/ (usable /\ how = "wiped")
<1>1. Written(how, b, v) = IF how = "ok" THEN v ELSE IF how = "wiped" THEN Foreign ELSE b
  BY DEF Written, Modes
<1>2. Foreign \in RetainedWords
  BY DEF RetainedWords
<1> QED
  BY <1>1, <1>2 DEF retained_update, Modes

\* Every boot: a byte that was ours keeps its strikes for the count, one that
\* was not is replaced, and afterwards byte and policy agree if the store did
\* what it was told (od_watchdog_boot_init).
AfterBoot(b, watchdog, how) ==
    /\ retained' \in RetainedWords
    /\ wd' \in [strikes : Strikes, safe_mode : BOOLEAN, strikes_to_clear : BOOLEAN,
                retained_usable : BOOLEAN, last_phase : Phases \cup {Unknown},
                write_failed : BOOLEAN, armed : BOOLEAN]
    /\ report' \in [was_watchdog : BOOLEAN, breadcrumb_valid : BOOLEAN,
                    prev_phase : Phases]
    /\ uptime' = 0 /\ idle' = 0 /\ at' = PhaseIdle /\ wiped' = FALSE
    /\ wd'.last_phase # Unknown => retained'.tag /\ retained'.phase = wd'.last_phase
    /\ wd'.strikes_to_clear <=> wd'.strikes # 0
    /\ wd'.safe_mode <=> wd'.strikes >= SafeModeStrikes
    /\ report'.was_watchdog = watchdog
    /\ ~watchdog => wd'.strikes = 0
    /\ how = "ok" =>
         /\ wd'.retained_usable /\ retained'.tag
         /\ retained'.strikes = wd'.strikes
         /\ retained'.phase = PhaseIdle /\ wd'.last_phase = PhaseIdle
    /\ how = "ok" /\ b.tag /\ watchdog =>
         /\ wd'.strikes = Saturated(b.strikes + 1)
         /\ report'.breadcrumb_valid /\ report'.prev_phase = b.phase

\* od_watchdog_init does what AfterBoot says, for every byte it may find and
\* every way the store may fail.
LEMMA Booted ==
  ASSUME NEW b \in RetainedWords, NEW watchdog \in BOOLEAN, NEW how \in Modes,
         NEW enabled \in BOOLEAN, Boot(b, watchdog, how, enabled)
  PROVE  AfterBoot(b, watchdog, how)
<1> DEFINE readable == how # "unreadable"
           valid == readable /\ b.tag
           b1 == IF readable /\ ~b.tag THEN Written(how, b, Bare) ELSE b
           usable == readable /\ (b.tag \/ how = "ok")
           before == IF valid THEN b.strikes ELSE 0
           strikes == StrikesAtBoot(watchdog, before)
           u1 == retained_update(how, usable, b1, WithStrikes(b1, strikes))
           b2 == IF watchdog \/ before # 0 THEN u1.byte ELSE b1
           u == retained_update(how, usable, b2, WithPhase(b2, PhaseIdle))
<1>1. /\ retained' = u.byte
      /\ wd' = [strikes |-> strikes, safe_mode |-> strikes >= SafeModeStrikes,
                strikes_to_clear |-> strikes # 0, retained_usable |-> usable,
                last_phase |-> Cached(Unknown, PhaseIdle, u),
                write_failed |-> ~u.ok, armed |-> enabled]
      /\ report' = [was_watchdog |-> watchdog, breadcrumb_valid |-> valid,
                    prev_phase |-> IF valid THEN b.phase ELSE 0]
      /\ uptime' = 0 /\ idle' = 0 /\ at' = PhaseIdle /\ wiped' = FALSE
  BY DEF Boot
<1>2. /\ b.tag \in BOOLEAN /\ b.strikes \in Strikes /\ b.phase \in Phases
      /\ Foreign \in RetainedWords /\ Bare \in RetainedWords
      /\ Bare.tag /\ Bare.strikes = 0 /\ Bare.phase = PhaseIdle
  BY Updated
<1>3. /\ b1 \in RetainedWords /\ usable \in BOOLEAN /\ valid \in BOOLEAN
      /\ b.tag => b1 = b
      /\ ~b.tag /\ how = "ok" => b1 = Bare
  <2>1. Written(how, b, Bare) = IF how = "ok" THEN Bare ELSE IF how = "wiped" THEN Foreign ELSE b
    BY DEF Written, Modes
  <2> QED
    BY <1>2, <2>1
<1>4. /\ before \in Strikes /\ before + 1 \in Nat /\ before \in Nat
      /\ strikes \in Strikes /\ strikes \in Nat
      /\ ~watchdog => strikes = 0
      /\ watchdog => strikes = Saturated(before + 1)
  <2>1. before \in Strikes /\ before + 1 \in Nat /\ before \in Nat
    BY <1>2 DEF Strikes
  <2> QED
    BY <2>1, SaturatedCount DEF StrikesAtBoot, Strikes
<1> HIDE DEF usable, valid, b1, strikes, before
<1>5. /\ u1.byte \in RetainedWords
      /\ how = "ok" /\ usable => u1.byte = WithStrikes(b1, strikes)
      /\ WithStrikes(b1, strikes).tag /\ WithStrikes(b1, strikes).strikes = strikes
  <2>1. /\ WithStrikes(b1, strikes) \in RetainedWords
        /\ WithStrikes(b1, strikes).tag /\ WithStrikes(b1, strikes).strikes = strikes
    BY <1>3, <1>4, Updated
  <2> QED
    BY <1>3, <2>1, UpdateWrites
<1>6. /\ b2 \in RetainedWords
      /\ how = "ok" => usable /\ b2.tag /\ b2.strikes = strikes
  <2>1. how = "ok" => usable
    BY <1>2 DEF usable
  <2>2. how = "ok" /\ ~(watchdog \/ before # 0) => b1.tag /\ b1.strikes = strikes
    BY <1>2, <1>3, <1>4 DEF before, valid
  <2> QED
    BY <1>3, <1>5, <2>1, <2>2
<1> HIDE DEF u1, b2
<1>7. /\ u.byte \in RetainedWords /\ u.ok \in BOOLEAN
      /\ u.ok => u.byte.tag /\ u.byte.phase = PhaseIdle
      /\ how = "ok" => u.ok /\ u.byte.strikes = strikes
  <2>1. /\ WithPhase(b2, PhaseIdle) \in RetainedWords
        /\ WithPhase(b2, PhaseIdle).tag /\ WithPhase(b2, PhaseIdle).phase = PhaseIdle
        /\ b2.tag => WithPhase(b2, PhaseIdle).strikes = b2.strikes
    BY <1>6, Updated, WatchdogAssumption DEF PhaseIdle
  <2>2. /\ u.ok \in BOOLEAN /\ u.byte \in RetainedWords
        /\ u.ok <=> usable /\ how = "ok"
        /\ u.ok => u.byte = WithPhase(b2, PhaseIdle)
    BY <1>3, <1>6, <2>1, UpdateWrites
  <2> HIDE DEF u
  <2> QED
    BY <1>6, <2>1, <2>2
<1> HIDE DEF u
<1>8. /\ Cached(Unknown, PhaseIdle, u) \in Phases \cup {Unknown}
      /\ u.ok => Cached(Unknown, PhaseIdle, u) = PhaseIdle
      /\ ~u.ok => Cached(Unknown, PhaseIdle, u) = Unknown
  BY WatchdogAssumption DEF Cached, PhaseIdle
<1>9. how = "ok" /\ b.tag => valid /\ before = b.strikes
  BY DEF valid, before
<1>10. (IF valid THEN b.phase ELSE 0) \in Phases
  BY <1>2, WatchdogAssumption
<1>11. /\ retained' \in RetainedWords
       /\ wd' \in [strikes : Strikes, safe_mode : BOOLEAN, strikes_to_clear : BOOLEAN,
                   retained_usable : BOOLEAN, last_phase : Phases \cup {Unknown},
                   write_failed : BOOLEAN, armed : BOOLEAN]
       /\ report' \in [was_watchdog : BOOLEAN, breadcrumb_valid : BOOLEAN, prev_phase : Phases]
  BY <1>1, <1>3, <1>4, <1>7, <1>8, <1>10
<1> QED
  BY <1>1, <1>4, <1>6, <1>7, <1>8, <1>9, <1>11 DEF AfterBoot

\* A device that has never been reset by its watchdog.
LEMMA WatchdogInitially == WatchdogInit => WatchdogInd
<1> SUFFICES ASSUME WatchdogInit PROVE WatchdogInd
  OBVIOUS
<1>1. /\ Bare \in RetainedWords /\ Bare.tag /\ Bare.strikes = 0 /\ Bare.phase = PhaseIdle
  BY Updated DEF RetainedWords
<1>2. 0 \in Strikes /\ 0 \in Phases /\ PhaseIdle = 0 /\ ~(0 >= SafeModeStrikes)
      /\ 0 \in 0 .. (Healthy + Limit) /\ 0 \in 0 .. Limit /\ 0 \in 0 .. MaxFaults
  BY WatchdogAssumption DEF Strikes, PhaseIdle, SafeModeStrikes
<1>3. /\ wd.strikes = 0 /\ wd.safe_mode = FALSE /\ wd.strikes_to_clear = FALSE
      /\ wd.retained_usable = TRUE /\ wd.last_phase = PhaseIdle
      /\ report.was_watchdog = FALSE
  BY DEF WatchdogInit
<1>4. WatchdogTypeOK
  BY <1>1, <1>2 DEF WatchdogInit, WatchdogTypeOK
<1>5. CacheHonest /\ ByteAgrees /\ BreadcrumbSurvives
  BY <1>1, <1>3 DEF WatchdogInit, CacheHonest, BreadcrumbSurvives, ByteAgrees
<1>6. SafeModeReached /\ SafeModeJustified /\ StrikesBetween
  BY <1>2, <1>3 DEF WatchdogInit, SafeModeReached, SafeModeJustified, StrikesBetween
<1> QED
  BY <1>4, <1>5, <1>6 DEF WatchdogInd, WatchdogSafe, WatchdogInv

\* A watchdog reset.  The run it ends has strikes only if it was never fed once
\* healthy, so it counts as one of runs; and it counts as one of short only if
\* it was not healthy, when its strikes were still there to be added to.
LEMMA WatchdogResetKeeps ==
  ASSUME WatchdogInd, NEW how \in Modes, NEW enabled \in BOOLEAN, WatchdogReset(how, enabled)
  PROVE  WatchdogInd'
<1> USE DEF WatchdogInd, WatchdogSafe, WatchdogInv
<1>1. PICK b \in RetainedWords : b = retained
  BY DEF WatchdogTypeOK
<1>2. AfterBoot(b, TRUE, how)
  BY <1>1, Booted DEF WatchdogReset
<1>3. /\ wd.armed /\ idle = Limit /\ wedged' = at /\ lost' = (lost \/ how # "ok")
      /\ short' = IF uptime < Healthy THEN Saturated(short + 1) ELSE 0
      /\ runs' = IF uptime < Healthy + Limit THEN Saturated(runs + 1) ELSE 1
  BY DEF WatchdogReset
<1>4. store_faults' \in 0 .. MaxFaults
  BY WatchdogAssumption DEF WatchdogReset, Fault, WatchdogTypeOK
<1>5. short' \in Strikes /\ runs' \in Strikes
  BY <1>3 DEF WatchdogTypeOK, Strikes, Saturated
<1>6. WatchdogTypeOK'
  <2>1. uptime' \in 0 .. (Healthy + Limit) /\ idle' \in 0 .. Limit /\ at' \in Phases
    BY <1>2, WatchdogAssumption DEF AfterBoot, PhaseIdle
  <2>2. lost' \in BOOLEAN /\ wiped' \in BOOLEAN /\ wedged' \in Phases
    BY <1>2, <1>3 DEF AfterBoot, WatchdogTypeOK
  <2> QED
    BY <1>2, <1>4, <1>5, <2>1, <2>2 DEF AfterBoot, WatchdogTypeOK
<1>7. ByteAgrees' /\ CacheHonest'
  BY <1>2, <1>3 DEF AfterBoot, ByteAgrees, CacheHonest
<1>8. ~lost' => /\ wd'.strikes = Saturated(wd.strikes + 1)
                /\ report'.breadcrumb_valid /\ report'.prev_phase = at
  BY <1>1, <1>2, <1>3 DEF AfterBoot, ByteAgrees
<1>9. StrikesBetween'
  <2>1. ~lost' => wd'.strikes <= runs' /\ short' <= wd'.strikes
    BY <1>3, <1>8, WatchdogAssumption DEF StrikesBetween, WatchdogTypeOK, Strikes, Saturated
  <2> QED
    BY <1>2, <2>1, WatchdogAssumption DEF AfterBoot, StrikesBetween
<1>10. SafeModeReached' /\ SafeModeJustified' /\ BreadcrumbSurvives'
  <2>1. /\ wd'.strikes \in Strikes /\ uptime' = 0
        /\ wd'.safe_mode <=> wd'.strikes >= SafeModeStrikes
    BY <1>2 DEF AfterBoot
  <2>2. ~lost' => wd'.strikes <= runs' /\ short' <= wd'.strikes
    BY <1>9, <2>1, WatchdogAssumption DEF StrikesBetween
  <2>3. SafeModeReached' /\ SafeModeJustified'
    BY <1>5, <2>1, <2>2 DEF SafeModeReached, SafeModeJustified, Strikes, SafeModeStrikes
  <2> QED
    BY <1>3, <1>8, <2>3 DEF BreadcrumbSurvives
<1> QED
  BY <1>6, <1>7, <1>9, <1>10

\* Any other reset starts the count again, whatever the byte holds.
LEMMA OtherResetKeeps ==
  ASSUME WatchdogInd, NEW b \in RetainedWords, NEW how \in Modes, NEW enabled \in BOOLEAN,
         OtherReset(b, how, enabled)
  PROVE  WatchdogInd'
<1> USE DEF WatchdogInd, WatchdogSafe, WatchdogInv
<1>1. AfterBoot(b, FALSE, how)
  BY Booted DEF OtherReset
<1>2. wedged' = at /\ short' = 0 /\ runs' = 0 /\ lost' = (how # "ok")
  BY DEF OtherReset
<1>3. store_faults' \in 0 .. MaxFaults
  BY WatchdogAssumption DEF OtherReset, Fault, WatchdogTypeOK
<1>4. WatchdogTypeOK'
  <2>1. uptime' \in 0 .. (Healthy + Limit) /\ idle' \in 0 .. Limit /\ at' \in Phases
        /\ short' \in Strikes /\ runs' \in Strikes
    BY <1>1, <1>2, WatchdogAssumption DEF AfterBoot, PhaseIdle, Strikes
  <2>2. lost' \in BOOLEAN /\ wiped' \in BOOLEAN /\ wedged' \in Phases
    BY <1>1, <1>2 DEF AfterBoot, WatchdogTypeOK
  <2> QED
    BY <1>1, <1>3, <2>1, <2>2 DEF AfterBoot, WatchdogTypeOK
<1>5. ByteAgrees' /\ CacheHonest'
  BY <1>1, <1>2 DEF AfterBoot, ByteAgrees, CacheHonest
<1>6. StrikesBetween'
  BY <1>1, <1>2, WatchdogAssumption DEF AfterBoot, StrikesBetween
<1>7. SafeModeReached' /\ SafeModeJustified' /\ BreadcrumbSurvives'
  BY <1>1, <1>2
  DEF AfterBoot, SafeModeReached, SafeModeJustified, BreadcrumbSurvives, SafeModeStrikes
<1> QED
  BY <1>4, <1>5, <1>6, <1>7

\* A feed.  The strikes go once the run is healthy, and the phase stays.
LEMMA FeedKeeps ==
  ASSUME WatchdogInd, NEW how \in Modes, od_watchdog_feed(how)
  PROVE  WatchdogInd'
<1> USE DEF WatchdogInd, WatchdogSafe, WatchdogInv
<1>1. /\ idle' = 0 /\ report' = report /\ uptime' = uptime /\ at' = at /\ wedged' = wedged
      /\ short' = short /\ runs' = runs
  BY DEF od_watchdog_feed
<1>2. CASE ClearsStrikes
  <2>1. PICK b \in RetainedWords : b = retained
    BY DEF WatchdogTypeOK
  <2>2. PICK usable \in BOOLEAN : usable = wd.retained_usable
    BY DEF WatchdogTypeOK
  <2> DEFINE u == retained_update(how, usable, b, WithStrikes(b, 0))
  <2>3. /\ wd' = [wd EXCEPT !.strikes_to_clear = FALSE, !.strikes = 0]
        /\ retained' = u.byte /\ lost' = (lost \/ how # "ok")
        /\ wiped' = (wiped \/ (usable /\ how = "wiped"))
        /\ Fault(how)
    BY <1>2, <2>1, <2>2 DEF od_watchdog_feed
  <2>4. /\ WithStrikes(b, 0) \in RetainedWords /\ WithStrikes(b, 0).tag
        /\ WithStrikes(b, 0).strikes = 0 /\ (b.tag => WithStrikes(b, 0).phase = b.phase)
    BY Updated DEF Strikes
  <2>5. /\ u.byte \in RetainedWords
        /\ usable /\ how = "ok" => u.byte = WithStrikes(b, 0)
        /\ ~(usable /\ how = "ok") => u.byte = b \/ (usable /\ how = "wiped")
    <3>1. /\ u.byte \in RetainedWords
          /\ u.ok <=> usable /\ how = "ok"
          /\ u.ok => u.byte = WithStrikes(b, 0)
          /\ ~u.ok => u.byte = b \/ (usable /\ how = "wiped")
      BY <2>4, UpdateWrites
    <3> HIDE DEF u
    <3> QED
      BY <3>1
  <2> HIDE DEF u
  <2>6. /\ wd'.strikes = 0 /\ ~wd'.strikes_to_clear /\ wd'.safe_mode = wd.safe_mode
        /\ wd'.last_phase = wd.last_phase /\ wd'.retained_usable = wd.retained_usable
        /\ wd' \in [strikes : Strikes, safe_mode : BOOLEAN, strikes_to_clear : BOOLEAN,
                    retained_usable : BOOLEAN, last_phase : Phases \cup {Unknown},
                    write_failed : BOOLEAN, armed : BOOLEAN]
    <3>1. 0 \in Strikes
      BY DEF Strikes
    <3> QED
      BY <2>3, <3>1 DEF WatchdogTypeOK
  <2>7. store_faults' \in 0 .. MaxFaults
    BY <2>3, WatchdogAssumption DEF Fault, WatchdogTypeOK
  <2>8. WatchdogTypeOK'
    BY <1>1, <2>3, <2>5, <2>6, <2>7, WatchdogAssumption DEF WatchdogTypeOK
  <2>9. CacheHonest' /\ ByteAgrees'
    BY <1>1, <2>1, <2>2, <2>3, <2>4, <2>5, <2>6 DEF CacheHonest, ByteAgrees
  <2>10. StrikesBetween'
    BY <1>1, <1>2, <2>3, <2>6, WatchdogAssumption
    DEF StrikesBetween, ClearsStrikes, WatchdogTypeOK, Strikes
  <2>11. SafeModeReached' /\ SafeModeJustified' /\ BreadcrumbSurvives'
    BY <1>1, <2>3, <2>6 DEF SafeModeReached, SafeModeJustified, BreadcrumbSurvives
  <2> QED
    BY <2>8, <2>9, <2>10, <2>11
<1>3. CASE ~ClearsStrikes
  <2>1. UNCHANGED <<wd, retained, lost, wiped, store_faults>>
    BY <1>3 DEF od_watchdog_feed
  <2>2. WatchdogTypeOK'
    BY <1>1, <2>1, WatchdogAssumption DEF WatchdogTypeOK
  <2>3. StrikesBetween'
    BY <1>1, <1>3, <2>1, WatchdogAssumption DEF StrikesBetween, ClearsStrikes, WatchdogTypeOK
  <2> QED
    BY <1>1, <2>1, <2>2, <2>3
    DEF CacheHonest, ByteAgrees, SafeModeReached, SafeModeJustified, BreadcrumbSurvives
<1> QED
  BY <1>2, <1>3

\* A breadcrumb changes the phase and leaves the strikes.
LEMMA BreadcrumbKeeps ==
  ASSUME WatchdogInd, NEW phase \in Phases, NEW how \in Modes, od_watchdog_breadcrumb(phase, how)
  PROVE  WatchdogInd'
<1> USE DEF WatchdogInd, WatchdogSafe, WatchdogInv
<1>1. /\ at' = phase /\ idle' = idle /\ report' = report /\ uptime' = uptime
      /\ wedged' = wedged /\ short' = short /\ runs' = runs
  BY DEF od_watchdog_breadcrumb
<1>2. CASE Stamps(phase)
  <2>1. PICK b \in RetainedWords : b = retained
    BY DEF WatchdogTypeOK
  <2>2. PICK usable \in BOOLEAN : usable = wd.retained_usable
    BY DEF WatchdogTypeOK
  <2> DEFINE u == retained_update(how, usable, b, WithPhase(b, phase))
  <2>3. /\ wd' = [wd EXCEPT !.last_phase = Cached(@, phase, u), !.write_failed = @ \/ ~u.ok]
        /\ retained' = u.byte /\ lost' = (lost \/ how # "ok")
        /\ wiped' = (~u.ok /\ (wiped \/ (usable /\ how = "wiped")))
        /\ Fault(how)
    BY <1>2, <2>1, <2>2 DEF od_watchdog_breadcrumb
  <2>4. /\ WithPhase(b, phase) \in RetainedWords /\ WithPhase(b, phase).tag
        /\ WithPhase(b, phase).phase = phase
        /\ b.tag => WithPhase(b, phase).strikes = b.strikes
    BY Updated
  <2>5. /\ u.byte \in RetainedWords /\ u.ok \in BOOLEAN
        /\ u.ok <=> usable /\ how = "ok"
        /\ u.ok => u.byte = WithPhase(b, phase)
        /\ ~u.ok => u.byte = b \/ (usable /\ how = "wiped")
    BY <2>4, UpdateWrites
  <2> HIDE DEF u
  <2>6. /\ wd'.strikes = wd.strikes /\ wd'.strikes_to_clear = wd.strikes_to_clear
        /\ wd'.safe_mode = wd.safe_mode /\ wd'.retained_usable = wd.retained_usable
        /\ wd'.armed = wd.armed
        /\ wd'.last_phase = IF u.ok THEN phase ELSE wd.last_phase
        /\ wd' \in [strikes : Strikes, safe_mode : BOOLEAN, strikes_to_clear : BOOLEAN,
                    retained_usable : BOOLEAN, last_phase : Phases \cup {Unknown},
                    write_failed : BOOLEAN, armed : BOOLEAN]
    BY <2>3, <2>5 DEF WatchdogTypeOK, Cached
  <2>7. store_faults' \in 0 .. MaxFaults
    BY <2>3, WatchdogAssumption DEF Fault, WatchdogTypeOK
  <2>8. WatchdogTypeOK'
    BY <1>1, <2>3, <2>5, <2>6, <2>7 DEF WatchdogTypeOK
  <2>9. CacheHonest' /\ ByteAgrees'
    BY <1>1, <2>1, <2>2, <2>3, <2>4, <2>5, <2>6 DEF CacheHonest, ByteAgrees
  <2>10. StrikesBetween'
    BY <1>1, <2>3, <2>6 DEF StrikesBetween
  <2>11. SafeModeReached' /\ SafeModeJustified' /\ BreadcrumbSurvives'
    BY <1>1, <2>3, <2>6 DEF SafeModeReached, SafeModeJustified, BreadcrumbSurvives
  <2> QED
    BY <2>8, <2>9, <2>10, <2>11
<1>3. CASE ~Stamps(phase)
  <2>1. UNCHANGED <<wd, retained, lost, wiped, store_faults>> /\ phase = wd.last_phase
    BY <1>3 DEF od_watchdog_breadcrumb, Stamps
  <2>2. WatchdogTypeOK'
    BY <1>1, <2>1 DEF WatchdogTypeOK
  <2> QED
    BY <1>1, <2>1, <2>2
    DEF CacheHonest, ByteAgrees, StrikesBetween, SafeModeReached, SafeModeJustified,
        BreadcrumbSurvives
<1> QED
  BY <1>2, <1>3

\* Time passes: a run with strikes stays within idle of being fed unhealthy.
LEMMA TickKeeps ==
  ASSUME WatchdogInd, Tick
  PROVE  WatchdogInd'
<1> USE DEF WatchdogInd, WatchdogSafe, WatchdogInv
<1>1. /\ UNCHANGED <<retained, wd, report, at, wedged, short, runs, lost, wiped, store_faults>>
      /\ wd.armed => idle < Limit
      /\ uptime' = IF uptime < Healthy + Limit THEN uptime + 1 ELSE uptime
      /\ idle' = IF idle < Limit THEN idle + 1 ELSE idle
  BY DEF Tick
<1>2. WatchdogTypeOK'
  BY <1>1, WatchdogAssumption DEF WatchdogTypeOK
<1>3. StrikesBetween'
  BY <1>1, WatchdogAssumption DEF StrikesBetween, WatchdogTypeOK
<1> QED
  BY <1>1, <1>2, <1>3
  DEF CacheHonest, ByteAgrees, SafeModeReached, SafeModeJustified, BreadcrumbSurvives

\* Every reset, feed, breadcrumb and tick keeps WatchdogInd.
LEMMA WatchdogIndStep == WatchdogInd /\ [WatchdogNext]_watchdogVars => WatchdogInd'
<1> SUFFICES ASSUME WatchdogInd, [WatchdogNext]_watchdogVars PROVE WatchdogInd'
  OBVIOUS
<1>1. CASE WatchdogNext
  BY <1>1, WatchdogResetKeeps, OtherResetKeeps, FeedKeeps, BreadcrumbKeeps, TickKeeps
  DEF WatchdogNext
<1>2. CASE UNCHANGED watchdogVars
  BY <1>2
  DEF watchdogVars, WatchdogInd, WatchdogSafe, WatchdogInv, WatchdogTypeOK, CacheHonest, ByteAgrees,
      StrikesBetween, SafeModeReached, SafeModeJustified, BreadcrumbSurvives
<1> QED
  BY <1>1, <1>2

\* For every number of phases, every limit and every number of store faults: as
\* long as no write was lost, a boot loop reaches safe mode, nothing else does,
\* and the boot after a wedge names the phase it wedged in; and the write cache
\* is honest after lost writes too (od_watchdog.c).
THEOREM WatchdogContains == WatchdogSpec => []WatchdogSafe
<1>1. WatchdogInd => WatchdogSafe
  BY DEF WatchdogInd
<1> QED
  BY WatchdogInitially, WatchdogIndStep, <1>1, PTL DEF WatchdogSpec
=============================================================================
