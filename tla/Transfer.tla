------------------------------ MODULE Transfer ------------------------------
(***************************************************************************)
(* The image-transfer machine of shared/core (od_xfer.c, od_xfer_direct.c, *)
(* od_xfer_partial.c and the transfer side of od_pipe.c) over the panel    *)
(* seam of targets/nordic-zephyr/src/opendisplay_display.cpp: who owns the *)
(* one transfer, what the panel is given, when it is refreshed, and what   *)
(* the displayed etag then claims.                                         *)
(*                                                                         *)
(* Commands arrive one at a time (the dispatcher runs a handler to its     *)
(* end), so each handler is one action; every call in it that can fail is  *)
(* a choice of its outcome.  Sequencing of PIPE frames is module Pipe;     *)
(* here a PIPE DATA frame is the next piece of the stream.                 *)
(*                                                                         *)
(* The module adds three things no variable of the code holds: what the    *)
(* glass shows, the etag a partial image was drawn against, and whether    *)
(* the glass is one the etag policy deliberately does not vouch for.       *)
(***************************************************************************)
EXTENDS Integers, TLAPS

CONSTANTS
    Owners,   \* reply tags (connections) that send commands
    Etags,    \* nonzero etags a client uses
    Size,     \* units of a full image and of the two planes of a partial one
    NoOwner

ASSUME TransferConstants ==
    /\ NoOwner \notin Owners
    /\ Etags \subseteq Nat \ {0} /\ Etags # {}
    /\ Size \in Nat \ {0}

None == 0      \* no etag; on the glass: an image no etag names
Absent == -1   \* an END without the optional etag tail
Torn == -1     \* on the glass: no image anybody sent

VARIABLES
    mode,        \* od_xfer_mode_t
    owner,       \* reply tag of the transfer
    compressed,  \* the stream goes through the inflater
    written,     \* units the panel took
    new_etag,    \* 0x76: the etag named at START
    panel_up,    \* the panel is powered and initialised (s_xfer_app.panel_up)
    etag,        \* displayed etag
    replies,     \* replies of the handler that just ran
    allowed,     \* what the dispatcher reserved for it
    panel,       \* build and panel facts: [auto_end, planes]
    glass,       \* what the glass shows
    base_etag,   \* the etag a partial transfer was accepted against
    excused      \* a full refresh timed out without naming an etag, or a raw image in
                 \* packed rows was ended short: both keep or commit an etag on purpose

state == <<mode, owner, compressed, written, new_etag>>
ghosts == <<glass, base_etag, excused>>
transferVars == <<state, panel_up, etag, replies, allowed, panel, ghosts>>

Direct == {"direct_full", "direct_partial"}
Pipe == {"pipe_full", "pipe_partial"}
Partial == {"direct_partial", "pipe_partial"}

TransferInit ==
    /\ mode = "idle" /\ owner = NoOwner /\ compressed = FALSE /\ written = 0
    /\ new_etag = None /\ panel_up = FALSE /\ etag = None
    /\ replies = 0 /\ allowed = 0
    /\ panel \in [auto_end : BOOLEAN, planes : BOOLEAN]
    /\ glass = None /\ base_etag = None /\ excused = FALSE

od_xfer_owns_hardware == mode \notin {"idle", "fatal"}
od_xfer_owner_matches(o) == owner = o

(* The budget column of the opcode table. *)
od_dispatch_budget(op) ==
    CASE op \in {"0x70", "0x76", "0x80"} -> 1
      [] op \in {"0x71", "0x72"} -> 2
      [] op \in {"0x81", "0x82"} -> 3

Answer(op, n) == replies' = n /\ allowed' = od_dispatch_budget(op)

od_xfer_clear_state ==
    /\ mode' = "idle" /\ owner' = NoOwner /\ compressed' = FALSE
    /\ written' = 0 /\ new_etag' = None

Mut_od_xfer_abort_active(clear) ==
    /\ od_xfer_clear_state
    /\ panel_up' = IF mode \in Pipe THEN panel_up ELSE FALSE
    /\ etag' = IF clear THEN None ELSE etag

(* The panel is released unless the fatal state already released it.       *)
od_xfer_abort_active(clear) ==
    /\ od_xfer_clear_state
    /\ panel_up' = IF od_xfer_owns_hardware THEN FALSE ELSE panel_up
    /\ etag' = IF clear THEN None ELSE etag

(* The inflater is given a piece, or the raw bytes are taken as they are:  *)
(* how many units reach the panel.  A raw full image drops what is beyond  *)
(* its end; any other stream must fit (see Overrun).                       *)
Room == Size - written
Taken(n, truncates) == IF truncates /\ n > Room THEN Room ELSE n

-----------------------------------------------------------------------------
(* START *)

(* Every START first drops the transfer it replaces and releases the       *)
(* panel; a refused one leaves nothing open.  The etag survives, except    *)
(* that a refused partial START clears it.                                 *)
Refused(op, clear) ==
    /\ Answer(op, 1)
    /\ od_xfer_abort_active(clear)
    /\ UNCHANGED <<panel, ghosts>>

(* Begun: the panel is up and n units of the START's inline data are in.   *)
Opened(o, m, zip, n) ==
    /\ mode' = m /\ owner' = o /\ compressed' = zip /\ written' = n
    /\ panel_up' = TRUE

(* 0x70.  The panel is begun before the ACK; a failing panel, a failing    *)
(* inline stream or a failing ACK undoes it.                               *)
od_xfer_direct_start(o, zip) ==
    \/ Refused("0x70", FALSE)
    \/ \E n \in (IF zip THEN 0..Size ELSE {0}) :
          /\ Opened(o, "direct_full", zip, n) /\ new_etag' = None
          /\ Answer("0x70", 1)
          /\ UNCHANGED <<etag, panel, ghosts>>
    \/ /\ Answer("0x70", 0)
       /\ od_xfer_abort_active(FALSE)
       /\ UNCHANGED <<panel, ghosts>>

OldEtagMatches(old) == old # None /\ old = etag

(* 0x76.  Accepted only against the displayed etag; every refusal and      *)
(* every failure clears it.                                                *)
od_xfer_partial_start(o, zip, old, new) ==
    \/ Refused("0x76", TRUE)
    \/ /\ OldEtagMatches(old) /\ new # None
       /\ \E n \in 0..Size : Opened(o, "direct_partial", zip, n)
       /\ new_etag' = new
       /\ Answer("0x76", 1)
       /\ base_etag' = old
       /\ UNCHANGED <<etag, panel, glass, excused>>
    \/ /\ OldEtagMatches(old) /\ new # None
       /\ Answer("0x76", 0)
       /\ od_xfer_abort_active(TRUE)
       /\ UNCHANGED <<panel, ghosts>>

(* 0x80.  The ACK precedes the panel: an ACK that fails closes the         *)
(* transfer, a panel that fails afterwards leaves it fatal.  A refused     *)
(* header keeps the etag, a refused partial geometry or etag clears it.    *)
od_pipe_start(o, zip, partial, old) ==
    \/ \E clear \in {FALSE, partial} : Refused("0x80", clear)
    \/ /\ partial => OldEtagMatches(old)
       /\ LET m == IF partial THEN "pipe_partial" ELSE "pipe_full" IN
          \/ /\ Opened(o, m, zip, 0) /\ new_etag' = None
             /\ Answer("0x80", 1)
             /\ base_etag' = IF partial THEN old ELSE base_etag
             /\ UNCHANGED <<etag, panel, glass, excused>>
          \/ /\ mode' = "fatal" /\ owner' = o /\ compressed' = zip /\ written' = 0
             /\ new_etag' = None /\ panel_up' = FALSE
             /\ etag' = IF partial THEN None ELSE etag
             /\ Answer("0x80", 1)
             /\ UNCHANGED <<panel, ghosts>>
          \/ /\ Answer("0x80", 0)
             /\ od_xfer_abort_active(partial)
             /\ UNCHANGED <<panel, ghosts>>

-----------------------------------------------------------------------------
(* Refresh *)

(* What the glass shows once a refresh has completed: the image, if all of *)
(* it reached the panel and, for a partial one, if it was drawn over the   *)
(* image it was made for.                                                  *)
Shown(new, units) ==
    IF units # Size \/ (mode \in Partial /\ glass # base_etag) THEN Torn ELSE new

MayBeShort == mode = "direct_full" /\ ~compressed /\ ~panel.planes

(* The etag policy of finish_refresh, od_xfer_partial_end_impl and         *)
(* od_xfer_pipe_refresh: a completed refresh commits the etag the client   *)
(* named, or none; one that timed out clears it, except that a full image  *)
(* that named none leaves the old one.                                     *)
CommitEtag(tag, completed) ==
    etag' = IF completed THEN (IF tag = Absent THEN None ELSE tag)
            ELSE IF mode \in Partial \/ tag # Absent THEN None
            ELSE etag

Refreshed(op, tag, out, units, completed) ==
    /\ CommitEtag(tag, completed)
    /\ glass' = IF completed THEN Shown(IF tag = Absent THEN None ELSE tag, units)
                             ELSE Torn
    /\ excused' = IF completed THEN \/ MayBeShort /\ units # Size
                                    \/ mode \in Partial /\ excused
                   ELSE excused \/ (mode \notin Partial /\ tag = Absent)
    /\ od_xfer_clear_state /\ panel_up' = FALSE
    /\ \E extra \in {0, 1} : Answer(op, out + extra)
    /\ UNCHANGED <<panel, base_etag>>

(* The END ACK fails or the barrier before the refresh reports the owner   *)
(* gone: the transfer is dropped, a partial one takes the etag with it.    *)
Dropped(op, out) ==
    /\ od_xfer_clear_state /\ panel_up' = FALSE
    /\ etag' = IF mode \in Partial THEN None ELSE etag
    /\ Answer(op, out)
    /\ UNCHANGED <<panel, ghosts>>

(* The panel refuses to start the refresh.  The etag goes with a partial   *)
(* image and, under PIPE, with an END that named one.                      *)
RefreshFailed(op, tag, out) ==
    /\ od_xfer_abort_active(mode \in Partial \/ (mode \in Pipe /\ tag # Absent))
    /\ Answer(op, out + 1)
    /\ UNCHANGED <<panel, ghosts>>

(* sent: replies the handler gave before the END ACK; units: what reached  *)
(* the panel.                                                              *)
finish_refresh(op, tag, out, units) ==
    \/ \E n \in {out, out + 1} : Dropped(op, n)
    \/ RefreshFailed(op, tag, out + 1)
    \/ \E completed \in BOOLEAN : Refreshed(op, tag, out + 1, units, completed)

-----------------------------------------------------------------------------
(* DATA *)

Inert(op) ==
    /\ Answer(op, 0)
    /\ UNCHANGED <<state, panel_up, etag, panel, ghosts>>

(* A direct stream failed: NACK, panel released, a partial one clears the  *)
(* etag.  The same without the NACK when it was the ACK that failed.       *)
DirectFailed(op) ==
    /\ od_xfer_abort_active(mode \in Partial)
    /\ \E n \in {0, 1} : Answer(op, n)
    /\ UNCHANGED <<panel, ghosts>>

Consume(n) ==
    /\ written' = written + n
    /\ UNCHANGED <<mode, owner, compressed, new_etag, panel_up, etag, panel, ghosts>>

(* 0x71, for the owner of a direct transfer; n is what the frame comes to  *)
(* once inflated, nothing included.  A raw full image that                 *)
(* becomes complete is ended on the spot on targets built for it.          *)
od_xfer_data(o, n) ==
    \/ /\ \/ mode \notin Direct \/ ~od_xfer_owner_matches(o)
          \/ n = 0 /\ ~compressed
       /\ Inert("0x71")
    \/ /\ mode \in Direct /\ od_xfer_owner_matches(o)
       /\ n # 0 \/ compressed
       /\ LET truncates == mode = "direct_full" /\ ~compressed
              got == Taken(n, truncates)
              whole == truncates /\ panel.auto_end /\ written + got >= Size
          IN  \/ DirectFailed("0x71")
              \/ got <= Room /\ whole /\ finish_refresh("0x71", Absent, 0, written + got)
              \/ got <= Room /\ ~whole /\ Consume(got) /\ Answer("0x71", 1)

(* The PIPE transfer enters the fatal state: the panel is released now,    *)
(* the owner and the latch stay until END, START or reset.                 *)
od_xfer_pipe_enter_fatal(op) ==
    /\ mode' = "fatal" /\ panel_up' = FALSE
    /\ etag' = IF mode \in Partial THEN None ELSE etag
    /\ \E n \in {0, 1} : Answer(op, n)
    /\ UNCHANGED <<owner, compressed, written, new_etag, panel, ghosts>>

(* 0x81, the next piece of the stream. *)
od_pipe_data(o, n) ==
    \/ /\ mode \notin Pipe \/ ~od_xfer_owner_matches(o)
       /\ Inert("0x81")
    \/ /\ mode \in Pipe /\ od_xfer_owner_matches(o)
       /\ LET truncates == mode = "pipe_full" /\ ~compressed
              got == Taken(n, truncates)
              whole == truncates /\ written + got = Size
          IN  \/ od_xfer_pipe_enter_fatal("0x81")
              \/ got <= Room /\ whole /\ finish_refresh("0x81", Absent, 1, written + got)
              \/ /\ got <= Room /\ ~whole /\ Consume(got)
                 /\ \E sack \in {0, 1} : Answer("0x81", sack)

-----------------------------------------------------------------------------
(* END *)

(* What END asks of the stream.  The inflater reports done only when it    *)
(* emitted the declared size; a raw full image in packed rows may be short. *)
Complete == MayBeShort \/ written = Size

(* 0x72 names an etag only for a full image; a partial one has it from     *)
(* START.                                                                  *)
od_xfer_end(o, tag) ==
    \/ /\ mode \notin Direct \/ ~od_xfer_owner_matches(o)
       /\ Inert("0x72")
    \/ /\ mode \in Direct /\ od_xfer_owner_matches(o)
       /\ \/ (~Complete \/ compressed \/ mode \in Partial) /\ DirectFailed("0x72")
          \/ /\ Complete
             /\ finish_refresh("0x72", IF mode \in Partial THEN new_etag ELSE tag, 0, written)

(* 0x82.  On a fatal transfer it only retires the latch: a partial one     *)
(* lost its etag when it became fatal.                                     *)
od_pipe_end(o, tag) ==
    \/ /\ mode \notin Pipe \cup {"fatal"}
       /\ Answer("0x82", 1)
       /\ UNCHANGED <<state, panel_up, etag, panel, ghosts>>
    \/ /\ mode \in Pipe \cup {"fatal"} /\ ~od_xfer_owner_matches(o)
       /\ Inert("0x82")
    \/ /\ mode = "fatal" /\ od_xfer_owner_matches(o)
       /\ od_xfer_abort_active(FALSE)
       /\ Answer("0x82", 1)
       /\ UNCHANGED <<panel, ghosts>>
    \/ /\ mode \in Pipe /\ od_xfer_owner_matches(o)
       /\ \/ od_xfer_pipe_enter_fatal("0x82")
          \/ /\ ~Complete \/ compressed
             /\ od_xfer_abort_active(mode \in Partial)
             /\ Answer("0x82", 2)
             /\ UNCHANGED <<panel, ghosts>>
          \/ Complete /\ finish_refresh("0x82", tag, 1, written)

(* Teardown of the link that owns the transfer, or of the session. *)
od_xfer_reset ==
    /\ od_xfer_abort_active(FALSE)
    /\ replies' = 0 /\ allowed' = 0
    /\ UNCHANGED <<panel, ghosts>>

Start(o) ==
    \E zip \in BOOLEAN :
       \/ od_xfer_direct_start(o, zip)
       \/ \E old \in Etags \cup {None}, new \in Etags \cup {None} :
             od_xfer_partial_start(o, zip, old, new)
       \/ \E old \in Etags \cup {None}, partial \in BOOLEAN :
             od_pipe_start(o, zip, partial, old)

Tags == Etags \cup {None, Absent}

TransferNext ==
    \/ \E o \in Owners :
          \/ Start(o)
          \/ \E n \in 0..(Size + 1) : od_xfer_data(o, n) \/ od_pipe_data(o, n)
          \/ \E tag \in Tags : od_xfer_end(o, tag) \/ od_pipe_end(o, tag)
    \/ od_xfer_reset

TransferSpec == TransferInit /\ [][TransferNext]_transferVars

-----------------------------------------------------------------------------

(* Every variable is in its range; in particular the panel is never given  *)
(* more than the declared image.                                           *)
TransferTypeOK ==
    /\ mode \in {"idle", "fatal"} \cup Direct \cup Pipe
    /\ owner \in Owners \cup {NoOwner}
    /\ compressed \in BOOLEAN /\ written \in 0..Size
    /\ new_etag \in Etags \cup {None} /\ etag \in Etags \cup {None}
    /\ panel_up \in BOOLEAN /\ excused \in BOOLEAN
    /\ replies \in 0..3 /\ allowed \in 0..3
    /\ panel \in [auto_end : BOOLEAN, planes : BOOLEAN]
    /\ glass \in Etags \cup {None, Torn} /\ base_etag \in Etags \cup {None}

(* The panel is powered exactly while a transfer owns it: no path out of a *)
(* transfer leaves it on, and none releases it under a live transfer       *)
(* (od_xfer_owns_hardware, the guard of every abort).                      *)
PanelHeld == panel_up <=> od_xfer_owns_hardware

(* Transfer state in its ranges, and the panel held with it. *)
TransferInv == TransferTypeOK /\ PanelHeld

(* A nonzero displayed etag names the image on the glass, all of it,       *)
(* whatever was replaced, dropped, refused or timed out since it was       *)
(* committed.  Two cases are excused because the code decides them so: a   *)
(* full refresh that timed out without naming an etag keeps the old one    *)
(* (finish_refresh, od_xfer_pipe_refresh), and the direct END accepts a    *)
(* short raw image in packed rows (od_xfer_direct_end_impl).               *)
EtagIsShown == etag # None /\ ~excused => glass = etag

(* While a partial image is under way the displayed etag is the one it was *)
(* accepted against, so its pixels land on the image they were made for.   *)
BaseStaysShown == mode \in Partial => base_etag # None /\ etag = base_etag

(* No handler answers more often than the dispatcher reserved for its      *)
(* opcode: a reply that finds no unit is lost.                             *)
RepliesWithinBudget == replies <= allowed

(* The panel is powered exactly while a transfer owns it, the etag names   *)
(* what the glass shows, a partial update keeps its base, and no handler   *)
(* sends more replies than its budget (od_xfer.c).                         *)
TransferSafe == TransferInv /\ EtagIsShown /\ BaseStaysShown /\ RepliesWithinBudget

-----------------------------------------------------------------------------
(* Proofs.                                                                 *)

(* The reply counts of a handler are within its budget. *)
Within == replies \in 0..3 /\ allowed \in 0..3 /\ replies <= allowed

\* The budget column, row by row.
LEMMA Budgets ==
  /\ \A op \in {"0x70", "0x76", "0x80"} : od_dispatch_budget(op) = 1
  /\ \A op \in {"0x71", "0x72"} : od_dispatch_budget(op) = 2
  /\ \A op \in {"0x81", "0x82"} : od_dispatch_budget(op) = 3
BY DEF od_dispatch_budget

\* A handler that sends no more than its row allows stays within it.
LEMMA AnswerWithin ==
  ASSUME NEW op \in {"0x70", "0x76", "0x80", "0x71", "0x72", "0x81", "0x82"}, NEW n \in Nat,
         n <= od_dispatch_budget(op), Answer(op, n)
  PROVE  Within'
BY Budgets DEF Answer, Within

(* A transfer that is over, however it ended, leaves the panel off and the *)
(* etag as it was or cleared; the glass did not change.                    *)
LEMMA ClosedKeeps ==
  ASSUME TransferSafe, od_xfer_clear_state, panel_up' = FALSE, etag' = etag \/ etag' = None,
         UNCHANGED <<panel, ghosts>>, Within'
  PROVE  TransferSafe'
<1> USE DEF TransferSafe, TransferInv
<1>1. /\ mode' = "idle" /\ owner' = NoOwner /\ compressed' = FALSE /\ written' = 0
      /\ new_etag' = None /\ panel' = panel /\ glass' = glass
      /\ base_etag' = base_etag /\ excused' = excused
  BY DEF od_xfer_clear_state, ghosts
<1>2. written' \in 0..Size
  BY <1>1, TransferConstants
<1>3. etag' \in Etags \cup {None}
  BY DEF TransferTypeOK
<1>4. TransferTypeOK'
  BY <1>1, <1>2, <1>3 DEF TransferTypeOK, Within
<1>5. PanelHeld' /\ EtagIsShown' /\ BaseStaysShown'
  BY <1>1 DEF PanelHeld, EtagIsShown, BaseStaysShown, od_xfer_owns_hardware, Partial
<1> QED
  BY <1>4, <1>5 DEF Within, RepliesWithinBudget

(* An abort releases the panel: it is not on unless a transfer holds it.   *)
LEMMA AbortKeeps ==
  ASSUME TransferSafe, NEW clear, od_xfer_abort_active(clear),
         UNCHANGED <<panel, ghosts>>, Within'
  PROVE  TransferSafe'
<1>1. panel_up' = FALSE
  BY DEF TransferSafe, TransferInv, TransferTypeOK, PanelHeld, od_xfer_abort_active
<1>2. od_xfer_clear_state /\ (etag' = etag \/ etag' = None)
  BY DEF od_xfer_abort_active
<1> QED
  BY <1>1, <1>2, ClosedKeeps

(* A transfer that is begun: a partial one against the etag on display.    *)
LEMMA OpenedKeeps ==
  ASSUME TransferSafe, NEW o \in Owners, NEW m \in Direct \cup Pipe, NEW zip \in BOOLEAN,
         NEW n \in 0..Size, Opened(o, m, zip, n), new_etag' \in Etags \cup {None},
         UNCHANGED <<etag, panel, glass, excused>>, base_etag' \in Etags \cup {None},
         m \in Partial => base_etag' # None /\ base_etag' = etag, Within'
  PROVE  TransferSafe'
<1> USE DEF TransferSafe, TransferInv
<1>1. mode' = m /\ owner' = o /\ compressed' = zip /\ written' = n /\ panel_up' = TRUE
  BY DEF Opened
<1>2. TransferTypeOK'
  BY <1>1 DEF TransferTypeOK, Within
<1>3. PanelHeld'
  BY <1>1 DEF PanelHeld, od_xfer_owns_hardware, Direct, Pipe
<1>4. EtagIsShown' /\ BaseStaysShown'
  BY <1>1 DEF EtagIsShown, BaseStaysShown
<1> QED
  BY <1>2, <1>3, <1>4 DEF Within, RepliesWithinBudget

(* A transfer that is fatal has given the panel back. *)
LEMMA FatalKeeps ==
  ASSUME TransferSafe, mode' = "fatal", panel_up' = FALSE, owner' \in Owners \cup {NoOwner},
         compressed' \in BOOLEAN, written' \in 0..Size, new_etag' \in Etags \cup {None},
         etag' = etag \/ etag' = None, UNCHANGED <<panel, ghosts>>, Within'
  PROVE  TransferSafe'
<1> USE DEF TransferSafe, TransferInv
<1>1. etag' \in Etags \cup {None}
  BY DEF TransferTypeOK
<1>2. TransferTypeOK'
  BY <1>1 DEF TransferTypeOK, Within, ghosts
<1>3. PanelHeld' /\ EtagIsShown' /\ BaseStaysShown'
  BY DEF PanelHeld, EtagIsShown, BaseStaysShown, od_xfer_owns_hardware, Partial, ghosts
<1> QED
  BY <1>2, <1>3 DEF Within, RepliesWithinBudget

(* A handler that leaves the transfer as it is, or only adds to it. *)
LEMMA GrownKeeps ==
  ASSUME TransferSafe, written' \in 0..Size, Within',
         UNCHANGED <<mode, owner, compressed, new_etag, panel_up, etag, panel, ghosts>>
  PROVE  TransferSafe'
<1> USE DEF TransferSafe, TransferInv
<1>1. TransferTypeOK'
  BY DEF TransferTypeOK, Within, ghosts
<1>2. PanelHeld' /\ EtagIsShown' /\ BaseStaysShown'
  BY DEF PanelHeld, EtagIsShown, BaseStaysShown, od_xfer_owns_hardware, ghosts
<1> QED
  BY <1>1, <1>2 DEF Within, RepliesWithinBudget

\* A command that changes nothing but the replies.
LEMMA InertKeeps ==
  ASSUME TransferSafe, UNCHANGED <<state, panel_up, etag, panel, ghosts>>, Within'
  PROVE  TransferSafe'
<1>1. written' \in 0..Size
  BY DEF TransferSafe, TransferInv, TransferTypeOK, state
<1>2. UNCHANGED <<mode, owner, compressed, new_etag, panel_up, etag, panel, ghosts>>
  BY DEF state
<1> QED
  BY <1>1, <1>2, GrownKeeps

(* A refresh that ran.  All of the image is on the glass, except where a   *)
(* short one is allowed, and that is excused; a partial image was drawn    *)
(* over the one it was made for unless that one was itself excused.        *)
LEMMA RefreshedKeeps ==
  ASSUME TransferSafe, NEW op, NEW tag \in Tags, NEW out, NEW units \in 0..Size,
         NEW completed \in BOOLEAN, units = Size \/ MayBeShort,
         Refreshed(op, tag, out, units, completed), Within'
  PROVE  TransferSafe'
<1> USE DEF TransferSafe, TransferInv
<1> DEFINE named == IF tag = Absent THEN None ELSE tag
           part == mode \in Partial
<1>1. /\ etag' = IF completed THEN named ELSE IF part \/ tag # Absent THEN None ELSE etag
      /\ glass' = IF completed THEN Shown(named, units) ELSE Torn
      /\ excused' = IF completed THEN (MayBeShort /\ units # Size) \/ (part /\ excused)
                    ELSE excused \/ (~part /\ tag = Absent)
      /\ panel' = panel /\ base_etag' = base_etag /\ panel_up' = FALSE
  BY DEF Refreshed, CommitEtag
<1>2. mode' = "idle" /\ owner' = NoOwner /\ compressed' = FALSE /\ written' = 0 /\ new_etag' = None
  BY DEF Refreshed, od_xfer_clear_state
<1>3. named \in Etags \cup {None} /\ named # Torn /\ (tag # Absent => named = tag)
  BY TransferConstants DEF Tags, Absent, None, Torn
<1>4. Shown(named, units) = IF units # Size \/ (part /\ glass # base_etag) THEN Torn ELSE named
  BY DEF Shown
<1> HIDE DEF named
<1>5. TransferTypeOK'
  <2>1. written' \in 0..Size
    BY <1>2, TransferConstants
  <2>2. etag' \in Etags \cup {None} /\ glass' \in Etags \cup {None, Torn}
    BY <1>1, <1>3, <1>4 DEF TransferTypeOK
  <2>3. excused' \in BOOLEAN
    BY <1>1 DEF TransferTypeOK
  <2> QED
    BY <1>1, <1>2, <2>1, <2>2, <2>3 DEF TransferTypeOK, Within
<1>6. EtagIsShown'
  <2> SUFFICES ASSUME etag' # None, ~excused' PROVE glass' = etag'
    BY DEF EtagIsShown
  <2>1. CASE completed
    <3>1. units = Size /\ ~(part /\ excused)
      BY <1>1, <2>1
    <3>2. part => glass = base_etag
      BY <3>1 DEF EtagIsShown, BaseStaysShown
    <3> QED
      BY <1>1, <1>4, <2>1, <3>1, <3>2
  <2>2. CASE ~completed
    BY <1>1, <2>2
  <2> QED
    BY <2>1, <2>2
<1>7. PanelHeld' /\ BaseStaysShown'
  BY <1>1, <1>2 DEF PanelHeld, BaseStaysShown, od_xfer_owns_hardware, Partial
<1> QED
  BY <1>5, <1>6, <1>7 DEF Within, RepliesWithinBudget

(* The end of a stream: dropped, refused by the panel, or refreshed. *)
LEMMA FinishKeeps ==
  ASSUME TransferSafe, NEW op \in {"0x71", "0x72", "0x81", "0x82"}, NEW tag \in Tags,
         NEW out \in Nat, out + 2 <= od_dispatch_budget(op), NEW units \in 0..Size,
         units = Size \/ MayBeShort, finish_refresh(op, tag, out, units)
  PROVE  TransferSafe'
<1>1. CASE \E n \in {out, out + 1} : Dropped(op, n)
  <2>1. PICK n \in {out, out + 1} : Dropped(op, n)
    BY <1>1
  <2>2. n \in Nat /\ n <= od_dispatch_budget(op)
    BY Budgets
  <2>3. Within'
    BY <2>1, <2>2, AnswerWithin DEF Dropped
  <2> QED
    BY <2>1, <2>3, ClosedKeeps DEF Dropped
<1>2. CASE RefreshFailed(op, tag, out + 1)
  <2>1. out + 1 + 1 \in Nat /\ out + 1 + 1 <= od_dispatch_budget(op)
    BY Budgets
  <2>2. Within'
    BY <1>2, <2>1, AnswerWithin DEF RefreshFailed
  <2> QED
    BY <1>2, <2>2, AbortKeeps DEF RefreshFailed
<1>3. CASE \E completed \in BOOLEAN : Refreshed(op, tag, out + 1, units, completed)
  <2>1. PICK completed \in BOOLEAN : Refreshed(op, tag, out + 1, units, completed)
    BY <1>3
  <2>2. PICK extra \in {0, 1} : Answer(op, out + 1 + extra)
    BY <2>1 DEF Refreshed
  <2>3. out + 1 + extra \in Nat /\ out + 1 + extra <= od_dispatch_budget(op)
    BY Budgets
  <2>4. Within'
    BY <2>2, <2>3, AnswerWithin
  <2> QED
    BY <2>1, <2>4, RefreshedKeeps
<1> QED
  BY <1>1, <1>2, <1>3 DEF finish_refresh

-----------------------------------------------------------------------------
(* One lemma per handler. *)

LEMMA RefusedKeeps ==
  ASSUME TransferSafe, NEW op \in {"0x70", "0x76", "0x80"}, NEW clear \in BOOLEAN,
         Refused(op, clear)
  PROVE  TransferSafe'
<1>1. Within'
  BY Budgets, AnswerWithin DEF Refused
<1> QED
  BY <1>1, AbortKeeps DEF Refused

\* 0x70: a direct transfer opens, or the command is refused.
LEMMA DirectStartKeeps ==
  ASSUME TransferSafe, NEW o \in Owners, NEW zip \in BOOLEAN, od_xfer_direct_start(o, zip)
  PROVE  TransferSafe'
<1>1. CASE Refused("0x70", FALSE)
  BY <1>1, RefusedKeeps
<1>2. ASSUME NEW n \in (IF zip THEN 0..Size ELSE {0}),
             Opened(o, "direct_full", zip, n), new_etag' = None, Answer("0x70", 1),
             UNCHANGED <<etag, panel, ghosts>>
      PROVE  TransferSafe'
  <2>1. Within'
    BY <1>2, Budgets, AnswerWithin
  <2>2. n \in 0..Size
    BY TransferConstants
  <2>3. base_etag' \in Etags \cup {None} /\ "direct_full" \in Direct /\ "direct_full" \notin Partial
    BY <1>2 DEF ghosts, TransferSafe, TransferInv, TransferTypeOK, Direct, Partial
  <2> QED
    BY <1>2, <2>1, <2>2, <2>3, OpenedKeeps DEF ghosts
<1>3. CASE Answer("0x70", 0) /\ od_xfer_abort_active(FALSE) /\ UNCHANGED <<panel, ghosts>>
  <2>1. Within'
    BY <1>3, Budgets, AnswerWithin
  <2> QED
    BY <1>3, <2>1, AbortKeeps
<1> QED
  BY <1>1, <1>2, <1>3 DEF od_xfer_direct_start

\* 0x76: a partial image opens only against the etag that is shown.
LEMMA PartialStartKeeps ==
  ASSUME TransferSafe, NEW o \in Owners, NEW zip \in BOOLEAN, NEW old \in Etags \cup {None},
         NEW new \in Etags \cup {None}, od_xfer_partial_start(o, zip, old, new)
  PROVE  TransferSafe'
<1>1. CASE Refused("0x76", TRUE)
  BY <1>1, RefusedKeeps
<1>2. CASE /\ OldEtagMatches(old) /\ new # None
           /\ \E n \in 0..Size : Opened(o, "direct_partial", zip, n)
           /\ new_etag' = new /\ Answer("0x76", 1) /\ base_etag' = old
           /\ UNCHANGED <<etag, panel, glass, excused>>
  <2>1. Within'
    BY <1>2, Budgets, AnswerWithin
  <2>2. base_etag' # None /\ base_etag' = etag /\ "direct_partial" \in Direct
    BY <1>2 DEF OldEtagMatches, Direct
  <2> QED
    BY <1>2, <2>1, <2>2, OpenedKeeps
<1>3. CASE Answer("0x76", 0) /\ od_xfer_abort_active(TRUE) /\ UNCHANGED <<panel, ghosts>>
  <2>1. Within'
    BY <1>3, Budgets, AnswerWithin
  <2> QED
    BY <1>3, <2>1, AbortKeeps
<1> QED
  BY <1>1, <1>2, <1>3 DEF od_xfer_partial_start

\* 0x80: a PIPE transfer opens, full or partial.
LEMMA PipeStartKeeps ==
  ASSUME TransferSafe, NEW o \in Owners, NEW zip \in BOOLEAN, NEW partial \in BOOLEAN,
         NEW old \in Etags \cup {None}, od_pipe_start(o, zip, partial, old)
  PROVE  TransferSafe'
<1> DEFINE m == IF partial THEN "pipe_partial" ELSE "pipe_full"
<1>1. CASE \E clear \in {FALSE, partial} : Refused("0x80", clear)
  <2>1. PICK clear \in BOOLEAN : Refused("0x80", clear)
    BY <1>1
  <2> QED
    BY <2>1, RefusedKeeps
<1>2. CASE /\ partial => OldEtagMatches(old)
           /\ Opened(o, m, zip, 0) /\ new_etag' = None /\ Answer("0x80", 1)
           /\ base_etag' = IF partial THEN old ELSE base_etag
           /\ UNCHANGED <<etag, panel, glass, excused>>
  <2>1. Within'
    BY <1>2, Budgets, AnswerWithin
  <2>2. m \in Direct \cup Pipe /\ (m \in Partial <=> partial)
    BY DEF Pipe, Partial
  <2>3. base_etag' \in Etags \cup {None} /\ (partial => base_etag' # None /\ base_etag' = etag)
    BY <1>2 DEF OldEtagMatches, TransferSafe, TransferInv, TransferTypeOK
  <2>4. 0 \in 0..Size
    BY TransferConstants
  <2> HIDE DEF m
  <2> QED
    BY <1>2, <2>1, <2>2, <2>3, <2>4, OpenedKeeps
<1>3. CASE /\ mode' = "fatal" /\ owner' = o /\ compressed' = zip /\ written' = 0
           /\ new_etag' = None /\ panel_up' = FALSE
           /\ etag' = IF partial THEN None ELSE etag
           /\ Answer("0x80", 1)
           /\ UNCHANGED <<panel, ghosts>>
  <2>1. Within'
    BY <1>3, Budgets, AnswerWithin
  <2>2. written' \in 0..Size
    BY <1>3, TransferConstants
  <2> QED
    BY <1>3, <2>1, <2>2, FatalKeeps
<1>4. CASE Answer("0x80", 0) /\ od_xfer_abort_active(partial) /\ UNCHANGED <<panel, ghosts>>
  <2>1. Within'
    BY <1>4, Budgets, AnswerWithin
  <2> QED
    BY <1>4, <2>1, AbortKeeps
<1> QED
  BY <1>1, <1>2, <1>3, <1>4 DEF od_pipe_start

\* A direct transfer that fails is aborted.
LEMMA DirectFailedKeeps ==
  ASSUME TransferSafe, NEW op \in {"0x71", "0x72"}, DirectFailed(op)
  PROVE  TransferSafe'
<1>1. PICK n \in {0, 1} : Answer(op, n)
  BY DEF DirectFailed
<1>2. Within'
  BY <1>1, Budgets, AnswerWithin
<1>3. PICK clear : clear = (mode \in Partial)
  OBVIOUS
<1>4. od_xfer_abort_active(clear) /\ UNCHANGED <<panel, ghosts>>
  BY <1>3 DEF DirectFailed
<1> QED
  BY <1>2, <1>4, AbortKeeps

\* A PIPE transfer that fails goes to the fatal state.
LEMMA EnterFatalKeeps ==
  ASSUME TransferSafe, NEW op \in {"0x81", "0x82"}, od_xfer_pipe_enter_fatal(op)
  PROVE  TransferSafe'
<1>1. PICK n \in {0, 1} : Answer(op, n)
  BY DEF od_xfer_pipe_enter_fatal
<1>2. Within'
  BY <1>1, Budgets, AnswerWithin
<1>3. /\ owner' \in Owners \cup {NoOwner} /\ compressed' \in BOOLEAN /\ written' \in 0..Size
      /\ new_etag' \in Etags \cup {None}
  BY DEF od_xfer_pipe_enter_fatal, TransferSafe, TransferInv, TransferTypeOK
<1> QED
  BY <1>2, <1>3, FatalKeeps DEF od_xfer_pipe_enter_fatal

(* What a frame adds stays within the image; a raw full image is cut to it. *)
LEMMA TakenFits ==
  ASSUME TransferSafe, NEW n \in 0..(Size + 1), NEW truncates \in BOOLEAN
  PROVE  /\ Taken(n, truncates) \in Nat
         /\ Taken(n, truncates) <= Room => written + Taken(n, truncates) \in 0..Size
BY TransferConstants DEF Taken, Room, TransferSafe, TransferInv, TransferTypeOK

\* 0x71: the image grows, is finished by its last byte, or fails.
LEMMA DataKeeps ==
  ASSUME TransferSafe, NEW o \in Owners, NEW n \in 0..(Size + 1), od_xfer_data(o, n)
  PROVE  TransferSafe'
<1> DEFINE truncates == mode = "direct_full" /\ ~compressed
           got == Taken(n, truncates)
           whole == truncates /\ panel.auto_end /\ written + got >= Size
<1>1. CASE Inert("0x71")
  <2>1. Within'
    BY <1>1, Budgets, AnswerWithin DEF Inert
  <2> QED
    BY <1>1, <2>1, InertKeeps DEF Inert
<1>2. CASE DirectFailed("0x71")
  BY <1>2, DirectFailedKeeps
<1>3. PICK c \in BOOLEAN : c = truncates
  OBVIOUS
<1>4. got <= Room => written + got \in 0..Size
  BY <1>3, TakenFits
<1>5. CASE got <= Room /\ whole /\ finish_refresh("0x71", Absent, 0, written + got)
  <2>1. PICK units \in 0..Size : units = written + got
    BY <1>4, <1>5
  <2>2. units = Size
    BY <1>5, <2>1, TransferConstants
  <2>3. finish_refresh("0x71", Absent, 0, units)
    BY <1>5, <2>1
  <2> QED
    BY <2>2, <2>3, Budgets, FinishKeeps DEF Tags
<1>6. CASE got <= Room /\ Consume(got) /\ Answer("0x71", 1)
  <2>1. Within'
    BY <1>6, Budgets, AnswerWithin
  <2> QED
    BY <1>4, <1>6, <2>1, GrownKeeps DEF Consume
<1> QED
  BY <1>1, <1>2, <1>5, <1>6 DEF od_xfer_data

\* 0x81: the same for PIPE, with its exact length test.
LEMMA PipeDataKeeps ==
  ASSUME TransferSafe, NEW o \in Owners, NEW n \in 0..(Size + 1), od_pipe_data(o, n)
  PROVE  TransferSafe'
<1> DEFINE truncates == mode = "pipe_full" /\ ~compressed
           got == Taken(n, truncates)
           whole == truncates /\ written + got = Size
<1>1. CASE Inert("0x81")
  <2>1. Within'
    BY <1>1, Budgets, AnswerWithin DEF Inert
  <2> QED
    BY <1>1, <2>1, InertKeeps DEF Inert
<1>2. CASE od_xfer_pipe_enter_fatal("0x81")
  BY <1>2, EnterFatalKeeps
<1>3. PICK c \in BOOLEAN : c = truncates
  OBVIOUS
<1>4. got <= Room => written + got \in 0..Size
  BY <1>3, TakenFits
<1>5. CASE got <= Room /\ whole /\ finish_refresh("0x81", Absent, 1, written + got)
  <2>1. PICK units \in 0..Size : units = written + got
    BY <1>4, <1>5
  <2>2. units = Size
    BY <1>5, <2>1
  <2>3. finish_refresh("0x81", Absent, 1, units)
    BY <1>5, <2>1
  <2> QED
    BY <2>2, <2>3, Budgets, FinishKeeps DEF Tags
<1>6. CASE got <= Room /\ Consume(got) /\ \E sack \in {0, 1} : Answer("0x81", sack)
  <2>1. Within'
    BY <1>6, Budgets, AnswerWithin
  <2> QED
    BY <1>4, <1>6, <2>1, GrownKeeps DEF Consume
<1> QED
  BY <1>1, <1>2, <1>5, <1>6 DEF od_pipe_data

\* 0x72: the transfer is refreshed or fails.
LEMMA EndKeeps ==
  ASSUME TransferSafe, NEW o \in Owners, NEW tag \in Tags, od_xfer_end(o, tag)
  PROVE  TransferSafe'
<1>1. CASE Inert("0x72")
  <2>1. Within'
    BY <1>1, Budgets, AnswerWithin DEF Inert
  <2> QED
    BY <1>1, <2>1, InertKeeps DEF Inert
<1>2. CASE DirectFailed("0x72")
  BY <1>2, DirectFailedKeeps
<1>3. CASE /\ Complete
           /\ finish_refresh("0x72", IF mode \in Partial THEN new_etag ELSE tag, 0, written)
  <2>1. PICK units \in 0..Size, t \in Tags :
          units = written /\ t = IF mode \in Partial THEN new_etag ELSE tag
    BY DEF TransferSafe, TransferInv, TransferTypeOK, Tags
  <2>2. finish_refresh("0x72", t, 0, units) /\ (units = Size \/ MayBeShort)
    BY <1>3, <2>1 DEF Complete
  <2> QED
    BY <2>2, Budgets, FinishKeeps
<1> QED
  BY <1>1, <1>2, <1>3 DEF od_xfer_end

\* 0x82: the same for PIPE, from the fatal state too.
LEMMA PipeEndKeeps ==
  ASSUME TransferSafe, NEW o \in Owners, NEW tag \in Tags, od_pipe_end(o, tag)
  PROVE  TransferSafe'
<1>1. ASSUME NEW n \in {0, 1}, Answer("0x82", n), UNCHANGED <<state, panel_up, etag, panel, ghosts>>
      PROVE  TransferSafe'
  <2>1. Within'
    BY <1>1, Budgets, AnswerWithin
  <2> QED
    BY <1>1, <2>1, InertKeeps
<1>2. ASSUME NEW n \in {1, 2}, NEW clear, od_xfer_abort_active(clear),
             Answer("0x82", n), UNCHANGED <<panel, ghosts>>
      PROVE  TransferSafe'
  <2>1. Within'
    BY <1>2, Budgets, AnswerWithin
  <2> QED
    BY <1>2, <2>1, AbortKeeps
<1>3. CASE od_xfer_pipe_enter_fatal("0x82")
  BY <1>3, EnterFatalKeeps
<1>4. CASE Complete /\ finish_refresh("0x82", tag, 1, written)
  <2>1. PICK units \in 0..Size : units = written
    BY DEF TransferSafe, TransferInv, TransferTypeOK
  <2>2. finish_refresh("0x82", tag, 1, units) /\ (units = Size \/ MayBeShort)
    BY <1>4, <2>1 DEF Complete
  <2> QED
    BY <2>2, Budgets, FinishKeeps
<1>5. CASE Inert("0x82")
  BY <1>1, <1>5 DEF Inert
<1>6. CASE /\ od_xfer_abort_active(mode \in Partial) /\ Answer("0x82", 2)
           /\ UNCHANGED <<panel, ghosts>>
  <2>1. PICK clear : clear = (mode \in Partial)
    OBVIOUS
  <2>2. od_xfer_abort_active(clear)
    BY <1>6, <2>1
  <2> QED
    BY <1>2, <1>6, <2>2
<1> QED
  BY <1>1, <1>2, <1>3, <1>4, <1>5, <1>6 DEF od_pipe_end

\* Teardown of the link or of the session aborts what is open.
LEMMA ResetKeeps ==
  ASSUME TransferSafe, od_xfer_reset
  PROVE  TransferSafe'
<1>1. Within'
  BY DEF od_xfer_reset, Within
<1> QED
  BY <1>1, AbortKeeps DEF od_xfer_reset

\* The state after boot: nothing open, nothing shown.
LEMMA TransferInitially == TransferInit => TransferSafe
<1> SUFFICES ASSUME TransferInit PROVE TransferSafe
  OBVIOUS
<1>1. written \in 0..Size
  BY TransferConstants DEF TransferInit
<1>2. 0 \in 0..3
  OBVIOUS
<1>3. TransferTypeOK
  BY <1>1, <1>2 DEF TransferInit, TransferTypeOK
<1> QED
  BY <1>3 DEF TransferInit, TransferSafe, TransferInv, PanelHeld, EtagIsShown, BaseStaysShown,
              RepliesWithinBudget, od_xfer_owns_hardware, Partial

(* For every number of connections and etags and every image size: the     *)
(* panel is powered exactly while a transfer owns it, a displayed etag     *)
(* names the image on the glass but for the two cases EtagIsShown excuses, *)
(* a partial image is drawn over the one it was accepted against, and no   *)
(* handler exceeds its reply budget, after any sequence of commands,       *)
(* failures and resets (od_xfer.c, od_pipe.c).                             *)
THEOREM EtagTellsTheTruth == TransferSpec => []TransferSafe
<1>1. TransferSafe /\ [TransferNext]_transferVars => TransferSafe'
  <2> SUFFICES ASSUME TransferSafe, [TransferNext]_transferVars PROVE TransferSafe'
    OBVIOUS
  <2>1. ASSUME NEW o \in Owners, Start(o) PROVE TransferSafe'
    BY <2>1, DirectStartKeeps, PartialStartKeeps, PipeStartKeeps DEF Start
  <2>2. ASSUME NEW o \in Owners, NEW n \in 0..(Size + 1), od_xfer_data(o, n) \/ od_pipe_data(o, n)
        PROVE  TransferSafe'
    BY <2>2, DataKeeps, PipeDataKeeps
  <2>3. ASSUME NEW o \in Owners, NEW tag \in Tags, od_xfer_end(o, tag) \/ od_pipe_end(o, tag)
        PROVE  TransferSafe'
    BY <2>3, EndKeeps, PipeEndKeeps
  <2>4. CASE od_xfer_reset
    BY <2>4, ResetKeeps
  <2>5. CASE UNCHANGED transferVars
    <3>1. UNCHANGED <<state, panel_up, etag, panel, ghosts>> /\ Within'
      BY <2>5
      DEF transferVars, Within, TransferSafe, TransferInv, TransferTypeOK, RepliesWithinBudget
    <3> QED
      BY <3>1, InertKeeps
  <2> QED
    BY <2>1, <2>2, <2>3, <2>4, <2>5 DEF TransferNext
<1> QED
  BY TransferInitially, <1>1, PTL DEF TransferSpec
=============================================================================
