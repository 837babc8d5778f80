------------------------------ MODULE MdnsBrowse ------------------------------
(***************************************************************************)
(* Continuous browsing of the vendored mDNS component (mdns_browser.c, and *)
(* its part of mdns_parse_packet).                                         *)
(*                                                                         *)
(* A browse keeps a cache of the service instances it has heard of.  The   *)
(* service task updates the cache while it parses a packet and collects    *)
(* the results that changed in a sync; the sync is queued as an action of  *)
(* its own, and only when that action runs is the application's notifier   *)
(* called for each of them, and a result whose time to live is 0 freed.    *)
(* Between the two, other packets may be parsed and the browse ended.  An  *)
(* action leaves the queue before it runs, and any task may take its place *)
(* in the queue before the action posts one.                               *)
(***************************************************************************)
EXTENDS Naturals, Sequences, FiniteSets, SequencesExt

CONSTANTS
  Services,      \* service types browsed
  Results,       \* heap blocks of results
  Packets,       \* sequences of answers [type, service, inst, host, port, ttl, txt];
                 \* one of type "bad" is cut short or malformed
  QLEN,          \* MDNS_ACTION_QUEUE_LEN
  MaxRx,         \* bound: packets received
  MaxCalls       \* bound: mdns_browse_new and mdns_browse_delete

Unknown == "none"

VARIABLES
  browse,        \* service -> {} or {results, newest first} (s_browse)
  res,           \* result block -> {} or {[inst, host, port, addr, txt, ttl]}
  queue,         \* actions [act, service], [act, packet], [act, service, sync,
                 \* freed (ghost: some of its results are no longer allocated)]
  hand,          \* <<>>, or the action the service task has taken and runs
  rx, calls,     \* bounds
  dirty,         \* ghost: what changed in a result since it was last notified
  lost,          \* ghost: results whose report was dropped with its sync
  crossed,       \* ghost: a browse was ended, or a result said goodbye to,
                 \* while a report about it was queued
  dangling       \* ghost: the notifier was given a freed result or browse

browseVars == <<browse, res, queue, hand, rx, calls, dirty, lost, crossed, dangling>>

Active == {s \in Services : browse[s] # {}}
Of(rec) == CHOOSE x \in rec : TRUE

-----------------------------------------------------------------------------
(* The cache.                                                              *)

Block(st) == CHOOSE r \in Results : st.res[r] = {}

Cached(st, s) == Of(st.br[s])

\* Position of the result for an instance in a browse's cache, 0 if none.
Find(st, s, inst) ==
  LET hit == {i \in DOMAIN Cached(st, s) : Of(st.res[Cached(st, s)[i]]).inst = inst} IN
  IF hit = {} THEN 0 ELSE CHOOSE i \in hit : \A j \in hit : i <= j

\* add_browse_result, unless the packet's sync belongs to another browse.
Marked(st, r, what) ==
  [st EXCEPT !.sync = @ \cup {r}, !.dirty[r] = @ \cup what]

Quietly(st, r, what) == [st EXCEPT !.dirty[r] = @ \cup what]

Set(st, r, rec) == [st EXCEPT !.res[r] = {rec}]

\* The time to live only ever shrinks, unless the result was said goodbye to.
Ttl(st, r, ttl) ==
  LET x   == Of(st.res[r])
      new == IF x.ttl = 0 \/ ttl < x.ttl THEN ttl ELSE x.ttl IN
  IF new = x.ttl THEN st
  ELSE Marked(Set(st, r, [x EXCEPT !.ttl = new]), r, {"ttl"})

Insert(st, s, rec) ==
  LET r == Block(st) IN
  Marked([Set(st, r, rec) EXCEPT !.br[s] = {<<r>> \o Of(@)}, !.dirty[r] = {}],
         r, {"new"})

FreshResult(inst, ttl) == [inst |-> inst, host |-> Unknown, port |-> 0, addr |-> FALSE,
                           txt |-> 0, ttl |-> ttl]

mdns_priv_browse_result_add_ptr(st, s, a) ==
  LET k == Find(st, s, a.inst) IN
  IF k = 0 THEN Insert(st, s, FreshResult(a.inst, a.ttl))
  ELSE Ttl(st, Cached(st, s)[k], a.ttl)

\* copy_address_in_previous_result: another result of the same host has one.
HostAddr(st, s, host) ==
  \E i \in DOMAIN Cached(st, s) :
    LET x == Of(st.res[Cached(st, s)[i]]) IN x.host = host /\ x.addr

\* The port is taken only together with a new host.
mdns_priv_browse_result_add_srv(st, s, a) ==
  LET k == Find(st, s, a.inst) IN
  IF k = 0
  THEN Insert(st, s, [FreshResult(a.inst, a.ttl) EXCEPT !.host = a.host, !.port = a.port])
  ELSE LET r == Cached(st, s)[k]
           x == Of(st.res[r])
           y == [x EXCEPT !.host = a.host, !.port = a.port,
                          !.addr = @ \/ HostAddr(st, s, a.host)] IN
       Ttl(IF x.host = a.host THEN st ELSE Marked(Set(st, r, y), r, {"host"}),
           r, a.ttl)

\* A text that differs from the one held is reported; the first one is not.
mdns_priv_browse_result_add_txt(st, s, a) ==
  LET k == Find(st, s, a.inst) IN
  IF k = 0 THEN Insert(st, s, [FreshResult(a.inst, a.ttl) EXCEPT !.txt = a.txt])
  ELSE LET r == Cached(st, s)[k]
           x == Of(st.res[r])
           y == Set(st, r, [x EXCEPT !.txt = a.txt]) IN
       Ttl(IF x.txt = a.txt THEN y
           ELSE IF x.txt = 0 THEN Quietly(y, r, {"txt"})
           ELSE Marked(y, r, {"txt"}),
           r, a.ttl)

\* The first result of the host that does not have the address yet.
mdns_priv_browse_result_add_ip(st, a) ==
  LET s   == st.for
      hit == {i \in DOMAIN Cached(st, s) :
                LET x == Of(st.res[Cached(st, s)[i]]) IN x.host = a.host /\ ~x.addr} IN
  IF hit = {} THEN st
  ELSE LET r == Cached(st, s)[CHOOSE i \in hit : \A j \in hit : i <= j]
           x == Of(st.res[r]) IN
       Ttl(Marked(Set(st, r, [x EXCEPT !.addr = TRUE]), r, {"addr"}), r, a.ttl)

\* mdns_priv_browse_find for an address: a browse that knows its host.
KnowsHost(st, host) ==
  {s \in Services : st.br[s] # {} /\ \E i \in DOMAIN Cached(st, s) :
     Of(st.res[Cached(st, s)[i]]).host = host}

\* mdns_priv_browse_ensure_sync: the first browse a packet meets keeps it.
Ensure(st, s) == [st EXCEPT !.for = IF @ = Unknown THEN s ELSE @, !.last = s]

\* One answer of a packet.
Answer(st, a) ==
  IF a.type = "A"
  THEN LET known == KnowsHost(st, a.host)
           s     == IF known # {} THEN Of(known) ELSE st.last IN
       IF s = Unknown THEN st
       ELSE [(IF known # {} THEN Ensure(st, s) ELSE
              [st EXCEPT !.for = IF @ = Unknown THEN s ELSE @])
             EXCEPT !.staged = <<a>> \o @]
  ELSE IF st.br[a.service] = {} THEN st
  ELSE LET e == Ensure(st, a.service) IN
       IF e.for # a.service THEN e
       ELSE CASE a.type = "PTR" -> mdns_priv_browse_result_add_ptr(e, a.service, a)
              [] a.type = "SRV" -> mdns_priv_browse_result_add_srv(e, a.service, a)
              [] a.type = "TXT" -> mdns_priv_browse_result_add_txt(e, a.service, a)

\* The addresses put aside are applied to the browse last met, if it is the
\* one the sync belongs to.
Staged(st) ==
  IF st.for = Unknown \/ st.last # st.for THEN st
  ELSE FoldLeft(mdns_priv_browse_result_add_ip, st, st.staged)

\* What parsing threads through a packet: the caches, the results, what changed,
\* the results of the sync, the browse it is for, the browse last met, and the
\* addresses put aside until the end of the packet.
Start == [br |-> browse, res |-> res, dirty |-> dirty, sync |-> {},
          for |-> Unknown, last |-> Unknown, staged |-> <<>>]

Needs(p) == Cardinality({i \in DOMAIN p : p[i].type # "A"})
FreeBlocks == {r \in Results : res[r] = {}}

\* A malformed record ends the parsing: the caches keep what came before it,
\* the addresses put aside and the sync are freed.
Malformed(p) == \E i \in DOMAIN p : p[i].type = "bad"
Wellformed(p) == SubSeq(p, 1, SelectInSeq(p, LAMBDA a : a.type = "bad") - 1)

Parse(p) == IF Malformed(p) THEN FoldLeft(Answer, Start, Wellformed(p))
            ELSE Staged(FoldLeft(Answer, Start, p))

-----------------------------------------------------------------------------
BrowseInit ==
  /\ browse = [s \in Services |-> {}]
  /\ res = [r \in Results |-> {}]
  /\ queue = <<>> /\ hand = <<>>
  /\ rx = 0 /\ calls = 0
  /\ dirty = [r \in Results |-> {}]
  /\ lost = {} /\ crossed = FALSE /\ dangling = FALSE

CanQueue == Len(queue) < QLEN

mdns_browse_new(s) ==
  /\ calls < MaxCalls /\ CanQueue
  /\ queue' = Append(queue, [act |-> "add", service |-> s])
  /\ calls' = calls + 1
  /\ UNCHANGED <<browse, res, hand, rx, dirty, lost, crossed, dangling>>

mdns_browse_delete(s) ==
  /\ calls < MaxCalls /\ CanQueue
  /\ queue' = Append(queue, [act |-> "end", service |-> s])
  /\ calls' = calls + 1
  /\ UNCHANGED <<browse, res, hand, rx, dirty, lost, crossed, dangling>>

receive_browse(p) ==
  /\ rx < MaxRx /\ CanQueue
  /\ queue' = Append(queue, [act |-> "rx", packet |-> p])
  /\ rx' = rx + 1
  /\ UNCHANGED <<browse, res, hand, calls, dirty, lost, crossed, dangling>>

\* Once freed memory was used the model says nothing more.
service_task ==
  /\ ~dangling /\ hand = <<>> /\ queue # <<>>
  /\ hand' = <<Head(queue)>> /\ queue' = Tail(queue)
  /\ UNCHANGED <<browse, res, rx, calls, dirty, lost, crossed, dangling>>

Runs(k) == hand # <<>> /\ hand[1].act = k /\ hand' = <<>>

\* A browse for a service that is already browsed is freed again.
browse_add ==
  /\ Runs("add")
  /\ LET s == hand[1].service IN
     browse' = IF browse[s] = {} THEN [browse EXCEPT ![s] = {<<>>}] ELSE browse
  /\ UNCHANGED <<res, queue, rx, calls, dirty, lost, crossed, dangling>>

Reported(k, S) == queue[k].act = "sync" /\ queue[k].sync \cap S # {}

\* Results are freed under the syncs that still name them; no report of those
\* settled is outstanding.
FreeResults(S, settled) ==
  /\ res' = [r \in Results |-> IF r \in S THEN {} ELSE res[r]]
  /\ lost' = lost \ settled
  /\ queue' = [k \in DOMAIN queue |->
                 IF Reported(k, S) THEN [queue[k] EXCEPT !.freed = TRUE] ELSE queue[k]]

browse_finish ==
  /\ Runs("end")
  /\ LET s == hand[1].service
         l == IF browse[s] = {} THEN {} ELSE ToSet(Of(browse[s])) IN
     /\ browse' = [browse EXCEPT ![s] = {}]
     /\ FreeResults(l, l)
     /\ crossed' = (crossed \/ \E k \in DOMAIN queue : Reported(k, l))
  /\ UNCHANGED <<rx, calls, dirty, dangling>>

\* The sync is queued if anything changed; without room for it, or after a
\* malformed record, nothing of it is reported.
mdns_parse_packet_browse ==
  /\ Runs("rx")
  /\ Cardinality(FreeBlocks) >= Needs(hand[1].packet)
  /\ LET p  == hand[1].packet
         st == Parse(p)
         ok == ~Malformed(p) /\ CanQueue IN
     /\ browse' = st.br /\ res' = st.res /\ dirty' = st.dirty
     /\ queue' = IF st.sync # {} /\ ok
                 THEN Append(queue, [act |-> "sync", service |-> st.for, sync |-> st.sync,
                                     freed |-> FALSE])
                 ELSE queue
     /\ lost' = IF ok THEN lost ELSE lost \cup st.sync
     /\ crossed' = (crossed \/ \E k \in DOMAIN queue :
                       Reported(k, {r \in st.sync : Of(st.res[r]).ttl = 0}))
  /\ UNCHANGED <<rx, calls, dangling>>

\* The notifier is called for every result of the sync; a goodbye is detached
\* and freed after its call.
browse_sync ==
  /\ Runs("sync")
  /\ LET s    == hand[1].service
         sync == hand[1].sync
         gone == {r \in sync : \E x \in res[r] : x.ttl = 0} IN
     IF hand[1].freed
     THEN dangling' = TRUE /\ UNCHANGED <<browse, res, queue, dirty, lost>>
     ELSE /\ browse' = [browse EXCEPT ![s] = {SelectSeq(Of(@), LAMBDA r : r \notin gone)}]
          /\ FreeResults(gone, sync)
          /\ dirty' = [r \in Results |-> IF r \in sync THEN {} ELSE dirty[r]]
          /\ UNCHANGED dangling
  /\ UNCHANGED <<rx, calls, crossed>>

BrowseNext ==
  \/ \E s \in Services : mdns_browse_new(s)
  \/ \E s \in Services : mdns_browse_delete(s)
  \/ \E p \in Packets : receive_browse(p)
  \/ service_task
  \/ browse_add
  \/ browse_finish
  \/ mdns_parse_packet_browse
  \/ browse_sync

BrowseSpec == BrowseInit /\ [][BrowseNext]_browseVars

-----------------------------------------------------------------------------
\* Everything the cache holds is allocated, in one place and once per instance;
\* a result said goodbye to is freed by the sync that reports it, so none stays
\* behind; and a cached result whose instance, host, address or time to live
\* changed since the application was last told of it is named by a sync on its
\* way: no such change goes unreported, however packets and syncs overlap (the
\* mdns_priv_browse_result_add functions, add_browse_result, browse_sync).  The
\* exceptions are the packet with a malformed record, whose sync is freed after
\* the cache changed (mdns_receive.c:771-788, 1322), and the sync that finds the
\* queue full (mdns_browser.c:813-816).
\*
\* The notifier is given a live node, as mdns.h:144-146 promises, unless a browse
\* is ended, or a goodbye parsed, while a report about the same result is queued:
\* the first report to run then frees a result that another one names
\* (browse_sync, mdns_browser.c:67-82; browse_finish).  Nothing is claimed after.
BrowseInv ==
  /\ dangling => crossed
  /\ ~dangling => \A s \in Active :
       LET l == Of(browse[s]) IN
       /\ \A i \in DOMAIN l : res[l[i]] # {}
       /\ \A i, j \in DOMAIN l :
            i # j => l[i] # l[j] /\ Of(res[l[i]]).inst # Of(res[l[j]]).inst
       /\ \A i \in DOMAIN l :
            (dirty[l[i]] \ {"txt"} # {} \/ Of(res[l[i]]).ttl = 0) /\ l[i] \notin lost =>
              \E a \in ToSet(queue \o hand) : a.act = "sync" /\ a.service = s /\ l[i] \in a.sync

=============================================================================
