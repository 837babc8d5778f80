------------------------------- MODULE MdnsQuery -------------------------------
(***************************************************************************)
(* One-shot queries of the vendored mDNS component (mdns_querier.c).       *)
(*                                                                         *)
(* An application task allocates a search, hands it to the service task    *)
(* through the bounded action queue and waits on its semaphore (or polls   *)
(* it); the timer task sends it again and times it out, again through the  *)
(* queue; received packets add results until there are enough.  Whoever    *)
(* waits frees the search.  The blocks of the heap are reused, so an       *)
(* action still queued may name a block that has become another search.   *)
(***************************************************************************)
EXTENDS Naturals, Sequences, FiniteSets, SequencesExt

CONSTANTS
  Blocks,               \* heap blocks a search may occupy
  Tasks,                \* application tasks
  Queries,              \* what they ask: [type, instance, service, max, async]
  QueryPackets,         \* what may arrive: [auth, answers]; an answer is
                        \* [type, name, service, target]
  TIMEOUT,              \* ticks a query runs
  RESEND,               \* ticks between two transmissions (1000 ms)
  QUERY_QLEN,           \* MDNS_ACTION_QUEUE_LEN
  MaxNew,               \* bound: queries made
  MaxAnswers,           \* bound: packets received
  StopMidway            \* mdns_free() may come while a query runs, and a query
                        \* while it is under way

NoName == "none"

VARIABLES
  heap,            \* block -> {} or {search}
  list,            \* s_search_once, newest first
  query_queue,     \* s_action_queue: [act, block] or [act, packet]
  server,          \* "on", "stopping" (STOP queued), "stopped", "off"
  task,            \* task -> [at: "idle" | "wait" | "hold", block]
  made, query_rx,  \* bounds
  touched,         \* ghost: freed memory was used
  stale            \* ghost: an action hit a search it was not queued for

queryVars == <<heap, list, query_queue, server, task, made, query_rx, touched, stale>>

Live(b)   == heap[b] # {}
Search(b) == CHOOSE s \in heap[b] : TRUE
Idle      == [at |-> "idle", block |-> NoName]

-----------------------------------------------------------------------------
(* The search list.                                                        *)

Listed(l) == {l[i] : i \in DOMAIN l}

search_is_in_list(b) == b \in Listed(list)

Detach(l, b) == SelectSeq(l, LAMBDA x : x # b)

\* State of the search after search_finish: off, its notifier called, its
\* semaphore given.
Finished(s) == [s EXCEPT !.state = "off", !.sem = TRUE]

-----------------------------------------------------------------------------
(* Which search an answer belongs to, and what it adds.                    *)

\* mdns_priv_query_find_from: the first search from position k of the list.
Matches(s, a) ==
  /\ s.state # "off"
  /\ CASE a.type = "A" ->
            \/ s.q.type \in {"A", "ANY"} /\ s.q.service = NoName
                 /\ a.name = s.q.instance
            \/ s.q.type \in {"PTR", "SRV"}
                 /\ \E i \in DOMAIN s.results : s.results[i].host = a.name
       [] a.type \in {"SRV", "TXT"} ->
            /\ ~(s.q.type = "ANY" /\ s.q.service = NoName)
            /\ s.q.type \in {"ANY", a.type, "PTR"}
            /\ a.service = s.q.service
            /\ s.q.type = "PTR" \/ a.name = s.q.instance
       [] a.type = "PTR" -> s.q.type = "PTR" /\ a.service = s.q.service

FindSearch(h, k, a) ==
  LET hit == {i \in k..Len(list) : \E s \in h[list[i]] : Matches(s, a)} IN
  IF hit = {} THEN 0 ELSE CHOOSE i \in hit : \A j \in hit : i <= j

Room(s) == s.q.max = 0 \/ Len(s.results) < s.q.max

Added(s, known(_), new) ==
  IF (\E i \in DOMAIN s.results : known(s.results[i])) \/ ~Room(s) THEN s
  ELSE [s EXCEPT !.results = <<new>> \o @]

Result(inst, host, txt, addr) ==
  [inst |-> inst, host |-> host, txt |-> txt, addr |-> addr]

\* Update the first result that fits.
Patch(s, known(_), new(_)) ==
  LET hit == {i \in DOMAIN s.results : known(s.results[i])} IN
  IF hit = {} THEN s
  ELSE [s EXCEPT !.results[CHOOSE i \in hit : \A j \in hit : i <= j] = new(@)]

mdns_priv_query_result_add_ptr(s, inst) ==
  Added(s, LAMBDA r : r.inst = inst, Result(inst, NoName, FALSE, FALSE))

mdns_priv_query_result_add_srv(s, a) ==
  Added(s, LAMBDA r : r.host = a.target, Result(s.q.instance, a.target, FALSE, FALSE))

mdns_priv_query_result_add_txt(s, a) ==
  IF s.results # <<>>
  THEN [s EXCEPT !.results[1].txt = TRUE]
  ELSE Added(s, LAMBDA r : FALSE, Result(NoName, NoName, TRUE, FALSE))

mdns_priv_query_result_add_ip(s, a) ==
  IF s.q.type \in {"A", "ANY"}
  THEN IF s.results # <<>>
       THEN [s EXCEPT !.results[1].addr = TRUE]
       ELSE Added(s, LAMBDA r : FALSE, Result(NoName, a.name, FALSE, TRUE))
  ELSE Patch(s, LAMBDA r : r.host = a.name, LAMBDA r : [r EXCEPT !.addr = TRUE])

\* A search for instances collects the instance's host and text as well.
Apply(s, a) ==
  LET p == mdns_priv_query_result_add_ptr(s, a.name)
      mine(r) == r.inst = a.name IN
  CASE a.type = "PTR" -> mdns_priv_query_result_add_ptr(s, a.target)
    [] a.type = "SRV" /\ s.q.type = "PTR" ->
         Patch(p, mine, LAMBDA r : IF r.host = NoName
                                   THEN [r EXCEPT !.host = a.target] ELSE r)
    [] a.type = "SRV" /\ s.q.type # "PTR" -> mdns_priv_query_result_add_srv(s, a)
    [] a.type = "TXT" /\ s.q.type = "PTR" ->
         Patch(p, mine, LAMBDA r : [r EXCEPT !.txt = TRUE])
    [] a.type = "TXT" /\ s.q.type # "PTR" -> mdns_priv_query_result_add_txt(s, a)
    [] a.type = "A" -> mdns_priv_query_result_add_ip(s, a)

\* One answer of a packet: the first search that matches, or for an address
\* every search that does.
QueryAnswer(h, a) ==
  LET hits == {i \in 1..Len(list) : \E s \in h[list[i]] : Matches(s, a)}
      goes == IF a.type = "A" THEN hits
              ELSE {i \in hits : i = FindSearch(h, 1, a)} IN
  [b \in Blocks |-> IF \E i \in goes : list[i] = b
                    THEN {Apply(s, a) : s \in h[b]} ELSE h[b]]

Full(s) == s.q.max > 0 /\ Len(s.results) >= s.q.max

\* mdns_priv_query_done: every search with enough results ends.
Done(h) == {b \in Listed(list) : \E s \in h[b] : Full(s)}

-----------------------------------------------------------------------------
QueryInit ==
  /\ heap = [b \in Blocks |-> {}]
  /\ list = <<>> /\ query_queue = <<>>
  /\ server = "on"
  /\ task = [t \in Tasks |-> Idle]
  /\ made = 0 /\ query_rx = 0
  /\ touched = FALSE /\ stale = FALSE

search_init(q) == [gen |-> made, q |-> q, state |-> "init", age |-> 0,
                   since |-> 0, results |-> <<>>, sem |-> FALSE]

QueryFits == Len(query_queue) < QUERY_QLEN

\* mdns_query_generic / mdns_query_async_new: allocate, queue the search;
\* with the queue full free it again and fail.
mdns_query_new(t, q, b) ==
  /\ server = "on" \/ (StopMidway /\ server = "stopping")
  /\ task[t] = Idle
  /\ made < MaxNew
  /\ ~Live(b)
  /\ made' = made + 1
  /\ IF QueryFits
     THEN /\ heap' = [heap EXCEPT ![b] = {search_init(q)}]
          /\ query_queue' = Append(query_queue, [act |-> "add", block |-> b, gen |-> made])
          /\ task' = [task EXCEPT ![t] =
                        [at |-> IF q.async THEN "hold" ELSE "wait", block |-> b]]
     ELSE UNCHANGED <<heap, query_queue, task>>
  /\ UNCHANGED <<list, server, query_rx, touched, stale>>

\* The semaphore is given: mdns_query_generic takes the results and frees the
\* search.
mdns_query_generic_end(t) ==
  LET b == task[t].block IN
  /\ task[t].at = "wait"
  /\ Live(b) /\ Search(b).sem
  /\ heap' = [heap EXCEPT ![b] = {}]
  /\ task' = [task EXCEPT ![t] = Idle]
  /\ UNCHANGED <<list, query_queue, server, made, query_rx, touched, stale>>

\* mdns_query_async_delete, which refuses a search that is still running.
mdns_query_async_delete(t) ==
  LET b == task[t].block IN
  /\ task[t].at = "hold"
  /\ server \in {"on", "stopping"}
  /\ Live(b) /\ Search(b).state = "off"
  /\ list' = Detach(list, b)
  /\ heap' = [heap EXCEPT ![b] = {}]
  /\ task' = [task EXCEPT ![t] = Idle]
  /\ UNCHANGED <<query_queue, server, made, query_rx, touched, stale>>

-----------------------------------------------------------------------------
(* The timer task.                                                         *)

\* The mutant leaves a search off whose end could not be queued.
MutStartStop(s, room) ==
  IF s.state = "off" THEN [s |-> s, act |-> {}]
  ELSE IF s.age > TIMEOUT
  THEN [s |-> [s EXCEPT !.state = "off"], act |-> IF room THEN {"end"} ELSE {}]
  ELSE IF s.state = "init" \/ s.since > RESEND
  THEN [s   |-> [s EXCEPT !.state = "running", !.since = IF room THEN 0 ELSE RESEND],
        act |-> IF room THEN {"send"} ELSE {}]
  ELSE [s |-> s, act |-> {}]

\* What one pass does to one search, and the action it queues if there is
\* room: the end of a search whose time is up, or another transmission.
StartStop(s, room) ==
  IF s.state = "off" THEN [s |-> s, act |-> {}]
  ELSE IF s.age > TIMEOUT
  THEN [s   |-> [s EXCEPT !.state = IF room THEN "off" ELSE "running"],
        act |-> IF room THEN {"end"} ELSE {}]
  ELSE IF s.state = "init" \/ s.since > RESEND
  THEN [s   |-> [s EXCEPT !.state = "running", !.since = IF room THEN 0 ELSE RESEND],
        act |-> IF room THEN {"send"} ELSE {}]
  ELSE [s |-> s, act |-> {}]

\* The walk over the list, in order, each queueing into what room is left.
Walk[k \in 0..Cardinality(Blocks)] ==
  IF k = 0 THEN [h |-> heap, q |-> query_queue]
  ELSE LET w == Walk[k - 1] IN
       IF k > Len(list) \/ w.h[list[k]] = {} THEN w
       ELSE LET b == list[k]
                s == CHOOSE x \in w.h[b] : TRUE
                r == StartStop(s, Len(w.q) < QUERY_QLEN) IN
            [h |-> [w.h EXCEPT ![b] = {r.s}],
             q |-> IF r.act = {} THEN w.q
                   ELSE Append(w.q, [act |-> CHOOSE x \in r.act : TRUE,
                                     block |-> b, gen |-> s.gen])]

mdns_priv_query_start_stop ==
  /\ server = "on"
  /\ list # <<>>
  /\ LET w == Walk[Cardinality(Blocks)] IN heap' = w.h /\ query_queue' = w.q
  /\ touched' = (touched \/ \E b \in Listed(list) : ~Live(b))
  /\ UNCHANGED <<list, server, task, made, query_rx, stale>>

QueryTick ==
  /\ \E b \in Blocks : \E s \in heap[b] : s.age <= TIMEOUT \/ s.since <= RESEND
  /\ heap' = [b \in Blocks |->
       {[s EXCEPT !.age = IF @ <= TIMEOUT THEN @ + 1 ELSE @,
                  !.since = IF @ <= RESEND THEN @ + 1 ELSE @] : s \in heap[b]}]
  /\ UNCHANGED <<list, query_queue, server, task, made, query_rx, touched, stale>>

-----------------------------------------------------------------------------
(* The service task: one action at a time, under the service lock.         *)

QueryRuns == server \in {"on", "stopping"} /\ query_queue # <<>>

IsQueryAct(k) == QueryRuns /\ Head(query_queue).act = k

Took == query_queue' = Tail(query_queue) /\ UNCHANGED <<server, task, made, query_rx>>

search_add ==
  /\ IsQueryAct("add")
  /\ list' = <<Head(query_queue).block>> \o list
  /\ touched' = (touched \/ ~Live(Head(query_queue).block))
  /\ Took /\ UNCHANGED <<heap, stale>>

\* The packet goes out on every interface that is up; nothing here depends on it.
search_send ==
  /\ IsQueryAct("send")
  /\ LET b == Head(query_queue).block IN
     /\ stale' = (stale \/ (search_is_in_list(b) /\ Live(b)
                              /\ Search(b).gen # Head(query_queue).gen))
     /\ touched' = (touched \/ (search_is_in_list(b) /\ ~Live(b)))
  /\ Took /\ UNCHANGED <<heap, list>>

search_finish ==
  /\ IsQueryAct("end")
  /\ LET b == Head(query_queue).block IN
     IF search_is_in_list(b)
     THEN /\ heap' = [heap EXCEPT ![b] = {Finished(s) : s \in @}]
          /\ list' = Detach(list, b)
          /\ stale' = (stale \/ (Live(b) /\ Search(b).gen # Head(query_queue).gen))
          /\ touched' = (touched \/ ~Live(b))
     ELSE UNCHANGED <<heap, list, stale, touched>>
  /\ Took

\* A packet: its answers in order, then the searches that have enough.
mdns_parse_packet_query ==
  /\ IsQueryAct("rx")
  /\ LET p == Head(query_queue).packet
         h == FoldLeft(QueryAnswer, heap, p.answers)
         d == IF p.auth THEN Done(h) ELSE {} IN
     /\ heap' = [b \in Blocks |-> IF b \in d THEN {Finished(s) : s \in h[b]} ELSE h[b]]
     /\ list' = SelectSeq(list, LAMBDA b : b \notin d)
     /\ touched' = (touched \/ \E b \in Listed(list) : ~Live(b))
  /\ Took /\ UNCHANGED stale

\* The network: a packet is queued, or dropped when there is no room.
receive_query(p) ==
  /\ server = "on"
  /\ query_rx < MaxAnswers
  /\ query_rx' = query_rx + 1
  /\ query_queue' = IF QueryFits THEN Append(query_queue, [act |-> "rx", packet |-> p]) ELSE query_queue
  /\ UNCHANGED <<heap, list, server, task, made, touched, stale>>

-----------------------------------------------------------------------------
(* mdns_free: the timer stops, the service task works off what was queued  *)
(* before its stop request (or is deleted when there is no room for it),   *)
(* what is left in the queue is cleaned up, and the list freed.            *)

mdns_free ==
  /\ server = "on"
  /\ StopMidway \/ \A t \in Tasks : task[t] = Idle
  /\ IF QueryFits
     THEN server' = "stopping" /\ query_queue' = Append(query_queue, [act |-> "stop"])
     ELSE server' = "stopped" /\ UNCHANGED query_queue
  /\ UNCHANGED <<heap, list, task, made, query_rx, touched, stale>>

service_task_stop ==
  /\ IsQueryAct("stop")
  /\ server' = "stopped"
  /\ query_queue' = Tail(query_queue)
  /\ UNCHANGED <<heap, list, task, made, query_rx, touched, stale>>

\* free_action of one queued action: an add's search is freed, another's only
\* if it is still listed.  Freeing leaves the list as it is.
free_action ==
  /\ server = "stopped" /\ query_queue # <<>>
  /\ LET a == Head(query_queue) IN
     IF a.act = "add" \/ (a.act \in {"send", "end"} /\ search_is_in_list(a.block))
     THEN /\ heap' = [heap EXCEPT ![a.block] = {}]
          /\ touched' = (touched \/ ~Live(a.block))
     ELSE UNCHANGED <<heap, touched>>
  /\ query_queue' = Tail(query_queue)
  /\ UNCHANGED <<list, server, task, made, query_rx, stale>>

mdns_priv_query_free ==
  /\ server = "stopped" /\ query_queue = <<>>
  /\ touched' = (touched \/ \E b \in Listed(list) : ~Live(b))
  /\ heap' = [b \in Blocks |-> IF b \in Listed(list) THEN {} ELSE heap[b]]
  /\ list' = <<>>
  /\ server' = "off"
  /\ UNCHANGED <<query_queue, task, made, query_rx, stale>>

mdns_init_query ==
  /\ server = "off"
  /\ server' = "on"
  /\ UNCHANGED <<heap, list, query_queue, task, made, query_rx, touched, stale>>

QueryNext ==
  \/ \E t \in Tasks, q \in Queries, b \in Blocks : mdns_query_new(t, q, b)
  \/ \E t \in Tasks : mdns_query_generic_end(t)
  \/ \E t \in Tasks : mdns_query_async_delete(t)
  \/ mdns_priv_query_start_stop
  \/ QueryTick
  \/ search_add
  \/ search_send
  \/ search_finish
  \/ mdns_parse_packet_query
  \/ \E p \in QueryPackets : receive_query(p)
  \/ mdns_free
  \/ service_task_stop
  \/ free_action
  \/ mdns_priv_query_free
  \/ mdns_init_query

QuerySpec == QueryInit /\ [][QueryNext]_queryVars

-----------------------------------------------------------------------------
\* No freed search is ever used and no queued action ends or sends a search it
\* was not queued for, although blocks are reused while actions naming them are
\* still queued; a search the task waits on is allocated until it returns, and
\* one the timer has switched off has its end queued, so that the task does
\* return although the queue may have been full at the first attempt; no search
\* collects more results than asked for, nor an instance twice
\* (search_is_in_list, search_finish, mdns_query_async_delete, the result_add
\* functions, mdns_priv_query_start_stop).
QueryInv ==
  /\ ~touched /\ ~stale
  /\ \A t \in Tasks : task[t].at # "idle" => Live(task[t].block)
  /\ \A b \in Listed(list) : \A s \in heap[b] :
       s.state = "off" /\ server = "on" => \E i \in DOMAIN query_queue :
         query_queue[i].act = "end" /\ query_queue[i].block = b /\ query_queue[i].gen = s.gen
  /\ \A i, j \in DOMAIN list : list[i] = list[j] => i = j
  /\ \A b \in Blocks : \A s \in heap[b] :
       /\ s.q.max > 0 => Len(s.results) <= s.q.max
       /\ s.q.type = "PTR" => \A i, j \in DOMAIN s.results :
            s.results[i].inst = s.results[j].inst => i = j

=============================================================================
