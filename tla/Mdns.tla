-------------------------------- MODULE Mdns --------------------------------
(***************************************************************************)
(* The mDNS responder of the ESP32 target (components/mdns) as             *)
(* wifi_service.cpp uses it: one Wi-Fi interface with an IPv4 and an IPv6  *)
(* endpoint ("pcb"), service items without an instance name of their own.  *)
(*                                                                         *)
(* Five actors run concurrently: the main task (restartLanService, the msd *)
(* TXT update), the system event task and the lwIP task, which post        *)
(* actions into a bounded queue that may refuse them, the mDNS timer,      *)
(* which turns due packets into actions, and the mDNS service task, which  *)
(* takes one action at a time and runs it under the service lock.          *)
(*                                                                         *)
(* A packet is a record: its endpoint, what it is (a probe, an             *)
(* announcement or an answer), the services it names, the section that     *)
(* names the host ("no" section, "answers", or an "other" one), the names  *)
(* a probe's questions point to, the time left until it is due, the        *)
(* "queued" mark and its address (blocks are reused after a free).         *)
(***************************************************************************)
EXTENDS Integers, Sequences, FiniteSets, SequencesExt

CONSTANTS
    V4, V6,         \* the two endpoints of the interface
    Svcs,           \* the service items
    ActCap,         \* slots of the action queue
    MaxEvents,      \* bound: network events, received packets and restarts
    None

Pcbs == {V4, V6}
Host == "host"

PCB_OFF == 0
PCB_PROBE_1 == 3
PCB_PROBE_3 == 5
PCB_ANNOUNCE_1 == 6
PCB_ANNOUNCE_3 == 8
PCB_RUNNING == 9
IsProbing(st) == st > PCB_OFF /\ st < PCB_ANNOUNCE_1
IsAnnouncing(st) == st > PCB_PROBE_3 /\ st < PCB_RUNNING

VARIABLES
    net_up,  \* the interface has a link (what join_group needs)
    srv,     \* what the service lock guards
    acts,    \* the action queue
    cur,     \* the action the service task holds
    tp,      \* the timer's position in the transmit queue, 0 when idle
    mpc,     \* the main task's place in restartLanService
    left     \* events still to come (bound)

mdnsVars == <<net_up, srv, acts, cur, tp, mpc, left>>

(* S: pcb[p] = [ready, st, svcs, ip, running] with the probe list, tx the  *)
(* transmit queue, services the item list, host/inst the current names (0: *)
(* none; every set or mangle makes a new string).  Four fields are         *)
(* history: probes[p][x] = <<name, n>>, n probes of x went out on p under  *)
(* that name since its probing last started; early, a packet was sent      *)
(* before it was due; stray, the endpoints a received packet set probing   *)
(* while they were not ready, until they are cleaned up; overtaken, a      *)
(* packet was queued past one whose action was refused, and some packet is *)
(* marked queued still.                                                    *)
OffPcb == [ready |-> FALSE, st |-> PCB_OFF, svcs |-> {}, ip |-> FALSE,
           running |-> FALSE]
Unprobed == [x \in Svcs \cup {Host} |-> <<<<Host, 0>>, 0>>]
NameOf(s, x) ==
    IF x = Host \/ s.inst = 0 THEN <<Host, s.host>> ELSE <<"inst", s.inst>>
Things(svcs, ip) == svcs \cup (IF ip THEN {Host} ELSE {})
Names(s, svcs, ip) == {NameOf(s, x) : x \in Things(svcs, ip)}

Fresh(s, held) ==
    CHOOSE a \in 1..(Len(s.tx) + 2) :
        /\ a \notin held \cup {s.tx[i].adr : i \in DOMAIN s.tx}
        /\ \A b \in 1..(a - 1) :
               b \in held \cup {s.tx[i].adr : i \in DOMAIN s.tx}

mdns_priv_alloc_packet(s, p, kind, svcs, ip, held) ==
    [pcb |-> p, kind |-> kind, svcs |-> svcs, ip |-> ip,
     names |-> IF kind = "probe" THEN Names(s, svcs, ip # "no") ELSE {},
     at |-> 0, queued |-> FALSE, adr |-> Fresh(s, held)]

(* A probe asks for its services (and for the host name they carry), an    *)
(* announcement answers for them.                                          *)
mdns_priv_create_probe_packet(s, p, svcs, ip) ==
    mdns_priv_alloc_packet(s, p, "probe", svcs, IF ip THEN "other" ELSE "no", {})
mdns_priv_create_announce_packet(s, p, svcs, ip) ==
    mdns_priv_alloc_packet(s, p, "announce", svcs, IF ip THEN "other" ELSE "no", {})

(* The list is kept sorted by time and stable.                             *)
mdns_priv_send_after(s, pk, d) ==
    LET n == Cardinality({i \in DOMAIN s.tx : s.tx[i].at <= d})
    IN  [s EXCEPT !.tx = SubSeq(s.tx, 1, n) \o <<[pk EXCEPT !.at = d]>>
                           \o SubSeq(s.tx, n + 1, Len(s.tx))]

mdns_priv_clear_tx_queue(s) == [s EXCEPT !.tx = <<>>, !.overtaken = FALSE]
mdns_priv_clear_tx_queue_if(s, p) ==
    [s EXCEPT !.tx = SelectSeq(s.tx, LAMBDA k : k.pcb # p)]

(***************************************************************************)
(* Probing.                                                                *)
(***************************************************************************)
init_probe_new_service(s, p, new, probeIp) ==
    LET list == new \cup s.pcb[p].svcs
        ip == s.pcb[p].ip \/ probeIp
        cleared == [s EXCEPT !.pcb[p].svcs = {}, !.pcb[p].ip = FALSE,
                             !.pcb[p].running = FALSE]
        pk == mdns_priv_create_probe_packet(cleared, p, list, ip)
    IN  mdns_priv_send_after(
                [cleared EXCEPT
                    !.pcb[p] = [ready |-> s.pcb[p].ready, st |-> PCB_PROBE_1,
                                svcs |-> list, ip |-> ip, running |-> TRUE],
                    !.probes[p] = [x \in DOMAIN @ |->
                        IF x \in Things(list, ip) THEN <<NameOf(s, x), 0>>
                        ELSE @[x]]],
                pk, 0)

mdns_priv_init_pcb_probe(s, p, svcs, probeIp) ==
    LET c == mdns_priv_clear_tx_queue_if(s, p)
    IN  IF s.host = 0
        THEN [c EXCEPT !.pcb[p].st = PCB_RUNNING]
        ELSE init_probe_new_service(c, p, svcs, probeIp)

mdns_priv_probe_all_pcbs(s, svcs, probeIp, clearOld) ==
    LET One(t, p) ==
            LET o == IF clearOld
                     THEN [t EXCEPT !.pcb[p].svcs = {},
                                    !.pcb[p].running = FALSE]
                     ELSE t
            IN  IF t.pcb[p].ready
                THEN mdns_priv_init_pcb_probe(o, p, svcs, probeIp)
                ELSE t
    IN  One(One(s, V4), V6)

mdns_priv_restart_all_pcbs(s) ==
    [mdns_priv_probe_all_pcbs(mdns_priv_clear_tx_queue(s), s.services, TRUE, TRUE)
        EXCEPT !.stray = {p \in @ : ~s.pcb[p].ready}]

mdns_priv_restart_all_pcbs_no_instance(s) ==
    IF s.services = {} THEN s
    ELSE mdns_priv_probe_all_pcbs(s, s.services, FALSE, TRUE)

restart_pcb(s, p) == mdns_priv_init_pcb_probe(s, p, s.services, TRUE)

(***************************************************************************)
(* Announcing, enabling and disabling an endpoint.                         *)
(***************************************************************************)
mdns_priv_get_next_packet(s, p) ==
    {i \in DOMAIN s.tx : /\ s.tx[i].pcb = p
                         /\ \A j \in 1..(i - 1) : s.tx[j].pcb # p}

mdns_priv_pcb_announce(s, p, svcs, ip) ==
    LET st == s.pcb[p].st
        next == mdns_priv_get_next_packet(s, p)
        pk == mdns_priv_create_announce_packet(s, p, svcs, ip)
    IN  IF ~s.pcb[p].ready THEN s
        ELSE IF IsProbing(st) THEN mdns_priv_init_pcb_probe(s, p, svcs, ip)
        ELSE IF IsAnnouncing(st)
        THEN [s EXCEPT
                !.tx = [i \in DOMAIN @ |->
                          IF i \in next
                          THEN [@[i] EXCEPT !.svcs = @ \cup svcs,
                                            !.ip = IF ip THEN "answers" ELSE @]
                          ELSE @[i]],
                !.pcb[p].st = IF next = {} THEN @ ELSE PCB_ANNOUNCE_1]
        ELSE IF st = PCB_RUNNING /\ s.host # 0
        THEN LET a == [s EXCEPT !.pcb[p].st = PCB_ANNOUNCE_1]
             IN  mdns_priv_send_after(a, pk, -1)
        ELSE s

mdns_priv_pcb_enable(s, p) ==
    IF ~s.pcb[p].ready /\ ~net_up THEN s
    ELSE restart_pcb([s EXCEPT !.pcb[p].ready = TRUE], p)

mdns_priv_pcb_disable(s, p) ==
    IF s.pcb[p].ready
    THEN [mdns_priv_clear_tx_queue_if(s, p) EXCEPT !.pcb[p] = OffPcb,
                                                   !.probes[p] = Unprobed,
                                                   !.stray = @ \ {p}]
    ELSE [s EXCEPT !.pcb[p].st = PCB_OFF]

(***************************************************************************)
(* A transmitted packet: the send and what the endpoint's state makes of   *)
(* the packet afterwards.                                                  *)
(***************************************************************************)
mdns_priv_dispatch_tx_packet(s, pk) ==
    IF pk.kind # "probe" \/ ~s.pcb[pk.pcb].ready THEN s
    ELSE [s EXCEPT !.probes[pk.pcb] = [x \in DOMAIN @ |->
            IF x \in Things(pk.svcs, pk.ip # "no")
            THEN IF @[x][1] = NameOf(s, x)
                 THEN <<@[x][1], IF @[x][2] < 3 THEN @[x][2] + 1 ELSE 3>>
                 ELSE <<NameOf(s, x), 1>>
            ELSE @[x]]]

create_announce_from_probe(s, pk) ==
    mdns_priv_alloc_packet(s, pk.pcb, "announce", pk.svcs,
        IF pk.ip # "no" \/ pk.svcs # {} THEN "answers" ELSE "no", {pk.adr})

mdns_priv_pcb_schedule_tx_packet(s, pk) ==
    LET p == pk.pcb
        st == s.pcb[p].st
        bump == [s EXCEPT !.pcb[p].st = @ + 1]
    IN  CASE st \in PCB_PROBE_1..(PCB_PROBE_3 - 1) ->
                mdns_priv_send_after(bump, pk, 0)
          [] st = PCB_PROBE_3 ->
                mdns_priv_send_after(
                        [bump EXCEPT !.pcb[p].running = FALSE,
                                     !.pcb[p].ip = FALSE,
                                     !.pcb[p].svcs = {}],
                        create_announce_from_probe(s, pk), 0)
          [] st \in PCB_ANNOUNCE_1..(PCB_ANNOUNCE_3 - 1) ->
                mdns_priv_send_after(bump, pk, 0)
          [] st = PCB_ANNOUNCE_3 -> [s EXCEPT !.pcb[p].st = PCB_RUNNING]
          [] OTHER -> s

handle_packet(s, pk) ==
    IF s.pcb[pk.pcb].st = PCB_OFF THEN s
    ELSE mdns_priv_pcb_schedule_tx_packet(mdns_priv_dispatch_tx_packet(s, pk), pk)

send_packet(s, adr) ==
    IF s.tx # <<>> /\ Head(s.tx).adr = adr /\ Head(s.tx).queued
    THEN handle_packet([s EXCEPT
                            !.tx = Tail(@), !.early = @ \/ Head(s.tx).at >= 0,
                            !.overtaken = @ /\ \E i \in 2..Len(s.tx) : s.tx[i].queued],
                       [Head(s.tx) EXCEPT !.queued = FALSE])
    ELSE s

(***************************************************************************)
(* Removing a service from every scheduled packet and from the probe lists.*)
(***************************************************************************)
HasAnswers(k) == k.kind # "probe" /\ (k.svcs # {} \/ k.ip = "answers")
IsEmpty(k) == k.svcs = {} /\ k.ip = "no"

Mut_check_probing_services(s, p, v, removed) ==
    IF IsAnnouncing(s.pcb[p].st) /\ removed
    THEN [s EXCEPT !.pcb[p].st = PCB_RUNNING] ELSE s

mdns_priv_pcb_check_probing_services(s, p, v, removed) ==
    LET b == s.pcb[p]
        rest == b.svcs \ {v}
    IN  IF IsProbing(b.st) /\ v \in b.svcs
        THEN [s EXCEPT !.pcb[p] =
                IF rest = {} /\ ~b.ip
                THEN [b EXCEPT !.svcs = {}, !.running = FALSE, !.st = PCB_RUNNING]
                ELSE [b EXCEPT !.svcs = rest]]
        ELSE IF IsAnnouncing(b.st) /\ removed
        THEN [s EXCEPT !.pcb[p].st = PCB_RUNNING]
        ELSE s

mdns_priv_remove_scheduled_service_packets(s, v) ==
    LET One(t, k) ==
            LET probed == IsProbing(t.pcb[k.pcb].st) /\ v \in t.pcb[k.pcb].svcs
                n == [k EXCEPT
                        !.svcs = @ \ {v},
                        !.names = IF probed /\ k.kind = "probe"
                                  THEN Names(s, k.svcs \ {v}, k.ip # "no")
                                  ELSE @]
                c == IF t.pcb[k.pcb].ready
                     THEN mdns_priv_pcb_check_probing_services(t, k.pcb, v,
                              HasAnswers(k) /\ ~HasAnswers(n))
                     ELSE t
            IN  IF IsEmpty(n) THEN c ELSE [c EXCEPT !.tx = Append(@, n)]
    IN  FoldLeft(One, [s EXCEPT !.tx = <<>>], s.tx)

(***************************************************************************)
(* A received packet, by what it asks or contradicts.                      *)
(***************************************************************************)
Kinds == {"query", "srv", "txt", "addr"}

mangle_host(s) == mdns_priv_restart_all_pcbs([s EXCEPT !.host = @ + 1])
mangle_instance(s) ==
    mdns_priv_restart_all_pcbs_no_instance([s EXCEPT !.inst = @ + 1])

(* A shared answer is delayed; a unique one is sent at once, with no trace.*)
create_answer_from_parsed_packet(s, p) ==
    LET pk == mdns_priv_alloc_packet(s, p, "answer", s.services, "other", {})
    IN  IF s.services # {}
        THEN mdns_priv_send_after(s, pk, 0)
        ELSE s

(* What a received record does to the endpoint it arrived on.  The kinds:  *)
(* "srv", another host claims the instance name and wins the comparison,   *)
(* "addr", it claims the host name (both in a probe or an authoritative    *)
(* answer), "txt", it answers with other TXT data, "query", a question for *)
(* a shared record.  Left out: an answer another host has just given is    *)
(* taken off a delayed answer packet, which stays scheduled without it     *)
(* (mdns_priv_remove_scheduled_answer).                                    *)
ParseSrv(s, p) ==
    IF s.pcb[p].running
    THEN IF s.inst # 0 THEN mangle_instance(s) ELSE mangle_host(s)
    ELSE mdns_priv_init_pcb_probe(s, p, {CHOOSE v \in s.services : TRUE}, FALSE)
ParseTxt(s, p) ==
    IF s.pcb[p].running THEN s
    ELSE mdns_priv_init_pcb_probe(s, p, {CHOOSE v \in s.services : TRUE}, TRUE)
ParseAddr(s, p) ==
    IF s.pcb[p].running THEN mangle_host(s)
    ELSE mdns_priv_init_pcb_probe(s, p, {}, TRUE)

mdns_parse_packet(s, p, kind) ==
    IF s.host = 0 THEN s
    ELSE CASE kind = "srv" /\ s.services # {} -> ParseSrv(s, p)
           [] kind = "txt" /\ s.services # {} -> ParseTxt(s, p)
           [] kind = "addr" -> ParseAddr(s, p)
           [] kind = "query" /\ s.pcb[p].st > PCB_PROBE_3 ->
                create_answer_from_parsed_packet(s, p)
           [] OTHER -> s

(***************************************************************************)
(* The actors.                                                             *)
(***************************************************************************)
Server ==
    [on |-> FALSE, pcb |-> [p \in Pcbs |-> OffPcb], tx |-> <<>>, services |-> {},
     host |-> 0, inst |-> 0, early |-> FALSE, stray |-> {}, overtaken |-> FALSE,
     probes |-> [p \in Pcbs |-> Unprobed]]

MdnsInit ==
    /\ net_up = TRUE
    /\ srv = Server
    /\ acts = <<>> /\ cur = None /\ tp = 0 /\ mpc = "idle"
    /\ left = MaxEvents

mdns_priv_queue_action(q, a) == IF Len(q) < ActCap THEN Append(q, a) ELSE q
PostAll(as) == acts' = FoldLeft(mdns_priv_queue_action, acts, as)

Act(t, p, x) == [type |-> t, pcb |-> p, arg |-> x]
Spend == left > 0 /\ left' = left - 1

Lock == tp = 0

(* The system event handler: an address on one endpoint enables it and     *)
(* announces the other; a disconnect disables both.  With the responder    *)
(* off it does nothing.                                                    *)
GotIp ==
    /\ srv.on \/ ~net_up
    /\ Spend /\ net_up' = TRUE
    /\ IF srv.on
       THEN \E p \in Pcbs :
                PostAll(<<Act("enable", p, 0),
                          Act("announce", CHOOSE o \in Pcbs : o # p, 0)>>)
       ELSE acts' = acts
    /\ UNCHANGED <<srv, cur, tp, mpc>>

Disconnected ==
    /\ net_up /\ Spend /\ net_up' = FALSE
    /\ IF srv.on
       THEN PostAll(<<Act("disable", V4, 0), Act("disable", V6, 0)>>)
       ELSE acts' = acts
    /\ UNCHANGED <<srv, cur, tp, mpc>>

(* The lwIP task posts a packet when either endpoint of the interface is   *)
(* in use: the endpoint it came on may be the other one, and the interface *)
(* may have lost its link since.                                           *)
receive ==
    /\ Spend /\ Len(acts) < ActCap
    /\ srv.on /\ \E o \in Pcbs : srv.pcb[o].ready
    /\ \E p \in Pcbs, kind \in Kinds : PostAll(<<Act("rx", p, kind)>>)
    /\ UNCHANGED <<net_up, srv, cur, tp, mpc>>

(* The timer: one step per packet of the pass, under the service lock.     *)
FirstUnqueued ==
    {i \in DOMAIN srv.tx : ~srv.tx[i].queued /\ \A j \in 1..(i - 1) : srv.tx[j].queued}
Due(i) == i \in DOMAIN srv.tx /\ srv.tx[i].at < 0

mdns_priv_send_packets ==
    /\ \E i \in IF tp # 0 THEN {tp} ELSE FirstUnqueued :
          /\ Due(i)
          /\ PostAll(<<Act("tx", None, srv.tx[i].adr)>>)
          /\ srv' = [srv EXCEPT
                        !.tx[i].queued = Len(acts) < ActCap,
                        !.overtaken = @ \/ /\ Len(acts) < ActCap
                                           /\ \E j \in 1..(i - 1) : ~srv.tx[j].queued]
          /\ tp' = IF Due(i + 1) THEN i + 1 ELSE 0
    /\ UNCHANGED <<net_up, cur, mpc, left>>

(* Time: a packet is due (at = -1) at once when it was sent without delay  *)
(* and after a tick otherwise; the timer polls faster than the delays.     *)
Tick ==
    /\ Lock /\ ~\E i \in FirstUnqueued : Due(i)
    /\ \E i \in DOMAIN srv.tx : srv.tx[i].at >= 0
    /\ srv' = [srv EXCEPT
                !.tx = [i \in DOMAIN @ |->
                          [@[i] EXCEPT !.at = IF @ >= 0 THEN @ - 1 ELSE @]],
                !.overtaken = @ /\ \E i \in DOMAIN srv.tx : srv.tx[i].queued]
    /\ UNCHANGED <<net_up, acts, cur, tp, mpc, left>>

(* The service task takes an action and runs it under the lock.  It takes  *)
(* one in a step of its own only while the timer's pass holds the lock and *)
(* the queue is full, for the room that makes: otherwise the pass and the  *)
(* queue are the same as when it takes the action and runs it at once.     *)
Take ==
    /\ tp # 0 /\ cur = None /\ Len(acts) = ActCap
    /\ cur' = Head(acts) /\ acts' = Tail(acts)
    /\ UNCHANGED <<net_up, srv, tp, mpc, left>>

Pending == IF cur # None THEN cur ELSE Head(acts)
Running(type) ==
    /\ Lock /\ (cur # None \/ acts # <<>>)
    /\ Pending.type = type
    /\ cur' = None /\ acts' = IF cur # None THEN acts ELSE Tail(acts)
Keep == UNCHANGED <<net_up, tp, left>>

RunTx ==
    /\ Running("tx") /\ srv' = send_packet(srv, Pending.arg)
    /\ Keep /\ UNCHANGED mpc
RunEnable ==
    /\ Running("enable") /\ srv' = mdns_priv_pcb_enable(srv, Pending.pcb)
    /\ Keep /\ UNCHANGED mpc
RunDisable ==
    /\ Running("disable") /\ srv' = mdns_priv_pcb_disable(srv, Pending.pcb)
    /\ Keep /\ UNCHANGED mpc
RunAnnounce ==
    /\ Running("announce")
    /\ srv' = mdns_priv_pcb_announce(srv, Pending.pcb, {}, TRUE)
    /\ Keep /\ UNCHANGED mpc
mdns_priv_receive_action ==
    /\ Running("rx")
    /\ LET p == Pending.pcb
           s == mdns_parse_packet(srv, p, Pending.arg)
       IN  srv' = IF ~s.pcb[p].ready /\ s.pcb[p] # OffPcb
                  THEN [s EXCEPT !.stray = @ \cup {p}] ELSE s
    /\ Keep /\ UNCHANGED mpc
HostnameSet ==
    /\ Running("host")
    /\ srv' = mdns_priv_restart_all_pcbs([srv EXCEPT !.host = @ + 1])
    /\ mpc' = "inst"
    /\ Keep
InstanceSet ==
    /\ Running("inst")
    /\ srv' = mdns_priv_restart_all_pcbs_no_instance([srv EXCEPT !.inst = @ + 1])
    /\ Keep /\ UNCHANGED mpc

(* The main task: restartLanService, one API call per step.  It is called  *)
(* with an IPv4 address; an IPv6 link-local one may be there or not, and   *)
(* an endpoint without an address is not enabled.                          *)
mdns_init ==
    /\ mpc = "idle" /\ net_up
    /\ IF srv.on THEN Spend ELSE left' = left
    /\ \E six \in IF srv.on THEN {FALSE} ELSE BOOLEAN :
          srv' = IF srv.on THEN srv
                 ELSE LET on == [Server EXCEPT !.on = TRUE]
                      IN  mdns_priv_pcb_enable(
                              IF six THEN mdns_priv_pcb_enable(on, V6) ELSE on, V4)
    /\ mpc' = "host"
    /\ UNCHANGED <<net_up, acts, cur, tp>>

mdns_hostname_set ==
    /\ mpc = "host"
    /\ Len(acts) < ActCap
    /\ PostAll(<<Act("host", None, 0)>>) /\ mpc' = "wait"
    /\ UNCHANGED <<net_up, srv, cur, tp, left>>

(* A refused host name stops the responder: mdns_free, from the caller.    *)
odMdnsStop ==
    /\ mpc = "host" /\ Lock
    /\ Len(acts) = ActCap
    /\ srv' = Server /\ acts' = <<>> /\ cur' = None /\ mpc' = "idle"
    /\ UNCHANGED <<net_up, tp, left>>

mdns_instance_name_set ==
    /\ mpc = "inst" /\ mpc' = "remove"
    /\ PostAll(<<Act("inst", None, 0)>>)
    /\ UNCHANGED <<net_up, srv, cur, tp, left>>

mdns_service_remove_all ==
    /\ mpc = "remove" /\ mpc' = "add" /\ Lock
    /\ srv' = LET gone == [srv EXCEPT !.services = {}]
            IN  FoldLeft(mdns_priv_remove_scheduled_service_packets, gone,
                         SetToSeq(srv.services))
    /\ UNCHANGED <<net_up, acts, cur, tp, left>>

mdns_service_add ==
    /\ mpc = "add" /\ mpc' = "idle" /\ Lock
    /\ \E v \in Svcs \ srv.services :
           srv' = mdns_priv_probe_all_pcbs(
                    [srv EXCEPT !.services = @ \cup {v}], {v}, FALSE, FALSE)
    /\ UNCHANGED <<net_up, acts, cur, tp, left>>

(* opendisplay_mdns_update_msd_txt: the TXT item is set and announced.     *)
mdns_service_txt_item_set ==
    /\ mpc = "idle" /\ net_up /\ srv.services # {} /\ Lock /\ Spend
    /\ srv' = mdns_priv_pcb_announce(
            mdns_priv_pcb_announce(srv, V4, srv.services, FALSE), V6, srv.services, FALSE)
    /\ UNCHANGED <<net_up, acts, cur, tp, mpc>>

MdnsNext ==
    \/ GotIp \/ Disconnected \/ receive
    \/ mdns_priv_send_packets \/ Tick
    \/ Take \/ RunTx \/ RunEnable \/ RunDisable \/ RunAnnounce
    \/ mdns_priv_receive_action \/ HostnameSet \/ InstanceSet
    \/ mdns_init \/ mdns_hostname_set \/ odMdnsStop \/ mdns_instance_name_set
    \/ mdns_service_remove_all \/ mdns_service_add \/ mdns_service_txt_item_set

MdnsSpec == MdnsInit /\ [][MdnsNext]_mdnsVars

(***************************************************************************)
(* Properties.                                                             *)
(***************************************************************************)
(* The transmit queue is sorted by due time, its packets have addresses of *)
(* their own, and an endpoint holds a probe list only while it probes:     *)
(* init_probe_new_service copies the old list into a block sized for it    *)
(* only when the state says "probing".  An endpoint in a transient state   *)
(* has a packet scheduled that will move it on.  A transmit action may     *)
(* name a block that was freed and holds another packet by now: still no   *)
(* packet goes out before it is due, and one marked queued has an action   *)
(* under way that will send it (mdns_send.c:1837-1848).  Not once a packet *)
(* was overtaken: mdns_priv_send_packets goes on to the next packet when   *)
(* the action queue refused one, and the service task may have made room   *)
(* by then (mdns_send.c:1734-1743).  That next packet's action finds the   *)
(* refused one at the head and drops out, and the packet stays marked      *)
(* queued with no action, holding up what follows until a restart empties  *)
(* the transmit queue.                                                     *)
(*                                                                         *)
(* Not of a stray endpoint: one that is not ready and that a packet set    *)
(* probing, since the packet came while the other endpoint of the          *)
(* interface was in use.  mdns_priv_restart_all_pcbs empties the whole     *)
(* transmit queue and probes the ready endpoints only (mdns_pcb.c:445-461), *)
(* and disabling one that is not ready resets nothing but its state        *)
(* (mdns_pcb.c:153-167).                                                   *)
MdnsInv ==
    /\ \A i \in 2..Len(srv.tx) : srv.tx[i - 1].at <= srv.tx[i].at
    /\ Cardinality({srv.tx[i].adr : i \in DOMAIN srv.tx}) = Len(srv.tx)
    /\ \A p \in Pcbs \ srv.stray :
           /\ srv.pcb[p].svcs # {} \/ srv.pcb[p].running => IsProbing(srv.pcb[p].st)
           /\ srv.pcb[p].running => srv.pcb[p].svcs # {} \/ srv.pcb[p].ip
           /\ srv.pcb[p].st \in PCB_PROBE_1..PCB_ANNOUNCE_3 =>
                  \E i \in DOMAIN srv.tx : srv.tx[i].pcb = p
    /\ ~srv.early
    /\ ~srv.overtaken => \A i \in DOMAIN srv.tx : srv.tx[i].queued =>
           \E a \in ToSet(acts) \cup ({cur} \ {None}) :
               a.type = "tx" /\ a.arg = srv.tx[i].adr
    /\ Len(acts) <= ActCap /\ tp \in 0..Len(srv.tx)

(* Nothing scheduled points at what was freed: packets and probe lists     *)
(* name existing services only, and a scheduled probe carries the names in *)
(* force (mdns_service_remove_all, mangle_name and the set actions free    *)
(* the old ones).  Not of a stray endpoint, which no restart and no        *)
(* removal reaches.                                                        *)
NothingDangles ==
    /\ \A i \in DOMAIN srv.tx : srv.tx[i].pcb \notin srv.stray =>
           /\ srv.tx[i].svcs \subseteq srv.services
           /\ srv.tx[i].kind = "probe" =>
                  srv.tx[i].names = Names(srv, srv.tx[i].svcs, srv.tx[i].ip # "no")
    /\ \A p \in Pcbs \ srv.stray : srv.pcb[p].svcs \subseteq srv.services

(* An endpoint that may answer (mdns_priv_pcb_is_after_probing) has sent   *)
(* three probes, under the names now in force, for the host name and for   *)
(* every service: no conflict, rename or reconnection lets it skip them.   *)
AnsweredIsProbed ==
    \A p \in Pcbs : srv.pcb[p].ready /\ srv.pcb[p].st > PCB_PROBE_3 /\ srv.host # 0 =>
        \A x \in srv.services \cup {Host} : srv.probes[p][x] = <<NameOf(srv, x), 3>>

(* The three: an endpoint and what it still has to send agree, nothing     *)
(* queued refers to a service that is gone, and a name is answered for     *)
(* only once it was probed (mdns_responder.c, mdns_pcb.c, mdns_send.c).    *)
MdnsSafe == MdnsInv /\ NothingDangles /\ AnsweredIsProbed
=============================================================================
