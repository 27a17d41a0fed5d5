----------------------------- MODULE VirtioNet -----------------------------
(***************************************************************************)
(* The network driver and its TCP/IP, src/kernel/virtio_net.c: DHCP, ARP,  *)
(* ping, DNS, one HTTP request at a time and an HTTP server for one        *)
(* request.  Everything runs in the caller: each step sends a frame, waits *)
(* for the transmit queue, and then polls the receive queue until a flag   *)
(* is set by a handler or the count of polls runs out.  The network may    *)
(* lose, delay, reorder and repeat frames.  A host is its own MAC and IP   *)
(* address, and the address a DHCP server offers is named after it.        *)
(***************************************************************************)
EXTENDS Naturals, Sequences, FiniteSets

CONSTANTS
    Lan,              \* the hosts on the local network, with "gateway" and "dns"
    Web,              \* a host that is not on it
    DhcpServers,      \* the DHCP servers that answer
    TcpConnections,   \* TCP_CONNECTION_CAPACITY
    PortCount,        \* ports from TCP_HTTP_SOURCE_PORT on
    RxBuffers,        \* VIRTIO_NET_RX_BUFFER_COUNT
    Parts,            \* segments a web server answers in
    MaxNetCalls,      \* bound on the calls after the self test
    MaxNetFaults      \* bound on frames repeated, empty buffers and transmissions
                      \* given up, together

ASSUME NetAssumption ==
    /\ {"gateway", "dns"} \subseteq Lan /\ Web \notin Lan
    /\ PortCount \in Nat \ {0} /\ RxBuffers \in Nat \ {0}
    /\ TcpConnections \in Nat \ {0} /\ Parts \in Nat \ {0}
    /\ MaxNetCalls \in Nat /\ MaxNetFaults \in Nat

VARIABLES
    e_net,        \* the fields of ASAS_VIRTIO_NET that decide something; since: the
                  \* servers whose offers came after the last acknowledgement
    e_pending,    \* pending_ipv4_target, pending_target_mac and their two flags
    e_conns,      \* tcp_connections
    e_port,       \* next_tcp_source_port, from 0
    e_cached,     \* cached_http_response, a segment or NoData
    e_server,     \* http_server_active, _request_received, _response_sent
    e_call,       \* the call in progress and where it is
    e_rx,         \* the receive queue: buffers the device has, those it has filled
    e_tx,         \* the transmit queue: tx_frame, entries to send, the wait
    e_wire,       \* frames under way to this machine
    e_answer,     \* what the last call returned
    e_truth,      \* what the other side did: leases, echoes, responses, requests
    e_counts      \* calls, repeats, runts and transmissions given up so far

netVars == <<e_net, e_pending, e_conns, e_port, e_cached, e_server, e_call, e_rx, e_tx,
             e_wire, e_answer, e_truth, e_counts>>

NoData == [conn |-> 0, part |-> 0]
NoNetCall == [op |-> "none", phase |-> "none", step |-> "none", at |-> "none",
              target |-> "none", mac |-> "none", conn |-> 0]
NoFrame == [kind |-> "none"]

-----------------------------------------------------------------------------
(* The frames sent                                                         *)

TestFrame == [kind |-> "test"]                                                       \* build_test_ethernet_frame
ArpRequest(target) == [kind |-> "arp?", target |-> target, ip |-> e_net.ip]          \* build_arp_request
EchoRequest(target, mac) ==                                                          \* build_icmp_echo_request
    [kind |-> "echo?", target |-> target, mac |-> mac, ip |-> e_net.ip]
DhcpDiscover == [kind |-> "discover"]                                                \* build_dhcp_packet
DhcpRequest == [kind |-> "request", ip |-> e_net.ip, server |-> e_net.server]
DnsQuery(mac) == [kind |-> "query", mac |-> mac]                                     \* build_dns_query
TcpSegment(flags, call) ==                                                           \* build_tcp_segment
    [kind |-> flags, target |-> call.target, mac |-> call.mac,
     port |-> e_conns[call.conn].port, conn |-> e_conns[call.conn].number]

(* send_ethernet_frame up to its wait: tx_frame and the two descriptors    *)
(* are the same for every frame.                                           *)
SendFrame(frame, waits) ==
    e_tx' = [e_tx EXCEPT !.frame = frame, !.owed = @ + 1, !.used = FALSE, !.waits = waits]

-----------------------------------------------------------------------------
(* The calls                                                               *)

NetIdle == e_call = NoNetCall
InCall(at) == e_call.at = at /\ e_tx.waits = "no"

FaultToCome == e_counts.repeats + e_counts.runts + e_counts.timeouts < MaxNetFaults
Count(what) == e_counts' = [e_counts EXCEPT ![what] = @ + 1]

BeginCall(call) ==
    /\ NetIdle /\ e_net.up /\ e_counts.calls < MaxNetCalls
    /\ Count("calls")
    /\ e_call' = call
    /\ UNCHANGED <<e_net, e_pending, e_conns, e_port, e_cached, e_rx, e_tx, e_wire, e_answer>>

(* virtio_net_ping_ipv4 from the shell                                     *)
Ping(target) ==
    /\ BeginCall([NoNetCall EXCEPT !.op = "ping", !.phase = "ping", !.step = "arp",
                                   !.at = "send", !.target = target])
    /\ UNCHANGED <<e_server, e_truth>>

(* shell_wget: virtio_net_http_get_resolved_ipv4                           *)
Wget ==
    /\ e_net.dns_a # "none"
    /\ BeginCall([NoNetCall EXCEPT !.op = "wget", !.phase = "get", !.step = "route",
                                   !.at = "send", !.target = e_net.dns_a])
    /\ UNCHANGED <<e_server, e_truth>>

(* virtio_net_http_server_once                                             *)
HttpServerOnce ==
    /\ BeginCall([NoNetCall EXCEPT !.op = "serve", !.phase = "serve", !.step = "serve",
                                   !.at = "wait"])
    /\ e_server' = [active |-> TRUE, received |-> FALSE, sent |-> FALSE]
    /\ e_truth' = [e_truth EXCEPT !.responses = 0]

(* The end of a call.  The self test does not fail when only its HTTP      *)
(* request does; wget falls back to the response the self test has kept.   *)
Return(ok, data) ==
    LET answer(o, d) == [op |-> e_call.op, target |-> e_call.target, ok |-> o, data |-> d,
                         number |-> IF e_call.conn = 0 THEN 0 ELSE e_conns[e_call.conn].number]
        got == ok /\ e_call.phase = "get"
    IN /\ e_call' = NoNetCall
       /\ e_cached' = IF e_call.op = "test" /\ got THEN data ELSE e_cached
       /\ CASE e_call.op = "test" ->
                 /\ e_net' = [e_net EXCEPT !.up = ok \/ e_call.phase = "get"]
                 /\ e_answer' = answer(ok \/ e_call.phase = "get", data)
            [] e_call.op = "wget" /\ ~ok ->
                 /\ e_answer' = [answer(e_cached # NoData, e_cached) EXCEPT !.op = "cached"]
                 /\ UNCHANGED e_net
            [] OTHER -> e_answer' = answer(ok, data) /\ UNCHANGED e_net

(* tcp_connection_release                                                  *)
Release(c) == [e_conns EXCEPT ![c].active = FALSE]

(* A step that failed: the wait for the queue or for the flag ran out, or  *)
(* there is no route or connection.                                        *)
FailCall ==
    /\ Return(FALSE, NoData)
    /\ e_conns' = IF e_call.conn # 0 THEN Release(e_call.conn) ELSE e_conns

(* tcp_connection_allocate                                                 *)
FreeConnections == {c \in 1 .. TcpConnections : ~e_conns[c].active}
FirstFree == CHOOSE c \in FreeConnections : \A d \in FreeConnections : c <= d

(* Faulty variant: the next source port is not advanced.                   *)
TcpConnectionAllocateSamePort(c) ==
    /\ e_conns' = [e_conns EXCEPT ![c] = [active |-> TRUE, port |-> e_port, syn_ack |-> FALSE,
                                          response |-> FALSE, data |-> NoData,
                                          number |-> e_truth.conns + 1]]
    /\ e_port' = e_port
    /\ e_truth' = [e_truth EXCEPT !.conns = @ + 1]

TcpConnectionAllocate(c) ==
    /\ e_conns' = [e_conns EXCEPT ![c] = [active |-> TRUE, port |-> e_port, syn_ack |-> FALSE,
                                          response |-> FALSE, data |-> NoData,
                                          number |-> e_truth.conns + 1]]
    /\ e_port' = (e_port + 1) % PortCount
    /\ e_truth' = [e_truth EXCEPT !.conns = @ + 1]

(* The head of virtio_net_http_get_ipv4: a local target is resolved, every *)
(* other one is sent to gateway_mac.                                       *)
RouteGet ==
    /\ InCall("send") /\ e_call.step = "route"
    /\ CASE e_call.target \in Lan ->
              e_call' = [e_call EXCEPT !.step = "arp"] /\ UNCHANGED <<e_conns, e_cached, e_net, e_answer>>
         [] e_call.target \notin Lan /\ e_net.arp_reply ->
              /\ e_call' = [e_call EXCEPT !.step = "open", !.mac = e_net.gateway_mac]
              /\ UNCHANGED <<e_conns, e_cached, e_net, e_answer>>
         [] OTHER -> FailCall
    /\ UNCHANGED <<e_pending, e_port, e_server, e_rx, e_tx, e_wire, e_truth, e_counts>>

(* The connection and its output buffer                                    *)
OpenConnection ==
    /\ InCall("send") /\ e_call.step = "open"
    /\ IF FreeConnections = {} THEN FailCall /\ UNCHANGED <<e_port, e_truth>>
       ELSE /\ TcpConnectionAllocate(FirstFree)
            /\ e_call' = [e_call EXCEPT !.step = "syn", !.conn = FirstFree]
            /\ UNCHANGED <<e_cached, e_net, e_answer>>
    /\ UNCHANGED <<e_pending, e_server, e_rx, e_tx, e_wire, e_counts>>

(* What a step sends, and what it clears first                             *)
StepFrame ==
    CASE e_call.step = "probe" -> TestFrame
      [] e_call.step = "discover" -> DhcpDiscover
      [] e_call.step = "request" -> DhcpRequest
      [] e_call.step = "arp" -> ArpRequest(e_call.target)
      [] e_call.step = "echo" -> EchoRequest(e_call.target, e_pending.mac)
      [] e_call.step = "query" -> DnsQuery(e_call.mac)
      [] OTHER -> TcpSegment(e_call.step, e_call)

SendStep ==
    /\ InCall("send") /\ e_call.step \notin {"route", "open"}
    /\ SendFrame(StepFrame, "step")
    /\ e_pending' = IF e_call.step # "arp" THEN e_pending
                    ELSE [target |-> e_call.target, mac |-> "none", arp |-> FALSE,
                          icmp |-> IF e_call.phase = "ping" THEN FALSE ELSE e_pending.icmp]
    /\ e_net' = [e_net EXCEPT !.ack = IF e_call.step = "request" THEN FALSE ELSE @,
                              !.dns_response = IF e_call.step = "query" THEN FALSE ELSE @]
    /\ UNCHANGED <<e_conns, e_port, e_cached, e_server, e_call, e_rx, e_wire, e_answer,
                   e_truth, e_counts>>

(* What a step waits for                                                   *)
Flag ==
    CASE e_call.step = "discover" -> e_net.offer
      [] e_call.step = "request" -> e_net.ack
      [] e_call.step = "arp" -> e_pending.arp
      [] e_call.step = "echo" -> e_pending.icmp
      [] e_call.step = "query" -> e_net.dns_response
      [] e_call.step = "syn" -> e_conns[e_call.conn].syn_ack
      [] e_call.step = "get" -> e_conns[e_call.conn].response
      [] e_call.step = "serve" -> e_server.sent
      [] OTHER -> TRUE

(* The step after this one.  virtio_net_self_test goes through DHCP, the   *)
(* ping of the gateway, DNS and, with an address, an HTTP request.         *)
Goes(step, target, mac) ==
    e_call' = [e_call EXCEPT !.step = step, !.at = "send", !.target = target, !.mac = mac]

EndPing ==
    IF e_call.op = "test"
    THEN /\ e_call' = [e_call EXCEPT !.phase = "dns", !.step = "arp", !.at = "send", !.target = "dns"]
         /\ UNCHANGED <<e_net, e_cached, e_answer>>
    ELSE Return(TRUE, NoData)

EndDns ==
    IF e_net.dns_a = "none" THEN Return(TRUE, NoData)
    ELSE /\ e_call' = [e_call EXCEPT !.phase = "get", !.step = "route", !.at = "send",
                                     !.target = e_net.dns_a]
         /\ UNCHANGED <<e_net, e_cached, e_answer>>

AfterArp == CASE e_call.phase = "ping" -> "echo" [] e_call.phase = "dns" -> "query" [] OTHER -> "open"

(* Faulty variant: the connection stays in the table after an answer.      *)
GoOnKeepConnection ==
    /\ InCall("wait") /\ e_call.step # "serve" /\ Flag
    /\ e_call.step \in {"echo", "query", "get"} \/ UNCHANGED <<e_net, e_cached, e_answer>>
    /\ CASE e_call.step = "probe" -> Goes("discover", "none", "none")
         [] e_call.step = "discover" -> Goes("request", "none", "none")
         [] e_call.step = "request" ->
              e_call' = [e_call EXCEPT !.phase = "ping", !.step = "arp", !.at = "send", !.target = "gateway"]
         [] e_call.step = "arp" -> Goes(AfterArp, e_call.target, e_pending.mac)
         [] e_call.step = "echo" -> EndPing
         [] e_call.step = "query" -> EndDns
         [] e_call.step = "syn" -> Goes("ack", e_call.target, e_call.mac)
         [] e_call.step = "ack" -> Goes("get", e_call.target, e_call.mac)
         [] e_call.step = "get" -> Return(TRUE, e_conns[e_call.conn].data)
    /\ e_conns' = e_conns
    /\ UNCHANGED <<e_pending, e_port, e_server, e_rx, e_tx, e_wire, e_truth, e_counts>>

(* The flag is up when the loop looks: the call goes on.                   *)
GoOn ==
    /\ InCall("wait") /\ e_call.step # "serve" /\ Flag
    /\ e_call.step \in {"echo", "query", "get"} \/ UNCHANGED <<e_net, e_cached, e_answer>>
    /\ CASE e_call.step = "probe" -> Goes("discover", "none", "none")
         [] e_call.step = "discover" -> Goes("request", "none", "none")
         [] e_call.step = "request" ->
              e_call' = [e_call EXCEPT !.phase = "ping", !.step = "arp", !.at = "send", !.target = "gateway"]
         [] e_call.step = "arp" -> Goes(AfterArp, e_call.target, e_pending.mac)
         [] e_call.step = "echo" -> EndPing
         [] e_call.step = "query" -> EndDns
         [] e_call.step = "syn" -> Goes("ack", e_call.target, e_call.mac)
         [] e_call.step = "ack" -> Goes("get", e_call.target, e_call.mac)
         [] e_call.step = "get" -> Return(TRUE, e_conns[e_call.conn].data)
    /\ e_conns' = IF e_call.step = "get" THEN Release(e_call.conn) ELSE e_conns
    /\ UNCHANGED <<e_pending, e_port, e_server, e_rx, e_tx, e_wire, e_truth, e_counts>>

(* The count of polls has run out.  Without an answer from the DNS server  *)
(* the self test goes on.                                                  *)
WaitTimeout ==
    /\ InCall("wait") /\ e_call.step # "serve" /\ ~Flag
    /\ IF e_call.step = "query" THEN EndDns /\ UNCHANGED e_conns ELSE FailCall
    /\ UNCHANGED <<e_pending, e_port, e_server, e_rx, e_tx, e_wire, e_truth, e_counts>>

(* The end of virtio_net_http_server_once, answered or not                 *)
ServeEnd ==
    /\ InCall("wait") /\ e_call.step = "serve"
    /\ e_server' = [e_server EXCEPT !.active = FALSE]
    /\ Return(e_server.received /\ e_server.sent, NoData)
    /\ UNCHANGED <<e_pending, e_conns, e_port, e_rx, e_tx, e_wire, e_truth, e_counts>>

-----------------------------------------------------------------------------
(* poll_receive                                                            *)

(* tcp_connection_find                                                     *)
Matching(port) == {c \in 1 .. TcpConnections : e_conns[c].active /\ e_conns[c].port = port}

HandleArp(frame) ==
    /\ IF frame.from = e_pending.target /\ frame.to = e_net.ip
       THEN /\ e_pending' = [e_pending EXCEPT !.mac = frame.from, !.arp = TRUE]
            /\ e_net' = [e_net EXCEPT !.gateway_mac = frame.from,
                                      !.arp_reply = @ \/ frame.from = "gateway"]
       ELSE UNCHANGED <<e_pending, e_net>>
    /\ UNCHANGED e_conns

(* Faulty variant: an acknowledgement leaves the address as it is.         *)
HandleDhcpOfferOnly(frame) ==
    /\ e_net' = IF frame.kind = "offer"
                THEN [e_net EXCEPT !.ip = frame.server, !.server = frame.server, !.offer = TRUE,
                                   !.since = @ \union {frame.server}]
                ELSE [e_net EXCEPT !.ack = TRUE, !.since = {}]
    /\ UNCHANGED <<e_pending, e_conns>>

(* An offer is taken at any time, an acknowledgement from anyone.          *)
HandleDhcp(frame) ==
    /\ e_net' = IF frame.kind = "offer"
                THEN [e_net EXCEPT !.ip = frame.server, !.server = frame.server, !.offer = TRUE,
                                   !.since = @ \union {frame.server}]
                ELSE [e_net EXCEPT !.ip = frame.server, !.server = frame.server, !.ack = TRUE,
                                   !.since = {}]
    /\ UNCHANGED <<e_pending, e_conns>>

HandleDns(frame) ==
    /\ e_net' = [e_net EXCEPT !.dns_response = TRUE,
                              !.dns_a = IF frame.a = "none" THEN @ ELSE frame.a]
    /\ UNCHANGED <<e_pending, e_conns>>

HandleIcmp(frame) ==
    /\ e_pending' = [e_pending EXCEPT
                        !.icmp = @ \/ (frame.from = e_pending.target /\ frame.to = e_net.ip)]
    /\ UNCHANGED <<e_net, e_conns>>

(* A SYN/ACK or data for a connection of ours; what is stored replaces     *)
(* what was there (tcp_connection_store_payload).                          *)
HandleTcp(frame) ==
    /\ e_conns' = [c \in 1 .. TcpConnections |->
                      IF c \notin Matching(frame.port) THEN e_conns[c]
                      ELSE IF frame.kind = "syn-ack" THEN [e_conns[c] EXCEPT !.syn_ack = TRUE]
                      ELSE [e_conns[c] EXCEPT !.response = TRUE, !.data = [conn |-> frame.conn,
                                                                           part |-> frame.part]]]
    /\ UNCHANGED <<e_net, e_pending>>

HandleFrame(frame) ==
    CASE frame.kind = "arp" -> HandleArp(frame)
      [] frame.kind \in {"offer", "dhcp-ack"} -> HandleDhcp(frame)
      [] frame.kind = "dns" -> HandleDns(frame)
      [] frame.kind = "icmp" -> HandleIcmp(frame)
      [] frame.kind \in {"syn-ack", "data"} -> HandleTcp(frame)
      [] OTHER -> UNCHANGED <<e_net, e_pending, e_conns>>

(* handle_http_server_tcp has something to send.                           *)
Serves(frame) ==
    frame.kind \in {"client-syn", "client-get"} /\ e_server.active /\ frame.to = e_net.ip

(* recycle_receive_buffer, after the frame has been looked at              *)
Recycle(id) == [e_rx EXCEPT !.avail = Append(@, id), !.used = Tail(@)]

(* The loop of poll_receive, one filled buffer at a time: an empty one is  *)
(* not given back to the device.                                           *)
PollFrame ==
    /\ e_call.at \in {"wait", "poll"} /\ e_tx.waits = "no" /\ e_rx.used # << >>
    /\ e_call.at = "poll" \/ ~Flag
    /\ LET buffer == Head(e_rx.used) IN
       /\ ~Serves(buffer.frame)
       /\ HandleFrame(buffer.frame)
       /\ e_rx' = IF buffer.frame.kind = "runt" THEN [e_rx EXCEPT !.used = Tail(@)]
                  ELSE Recycle(buffer.id)
    /\ e_call' = [e_call EXCEPT !.at = "poll"]
    /\ UNCHANGED <<e_port, e_cached, e_server, e_tx, e_wire, e_answer, e_truth, e_counts>>

(* A frame for the HTTP server is answered inside the loop.                *)
PollServe ==
    /\ e_call.at \in {"wait", "poll"} /\ e_tx.waits = "no" /\ e_rx.used # << >>
    /\ e_call.at = "poll" \/ ~Flag
    /\ LET frame == Head(e_rx.used).frame IN
       /\ Serves(frame)
       /\ SendFrame([kind |-> IF frame.kind = "client-syn" THEN "server-syn-ack" ELSE "response"],
                    frame.kind)
       /\ e_server' = [e_server EXCEPT !.received = @ \/ frame.kind = "client-get"]
    /\ e_call' = [e_call EXCEPT !.at = "poll"]
    /\ UNCHANGED <<e_net, e_pending, e_conns, e_port, e_cached, e_rx, e_wire, e_answer,
                   e_truth, e_counts>>

(* The queue is empty: back to the loop that waits.                        *)
PollEnd ==
    /\ InCall("poll") /\ e_rx.used = << >>
    /\ e_call' = [e_call EXCEPT !.at = "wait"]
    /\ UNCHANGED <<e_net, e_pending, e_conns, e_port, e_cached, e_server, e_rx, e_tx, e_wire,
                   e_answer, e_truth, e_counts>>

(* The wait at the end of send_ethernet_frame: the used index has moved.   *)
TransmitDone ==
    /\ e_tx.waits # "no" /\ e_tx.used
    /\ e_tx' = [e_tx EXCEPT !.waits = "no"]
    /\ IF e_tx.waits = "step"
       THEN e_call' = [e_call EXCEPT !.at = "wait"] /\ UNCHANGED <<e_server, e_rx>>
       ELSE /\ e_rx' = Recycle(Head(e_rx.used).id)
            /\ e_server' = [e_server EXCEPT !.sent = @ \/ e_tx.waits = "client-get"]
            /\ UNCHANGED e_call
    /\ UNCHANGED <<e_net, e_pending, e_conns, e_port, e_cached, e_wire, e_answer, e_truth, e_counts>>

(* It has not, and the frame stays in the queue.                           *)
TransmitTimeout ==
    /\ e_tx.waits # "no" /\ ~e_tx.used /\ FaultToCome
    /\ Count("timeouts")
    /\ e_tx' = [e_tx EXCEPT !.waits = "no"]
    /\ IF e_tx.waits = "step" THEN FailCall /\ UNCHANGED e_rx
       ELSE /\ e_rx' = Recycle(Head(e_rx.used).id)
            /\ UNCHANGED <<e_call, e_conns, e_cached, e_net, e_answer>>
    /\ UNCHANGED <<e_pending, e_port, e_server, e_wire, e_truth>>

-----------------------------------------------------------------------------
(* The device and the network                                              *)

(* How the hosts answer a frame.  A frame for a host elsewhere is passed   *)
(* on by whoever gets it, as QEMU's network does.                          *)
Reached(frame) == frame.mac = frame.target \/ (frame.target = Web /\ frame.mac \in Lan)

NetAnswers(frame, a) ==
    CASE frame.kind = "discover" -> {[kind |-> "offer", server |-> s] : s \in DhcpServers}
      [] frame.kind = "request" -> {[kind |-> "dhcp-ack", server |-> frame.server]}
      [] frame.kind = "arp?" ->
           {[kind |-> "arp", from |-> t, to |-> frame.ip] : t \in Lan \intersect {frame.target}}
      [] frame.kind = "echo?" /\ Reached(frame) ->
           {[kind |-> "icmp", from |-> frame.target, to |-> frame.ip]}
      [] frame.kind = "query" /\ frame.mac = "dns" -> {[kind |-> "dns", a |-> a]}
      [] frame.kind = "syn" /\ Reached(frame) ->
           {[kind |-> "syn-ack", port |-> frame.port, conn |-> frame.conn, part |-> 0]}
      [] frame.kind = "get" /\ Reached(frame) ->
           {[kind |-> "data", port |-> frame.port, conn |-> frame.conn, part |-> p] : p \in 1 .. Parts}
      [] OTHER -> {}

(* The device sends what is in tx_frame by then.                           *)
DeviceTransmit(a) ==
    /\ e_tx.owed > 0
    /\ a = "none" \/ e_tx.frame.kind = "query"
    /\ e_tx' = [e_tx EXCEPT !.owed = @ - 1, !.used = TRUE]
    /\ e_wire' = e_wire \union NetAnswers(e_tx.frame, a)
    /\ e_truth' = [e_truth EXCEPT
                      !.leases = IF e_tx.frame.kind = "request" THEN @ \union {e_tx.frame.server} ELSE @,
                      !.echoes = IF e_tx.frame.kind = "echo?" THEN @ \union {e_tx.frame.target} ELSE @,
                      !.responses = IF e_tx.frame.kind = "response" THEN @ + 1 ELSE @]
    /\ UNCHANGED <<e_net, e_pending, e_conns, e_port, e_cached, e_server, e_call, e_rx, e_answer,
                   e_counts>>

(* A frame that arrives while nobody polls is looked at no earlier than    *)
(* one that arrives later: arrivals are kept for the polling loops.        *)
Polling == e_call.at \in {"wait", "poll"} /\ e_tx.waits # "step"

(* A frame arrives, for the first or not for the last time.                *)
Deliver(frame, stays) ==
    /\ Polling /\ e_rx.avail # << >>
    /\ IF stays THEN FaultToCome /\ Count("repeats") /\ UNCHANGED e_wire
       ELSE e_wire' = e_wire \ {frame} /\ UNCHANGED e_counts
    /\ e_rx' = [avail |-> Tail(e_rx.avail),
                used |-> Append(e_rx.used, [id |-> Head(e_rx.avail), frame |-> frame])]
    /\ UNCHANGED <<e_net, e_pending, e_conns, e_port, e_cached, e_server, e_call, e_tx, e_answer,
                   e_truth>>

(* The device gives a buffer back with nothing in it.                      *)
DeliverRunt ==
    /\ Polling /\ e_rx.avail # << >> /\ FaultToCome
    /\ Count("runts")
    /\ e_rx' = [avail |-> Tail(e_rx.avail),
                used |-> Append(e_rx.used, [id |-> Head(e_rx.avail), frame |-> [kind |-> "runt"]])]
    /\ UNCHANGED <<e_net, e_pending, e_conns, e_port, e_cached, e_server, e_call, e_tx, e_wire,
                   e_answer, e_truth>>

(* Some machine opens a connection to the HTTP server and asks.            *)
ClientCalls ==
    /\ e_server.active /\ e_truth.clients = 0
    /\ e_wire' = e_wire \union {[kind |-> k, to |-> e_net.ip] : k \in {"client-syn", "client-get"}}
    /\ e_truth' = [e_truth EXCEPT !.clients = 1]
    /\ UNCHANGED <<e_net, e_pending, e_conns, e_port, e_cached, e_server, e_call, e_rx, e_tx,
                   e_answer, e_counts>>

-----------------------------------------------------------------------------
(* After virtio_net_initialize; virtio_net_self_test begins, and the       *)
(* kernel stops when it fails.                                             *)
NetInit ==
    /\ e_net = [ip |-> "default", server |-> "none", gateway_mac |-> "none", arp_reply |-> FALSE,
                offer |-> FALSE, ack |-> FALSE, dns_response |-> FALSE, dns_a |-> "none",
                since |-> {}, up |-> FALSE]
    /\ e_pending = [target |-> "none", mac |-> "none", arp |-> FALSE, icmp |-> FALSE]
    /\ e_conns = [c \in 1 .. TcpConnections |->
                     [active |-> FALSE, port |-> 0, syn_ack |-> FALSE, response |-> FALSE,
                      data |-> NoData, number |-> 0]]
    /\ e_port = 0 /\ e_cached = NoData
    /\ e_server = [active |-> FALSE, received |-> FALSE, sent |-> FALSE]
    /\ e_call = [NoNetCall EXCEPT !.op = "test", !.phase = "dhcp", !.step = "probe", !.at = "send"]
    /\ e_rx = [avail |-> [b \in 1 .. RxBuffers |-> b], used |-> << >>]
    /\ e_tx = [frame |-> NoFrame, owed |-> 0, used |-> FALSE, waits |-> "no"]
    /\ e_wire = {}
    /\ e_answer = [op |-> "none", target |-> "none", ok |-> FALSE, data |-> NoData, number |-> 0]
    /\ e_truth = [leases |-> {}, echoes |-> {}, responses |-> 0, conns |-> 0, clients |-> 0]
    /\ e_counts = [calls |-> 0, repeats |-> 0, runts |-> 0, timeouts |-> 0]

NetNext ==
    \/ \E target \in Lan \union {Web} : Ping(target)
    \/ Wget \/ HttpServerOnce
    \/ RouteGet \/ OpenConnection \/ SendStep \/ GoOn \/ WaitTimeout \/ ServeEnd
    \/ PollFrame \/ PollServe \/ PollEnd
    \/ TransmitDone \/ TransmitTimeout
    \/ \E a \in {"none", "dns", Web} : DeviceTransmit(a)
    \/ \E frame \in e_wire, stays \in BOOLEAN : Deliver(frame, stays)
    \/ DeliverRunt \/ ClientCalls

NetSpec == NetInit /\ [][NetNext]_netVars

-----------------------------------------------------------------------------
(* A request that reports success has returned a segment that was sent to  *)
(* its own source port: that of this request, or of one so long ago that   *)
(* the ports have gone round (late answers to requests given up).          *)
GetsOwnAnswer ==
    e_answer.op = "wget" /\ e_answer.ok =>
        /\ e_answer.data # NoData
        /\ e_answer.data.conn <= e_answer.number
        /\ (e_answer.number - e_answer.data.conn) % PortCount = 0

(* Once an address has been acknowledged, the one in use is leased to this *)
(* machine, unless an offer has come in after the acknowledgement: offers  *)
(* that cross the request are put right by it.                             *)
AddressLeased == e_net.ack => e_net.ip \in e_truth.leases \union e_net.since

(* Between calls no connection is left in the table, so that it never      *)
(* fills up, and a late segment finds none to be written to.               *)
ConnectionsReleased ==
    \A c \in 1 .. TcpConnections : e_conns[c].active => e_call.conn = c

(* Every receive buffer is the device's or waits to be looked at, not both *)
(* and not twice; only those that came back empty are lost.                *)
BuffersKept ==
    LET used == [i \in DOMAIN e_rx.used |-> e_rx.used[i].id]
        all == e_rx.avail \o used
        lost == e_counts.runts - Cardinality({i \in DOMAIN e_rx.used : e_rx.used[i].frame.kind = "runt"})
    IN /\ \A i, j \in DOMAIN all : all[i] = all[j] => i = j
       /\ Len(all) = RxBuffers - lost

(* As long as no transmission has been given up: a ping that reports       *)
(* success was sent to its target, and an HTTP server that reports a       *)
(* request served has sent a response during that call.                    *)
NetAnswersTrue ==
    e_counts.timeouts = 0 /\ e_answer.ok =>
        /\ e_answer.op = "ping" => e_answer.target \in e_truth.echoes
        /\ e_answer.op = "serve" /\ NetIdle => e_truth.responses > 0

=============================================================================
