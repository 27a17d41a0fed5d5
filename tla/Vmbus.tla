------------------------------- MODULE Vmbus -------------------------------
(***************************************************************************)
(* The VMBus connection of the Hyper-V driver,                             *)
(* src/kernel/hyperv_storage.c: contact with the host, the offers of       *)
(* channels, and for the storage, the keyboard and the HID channel the     *)
(* memory of its rings (GPADL), the open and the protocol spoken on it.    *)
(*                                                                         *)
(* The host answers through one message slot, which the driver polls for a *)
(* bounded time in loops that take any message that comes: what a loop     *)
(* does not know it acknowledges and forgets.  The host is external: it    *)
(* offers the channels it has in any order, answers every request, and may *)
(* be slower than a loop waits.                                            *)
(***************************************************************************)
EXTENDS Naturals, Sequences, FiniteSets

Channels == {"storvsc", "keyboard", "hid"}
InputChannels == {"keyboard", "hid"}

VARIABLES
    b_at,          \* the loop the driver is in
    b_status,      \* what ASAS_HYPERV_STORAGE_STATUS says of the bus
    b_channel,     \* and of each channel
    b_slot,        \* the message slot: a message or none
    b_host,        \* the host: its channels, what it has set up and accepts
    b_queue,       \* messages of the host that wait for the slot
    b_packets,     \* packets of the host on the rings of input channels
    b_late         \* a loop ended before an answer came, or a post failed

vmbusVars == <<b_at, b_status, b_channel, b_slot, b_host, b_queue, b_packets, b_late>>

NoMessage == [type |-> "none"]

Closed == [offered |-> FALSE, gpadl_created |-> FALSE, opened |-> FALSE, refused |-> FALSE,
           protocol_ready |-> FALSE, device_ready |-> FALSE]

-----------------------------------------------------------------------------
(* The host                                                                *)

(* What it answers to a message that was posted                            *)
HostTakes(message) ==
    CASE message.type = "contact" ->
            b_queue' = Append(b_queue, [type |-> "version", ok |-> b_host.version])
            /\ UNCHANGED b_host
      [] message.type = "request offers" ->
            /\ \E order \in [1 .. Cardinality(b_host.has) -> b_host.has] :
                  /\ \A i, j \in DOMAIN order : i # j => order[i] # order[j]
                  /\ b_queue' = b_queue \o [i \in DOMAIN order |->
                                              [type |-> "offer", channel |-> order[i]]]
                                \o << [type |-> "all offers delivered"] >>
            /\ UNCHANGED b_host
      [] message.type = "gpadl" ->
            LET ok == message.channel \notin b_host.refuses IN
            /\ b_queue' = Append(b_queue, [type |-> "gpadl created",
                                           channel |-> message.channel, ok |-> ok])
            /\ b_host' = IF ok THEN [b_host EXCEPT !.gpadl = @ \union {message.channel}]
                         ELSE b_host
      [] message.type = "open" ->
            LET ok == message.channel \in b_host.gpadl IN
            /\ b_queue' = Append(b_queue, [type |-> "open result",
                                           channel |-> message.channel, ok |-> ok])
            /\ b_host' = IF ok THEN [b_host EXCEPT !.open = @ \union {message.channel}]
                         ELSE b_host

HostDelivers ==
    /\ b_slot = NoMessage /\ b_queue # << >>
    /\ b_slot' = Head(b_queue)
    /\ b_queue' = Tail(b_queue)
    /\ UNCHANGED <<b_at, b_status, b_channel, b_host, b_packets, b_late>>

-----------------------------------------------------------------------------
(* hyperv_post_message: the hypercall may fail.                            *)
Posted(message, ok, next, otherwise) ==
    IF ok THEN HostTakes(message) /\ b_at' = next /\ UNCHANGED b_late
    ELSE b_at' = otherwise /\ b_late' = TRUE /\ UNCHANGED <<b_host, b_queue>>

(* The loops wait at loop; a channel's loops at <<loop, channel>>.         *)
At(loop) == b_at = <<loop, "bus">>
AtChannel(loop, ch) == b_at = <<loop, ch>>

(* hyperv_initiate_contact                                                 *)
InitiateContact(ok) ==
    /\ At("contact")
    /\ Posted([type |-> "contact"], ok, <<"version", "bus">>, <<"done", "bus">>)
    /\ UNCHANGED <<b_status, b_channel, b_slot, b_packets>>

(* hyperv_poll_version_response: the first message, whatever it is         *)
PollVersionResponse ==
    /\ At("version") /\ b_slot # NoMessage
    /\ b_status' = IF b_slot.type = "version"
                   THEN [b_status EXCEPT !.vmbus_connected = b_slot.ok] ELSE b_status
    /\ b_slot' = NoMessage
    /\ b_at' = <<"request", "bus">>
    /\ UNCHANGED <<b_channel, b_host, b_queue, b_packets, b_late>>

(* hyperv_request_offers                                                   *)
RequestOffers(ok) ==
    /\ At("request")
    /\ IF b_status.vmbus_connected
       THEN Posted([type |-> "request offers"], ok, <<"offers", "bus">>, <<"done", "bus">>)
       ELSE b_at' = <<"done", "bus">> /\ UNCHANGED <<b_host, b_queue, b_late>>
    /\ UNCHANGED <<b_status, b_channel, b_slot, b_packets>>

(* The channels are opened in this order; a failure leads to the next.     *)
NextChannel(ch) ==
    CASE ch = "bus" -> <<"open", "storvsc">>
      [] ch = "storvsc" -> <<"open", "keyboard">>
      [] ch = "keyboard" -> <<"open", "hid">>
      [] ch = "hid" -> <<"done", "bus">>

(* hyperv_poll_offers, hyperv_handle_offer: it stops early when it has the *)
(* storage and one input channel.                                          *)
EnoughOffers(status, channel) ==
    \/ status.all_offers_delivered
    \/ /\ channel["storvsc"].offered
       /\ channel["keyboard"].offered \/ channel["hid"].offered

PollOffers ==
    /\ At("offers") /\ b_slot # NoMessage
    /\ b_channel' = IF b_slot.type = "offer"
                    THEN [b_channel EXCEPT ![b_slot.channel].offered = TRUE] ELSE b_channel
    /\ b_status' = IF b_slot.type = "all offers delivered"
                   THEN [b_status EXCEPT !.all_offers_delivered = TRUE] ELSE b_status
    /\ b_slot' = NoMessage
    /\ b_at' = IF EnoughOffers(b_status', b_channel') THEN NextChannel("bus") ELSE b_at
    /\ UNCHANGED <<b_host, b_queue, b_packets, b_late>>

-----------------------------------------------------------------------------
(* hyperv_open_storvsc, hyperv_open_channel                                *)

OpenChannel(ch, ok) ==
    /\ AtChannel("open", ch)
    /\ IF b_channel[ch].offered
       THEN Posted([type |-> "gpadl", channel |-> ch], ok, <<"created", ch>>, NextChannel(ch))
       ELSE b_at' = NextChannel(ch) /\ UNCHANGED <<b_host, b_queue, b_late>>
    /\ UNCHANGED <<b_status, b_channel, b_slot, b_packets>>

(* Faulty variant: the relation id of the message is not looked at.        *)
OpenAnswerToAny(channel, message) ==
    CASE message.type = "gpadl created" /\ message.ok ->
            [channel EXCEPT ![b_at[2]].gpadl_created = TRUE]
      [] message.type = "open result" ->
            [channel EXCEPT ![b_at[2]].opened = @ \/ message.ok,
                            ![b_at[2]].refused = ~message.ok]
      [] OTHER -> channel

(* hyperv_poll_channel_open takes the answers for every channel.  It is    *)
(* left early only when everything offered is open.                        *)
OpenAnswer(channel, message) ==
    CASE message.type = "gpadl created" /\ message.ok ->
            [channel EXCEPT ![message.channel].gpadl_created = TRUE]
      [] message.type = "open result" ->
            [channel EXCEPT ![message.channel].opened = @ \/ message.ok,
                            ![message.channel].refused = ~message.ok]
      [] OTHER -> channel

EverythingOpen(channel) ==
    /\ channel["storvsc"].opened
    /\ \A ch \in InputChannels : channel[ch].offered => channel[ch].opened

(* What follows the loop: the open is posted once the rings are known; an  *)
(* open input channel goes on to its protocol.                             *)
AfterLoop(loop, ch, channel) ==
    IF loop = "created"
    THEN IF channel[ch].gpadl_created THEN <<"post open", ch>> ELSE NextChannel(ch)
    ELSE IF ch # "storvsc" /\ channel[ch].opened /\ ~channel[ch].refused
         THEN <<"protocol", ch>> ELSE NextChannel(ch)

PollChannelOpen(loop, ch) ==
    /\ loop \in {"created", "opened"} /\ AtChannel(loop, ch) /\ b_slot # NoMessage
    /\ b_channel' = OpenAnswer(b_channel, b_slot)
    /\ b_slot' = NoMessage
    /\ b_at' = IF EverythingOpen(b_channel') THEN AfterLoop(loop, ch, b_channel') ELSE b_at
    /\ UNCHANGED <<b_status, b_host, b_queue, b_packets, b_late>>

PostOpen(ch, ok) ==
    /\ AtChannel("post open", ch)
    /\ Posted([type |-> "open", channel |-> ch], ok, <<"opened", ch>>, NextChannel(ch))
    /\ UNCHANGED <<b_status, b_channel, b_slot, b_packets>>

(* A loop has counted to its end.                                          *)
LoopEnds(loop, ch) ==
    /\ b_at = <<loop, ch>>
    /\ b_at' = CASE loop = "version" -> <<"request", "bus">>
                 [] loop = "offers" -> NextChannel("bus")
                 [] loop \in {"created", "opened"} -> AfterLoop(loop, ch, b_channel)
    /\ b_late' = (b_late \/ b_slot # NoMessage \/ b_queue # << >>)
    /\ UNCHANGED <<b_status, b_channel, b_slot, b_host, b_queue, b_packets>>

-----------------------------------------------------------------------------
(* The protocols of the input channels                                     *)

(* hyperv_keyboard_protocol_initialize, hyperv_hid_protocol_initialize:    *)
(* the request goes out; the host answers, a HID device also describes     *)
(* itself.                                                                 *)
RequestProtocol(ch) ==
    /\ AtChannel("protocol", ch)
    /\ b_host' = [b_host EXCEPT !.asked = @ \union {ch}]
    /\ b_at' = <<"answer", ch>>
    /\ UNCHANGED <<b_status, b_channel, b_slot, b_queue, b_packets, b_late>>

HostSpeaks(ch) ==
    /\ ch \in b_host.asked
    /\ b_host' = [b_host EXCEPT !.asked = @ \ {ch}]
    /\ b_packets' = [b_packets EXCEPT ![ch] = @ \o
                        << [type |-> "response", ok |-> ch \notin b_host.rejects] >>
                        \o (IF ch = "hid" THEN << [type |-> "device info"] >> ELSE << >>)]
    /\ UNCHANGED <<b_at, b_status, b_channel, b_slot, b_queue, b_late>>

(* hyperv_hid_handle_packet                                                *)
HandlePacket(channel, ch, packet) ==
    CASE packet.type = "response" /\ packet.ok -> [channel EXCEPT ![ch].protocol_ready = TRUE]
      [] packet.type = "device info" -> [channel EXCEPT ![ch].device_ready = TRUE]
      [] OTHER -> channel

ReceiveAnswer(ch) ==
    /\ AtChannel("answer", ch) /\ b_packets[ch] # << >>
    /\ b_channel' = HandlePacket(b_channel, ch, Head(b_packets[ch]))
    /\ b_packets' = [b_packets EXCEPT ![ch] = Tail(@)]
    /\ b_at' = IF ch = "keyboard"
                  \/ (b_channel'[ch].protocol_ready /\ b_channel'[ch].device_ready)
               THEN NextChannel(ch) ELSE b_at
    /\ UNCHANGED <<b_status, b_slot, b_host, b_queue, b_late>>

AnswerTooLate(ch) ==
    /\ AtChannel("answer", ch)
    /\ b_at' = NextChannel(ch)
    /\ b_late' = (b_late \/ b_packets[ch] # << >> \/ ch \in b_host.asked)
    /\ UNCHANGED <<b_status, b_channel, b_slot, b_host, b_queue, b_packets>>

(* hyperv_hid_poll goes on when the channel is open, hyperv_keyboard_poll  *)
(* when the protocol is ready.                                             *)
MayPoll(ch) == b_channel[ch].opened /\ (ch = "keyboard" => b_channel[ch].protocol_ready)

PollInput(ch) ==
    /\ At("done") /\ MayPoll(ch) /\ b_packets[ch] # << >>
    /\ b_channel' = IF ch = "hid" THEN HandlePacket(b_channel, ch, Head(b_packets[ch]))
                    ELSE b_channel
    /\ b_packets' = [b_packets EXCEPT ![ch] = Tail(@)]
    /\ UNCHANGED <<b_at, b_status, b_slot, b_host, b_queue, b_late>>

-----------------------------------------------------------------------------
(* hyperv_storage_initialize: everything cleared, pages allocated, the     *)
(* hypercall page and the synthetic interrupt controller set up            *)
VmbusInit ==
    /\ b_at = <<"contact", "bus">>
    /\ b_status = [vmbus_connected |-> FALSE, all_offers_delivered |-> FALSE]
    /\ b_channel = [ch \in Channels |-> Closed]
    /\ b_slot = NoMessage
    /\ \E has \in SUBSET Channels, version \in BOOLEAN, refuses \in SUBSET {"storvsc", "keyboard"},
          rejects \in SUBSET {"keyboard"} :
          b_host = [has |-> has, version |-> version, refuses |-> refuses, rejects |-> rejects,
                    gpadl |-> {}, open |-> {}, asked |-> {}]
    /\ b_queue = << >>
    /\ b_packets = [ch \in InputChannels |-> << >>]
    /\ b_late = FALSE

VmbusNext ==
    \/ \E ok \in BOOLEAN : InitiateContact(ok) \/ RequestOffers(ok)
    \/ PollVersionResponse \/ PollOffers
    \/ \E ch \in Channels :
          \/ \E ok \in BOOLEAN : OpenChannel(ch, ok) \/ PostOpen(ch, ok)
          \/ \E loop \in {"created", "opened"} : PollChannelOpen(loop, ch) \/ LoopEnds(loop, ch)
    \/ LoopEnds("version", "bus") \/ LoopEnds("offers", "bus")
    \/ \E ch \in InputChannels :
          RequestProtocol(ch) \/ ReceiveAnswer(ch) \/ AnswerTooLate(ch) \/ PollInput(ch)
             \/ HostSpeaks(ch)
    \/ HostDelivers

VmbusSpec == VmbusInit /\ [][VmbusNext]_vmbusVars

-----------------------------------------------------------------------------
(* The driver never believes more than the host has done, however late and *)
(* for whichever channel the answers come: rings it holds for known to the *)
(* host are, and a channel it holds for open is open.                      *)
VmbusAgrees ==
    \A ch \in Channels :
        /\ b_channel[ch].gpadl_created => ch \in b_host.gpadl
        /\ b_channel[ch].opened => ch \in b_host.open

(* If no answer was late and no post failed, the storage channel of a host *)
(* that has one and does not refuse it is open at the end, and of the      *)
(* input channels at least one; all of them when there is no storage       *)
(* channel to make the offers end early.                                   *)
VmbusFindsDevices ==
    At("done") /\ ~b_late /\ b_host.version =>
        LET willing == b_host.has \ b_host.refuses
            open == {ch \in Channels : b_channel[ch].opened}
        IN /\ "storvsc" \in willing => "storvsc" \in open
           /\ b_host.refuses = {} /\ b_host.has \intersect InputChannels # {} =>
                 open \intersect InputChannels # {}
           /\ "storvsc" \notin b_host.has => open = willing

(* A HID device whose answers came late is not lost: once its packets have *)
(* been polled it is ready.  (A keyboard whose answer was late never is.)  *)
HidComesUp ==
    At("done") /\ b_channel["hid"].opened /\ ~b_channel["hid"].refused
        /\ "hid" \notin b_host.asked /\ (MayPoll("hid") => b_packets["hid"] = << >>) =>
        b_channel["hid"].protocol_ready /\ b_channel["hid"].device_ready

(* The driver and the host agree on what there is, and the devices work.   *)
VmbusSound == VmbusAgrees /\ VmbusFindsDevices /\ HidComesUp

=============================================================================
