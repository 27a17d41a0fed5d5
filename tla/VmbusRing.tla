----------------------------- MODULE VmbusRing -----------------------------
(***************************************************************************)
(* A ring of a VMBus channel as src/kernel/hyperv_storage.c uses it: one   *)
(* page of data with a write index of the sender and a read index of the   *)
(* receiver.  A packet is a header, which says its length and where its    *)
(* payload begins, the payload padded to whole words, and a trailing word  *)
(* with the index it began at.  The unit here is the word of eight bytes.  *)
(*                                                                         *)
(* The driver writes packets without looking at the read index.            *)
(***************************************************************************)
EXTENDS Naturals, Sequences

CONSTANTS
    RingWords,     \* VSP_RING_DATA_SIZE, in words
    HeaderWords,   \* a VSP_PKT_HDR, in words
    PacketShapes,  \* [prefix, payload] of packets, in words
    BufferWords,   \* the receiver's buffer
    MaxPackets     \* bound on the packets sent, and on those received

ASSUME VmbusRingAssumption ==
    /\ RingWords \in Nat \ {0} /\ HeaderWords \in Nat \ {0}
    /\ PacketShapes \subseteq [prefix : Nat, payload : Nat]
    /\ BufferWords \in Nat /\ MaxPackets \in Nat

VARIABLES
    r_data,        \* the data page
    r_write,       \* write index in the header page
    r_read,        \* read index in the header page
    r_sent,        \* the packets sent
    r_received,    \* the payloads received
    r_overrun,     \* a packet was written over words not yet read
    r_stuck        \* the receiver met a header it does not believe

ringVars == <<r_data, r_write, r_read, r_sent, r_received, r_overrun, r_stuck>>

Garbage == [kind |-> "garbage"]

(* A packet word by word.  A prefix stands for the descriptors between the *)
(* header and the payload of a vsp_ring_send_gpa.                          *)
HeaderWord(shape, id) ==
    [kind |-> "header", offset |-> HeaderWords + shape.prefix,
     total |-> HeaderWords + shape.prefix + shape.payload, id |-> id]

PacketWords(shape, id, at) ==
    [i \in 1 .. HeaderWords |-> HeaderWord(shape, id)]
    \o [i \in 1 .. shape.prefix |-> Garbage]
    \o [i \in 1 .. shape.payload |-> [kind |-> "payload", id |-> id, at |-> i]]
    \o << [kind |-> "trailing", index |-> at] >>

(* ring_put_byte, for all words of a packet                                *)
PutWords(data, at, words) ==
    [i \in 0 .. RingWords - 1 |->
        LET k == ((i + RingWords - at) % RingWords) + 1
        IN IF k \in DOMAIN words THEN words[k] ELSE data[i]]

Unread == (r_write + RingWords - r_read) % RingWords

(* vsp_ring_send, vsp_ring_send_gpa, hyperv_ring_send_inband: the write    *)
(* index is set when the whole packet is in the ring.                      *)
RingSend(shape) ==
    LET id == Len(r_sent) + 1
        words == PacketWords(shape, id, r_write)
    IN /\ Len(r_sent) < MaxPackets
       /\ r_data' = PutWords(r_data, r_write, words)
       /\ r_write' = (r_write + Len(words)) % RingWords
       /\ r_sent' = Append(r_sent, [id |-> id, payload |-> shape.payload])
       /\ r_overrun' = (r_overrun \/ Unread + Len(words) >= RingWords)
       /\ UNCHANGED <<r_read, r_received, r_stuck>>

(* Header, prefix, payload, what does not fit into the buffer, and the     *)
(* trailing word are passed over.                                          *)
AfterPacket(from, total) == (from + total + 1) % RingWords

(* vsp_ring_recv, hyperv_ring_recv_payload.  A header that cannot be is    *)
(* left where it is: every later call meets it again.                      *)
RingReceive ==
    LET header == r_data[r_read] IN
    /\ r_read # r_write /\ ~r_stuck /\ Len(r_received) < MaxPackets
    /\ IF \/ header.kind # "header" \/ header.offset < HeaderWords
          \/ header.offset > header.total
       THEN r_stuck' = TRUE /\ UNCHANGED <<r_read, r_received>>
       ELSE LET size == header.total - header.offset
                copied == IF size < BufferWords THEN size ELSE BufferWords
            IN /\ r_received' = Append(r_received,
                     [i \in 1 .. copied |-> r_data[(r_read + header.offset + i - 1) % RingWords]])
               /\ r_read' = AfterPacket(r_read, header.total)
               /\ UNCHANGED r_stuck
    /\ UNCHANGED <<r_data, r_write, r_sent, r_overrun>>

RingInit ==
    /\ r_data = [i \in 0 .. RingWords - 1 |-> Garbage]
    /\ r_write = 0 /\ r_read = 0
    /\ r_sent = << >> /\ r_received = << >>
    /\ r_overrun = FALSE /\ r_stuck = FALSE

RingNext == (\E shape \in PacketShapes : RingSend(shape)) \/ RingReceive

RingSpec == RingInit /\ [][RingNext]_ringVars

-----------------------------------------------------------------------------
(* Packets come out of the ring in the order they went in, once each, with *)
(* as much of their payload as the buffer takes, wherever they wrap, as    *)
(* long as the receiver keeps up with the sender.                          *)
RingDelivers ==
    ~r_overrun =>
        /\ ~r_stuck
        /\ Len(r_received) <= Len(r_sent)
        /\ \A n \in DOMAIN r_received :
              LET size == r_sent[n].payload
                  copied == IF size < BufferWords THEN size ELSE BufferWords
              IN r_received[n] = [i \in 1 .. copied |-> [kind |-> "payload", id |-> n, at |-> i]]
        /\ r_read = r_write => Len(r_received) = Len(r_sent)

=============================================================================
