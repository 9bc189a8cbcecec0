------------------------------ MODULE Messaging ------------------------------
(***************************************************************************)
(* How a DLC message gets from one party to the other: the MessageHandler  *)
(* with its segmentation (dlc-messages) under the lightning transport, and *)
(* the nostr and the in-memory transports.  Byte strings are sequences of  *)
(* bytes that carry the message and the position they come from, so that a *)
(* reassembled message is right exactly when it is the one encoded.  The   *)
(* limits keep the code's offsets from the packet limit MaxData.           *)
(*                                                                         *)
(* External: the connection (LDK's peer manager and TCP deliver in order   *)
(* while connected and lose everything under way when not), the relay (it  *)
(* hands an event to the subscriptions open when it is published, in any   *)
(* order and once) and the manager (Replies).                              *)
(***************************************************************************)
EXTENDS Naturals, Sequences, SequencesExt, FiniteSets

CONSTANTS
    Nodes,        \* the two parties
    Transports,   \* among "lightning", "nostr" and "memory"
    Msgs,         \* records [id, type, len]
    Openings,     \* what the application of each node sends: [Nodes -> SUBSET Msgs]
    Replies,      \* the answer of on_dlc_message: [Msgs -> Msgs \cup {NoReply}]
    NoReply,
    MaxData,      \* MAX_DATA_SIZE, the largest packet
    MaxSegments,
    Capacity,     \* of the in-memory channel
    MaxFaults

ASSUME SizesAssumption == /\ MaxData \in Nat /\ MaxData > 9 /\ MaxSegments \in Nat \ {0}
                          /\ Capacity \in Nat \ {0} /\ MaxFaults \in Nat
ASSUME PartiesAssumption == /\ \E n, p \in Nodes : n # p /\ Nodes = {n, p}
                            /\ Transports \subseteq {"lightning", "nostr", "memory"}
ASSUME MessagesAssumption ==
    /\ \A m \in Msgs : m = [id |-> m.id, type |-> m.type, len |-> m.len] /\ m.len \in Nat
    /\ NoReply \notin Msgs
    /\ \A n \in Nodes : Openings[n] \subseteq Msgs
    /\ \A m \in Msgs : Replies[m] \in Msgs \cup {NoReply}

\* An answer names what it answers: it is sent for one message, and opens nothing.
ASSUME AnswersAssumption ==
    \A m \in Msgs : Replies[m] # NoReply =>
        /\ \A n \in Nodes : Replies[m] \notin Openings[n]
        /\ \A k \in Msgs : Replies[k] = Replies[m] => k = m

VARIABLES
    transport,
    up,          \* whether the process of a node runs (its listener, for nostr)
    connected,   \* whether the lightning peers are connected
    outbox,      \* msg_events
    link,        \* what each node has put on the way to the other
    seized,      \* process_events of a node has panicked
    reader,      \* segment_readers
    broken,      \* the segment_readers mutex is poisoned
    received,    \* msg_received
    batch,       \* the messages process_messages took
    reply,       \* the answer the in-memory listener is sending
    sent,        \* history: what each node sent while it could
    handled,     \* history: what on_dlc_message of each node was given
    faults

vars == <<transport, up, connected, outbox, link, seized, reader, broken, received, batch, reply, sent,
          handled, faults>>

MaxBuf == MaxData + 1        \* MAX_BUF_SIZE of the LDK, 64 * 1024
MaxStartData == MaxData - 9
MaxChunk == MaxData - 7

Peer(n) == CHOOSE p \in Nodes : p # n

\* The types read_dlc_message lists.
ReadableTypes ==
    {"offer", "accept", "sign", "offer_channel", "accept_channel", "sign_channel",
     "settle_offer", "settle_accept", "settle_confirm", "settle_finalize",
     "renew_offer", "renew_accept", "renew_confirm", "renew_finalize",
     "collaborative_close_offer", "reject"}

Encoded(m) == [i \in 1..m.len |-> <<m.id, i>>]
TypePrefix(m) == <<<<m.type, 1>>, <<m.type, 2>>>>
Garbled == [id |-> "garbled", type |-> "garbled", len |-> 0]

\* Reading back bytes that start with a type: the message they encode, or another one.
Decoded(data) ==
    LET whole == {m \in Msgs : data = TypePrefix(m) \o Encoded(m)}
    IN  IF whole = {} THEN Garbled ELSE CHOOSE m \in whole : TRUE

NbSegments(len) ==
    LET rest == len - MaxStartData + 2
    IN  rest \div MaxChunk + 1 + (IF rest % MaxChunk = 0 THEN 0 ELSE 1)

Chunk(data) == [tag |-> "chunk", data |-> data]

\* One chunk less.
GetSegmentsDropsRest(m) ==
    LET bytes == TypePrefix(m) \o Encoded(m)
        nb == (m.len - MaxStartData + 2) \div MaxChunk + 1
        From(i) == MaxStartData + (i - 1) * MaxChunk + 1
    IN  <<[tag |-> "start", nb |-> nb, data |-> SubSeq(bytes, 1, MaxStartData)]>>
            \o [i \in 1..(nb - 1) |-> Chunk(SubSeq(bytes, From(i), From(i) + MaxChunk - 1))]

\* get_segments: the start holds the type and what fits, the chunks the rest.
GetSegments(m) ==
    LET bytes == TypePrefix(m) \o Encoded(m)
        nb == NbSegments(m.len)
        From(i) == MaxStartData + (i - 1) * MaxChunk + 1
        To(i) == IF i = nb - 1 THEN Len(bytes) ELSE From(i) + MaxChunk - 1
    IN  <<[tag |-> "start", nb |-> nb, data |-> SubSeq(bytes, 1, MaxStartData)]>>
            \o [i \in 1..(nb - 1) |-> Chunk(SubSeq(bytes, From(i), To(i)))]

WireMessages(m) ==
    IF m.len > MaxBuf THEN GetSegments(m) ELSE <<[tag |-> "message", msg |-> m]>>

\* What the peer's encryptor gets: the type, and for a segment the lengths get_segments sets aside.
PacketLength(w) ==
    CASE w.tag = "message" -> w.msg.len + 2
      [] w.tag = "start" -> Len(w.data) + 9
      [] w.tag = "chunk" -> Len(w.data) + 7

Fits(w) == PacketLength(w) <= MaxData

EmptyReader == [data |-> <<>>, remaining |-> 0]

ExpectingChunk(r) == r.remaining # 0

Init ==
    /\ transport \in Transports
    /\ up = [n \in Nodes |-> TRUE]
    /\ connected = (transport = "lightning")
    /\ outbox = [n \in Nodes |-> <<>>]
    /\ link = [n \in Nodes |-> <<>>]
    /\ seized = [n \in Nodes |-> FALSE]
    /\ reader = [n \in Nodes |-> EmptyReader]
    /\ broken = [n \in Nodes |-> FALSE]
    /\ received = [n \in Nodes |-> <<>>]
    /\ batch = [n \in Nodes |-> <<>>]
    /\ reply = [n \in Nodes |-> NoReply]
    /\ sent = [n \in Nodes |-> <<>>]
    /\ handled = [n \in Nodes |-> <<>>]
    /\ faults = 0

---------------------------------------------------------------------------
(* Sending.                                                                *)

\* The lock taken for every push: the segments land among those of another call.
EnqueueOneByOne(n, m) ==
    LET wires == WireMessages(m)
    IN  \E i \in 0..Len(outbox[n]), j \in 0..Len(wires) :
            /\ j = Len(wires) \/ i = Len(outbox[n])
            /\ outbox' = [outbox EXCEPT ![n] =
                   SubSeq(@, 1, i) \o SubSeq(wires, 1, j)
                       \o SubSeq(@, i + 1, Len(@)) \o SubSeq(wires, j + 1, Len(wires))]

\* send_message of the MessageHandler: all the segments under one lock.
Enqueue(n, m) == outbox' = [outbox EXCEPT ![n] = @ \o WireMessages(m)]

Remember(n, m) == sent' = [sent EXCEPT ![n] = Append(@, m)]

\* LightningTransport::send_message: nothing is sent to a peer that is not connected, or whose
\* lock is poisoned (peer_by_node_id).
SendLightning(n, m) ==
    IF connected /\ ~seized[n]
    THEN Enqueue(n, m) /\ Remember(n, m)
    ELSE UNCHANGED <<outbox, sent>>

\* An event is published; nobody gets it later who does not listen now.
Publish(n, m) ==
    /\ link' = IF up[Peer(n)] THEN [link EXCEPT ![n] = Append(@, m)] ELSE link
    /\ Remember(n, m)

\* The application hands an opening message to the transport.
Send(n, m) ==
    /\ up[n]
    /\ m \notin Range(sent[n])
    /\ \/ /\ transport = "lightning"
          /\ SendLightning(n, m)
          /\ UNCHANGED link
       \/ /\ transport = "nostr"
          /\ Publish(n, m)
          /\ UNCHANGED outbox
       \/ /\ transport = "memory"
          /\ Len(link[n]) < Capacity
          /\ link' = [link EXCEPT ![n] = Append(@, m)]
          /\ Remember(n, m)
          /\ UNCHANGED outbox
    /\ UNCHANGED <<transport, up, connected, seized, reader, broken, received, batch, reply, handled,
                   faults>>

\* process_events drains msg_events into the connection, or into nothing when there is none.  It
\* encrypts all of it before it writes: a packet that does not fit panics, with the peer's lock
\* held and every later call returning at once, so that nothing goes out or comes in any more.
Flush(n) ==
    /\ up[n]
    /\ ~seized[n]
    /\ outbox[n] # <<>>
    /\ outbox' = [outbox EXCEPT ![n] = <<>>]
    /\ \/ /\ connected
          /\ \A w \in Range(outbox[n]) : Fits(w)
          /\ link' = [link EXCEPT ![n] = @ \o outbox[n]]
          /\ UNCHANGED seized
       \/ /\ connected
          /\ \E w \in Range(outbox[n]) : ~Fits(w)
          /\ seized' = [seized EXCEPT ![n] = TRUE]
          /\ UNCHANGED link
       \/ ~connected /\ UNCHANGED <<link, seized>>
    /\ UNCHANGED <<transport, up, connected, reader, broken, received, batch, reply, sent, handled,
                   faults>>

---------------------------------------------------------------------------
(* The lightning connection and handle_custom_message.                     *)

Tidy == UNCHANGED <<transport, up, outbox, seized, batch, reply, sent, handled>>

\* The next packet for a node, while its handler works.
Arrives(n, w) ==
    /\ transport = "lightning"
    /\ connected
    /\ link[Peer(n)] # <<>>
    /\ ~broken[n]
    /\ ~seized[n]
    /\ w = Head(link[Peer(n)])

TakePacket(n) == link' = [link EXCEPT ![Peer(n)] = Tail(@)] /\ UNCHANGED <<connected, faults>>

\* The handler's error asks for a disconnection.
DisconnectPeer == connected' = FALSE /\ link' = [n \in Nodes |-> <<>>] /\ UNCHANGED faults

Deliver(n, m) == received' = [received EXCEPT ![n] = Append(@, m)]

\* A chunk that is expected.
ReceiveChunk(n, w) ==
    LET r == reader[n]
        data == r.data \o w.data
    IN  /\ w.tag = "chunk"
        /\ ExpectingChunk(r)
        /\ \/ /\ r.remaining > 1
              /\ Len(w.data) # MaxChunk
              /\ DisconnectPeer
              /\ UNCHANGED <<reader, broken, received>>
           \/ /\ r.remaining > 1
              /\ Len(w.data) = MaxChunk
              /\ reader' = [reader EXCEPT ![n] = [data |-> data, remaining |-> @.remaining - 1]]
              /\ TakePacket(n)
              /\ UNCHANGED <<broken, received>>
           \/ /\ r.remaining = 1
              /\ reader' = [reader EXCEPT ![n] = EmptyReader]
              /\ IF Head(data)[1] \in ReadableTypes
                 THEN TakePacket(n) /\ Deliver(n, Decoded(data)) /\ UNCHANGED broken
                 ELSE \* expect("to have a message") with the lock held
                      /\ DisconnectPeer
                      /\ broken' = [broken EXCEPT ![n] = TRUE]
                      /\ UNCHANGED received
        /\ Tidy

\* The reset forgotten.
AfterResetKeeps(n) == reader[n]

\* Anything else: what was being reassembled is given up.
AfterReset(n) == IF ExpectingChunk(reader[n]) THEN EmptyReader ELSE reader[n]

ReceiveStart(n, w) ==
    LET r == AfterReset(n)
    IN  /\ w.tag = "start"
        /\ IF r.data = <<>> /\ w.nb \in 2..MaxSegments /\ Len(w.data) >= MaxStartData
           THEN /\ reader' = [reader EXCEPT ![n] = [data |-> w.data, remaining |-> w.nb - 1]]
                /\ TakePacket(n)
           ELSE /\ reader' = [reader EXCEPT ![n] = r]
                /\ DisconnectPeer
        /\ UNCHANGED <<broken, received>>
        /\ Tidy

\* A whole message; the LDK disconnects when the handler does not know an (even) type.
ReceiveMessage(n, w) ==
    /\ w.tag = "message"
    /\ IF w.msg.type \in ReadableTypes
       THEN /\ reader' = [reader EXCEPT ![n] = AfterReset(n)]
            /\ Deliver(n, w.msg)
            /\ TakePacket(n)
       ELSE DisconnectPeer /\ UNCHANGED <<reader, received>>
    /\ UNCHANGED broken
    /\ Tidy

ReceiveUnexpectedChunk(n, w) ==
    /\ w.tag = "chunk"
    /\ ~ExpectingChunk(reader[n])
    /\ DisconnectPeer
    /\ UNCHANGED <<reader, broken, received>>
    /\ Tidy

HandleCustomMessage(n) ==
    \E w \in Range(link[Peer(n)]) :
        /\ Arrives(n, w)
        /\ \/ ReceiveChunk(n, w)
           \/ ReceiveStart(n, w)
           \/ ReceiveMessage(n, w)
           \/ ReceiveUnexpectedChunk(n, w)

Connect ==
    /\ transport = "lightning"
    /\ ~connected
    /\ \A n \in Nodes : up[n] /\ ~seized[n]
    /\ connected' = TRUE
    /\ UNCHANGED <<transport, up, outbox, link, seized, reader, broken, received, batch, reply, sent, handled,
                   faults>>

\* The connection breaks, or ends as a party does not serve it any more; peer_disconnected keeps
\* the readers as they are.
Disconnect ==
    /\ connected
    /\ \/ faults < MaxFaults /\ faults' = faults + 1
       \/ (\E n \in Nodes : seized[n]) /\ UNCHANGED faults
    /\ connected' = FALSE
    /\ link' = [n \in Nodes |-> <<>>]
    /\ UNCHANGED <<transport, up, outbox, seized, reader, broken, received, batch, reply, sent, handled>>

---------------------------------------------------------------------------
(* The listeners.                                                          *)

\* The tick of process_messages takes everything received.
TakeReceived(n) ==
    /\ transport = "lightning"
    /\ up[n]
    /\ batch[n] = <<>>
    /\ received[n] # <<>>
    /\ batch' = [batch EXCEPT ![n] = received[n]]
    /\ received' = [received EXCEPT ![n] = <<>>]
    /\ UNCHANGED <<transport, up, connected, outbox, link, seized, reader, broken, reply, sent, handled,
                   faults>>

\* What cannot be told from a message of another meaning is refused.
Answer(m) == IF m \in Msgs THEN Replies[m] ELSE NoReply

Handle(n, m) == handled' = [handled EXCEPT ![n] = Append(@, m)]

\* on_dlc_message and its answer, for the next message of the batch.
ProcessMessage(n) ==
    /\ up[n]
    /\ batch[n] # <<>>
    /\ LET m == Head(batch[n])
       IN  /\ batch' = [batch EXCEPT ![n] = Tail(@)]
           /\ Handle(n, m)
           /\ IF Answer(m) = NoReply
              THEN UNCHANGED <<outbox, sent>>
              ELSE SendLightning(n, Answer(m))
    /\ UNCHANGED <<transport, up, connected, link, seized, reader, broken, received, reply, faults>>

\* The nostr listener: parse_dlc_msg_event, on_dlc_message and the answer.
HandleEvent(n) ==
    /\ transport = "nostr"
    /\ up[n]
    /\ \E i \in DOMAIN link[Peer(n)] :
           LET m == link[Peer(n)][i]
               rest == [link EXCEPT ![Peer(n)] = RemoveAt(@, i)]
           IN  IF m.type \notin ReadableTypes
               THEN link' = rest /\ UNCHANGED <<up, sent, handled, faults>>
               ELSE /\ Handle(n, m)
                    /\ \/ /\ Answer(m) = NoReply
                          /\ link' = rest
                          /\ UNCHANGED <<up, sent, faults>>
                       \/ /\ Answer(m) # NoReply
                          /\ link' = IF up[Peer(n)]
                                     THEN [rest EXCEPT ![n] = Append(@, Answer(m))]
                                     ELSE rest
                          /\ Remember(n, Answer(m))
                          /\ UNCHANGED <<up, faults>>
                       \/ \* send_event fails: expect ends the listener
                          /\ Answer(m) # NoReply
                          /\ faults < MaxFaults
                          /\ faults' = faults + 1
                          /\ up' = [up EXCEPT ![n] = FALSE]
                          /\ link' = rest
                          /\ UNCHANGED sent
    /\ UNCHANGED <<transport, connected, outbox, seized, reader, broken, received, batch, reply>>

\* The in-memory listener receives, handles, and then answers, waiting for room.
ReceiveMemory(n) ==
    /\ transport = "memory"
    /\ reply[n] = NoReply
    /\ link[Peer(n)] # <<>>
    /\ LET m == Head(link[Peer(n)])
       IN  Handle(n, m) /\ reply' = [reply EXCEPT ![n] = Answer(m)]
    /\ link' = [link EXCEPT ![Peer(n)] = Tail(@)]
    /\ UNCHANGED <<transport, up, connected, outbox, seized, reader, broken, received, batch, sent,
                   faults>>

AnswerMemory(n) ==
    /\ reply[n] # NoReply
    /\ Len(link[n]) < Capacity
    /\ link' = [link EXCEPT ![n] = Append(@, reply[n])]
    /\ Remember(n, reply[n])
    /\ reply' = [reply EXCEPT ![n] = NoReply]
    /\ UNCHANGED <<transport, up, connected, outbox, seized, reader, broken, received, batch, handled,
                   faults>>

---------------------------------------------------------------------------
(* The process of a node stops and starts again.                           *)

Stop(n) ==
    /\ transport \in {"lightning", "nostr"}
    /\ up[n]
    /\ faults < MaxFaults
    /\ faults' = faults + 1
    /\ up' = [up EXCEPT ![n] = FALSE]
    /\ connected' = FALSE
    /\ link' = IF transport = "lightning" THEN [p \in Nodes |-> <<>>]
               ELSE [link EXCEPT ![Peer(n)] = <<>>]
    /\ outbox' = [outbox EXCEPT ![n] = <<>>]
    /\ seized' = [seized EXCEPT ![n] = FALSE]
    /\ reader' = [reader EXCEPT ![n] = EmptyReader]
    /\ broken' = [broken EXCEPT ![n] = FALSE]
    /\ received' = [received EXCEPT ![n] = <<>>]
    /\ batch' = [batch EXCEPT ![n] = <<>>]
    /\ UNCHANGED <<transport, reply, sent, handled>>

\* The nostr subscription starts at the present: what was missed stays missed.
Start(n) ==
    /\ ~up[n]
    /\ up' = [up EXCEPT ![n] = TRUE]
    /\ link' = [link EXCEPT ![Peer(n)] = <<>>]
    /\ UNCHANGED <<transport, connected, outbox, seized, reader, broken, received, batch, reply, sent,
                   handled, faults>>

Next ==
    \/ Connect
    \/ Disconnect
    \/ \E n \in Nodes :
        \/ \E m \in Openings[n] : Send(n, m)
        \/ Flush(n)
        \/ HandleCustomMessage(n)
        \/ TakeReceived(n)
        \/ ProcessMessage(n)
        \/ HandleEvent(n)
        \/ ReceiveMemory(n)
        \/ AnswerMemory(n)
        \/ Stop(n)
        \/ Start(n)

\* The loops run on: a tick, a packet under way, an event and a queued message are all served.  The
\* listener may have ended with a panic of process_events, or not.
Fairness ==
    \A n \in Nodes :
        /\ WF_vars(Flush(n))
        /\ WF_vars(HandleCustomMessage(n))
        /\ WF_vars(~seized[n] /\ TakeReceived(n))
        /\ WF_vars(~seized[n] /\ ProcessMessage(n))
        /\ WF_vars(HandleEvent(n))
        /\ WF_vars(ReceiveMemory(n))
        /\ WF_vars(AnswerMemory(n))

Spec == Init /\ [][Next]_vars /\ Fairness

---------------------------------------------------------------------------
(* Properties.                                                             *)

\* Every variable has its type; a reader that waits for a chunk holds the data before it.
TypeOK ==
    /\ transport \in Transports
    /\ up \in [Nodes -> BOOLEAN]
    /\ connected \in BOOLEAN
    /\ connected => transport = "lightning" /\ \A n \in Nodes : up[n]
    /\ broken \in [Nodes -> BOOLEAN] /\ seized \in [Nodes -> BOOLEAN]
    /\ faults \in 0..MaxFaults
    /\ \A n \in Nodes :
        /\ reader[n].remaining \in 0..(MaxSegments - 1)
        /\ ExpectingChunk(reader[n]) <=> reader[n].data # <<>>
        /\ Range(sent[n]) \subseteq Msgs
        /\ reply[n] \in Msgs \cup {NoReply}
        /\ transport = "memory" => Len(link[n]) <= Capacity

Arrived(n) == handled[n] \o batch[n] \o received[n]

\* Whether s is t with some of its elements left out.
SubsequenceOf(s, t) ==
    \E chosen \in SUBSET DOMAIN t :
        /\ Cardinality(chosen) = Len(s)
        /\ \A i \in chosen : s[Cardinality({j \in chosen : j <= i})] = t[i]

\* What a party gets is what the other sent, whole, in its order and once, however connections
\* break in the middle of a segmented message: the segments of two messages never mix
\* (send_message, handle_custom_message, SegmentReader).  Relays keep no order.
DeliveredAsSent ==
    \A n \in Nodes :
        IF transport = "nostr"
        THEN Range(Arrived(n)) \subseteq Range(sent[Peer(n)]) /\ IsInjective(Arrived(n))
        ELSE SubsequenceOf(Arrived(n), sent[Peer(n)])

\* The links, readers and queues hold what they can, and deliver what was sent
\* (SegmentReader, MessageHandler's msg_received).
MessagingInv == TypeOK /\ DeliveredAsSent

\* A party that sends what the handler produces is never disconnected for it, not even when its
\* last message was cut by a broken connection and half of it still waits in the reader
\* (SegmentReader::reset, the errors of process_segment_start and process_segment_chunk): a
\* connection ends by a fault, or when process_events has panicked over a packet (Fits).
HonestPeerStaysConnected ==
    [][connected /\ ~connected' => faults' > faults \/ \E n \in Nodes : seized[n]]_vars

\* Both in-memory listeners wait for room in the other's channel, and neither receives.
Jammed == transport = "memory" /\ \A n \in Nodes : reply[n] # NoReply /\ Len(link[n]) = Capacity

\* What is sent is handled: the queues are drained, the last segment completes the message, an
\* answer finds its way, so that again and again nothing is left to handle; unless a connection
\* broke, a process stopped, process_events panicked, or the in-memory listeners wait for each other.
AllHandled == \A n \in Nodes : Range(sent[n]) \subseteq Range(handled[Peer(n)])

SentIsHandled == []<>(AllHandled \/ faults > 0 \/ Jammed \/ \E n \in Nodes : seized[n])

\* MessageHandler "handles message segmentation by splitting large messages when sending", up to the
\* "Maximum allowed size by noise protocol" (MAX_DATA_SIZE): every packet it queues can be sent.
PacketsFit == \A n \in Nodes : \A w \in Range(outbox[n]) : Fits(w)

=============================================================================
