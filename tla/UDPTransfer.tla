---------------------------- MODULE UDPTransfer ----------------------------
(***************************************************************************)
(* Reliable transfer between the two ends of an established UDP            *)
(* connection: the send queue with its retransmissions, the receive        *)
(* windows, the extended acknowledgements and the window announcements, on *)
(* a network that loses, duplicates and reorders datagrams.                *)
(*                                                                         *)
(* Each end runs Connection::ProcessEvents again and again.  One pass is   *)
(* a run of the handlers below, each with the guard it has in the code; a  *)
(* handler's loop is taken one iteration at a time, so what the two ends   *)
(* do interleaves more finely here than in the program.                    *)
(*                                                                         *)
(* A sequenced message (Syn, State, Data) has a position: 0 for the Syn,   *)
(* then 1, 2, ... without end.  The program only ever sees the position    *)
(* modulo the number of sequence numbers; the position itself is there to  *)
(* say what a message really is (a payload is identified with its          *)
(* position), and what an acknowledgement was given for.                   *)
(***************************************************************************)
EXTENDS Integers, Sequences, FiniteSets, UDPSequence

CONSTANTS
    Outbound, Inbound, \* the end that connected, the end that accepted
    InitialSequence,   \* the sequence number of the Syn of each end
    WindowSizes,       \* the receive windows (in items) that an MTU results in
    MaxStateUpdates,   \* bound: announcements of a window, per end
    MaxPayloads,       \* bound: payloads the user of each end writes
    MaxInFlight,       \* bound: datagrams under way at a time
    Outcomes,          \* what may become of a transmission
    DatagramsRepeat    \* whether a datagram may arrive more than once

Endpoint == {Outbound, Inbound}

PeerOf == [e \in Endpoint |-> IF e = Outbound THEN Inbound ELSE Outbound]

\* The largest window is that of the smallest messages, the one every
\* connection starts with.
MaxWindow == CHOOSE w \in WindowSizes : \A v \in WindowSizes : v <= w

ASSUME TransferAssumption ==
    /\ Outbound # Inbound
    /\ InitialSequence \in [Endpoint -> SequenceNumbers]
    /\ WindowSizes \subseteq Nat \ {0}
    /\ \E w \in WindowSizes : \A v \in WindowSizes : v <= w
    /\ MaxStateUpdates \in [Endpoint -> Nat]
    /\ MaxPayloads \in [Endpoint -> Nat]
    /\ MaxInFlight \in Nat \ {0}
    /\ Outcomes \subseteq {"carried", "lost", "refused"}
    /\ DatagramsRepeat \in BOOLEAN

\* MaxReceiveWindowItemSize: a window is at most half of the numbers.
ASSUME WindowAssumption == 2 * MaxWindow <= MaxSequenceNumber

VARIABLES
    sendQueue,     \* m_Queue: the unacknowledged items, oldest first
    nextSend,      \* m_NextSendSequenceNumber
    lastAckSeen,   \* m_LastInSequenceAckedSequenceNumber
    peerAdvWindow, \* m_PeerAdvReceiveWindowItemSize
    lastInOrder,   \* m_LastInOrderReceivedSequenceNumber, its number
    lastIsAcked,   \* m_LastInOrderReceivedSequenceNumber, its flag
    receiveWindow, \* m_ReceiveWindowSize
    receiveQueue,  \* m_ReceiveQueue: the messages kept, one per number
    pendingAcks,   \* m_ReceivePendingAcks, as a set; each with its position
    network,       \* the datagrams under way
    created,       \* history: sequenced messages made by each end
    taken,         \* history: position of the last message taken in order
    sent,          \* history: payloads each end handed to its send queue
    delivered      \* history: payloads each end handed to its user

senderVars   == <<sendQueue, nextSend, lastAckSeen, created, sent>>
receiverVars == <<lastInOrder, receiveQueue, taken, delivered>>
vars == <<sendQueue, nextSend, lastAckSeen, peerAdvWindow, lastInOrder,
          lastIsAcked, receiveWindow, receiveQueue, pendingAcks, network,
          created, taken, sent, delivered>>

-----------------------------------------------------------------------------
(* Messages.  Each names the last message taken in order, by its number     *)
(* (acknum) and, as history, by its position (upTo).                        *)

SequencedMessage ==
    [type : {"Syn", "Data", "State"}, from : Endpoint,
     seqnum : SequenceNumbers, acknum : SequenceNumbers,
     window : Nat, position : Nat, upTo : Nat]

\* What is acknowledged by its own number.
Ack == [seqnum : SequenceNumbers, position : Nat]

AckOf(m) == [seqnum |-> m.seqnum, position |-> m.position]

AckMessage ==
    [type : {"EAck"}, from : Endpoint, acknum : SequenceNumbers, upTo : Nat,
     acks : SUBSET Ack]

\* The sequence number of the message an end makes at a position.
SequenceAt(e, position) ==
    CountOn(InitialSequence[e], position)

Item(message, tried) == [message |-> message, tried |-> tried, acked |-> FALSE]

QueueItem == [message : SequencedMessage, tried : BOOLEAN, acked : BOOLEAN]

\* The window the sender respects: what the peer announced, and no more
\* than fits in the announced bytes at the sender's own message size.
PeerReceiveWindow(e) ==
    IF peerAdvWindow[e] <= receiveWindow[e] THEN peerAdvWindow[e]
                                            ELSE receiveWindow[e]

-----------------------------------------------------------------------------
(* The network is the set of datagrams that may still arrive, in any order *)
(* and after any time, at most MaxInFlight of them.  One that is lost never *)
(* gets there.  One that arrives may stay there when datagrams may repeat.  *)

Carry(message, outcome) ==
    IF outcome = "carried"
    THEN /\ network' = network \cup {message}
         /\ Cardinality(network') <= MaxInFlight
    ELSE UNCHANGED network

Arrive(message) ==
    \/ network' = network \ {message}
    \/ DatagramsRepeat /\ UNCHANGED network

-----------------------------------------------------------------------------
(* The age of numbers.  Nothing in the code stops an end from running      *)
(* through all numbers while an old one is still in use: in a datagram     *)
(* under way, in a message that may be sent again, in an acknowledgement   *)
(* that is due, or as the last one taken.  The 16 bits are meant to last   *)
(* longer than any of these, and this is assumed: of each number the next  *)
(* use comes later.  How many messages a connection sends is not limited.  *)

\* A position can be told by its number from those before the count-th.
IsRecent(position, count) ==
    count + MaxWindow - position <= MaxSequenceNumber

\* Those of e that a message names.  (What a Syn acknowledges is not looked
\* at any more.)
NamesRecent(e, m, count) ==
    IF m.from = e THEN m.type # "EAck" => IsRecent(m.position, count)
    ELSE /\ m.type # "Syn" => IsRecent(m.upTo, count)
         /\ m.type = "EAck" => \A a \in m.acks : IsRecent(a.position, count)

NumbersInUseAreRecent(e, count) ==
    /\ \A m \in network : NamesRecent(e, m, count)
    /\ \A f \in Endpoint : \A i \in DOMAIN sendQueue[f] :
           NamesRecent(e, sendQueue[f][i].message, count)
    /\ \A a \in pendingAcks[PeerOf[e]] : IsRecent(a.position, count)
    /\ IsRecent(taken[PeerOf[e]], count)

-----------------------------------------------------------------------------
(* The send queue.                                                         *)

\* Mutant: acknowledged items stay.
PurgeAcked_Never(queue) == queue

Pending(queue) == {i \in DOMAIN queue : ~queue[i].acked}

Least(numbers) == CHOOSE i \in numbers : \A j \in numbers : i <= j

\* Without the acknowledged items at its front.
PurgeAcked(queue) ==
    IF Pending(queue) = {} THEN <<>>
    ELSE SubSeq(queue, Least(Pending(queue)), Len(queue))

AckItem(item) ==
    [message |-> item.message, tried |-> item.tried, acked |-> TRUE]

AckItems(queue, indices) ==
    [i \in DOMAIN queue |->
        IF i \in indices THEN AckItem(queue[i]) ELSE queue[i]]

\* Every tried item up to the one with the acknowledged number.
ProcessReceivedInSequenceAck(queue, lastSeen, acknum) ==
    LET hits == {i \in DOMAIN queue : queue[i].message.seqnum = acknum}
        newly == {j \in DOMAIN queue : /\ \E i \in hits : j <= i
                                       /\ queue[j].tried
                                       /\ ~queue[j].acked}
    IN  IF acknum = lastSeen \/ newly = {} THEN queue
        ELSE PurgeAcked(AckItems(queue, newly))

\* The items whose numbers are in the acknowledged ranges.
ProcessReceivedAcks(queue, acks) ==
    LET newly == {i \in DOMAIN queue :
                     /\ \E a \in acks : queue[i].message.seqnum = a.seqnum
                     /\ ~queue[i].acked}
    IN  IF newly = {} THEN queue ELSE PurgeAcked(AckItems(queue, newly))

\* Mutant: a message that the socket refuses is not kept for another try.
Add_OnlyIfSent(e, message, outcome) ==
    /\ NumbersInUseAreRecent(e, created[e] + 1)
    /\ sendQueue' = IF outcome = "refused" THEN sendQueue
                    ELSE [sendQueue EXCEPT ![e] = Append(@, Item(message, TRUE))]
    /\ nextSend' = [nextSend EXCEPT ![e] = NextSequenceNumber(@)]
    /\ created' = [created EXCEPT ![e] = @ + 1]
    /\ Carry(message, outcome)

\* Adds a message, sending it at once.  The number of the next message is
\* taken even when the socket refuses this one.
Add(e, message, outcome) ==
    /\ NumbersInUseAreRecent(e, created[e] + 1)
    /\ sendQueue' = [sendQueue EXCEPT
                        ![e] = Append(@, Item(message, outcome # "refused"))]
    /\ nextSend' = [nextSend EXCEPT ![e] = NextSequenceNumber(@)]
    /\ created' = [created EXCEPT ![e] = @ + 1]
    /\ Carry(message, outcome)

\* A message with sequence number, carrying an acknowledgement.
Sequenced(e, type, window) ==
    [type |-> type, from |-> e, seqnum |-> nextSend[e],
     acknum |-> lastInOrder[e], window |-> window, position |-> created[e],
     upTo |-> taken[e]]

\* Hands it to the send queue; what it acknowledges is acknowledged now.
SendSequenced(e, type, window, outcome) ==
    /\ Add(e, Sequenced(e, type, window), outcome)
    /\ lastIsAcked' = [lastIsAcked EXCEPT ![e] = TRUE]

-----------------------------------------------------------------------------
Init ==
    LET syn == [e \in Endpoint |->
                   [type |-> "Syn", from |-> e, seqnum |-> InitialSequence[e],
                    acknum |-> IF e = Inbound THEN InitialSequence[Outbound]
                                              ELSE 0,
                    window |-> 0, position |-> 0, upTo |-> 0]]
    IN
    \* The Syn of the accepting end is not acknowledged yet.  That of the
    \* connecting end was, by the other Syn, unless its number was 0.
    /\ sendQueue = [e \in Endpoint |->
                       IF e = Inbound \/ InitialSequence[e] = 0
                       THEN <<Item(syn[e], TRUE)>> ELSE <<>>]
    /\ nextSend = [e \in Endpoint |-> NextSequenceNumber(InitialSequence[e])]
    /\ lastAckSeen = [e \in Endpoint |->
                         IF e = Inbound THEN 0 ELSE InitialSequence[e]]
    /\ peerAdvWindow = [e \in Endpoint |-> 1]
    /\ lastInOrder = [e \in Endpoint |-> InitialSequence[PeerOf[e]]]
    /\ lastIsAcked = [e \in Endpoint |-> e = Inbound]
    /\ receiveWindow = [e \in Endpoint |-> MaxWindow]
    /\ receiveQueue = [e \in Endpoint |-> {}]
    /\ pendingAcks = [e \in Endpoint |->
                         IF e = Outbound
                         THEN {[seqnum |-> InitialSequence[Inbound], position |-> 0]}
                         ELSE {}]
    /\ network = {}
    /\ created = [e \in Endpoint |-> 1]
    /\ taken = [e \in Endpoint |-> 0]
    /\ sent = [e \in Endpoint |-> <<>>]
    /\ delivered = [e \in Endpoint |-> <<>>]

-----------------------------------------------------------------------------
(* Sending.                                                                *)

\* One payload of the user's data leaves the send buffer, if the peer's
\* window has room for it.  (That the congestion window may hold a message
\* back longer is that this action need not happen.)
SendPendingSocketData(e, outcome) ==
    /\ Len(sent[e]) < MaxPayloads[e]
    /\ Len(sendQueue[e]) < PeerReceiveWindow(e)
    /\ SendSequenced(e, "Data", 0, outcome)
    /\ sent' = [sent EXCEPT ![e] = Append(@, created[e])]
    /\ UNCHANGED <<lastAckSeen, peerAdvWindow, receiveWindow, pendingAcks,
                   receiverVars>>

\* The MTU is known (or to be found again after an address change): the
\* receive window follows from it and is announced, outside any window.
OnMTUUpdate(e, window, outcome) ==
    /\ created[e] < 1 + Len(sent[e]) + MaxStateUpdates[e]
    /\ receiveWindow' = [receiveWindow EXCEPT ![e] = window]
    /\ SendSequenced(e, "State", window, outcome)
    /\ UNCHANGED <<lastAckSeen, peerAdvWindow, pendingAcks, sent, receiverVars>>

TriedItem(item) ==
    [message |-> item.message, tried |-> TRUE, acked |-> item.acked]

\* Mutant: no retransmission.
Process_OnlyOnce(e, i, outcome) ==
    /\ i \in DOMAIN sendQueue[e]
    /\ ~sendQueue[e][i].tried
    /\ sendQueue' = [sendQueue EXCEPT ![e][i] = TriedItem(@)]
    /\ Carry(sendQueue[e][i].message, outcome)
    /\ UNCHANGED <<nextSend, lastAckSeen, created, sent, peerAdvWindow,
                   lastIsAcked, receiveWindow, pendingAcks, receiverVars>>

\* SendQueue::Process for one item that is due: never tried, or not purged
\* since the time that the retransmission timeout allows.  It is sent as it
\* was first written, and also when it is acknowledged already.
Process(e, i, outcome) ==
    /\ i \in DOMAIN sendQueue[e]
    /\ sendQueue' = [sendQueue EXCEPT ![e][i] = TriedItem(@)]
    /\ Carry(sendQueue[e][i].message, outcome)
    /\ UNCHANGED <<nextSend, lastAckSeen, created, sent, peerAdvWindow,
                   lastIsAcked, receiveWindow, pendingAcks, receiverVars>>

\* One message with the number of the last message taken in order and every
\* number received since the last time; nothing when, by the order of the
\* plain numbers, the last of them was acknowledged with data already.
SendPendingAcks(e, outcome) ==
    LET last == CHOOSE a \in pendingAcks[e] :
                    \A b \in pendingAcks[e] : b.seqnum <= a.seqnum
        ack == [type |-> "EAck", from |-> e, acknum |-> lastInOrder[e],
                upTo |-> taken[e], acks |-> pendingAcks[e]]
    IN
    /\ pendingAcks[e] # {}
    /\ IF last.seqnum <= lastInOrder[e] /\ lastIsAcked[e]
       THEN UNCHANGED <<network, lastIsAcked>>
       ELSE /\ Carry(ack, outcome)
            /\ lastIsAcked' = [lastIsAcked EXCEPT ![e] = TRUE]
    /\ pendingAcks' = [pendingAcks EXCEPT ![e] = {}]
    /\ UNCHANGED <<senderVars, peerAdvWindow, receiveWindow, receiverVars>>

-----------------------------------------------------------------------------
(* Receiving.                                                              *)

InSequenceAck(e, acknum) ==
    /\ sendQueue' = [sendQueue EXCEPT
           ![e] = ProcessReceivedInSequenceAck(@, lastAckSeen[e], acknum)]
    /\ lastAckSeen' = [lastAckSeen EXCEPT ![e] = acknum]

\* A Data or State message in the current window: its acknowledgement is
\* processed, the message is kept unless one with its number is kept already,
\* and an acknowledgement is due.
ReceiveCurrent(e, m) ==
    /\ WindowOf(m.seqnum, lastInOrder[e], receiveWindow[e]) = "Current"
    /\ InSequenceAck(e, m.acknum)
    /\ receiveQueue' = [receiveQueue EXCEPT
           ![e] = IF \E k \in @ : k.seqnum = m.seqnum THEN @ ELSE @ \cup {m}]
    /\ pendingAcks' = [pendingAcks EXCEPT ![e] = @ \cup {AckOf(m)}]
    /\ lastIsAcked' = [lastIsAcked EXCEPT ![e] = FALSE]
    /\ UNCHANGED <<lastInOrder, taken, delivered>>

\* Mutant: an old message is dropped without another acknowledgement.
ReceivePrevious_NoAck(e, m) ==
    /\ WindowOf(m.seqnum, lastInOrder[e], receiveWindow[e]) = "Previous"
    /\ UNCHANGED <<sendQueue, lastAckSeen, pendingAcks, lastIsAcked,
                   receiverVars>>

\* One in the previous window was received before; its acknowledgement may
\* have been lost, so another one is due.  What it acknowledges is ignored.
ReceivePrevious(e, m) ==
    /\ WindowOf(m.seqnum, lastInOrder[e], receiveWindow[e]) = "Previous"
    /\ pendingAcks' = [pendingAcks EXCEPT ![e] = @ \cup {AckOf(m)}]
    /\ lastIsAcked' = [lastIsAcked EXCEPT ![e] = FALSE]
    /\ UNCHANGED <<sendQueue, lastAckSeen, receiverVars>>

\* One in neither window is dropped.
ReceiveUnknown(e, m) ==
    /\ WindowOf(m.seqnum, lastInOrder[e], receiveWindow[e]) = "Unknown"
    /\ UNCHANGED <<sendQueue, lastAckSeen, pendingAcks, lastIsAcked,
                   receiverVars>>

ReceiveSequenced(e, m) ==
    /\ m.type \in {"Data", "State"}
    /\ m.from = PeerOf[e]
    /\ ReceiveCurrent(e, m) \/ ReceivePrevious(e, m) \/ ReceiveUnknown(e, m)
    /\ Arrive(m)
    /\ UNCHANGED <<nextSend, created, sent, peerAdvWindow, receiveWindow>>

\* A retransmitted Syn is ignored: it is not acknowledged again either.
ReceiveSyn(e, m) ==
    /\ m.type = "Syn"
    /\ m.from = PeerOf[e]
    /\ Arrive(m)
    /\ UNCHANGED <<senderVars, receiverVars, peerAdvWindow, lastIsAcked,
                   receiveWindow, pendingAcks>>

ReceiveEAck(e, m) ==
    /\ m.type = "EAck"
    /\ m.from = PeerOf[e]
    /\ sendQueue' = [sendQueue EXCEPT
           ![e] = ProcessReceivedAcks(
                      ProcessReceivedInSequenceAck(@, lastAckSeen[e], m.acknum),
                      m.acks)]
    /\ lastAckSeen' = [lastAckSeen EXCEPT ![e] = m.acknum]
    /\ Arrive(m)
    /\ UNCHANGED <<nextSend, created, sent, peerAdvWindow, lastIsAcked,
                   receiveWindow, pendingAcks, receiverVars>>

\* Mutant: the message with the least number leaves, whether or not those
\* before it have arrived.
ReceivePendingSocketData_Least(e) ==
    \E m \in receiveQueue[e] :
        /\ \A k \in receiveQueue[e] : m.seqnum <= k.seqnum
        /\ IF m.type = "Data"
           THEN /\ delivered' = [delivered EXCEPT ![e] = Append(@, m.position)]
                /\ UNCHANGED peerAdvWindow
           ELSE /\ peerAdvWindow' = [peerAdvWindow EXCEPT ![e] = m.window]
                /\ UNCHANGED delivered
        /\ lastInOrder' = [lastInOrder EXCEPT ![e] = m.seqnum]
        /\ lastIsAcked' = [lastIsAcked EXCEPT ![e] = FALSE]
        /\ receiveQueue' = [receiveQueue EXCEPT ![e] = @ \ {m}]
        /\ taken' = [taken EXCEPT ![e] = @ + 1]
        /\ UNCHANGED <<senderVars, receiveWindow, pendingAcks, network>>

\* The next message in order leaves the receive queue: a payload goes to the
\* user when the receive buffer has room for it (this action need not happen
\* before the user reads), a window announcement takes effect.
ReceivePendingSocketData(e) ==
    \E m \in receiveQueue[e] :
        /\ m.seqnum = NextSequenceNumber(lastInOrder[e])
        /\ IF m.type = "Data"
           THEN /\ delivered' = [delivered EXCEPT ![e] = Append(@, m.position)]
                /\ UNCHANGED peerAdvWindow
           ELSE /\ peerAdvWindow' = [peerAdvWindow EXCEPT ![e] = m.window]
                /\ UNCHANGED delivered
        /\ lastInOrder' = [lastInOrder EXCEPT ![e] = m.seqnum]
        /\ lastIsAcked' = [lastIsAcked EXCEPT ![e] = FALSE]
        /\ receiveQueue' = [receiveQueue EXCEPT ![e] = @ \ {m}]
        /\ taken' = [taken EXCEPT ![e] = @ + 1]
        /\ UNCHANGED <<senderVars, receiveWindow, pendingAcks, network>>

-----------------------------------------------------------------------------
Next ==
    \E e \in Endpoint :
        \/ \E outcome \in Outcomes :
               \/ SendPendingSocketData(e, outcome)
               \/ \E window \in WindowSizes : OnMTUUpdate(e, window, outcome)
        \/ \E outcome \in Outcomes \ {"refused"} :
               \/ \E i \in DOMAIN sendQueue[e] : Process(e, i, outcome)
               \/ SendPendingAcks(e, outcome)
        \/ \E m \in network : \/ ReceiveSequenced(e, m)
                              \/ ReceiveSyn(e, m)
                              \/ ReceiveEAck(e, m)
        \/ ReceivePendingSocketData(e)

Spec == Init /\ [][Next]_vars

\* Each end keeps running ProcessEvents, its user keeps reading, the network
\* does not lose the same thing for ever and what it carries arrives once.
\* The first window announcement is due as soon as MTU discovery ends, which
\* it does, found or not.
Fairness ==
    \A e \in Endpoint :
        /\ WF_vars(ReceivePendingSocketData(e))
        /\ WF_vars(/\ created[e] = 1 + Len(sent[e])
                   /\ \E window \in WindowSizes, outcome \in Outcomes :
                          OnMTUUpdate(e, window, outcome))
        /\ SF_vars(SendPendingAcks(e, "carried"))
        /\ \A p \in 0..MaxPayloads[e] + MaxStateUpdates[e] :
               SF_vars(\E i \in DOMAIN sendQueue[e] :
                           /\ sendQueue[e][i].message.position = p
                           /\ Process(e, i, "carried"))
        /\ \A p \in 1..MaxPayloads[PeerOf[e]] + MaxStateUpdates[PeerOf[e]] :
               WF_vars(\E m \in network :
                           /\ m.type # "EAck"
                           /\ m.position = p
                           /\ ReceiveSequenced(e, m))
        /\ WF_vars(\E m \in network : ReceiveSyn(e, m) \/ ReceiveEAck(e, m))
        /\ WF_vars(\E m \in network : /\ ReceiveEAck(e, m)
                                      /\ sendQueue' # sendQueue)

FairSpec == Spec /\ Fairness

-----------------------------------------------------------------------------
(* Properties.                                                             *)

TypeOK ==
    /\ sendQueue \in [Endpoint -> Seq(QueueItem)]
    /\ nextSend \in [Endpoint -> SequenceNumbers]
    /\ lastAckSeen \in [Endpoint -> SequenceNumbers]
    /\ peerAdvWindow \in [Endpoint -> Nat]
    /\ lastInOrder \in [Endpoint -> SequenceNumbers]
    /\ lastIsAcked \in [Endpoint -> BOOLEAN]
    /\ receiveWindow \in [Endpoint -> WindowSizes]
    /\ receiveQueue \in [Endpoint -> SUBSET SequencedMessage]
    /\ pendingAcks \in [Endpoint -> SUBSET Ack]
    /\ network \subseteq SequencedMessage \cup AckMessage
    /\ created \in [Endpoint -> Nat]
    /\ taken \in [Endpoint -> Nat]
    /\ sent \in [Endpoint -> Seq(Nat)]
    /\ delivered \in [Endpoint -> Seq(Nat)]

\* Has the end e accepted its peer's message at a position, for good?
Received(e, position) ==
    \/ position <= taken[e]
    \/ \E m \in receiveQueue[e] : m.position = position

Queued(e, position) ==
    \E i \in DOMAIN sendQueue[e] : sendQueue[e][i].message.position = position

\* No false acknowledgement: a sender forgets a message (purges it, or marks
\* it acknowledged, which frees its place in the window) only if the peer has
\* it, even though acknowledgements arrive late, twice and out of order and
\* the numbers in them wrap around.
NoFalseAck ==
    \A e \in Endpoint : \A p \in 1..created[e] - 1 :
        Received(PeerOf[e], p)
        \/ \E i \in DOMAIN sendQueue[e] : /\ sendQueue[e][i].message.position = p
                                          /\ ~sendQueue[e][i].acked

\* What waits in the receive queue is new and belongs where its number says:
\* an old duplicate is never taken for one of the next messages, and no more
\* than a window of messages is kept.
ReceiveQueueIsAhead ==
    \A e \in Endpoint : \A m \in receiveQueue[e] :
        /\ m.from = PeerOf[e]
        /\ m.position \in taken[e] + 1 .. taken[e] + MaxWindow
        /\ m.seqnum = SequenceAt(m.from, m.position)

\* The unacknowledged items are the last ones made, without a gap up to the
\* next number, and the oldest is still to be acknowledged: otherwise the
\* window would stay closed although the peer has everything in it.
SendQueueIsSuffix ==
    \A e \in Endpoint :
        LET first == created[e] - Len(sendQueue[e]) IN
        /\ \A i \in DOMAIN sendQueue[e] :
               sendQueue[e][i].message.position = first + i - 1
        /\ nextSend[e] = SequenceAt(e, created[e])
        /\ sendQueue[e] # <<>> => ~Head(sendQueue[e]).acked

\* The users see a reliable channel in each direction.
Channel == INSTANCE ReliableChannel WITH Payload <- Nat

ImplementsChannel == Channel!Spec

\* Every payload that enters the send queue reaches the peer's user.
EverySentIsDelivered ==
    \A e \in Endpoint : \A n \in 1..MaxPayloads[e] :
        Len(sent[e]) >= n ~> Len(delivered[PeerOf[e]]) >= n

\* Every item is acknowledged in the end: retransmission stops, also for the
\* Syn of the accepting end and for messages that only the peer's repeated
\* acknowledgement can confirm.
SendQueueDrains ==
    \A e \in Endpoint : sendQueue[e] # <<>> ~> sendQueue[e] = <<>>
=============================================================================
