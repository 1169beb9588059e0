---------------------------- MODULE UDPHandshake ----------------------------
(***************************************************************************)
(* The establishment of one UDP connection: the connecting (outbound) end, *)
(* the listener with its cookies, and the inbound connections that connect *)
(* messages (Syns) create in the worker threads of the accepting side.  A  *)
(* retransmitted, repeated or late Syn may create another inbound          *)
(* connection with the same ID; the i-th one is called incarnation i.      *)
(*                                                                         *)
(* Sequence numbers are positions here: the first Syn has position 0.  The *)
(* first number is random, so any position may be the one whose number is  *)
(* 0, which is also what the send queue takes for the last that has been   *)
(* acknowledged before any has.  How numbers wrap, the windows and what    *)
(* follows the handshake are in UDPTransfer.                               *)
(***************************************************************************)
EXTENDS Naturals, Sequences, FiniteSets

CONSTANTS
    WorkerThreads,   \* threads of the connection manager, a map of IDs each
    Threshold,       \* ConnectCookieRequirementThreshold
    OtherHandshakes, \* numbers of handshakes with other peers in progress
    CookiesExpire,   \* whether a cookie may come back too late
    Failures,        \* what else may happen: see where each is used
    DatagramsRepeat, \* whether a datagram may arrive more than once
    ZeroPositions,   \* the positions that may have the number 0
    MaxIncarnations, \* bound: inbound connections created
    MaxSyns,         \* bound: Syns made by the outbound end
    MaxKeepAlives    \* bound: keepalives under way to the outbound end

ASSUME HandshakeAssumption ==
    /\ WorkerThreads # {}
    /\ Threshold \in Nat
    /\ OtherHandshakes \subseteq Nat
    /\ CookiesExpire \in BOOLEAN
    /\ Failures \subseteq {"timeout", "close", "grace"}
    /\ DatagramsRepeat \in BOOLEAN
    /\ ZeroPositions \subseteq Nat
    /\ MaxIncarnations \in Nat
    /\ MaxSyns \in Nat
    /\ MaxKeepAlives \in Nat

Incarnation == 1..MaxIncarnations

\* Where a message goes to or comes from: the listener's socket, or the socket
\* of an inbound connection.  The same numbers stand for the keys: the default
\* keys, and those derived in the handshake with an incarnation.
Socket == 0..MaxIncarnations
Listener == 0
DefaultKeys == 0

VARIABLES
    status,        \* m_Status of the outbound end
    condition,     \* its m_CloseCondition
    nextSend,      \* its m_NextSendSequenceNumber
    delayed,       \* its m_DelayedSendQueue
    queue,         \* its m_SendQueue
    peer,          \* the connection whose keys it writes with, or the default keys
    endpoint,      \* its m_PeerEndpoint
    ackDue,        \* its m_ReceivePendingAcks is not empty
    made,          \* bound: Syns it made
    keysExpired,   \* it no longer reads with the default keys
    created,       \* inbound connections created
    accepting,     \* the one the listener's thread is creating, or 0
    inStatus,      \* m_Status of each incarnation
    inCondition,   \* its m_CloseCondition
    inThread,      \* the worker thread that has it in its map
    inLast,        \* its m_LastInOrderReceivedSequenceNumber
    inSyn,         \* where its Syn is
    inKeysExpired, \* it no longer reads with the default keys
    numHandshakes, \* this peer's part of m_NumIncomingHandshakesInProgress
    established,   \* history: incarnations that were connected
    zeroPosition,  \* the position whose number is 0
    trouble,       \* history: "cookie" was asked for, an "interface" has changed, the
                   \* outbound end was "moved" to an endpoint that is not its peer's
    toOutbound, toInbound \* datagrams under way

outVars == <<status, condition, nextSend, delayed, queue, peer, endpoint, ackDue, made>>
inVars == <<inStatus, inCondition, inLast, inSyn, numHandshakes, established>>
mapVars == <<created, accepting, inThread>>
keyVars == <<keysExpired, inKeysExpired>>
restVars == <<keyVars, zeroPosition, trouble>>
vars == <<outVars, inVars, mapVars, restVars, toOutbound, toInbound>>

-----------------------------------------------------------------------------
(* Messages.  Data and State messages are left out: for the handshake they *)
(* do what the extended acknowledgement does.                              *)

Syn == [type : {"Syn"}, keys : {DefaultKeys}, seqnum : Nat, cookie : BOOLEAN]

OutboundMessage ==
    [to : Socket, keys : Socket, type : {"EAck", "Null", "Reset"}]
    \cup [to : Socket, keys : {DefaultKeys}, type : {"Syn"}, seqnum : Nat,
          cookie : BOOLEAN]

InboundMessage ==
    [from : Socket, keys : Socket, type : {"Cookie", "Null", "Reset"}]
    \cup [from : {Listener}, keys : {DefaultKeys}, type : {"Syn"},
          connection : Incarnation, acknum : Nat]

\* To where the peer's endpoint is by then, with the keys of then.
Send(type) ==
    toInbound' = toInbound \cup {[to |-> endpoint, keys |-> peer, type |-> type]}

\* A Syn was written with the default keys.
SendSyn(syn) ==
    toInbound' = toInbound \cup
        {[to |-> endpoint, keys |-> DefaultKeys, type |-> "Syn",
          seqnum |-> syn.seqnum, cookie |-> syn.cookie]}

Reply(type, from, keys) ==
    toOutbound' = toOutbound \cup {[from |-> from, keys |-> keys, type |-> type]}

ArriveAtOutbound(m) ==
    \/ toOutbound' = toOutbound \ {m}
    \/ DatagramsRepeat /\ UNCHANGED toOutbound

ArriveAtInbound(m) ==
    \/ toInbound' = toInbound \ {m}
    \/ DatagramsRepeat /\ UNCHANGED toInbound

Lose ==
    /\ \/ \E m \in toOutbound : toOutbound' = toOutbound \ {m} /\ UNCHANGED toInbound
       \/ \E m \in toInbound : toInbound' = toInbound \ {m} /\ UNCHANGED toOutbound
    /\ UNCHANGED <<outVars, inVars, mapVars, restVars>>

-----------------------------------------------------------------------------
Init ==
    /\ status = "Open" /\ condition = "None"
    /\ nextSend = 0 /\ delayed = {} /\ queue = <<>> /\ made = 0
    /\ peer = DefaultKeys /\ endpoint = Listener /\ ackDue = FALSE /\ keysExpired = FALSE
    /\ created = 0 /\ accepting = 0 /\ numHandshakes = 0
    /\ inStatus = [i \in Incarnation |-> "None"]
    /\ inCondition = [i \in Incarnation |-> "None"]
    /\ inThread \in [Incarnation -> {CHOOSE t \in WorkerThreads : TRUE}]
    /\ inLast = [i \in Incarnation |-> 0]
    /\ inSyn = [i \in Incarnation |-> "unsent"]
    /\ inKeysExpired = [i \in Incarnation |-> FALSE]
    /\ zeroPosition \in ZeroPositions
    /\ established = {} /\ trouble = {}
    /\ toOutbound = {} /\ toInbound = {}

-----------------------------------------------------------------------------
(* The outbound end.                                                       *)

Running == status \in {"Handshake", "Connected"}

\* The Syn has the next sequence number of now, although it is added to the
\* send queue, where the next number is counted on, only after a delay.
SendOutboundSyn(cookie) ==
    /\ made < MaxSyns
    /\ made' = made + 1
    /\ delayed' = delayed \cup
           {[seqnum |-> nextSend, cookie |-> cookie, id |-> made']}

\* The socket asked for a connection.
Connect ==
    /\ status = "Open"
    /\ SendOutboundSyn(FALSE)
    /\ status' = "Handshake"
    /\ UNCHANGED <<condition, nextSend, queue, peer, endpoint, ackDue,
                   inVars, mapVars, restVars, toOutbound, toInbound>>

\* A Syn whose delay is over is added to the send queue, which sends it.
SendDelayedItem ==
    /\ Running
    /\ \E syn \in delayed :
           /\ delayed' = delayed \ {syn}
           /\ queue' = Append(queue, syn)
           /\ nextSend' = nextSend + 1
           /\ SendSyn(syn)
    /\ UNCHANGED <<status, condition, peer, endpoint, ackDue, made,
                   inVars, mapVars, restVars, toOutbound>>

\* SendQueue::Process for one item that is due.
Retransmit ==
    /\ Running
    /\ \E k \in DOMAIN queue : SendSyn(queue[k])
    /\ UNCHANGED <<outVars, inVars, mapVars, restVars, toOutbound>>

\* The acknowledgement of the inbound Syn.
SendPendingAcks ==
    /\ status = "Connected"
    /\ ackDue
    /\ ackDue' = FALSE
    /\ Send("EAck")
    /\ UNCHANGED <<status, condition, nextSend, delayed, queue, peer, endpoint, made,
                   inVars, mapVars, restVars, toOutbound>>

SendKeepAlive ==
    /\ status = "Connected"
    /\ Send("Null")
    /\ UNCHANGED <<outVars, inVars, mapVars, restVars, toOutbound>>

\* Mutant: the acknowledged item itself stays.
AfterAck_Older(acknum) ==
    LET hits == {k \in DOMAIN queue : queue[k].seqnum = acknum}
        first == CHOOSE k \in hits : \A j \in hits : k <= j
    IN  IF acknum = zeroPosition \/ hits = {} THEN queue
                                             ELSE SubSeq(queue, first, Len(queue))

\* The queue after the first item with the acknowledged number, if it is there.  The
\* number 0 is ignored: it is the one that was acknowledged last, before any was.
AfterAck(acknum) ==
    LET hits == {k \in DOMAIN queue : queue[k].seqnum = acknum}
        first == CHOOSE k \in hits : \A j \in hits : k <= j
    IN  IF acknum = zeroPosition \/ hits = {} THEN queue
                                             ELSE SubSeq(queue, first + 1, Len(queue))

\* The peer's connection acknowledges the first message after the Syn that it takes (Data,
\* and left out here): all older items of the queue are purged with it.
DataIsAcknowledged ==
    /\ status = "Connected"
    /\ queue # <<>>
    /\ endpoint = peer /\ inStatus[peer] = "Connected" /\ nextSend = inLast[peer] + 1
    /\ queue' = <<>>
    /\ UNCHANGED <<status, condition, nextSend, delayed, peer, endpoint, ackDue, made,
                   inVars, mapVars, restVars, toOutbound, toInbound>>

OutboundCanRead(m) ==
    \/ m.keys = peer
    \/ m.keys = DefaultKeys /\ ~keysExpired

\* Mutant: a connected end accepts another Syn.
ReceiveInboundSyn_Again(m) ==
    /\ m.type = "Syn"
    /\ Running
    /\ queue' = AfterAck(m.acknum)
    /\ status' = "Connected"
    /\ peer' = m.connection /\ endpoint' = m.connection
    /\ ackDue' = TRUE
    /\ UNCHANGED <<condition, nextSend, delayed, made>>

\* The Syn of an inbound connection ends the handshake of this end: it goes
\* on with the derived keys, to the port that the Syn told.
ReceiveInboundSyn(m) ==
    /\ m.type = "Syn"
    /\ status = "Handshake"
    /\ queue' = AfterAck(m.acknum)
    /\ status' = "Connected"
    /\ peer' = m.connection /\ endpoint' = m.connection
    /\ ackDue' = TRUE
    /\ UNCHANGED <<condition, nextSend, delayed, made>>

\* Mutant: the cookie is not sent back.
ReceiveCookie_Forgotten(m) ==
    /\ m.type = "Cookie"
    /\ status = "Handshake"
    /\ queue' = <<>>
    /\ SendOutboundSyn(FALSE)
    /\ UNCHANGED <<status, condition, nextSend, peer, endpoint, ackDue>>

\* The connect message is sent again, with the cookie and another number.
ReceiveCookie(m) ==
    /\ m.type = "Cookie"
    /\ status = "Handshake"
    /\ queue' = <<>>
    /\ SendOutboundSyn(TRUE)
    /\ UNCHANGED <<status, condition, nextSend, peer, endpoint, ackDue>>

ReceiveReset(m) ==
    /\ m.type = "Reset"
    /\ status = "Connected"
    /\ status' = "Closed"
    /\ condition' = "PeerCloseRequest"
    /\ UNCHANGED <<nextSend, delayed, queue, peer, endpoint, ackDue, made>>

\* A keepalive from elsewhere moves the peer's endpoint, but never back to the listener.
CheckEndpointChange(m) ==
    /\ m.type = "Null"
    /\ status = "Connected"
    /\ m.from # Listener
    /\ endpoint' = m.from
    /\ UNCHANGED <<status, condition, nextSend, delayed, queue, peer, ackDue, made>>

\* Null in other cases, and the messages of a handshake that is over.
IgnoreMessage(m) ==
    /\ \/ m.type = "Null" /\ (status = "Handshake" \/ m.from = Listener)
       \/ status = "Connected" /\ m.type \in {"Syn", "Cookie"}
    /\ UNCHANGED outVars

OutboundReceive ==
    /\ Running
    /\ \E m \in toOutbound :
           /\ OutboundCanRead(m)
           /\ \/ ReceiveInboundSyn(m)
              \/ ReceiveCookie(m)
              \/ ReceiveReset(m)
              \/ CheckEndpointChange(m)
              \/ IgnoreMessage(m)
           /\ ArriveAtOutbound(m)
    /\ trouble' = IF endpoint' = peer' THEN trouble ELSE trouble \cup {"moved"}
    /\ UNCHANGED <<inVars, mapVars, keyVars, zeroPosition, toInbound>>

\* The outbound end closes, and resets its peer if it is connected.
CloseOutbound(reason) ==
    /\ status' = "Closed"
    /\ condition' = reason
    /\ IF status = "Connected" THEN Send("Reset") ELSE UNCHANGED toInbound
    /\ UNCHANGED <<nextSend, delayed, queue, peer, endpoint, ackDue, made>>

\* A message that cannot be read is fatal when it comes from the endpoint of
\* the peer; otherwise it is dropped.
OutboundCannotRead ==
    /\ Running
    /\ \E m \in toOutbound :
           /\ ~OutboundCanRead(m)
           /\ IF m.from = endpoint THEN CloseOutbound("UnknownMessageError")
                               ELSE UNCHANGED <<outVars, toInbound>>
           /\ ArriveAtOutbound(m)
    /\ UNCHANGED <<inVars, mapVars, restVars>>

OutboundStops ==
    /\ \/ /\ "timeout" \in Failures
          /\ status = "Handshake"
          /\ CloseOutbound("TimedOutError")
       \/ /\ "close" \in Failures
          /\ status # "Closed"
          /\ CloseOutbound("LocalCloseRequest")
    /\ UNCHANGED <<inVars, mapVars, restVars, toOutbound>>

\* A Syn numbered 0 is still sent to a connection.
SynZeroIsSent(i) ==
    \/ endpoint = i /\ \E k \in DOMAIN queue : queue[k].seqnum = zeroPosition
    \/ \E m \in toInbound : m.type = "Syn" /\ m.to = i /\ m.seqnum = zeroPosition

\* The default keys are read with for two minutes after the others are there.
\* That is far longer than it takes the handshake to end or to time out, and the
\* first Data to be acknowledged, with which a Syn numbered 0 leaves the queue.
KeysExpire ==
    /\ "grace" \in Failures
    /\ \/ /\ status = "Connected"
          /\ keysExpired' = TRUE
          /\ UNCHANGED inKeysExpired
       \/ \E i \in Incarnation :
              /\ inStatus[i] = "Connected"
              /\ ~SynZeroIsSent(i)
              /\ inKeysExpired' = [inKeysExpired EXCEPT ![i] = TRUE]
              /\ UNCHANGED keysExpired
    /\ UNCHANGED <<outVars, inVars, mapVars, zeroPosition, trouble, toOutbound, toInbound>>

-----------------------------------------------------------------------------
(* The listener and the connection manager.                                *)

Live(i) == inStatus[i] \in {"Open", "Handshake", "Connected"}

\* AddConnection, in the thread with the fewest connections: that may be any
\* of them, as the connections of other peers come and go.  A thread that has
\* one with this ID refuses another.
AddConnection(seqnum) ==
    \E t \in WorkerThreads :
        \/ /\ \E i \in Incarnation : Live(i) /\ inThread[i] = t
           /\ UNCHANGED <<inVars, mapVars>>
        \/ /\ ~ \E i \in Incarnation : Live(i) /\ inThread[i] = t
           /\ created < MaxIncarnations
           /\ created' = created + 1
           /\ accepting' = created'
           /\ inStatus' = [inStatus EXCEPT ![created'] = "Open"]
           /\ inThread' = [inThread EXCEPT ![created'] = t]
           /\ inLast' = [inLast EXCEPT ![created'] = seqnum]
           /\ numHandshakes' = numHandshakes + 1
           /\ UNCHANGED <<inCondition, inSyn, established>>

\* Whether the connection exists is not looked at when a cookie is required.
QueryAddConnection(others) ==
    IF numHandshakes + others >= Threshold THEN "RequireSynCookie"
    ELSE IF \E i \in Incarnation : Live(i) THEN "ConnectionAlreadyExists"
    ELSE "OK"

\* A Syn whose cookie, if it has one, is good.
AcceptSyn(syn, others) ==
    LET answer == QueryAddConnection(others) IN
    /\ trouble' = IF answer = "RequireSynCookie" THEN trouble \cup {"cookie"} ELSE trouble
    /\ \/ /\ answer = "OK" \/ (answer = "RequireSynCookie" /\ syn.cookie)
          /\ AddConnection(syn.seqnum)
          /\ UNCHANGED toOutbound
       \/ /\ answer = "RequireSynCookie"
          /\ ~syn.cookie
          /\ Reply("Cookie", Listener, DefaultKeys)
          /\ UNCHANGED <<inVars, mapVars>>
       \/ /\ answer = "ConnectionAlreadyExists"
          /\ UNCHANGED <<inVars, mapVars, toOutbound>>

\* The thread of the listener takes a Syn: it refuses one whose cookie has
\* expired, and otherwise accepts it or asks for a cookie.
AcceptConnection ==
    /\ accepting = 0
    /\ \E m \in toInbound :
           /\ m.to = Listener
           /\ \/ \E others \in OtherHandshakes : AcceptSyn(m, others)
              \/ CookiesExpire /\ m.cookie /\ UNCHANGED <<inVars, mapVars, trouble, toOutbound>>
           /\ ArriveAtInbound(m)
    /\ UNCHANGED <<outVars, keyVars, zeroPosition>>

\* Socket::Accept: the connection gets the listener's send queue and may start.
Accept ==
    /\ accepting # 0
    /\ accepting' = 0
    /\ UNCHANGED <<outVars, inVars, restVars, created, inThread, toOutbound,
                   toInbound>>

-----------------------------------------------------------------------------
(* An inbound connection.                                                  *)

\* The Syn is written, to be sent after a delay; then the keys are derived.
SendInboundSyn(i) ==
    /\ inStatus[i] = "Open"
    /\ accepting # i
    /\ inStatus' = [inStatus EXCEPT ![i] = "Handshake"]
    /\ inSyn' = [inSyn EXCEPT ![i] = "delayed"]
    /\ UNCHANGED <<outVars, mapVars, restVars, inCondition, inLast, numHandshakes,
                   established, toOutbound, toInbound>>

\* The Syn leaves after its delay, and again until it is acknowledged.
TransmitInboundSyn(i) ==
    /\ inStatus[i] \in {"Handshake", "Connected"}
    /\ inSyn[i] \in {"delayed", "queued"}
    /\ inSyn' = [inSyn EXCEPT ![i] = "queued"]
    /\ toOutbound' = toOutbound \cup
           {[from |-> Listener, keys |-> DefaultKeys, type |-> "Syn",
             connection |-> i, acknum |-> inLast[i]]}
    /\ UNCHANGED <<outVars, mapVars, restVars, inStatus, inCondition, inLast,
                   numHandshakes, established, toInbound>>

InboundCanRead(i, m) ==
    \/ m.keys = i
    \/ m.keys = DefaultKeys /\ ~inKeysExpired[i]

\* The first message from the peer ends the handshake of this end, and its
\* handshake tracker is released.
BecomeConnected(i) ==
    /\ inStatus' = [inStatus EXCEPT ![i] = "Connected"]
    /\ established' = established \cup {i}
    /\ numHandshakes' = IF inStatus[i] = "Handshake"
                        THEN numHandshakes - 1 ELSE numHandshakes

\* Any message that can be read but a Reset.  A Syn is ignored, as for a
\* repeated one: the sequence numbers are not looked at.
InboundReceive(i) ==
    /\ inStatus[i] \in {"Handshake", "Connected"}
    /\ \E m \in toInbound :
           /\ m.to = i
           /\ InboundCanRead(i, m)
           /\ m.type # "Reset"
           /\ inSyn' = IF m.type = "EAck" THEN [inSyn EXCEPT ![i] = "acked"]
                                          ELSE inSyn
           /\ ArriveAtInbound(m)
    /\ BecomeConnected(i)
    /\ UNCHANGED <<outVars, mapVars, restVars, inCondition, inLast, toOutbound>>

\* The connection is closed, resetting the peer if it is connected and did not
\* ask for it, leaves the map of its thread and releases its tracker.
RemoveConnection(i, reason) ==
    /\ inStatus' = [inStatus EXCEPT ![i] = "Removed"]
    /\ inCondition' = [inCondition EXCEPT ![i] = reason]
    /\ numHandshakes' = IF inStatus[i] \in {"Open", "Handshake"}
                        THEN numHandshakes - 1 ELSE numHandshakes
    /\ IF inStatus[i] = "Connected" /\ reason # "PeerCloseRequest"
       THEN Reply("Reset", i, i) ELSE UNCHANGED toOutbound
    /\ UNCHANGED <<outVars, mapVars, restVars, inLast, inSyn>>

\* A Reset, too, ends the handshake before it ends the connection.
InboundReceiveReset(i) ==
    /\ inStatus[i] \in {"Handshake", "Connected"}
    /\ \E m \in toInbound :
           /\ m.to = i
           /\ InboundCanRead(i, m)
           /\ m.type = "Reset"
           /\ ArriveAtInbound(m)
    /\ established' = established \cup {i}
    /\ RemoveConnection(i, "PeerCloseRequest")

\* A message that cannot be read; all come from the endpoint of the peer.
InboundCannotRead(i) ==
    /\ inStatus[i] \in {"Handshake", "Connected"}
    /\ \E m \in toInbound :
           /\ m.to = i
           /\ ~InboundCanRead(i, m)
           /\ ArriveAtInbound(m)
    /\ RemoveConnection(i, "UnknownMessageError")
    /\ UNCHANGED established

InboundStops(i) ==
    /\ \/ /\ "timeout" \in Failures
          /\ inStatus[i] = "Handshake"
          /\ RemoveConnection(i, "TimedOutError")
       \/ /\ "close" \in Failures
          /\ Live(i) /\ accepting # i
          /\ RemoveConnection(i, "LocalCloseRequest")
    /\ UNCHANGED <<established, toInbound>>

\* OnLocalIPInterfaceChanged sends a keepalive at once, with the keys of now:
\* from the listener's socket until the connection is established, but from
\* its own as long as it has not been accepted.
OnLocalIPInterfaceChanged(i) ==
    /\ Live(i)
    /\ Cardinality({m \in toOutbound : m.type = "Null"}) < MaxKeepAlives
    /\ Reply("Null",
             IF inStatus[i] = "Connected" \/ accepting = i THEN i ELSE Listener,
             IF inStatus[i] = "Open" THEN DefaultKeys ELSE i)
    /\ trouble' = trouble \cup {"interface"}
    /\ UNCHANGED <<outVars, inVars, mapVars, keyVars, zeroPosition, toInbound>>

-----------------------------------------------------------------------------
Next ==
    \/ Connect \/ SendDelayedItem \/ Retransmit \/ SendPendingAcks
    \/ SendKeepAlive \/ DataIsAcknowledged \/ OutboundReceive \/ OutboundCannotRead \/ OutboundStops
    \/ KeysExpire \/ Lose
    \/ AcceptConnection \/ Accept
    \/ \E i \in Incarnation :
           \/ SendInboundSyn(i) \/ TransmitInboundSyn(i) \/ InboundReceive(i)
           \/ InboundReceiveReset(i) \/ InboundCannotRead(i) \/ InboundStops(i)
           \/ OnLocalIPInterfaceChanged(i)

Spec == Init /\ [][Next]_vars

\* Every thread keeps running its loop, and the network does not lose for ever
\* what is sent again and again.
Fairness ==
    /\ WF_vars(SendDelayedItem)
    /\ WF_vars(Retransmit)
    /\ WF_vars(SendKeepAlive)
    /\ WF_vars(Accept)
    /\ SF_vars(AcceptConnection)
    /\ SF_vars(OutboundReceive)
    /\ \A i \in Incarnation : /\ WF_vars(SendInboundSyn(i))
                              /\ WF_vars(TransmitInboundSyn(i))
                              /\ SF_vars(InboundReceive(i))

FairSpec == Spec /\ Fairness

-----------------------------------------------------------------------------
(* Properties.                                                             *)

TypeOK ==
    /\ status \in {"Open", "Handshake", "Connected", "Closed"}
    /\ condition \in {"None", "TimedOutError", "UnknownMessageError",
                      "LocalCloseRequest", "PeerCloseRequest"}
    /\ nextSend \in Nat /\ made \in Nat /\ created \in 0..MaxIncarnations
    /\ delayed \subseteq [seqnum : Nat, cookie : BOOLEAN, id : Nat]
    /\ queue \in Seq([seqnum : Nat, cookie : BOOLEAN, id : Nat])
    /\ peer \in Socket /\ endpoint \in Socket /\ accepting \in Socket
    /\ {ackDue, keysExpired} \subseteq BOOLEAN
    /\ inStatus \in [Incarnation -> {"None", "Open", "Handshake", "Connected",
                                     "Removed"}]
    /\ inCondition \in [Incarnation -> {"None", "TimedOutError",
                            "UnknownMessageError", "LocalCloseRequest",
                            "PeerCloseRequest"}]
    /\ inThread \in [Incarnation -> WorkerThreads]
    /\ inLast \in [Incarnation -> Nat] /\ zeroPosition \in Nat
    /\ inSyn \in [Incarnation -> {"unsent", "delayed", "queued", "acked"}]
    /\ inKeysExpired \in [Incarnation -> BOOLEAN]
    /\ numHandshakes \in Nat
    /\ established \subseteq Incarnation
    /\ trouble \subseteq {"cookie", "interface", "moved"}
    /\ toInbound \subseteq OutboundMessage
    /\ toOutbound \subseteq InboundMessage

\* Of the inbound connections that the Syns of one end create, at most one is
\* ever established, and it is the one that this end has completed the
\* handshake with: the two have derived the same keys.
OnlyPeerIsEstablished == established \subseteq {peer}

\* No cookie was asked for, and no interface has changed.
calm == trouble = {}

\* When the handshake is over at the connecting end, the number it sends next is
\* the one the other end takes next, and nothing is left to be sent of what came
\* before; only a Syn numbered 0, whose acknowledgement was ignored, may be.
SequencesAgree ==
    status = "Connected" /\ Live(peer) =>
        /\ nextSend = inLast[peer] + 1
        /\ delayed = {}
        /\ queue # <<>> => inLast[peer] = zeroPosition /\ Len(queue) = 1
                            /\ queue[1].seqnum = zeroPosition

\* The number that decides whether cookies are required counts exactly the
\* connections whose handshake is not over: none is left counted when a
\* connection is established, closed, reset or timed out.
TrackerIsExact ==
    numHandshakes = Cardinality({i \in Incarnation :
                                     inStatus[i] \in {"Open", "Handshake"}})

\* As long as no cookie was asked for, a connection ID has one connection at a time.
OneInboundConnection ==
    \A i, j \in Incarnation : Live(i) /\ Live(j) => i = j

\* Neither end takes a message of the other for that of an attacker: each can
\* read what the other may still send it, in both phases of the keys.
NoUnknownMessage ==
    /\ condition # "UnknownMessageError"
    /\ \A i \in Incarnation : inCondition[i] # "UnknownMessageError"

\* Only the peer's connection is established, unless the keepalive of another moved the
\* outbound end there; and as long as no cookie was asked for and no interface has changed,
\* it is the only one there is, and no end takes a message of the other for an attacker's,
\* whatever is lost, late, repeated or closed.
OneConnection ==
    /\ "moved" \notin trouble => OnlyPeerIsEstablished
    /\ calm => OneInboundConnection /\ NoUnknownMessage

\* The handshakes in progress are counted exactly; and as long as it is calm, the two ends
\* of an established connection agree on the next number and on what has been taken.
NumbersAgree == TrackerIsExact /\ (calm => SequencesAgree)

\* Without failures the handshake ends, and for both ends.
HandshakeCompletes ==
    status = "Handshake" ~> status = "Connected" /\ inStatus[peer] = "Connected"

\* "may have been retransmitted duplicate so we ignore it": a Syn that reaches
\* a connection repeats one that has been received.
SynToConnectionIsDuplicate ==
    \A m \in toInbound :
        m.type = "Syn" /\ m.to # Listener /\ Live(m.to)
            => m.seqnum <= inLast[m.to]
==============================================================================
