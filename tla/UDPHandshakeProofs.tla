------------------------- MODULE UDPHandshakeProofs -------------------------
(***************************************************************************)
(* Proofs about UDPHandshake, for any number of worker threads, inbound    *)
(* connections, Syns and failures: whatever is lost, late or repeated,     *)
(* only the connection that the connecting end completed its handshake     *)
(* with is ever established, unless a keepalive moves that end to another  *)
(* (CheckEndpointChange), and the handshakes in progress are counted       *)
(* exactly; and until a cookie is asked for or an interface changes there  *)
(* is one connection, the ends agree on the next number, and no end takes  *)
(* a message of the other for an attacker's.                               *)
(***************************************************************************)
EXTENDS UDPHandshake, FiniteSetTheorems, SequenceTheorems, WellFoundedInduction, TLAPS

USE HandshakeAssumption

-----------------------------------------------------------------------------
(* The invariant.                                                          *)

\* Who talks to whom, and with which keys: both ends of a socket know each other only
\* after the handshake.
Shape ==
    /\ status \in {"Open", "Handshake"} => peer = Listener /\ endpoint = Listener /\ ~keysExpired
    /\ status = "Connected" => peer # Listener /\ endpoint # Listener
    /\ accepting <= created
    /\ \A i \in Incarnation : inStatus[i] = "None" <=> i > created
    /\ \A m \in toOutbound : m.type = "Syn" => m.connection <= created
    /\ \A m \in toOutbound : m.type = "Reset" => m.keys = m.from
    /\ \A m \in toInbound : m.type # "Syn" => m.to # Listener

Moved == "moved" \in trouble

\* Until a keepalive moves the outbound end, what reaches a connection comes from its peer.
Unmoved ==
    ~Moved =>
        /\ endpoint = peer
        /\ established \subseteq {peer}
        /\ \A m \in toInbound : m.to # Listener => m.to = peer
        /\ \A m \in toInbound : m.type # "Syn" => m.keys = m.to

\* Before the Syn has left there is nothing to answer; from then on it is the only item
\* of the send queue, until what the other end has taken, position 0, is acknowledged; if
\* it has the number 0 it stays there.
HandshakeIsOrderly ==
    /\ status = "Open" => nextSend = 0 /\ delayed = {}
    /\ status \in {"Open", "Handshake"} /\ nextSend = 0 =>
           /\ created = 0 /\ queue = <<>>
           /\ \A m \in toInbound : m.type # "Syn"
           /\ \A s \in delayed : s.seqnum = 0 /\ delayed = {s}
    /\ status = "Handshake" /\ nextSend # 0 =>
           nextSend = 1 /\ delayed = {} /\ Len(queue) = 1 /\ queue[1].seqnum = 0
    /\ status = "Connected" => nextSend = 1 /\ delayed = {}
    /\ status = "Connected" /\ queue # <<>> =>
           zeroPosition = 0 /\ Len(queue) = 1 /\ queue[1].seqnum = 0
    /\ \A i \in Incarnation : inLast[i] = 0
    /\ \A m \in toInbound : m.type = "Syn" => m.seqnum = 0
    /\ \A m \in toOutbound : m.type = "Reset" \/ (m.type = "Syn" /\ m.acknum = 0)

\* Only a Syn numbered 0 is still sent to a connection, and not after the default keys.
SynIsReadable ==
    /\ \A i \in Incarnation : inStatus[i] = "Connected" => i = peer
    /\ \A i \in Incarnation : inKeysExpired[i] => i = peer /\ ~SynZeroIsSent(i)
    /\ \A m \in toInbound : m.type = "Syn" /\ m.to # Listener => m.seqnum = zeroPosition

CalmCore == HandshakeIsOrderly /\ OneInboundConnection /\ NoUnknownMessage

CalmInv == CalmCore /\ SynIsReadable

HandshakeInv ==
    TypeOK /\ Shape /\ Unmoved /\ TrackerIsExact /\ (calm => CalmInv)

Pending == [seqnum : Nat, cookie : BOOLEAN, id : Nat]

Reasons == {"TimedOutError", "UnknownMessageError", "LocalCloseRequest", "PeerCloseRequest"}

-----------------------------------------------------------------------------
(* Helpers.                                                                *)

LEMMA LeastIndex ==
    ASSUME NEW T \in SUBSET Nat, T # {}
    PROVE  \E i \in T : \A j \in T : i <= j
<1>1. PICK i \in T : \A j \in T : <<j, i>> \notin OpToRel(<, Nat)
  BY NatLessThanWellFounded, WFMin
<1>2. \A j \in T : ~(j < i)
  BY <1>1 DEF OpToRel
<1> QED
  BY <1>2

\* What an acknowledgement leaves of the send queue is the queue, or its end.
LEMMA AfterAckLeaves ==
    ASSUME NEW S, queue \in Seq(S), NEW acknum
    PROVE  /\ AfterAck(acknum) \in Seq(S)
           /\ acknum = zeroPosition => AfterAck(acknum) = queue
           /\ Len(queue) = 1 /\ queue[1].seqnum = acknum /\ acknum # zeroPosition
                  => AfterAck(acknum) = <<>>
<1> DEFINE hits == {k \in DOMAIN queue : queue[k].seqnum = acknum}
           first == CHOOSE k \in hits : \A j \in hits : k <= j
<1>1. CASE hits = {} \/ acknum = zeroPosition
  BY <1>1 DEF AfterAck
<1>2. CASE hits # {} /\ acknum # zeroPosition
  <2>1. hits \in SUBSET Nat
    OBVIOUS
  <2>2. \E k \in hits : \A j \in hits : k <= j
    BY <1>2, <2>1, LeastIndex
  <2>3. first \in hits
    BY <2>2
  <2>4. AfterAck(acknum) = SubSeq(queue, first + 1, Len(queue))
    BY <1>2 DEF AfterAck
  <2>5. first \in 1..Len(queue) /\ Len(queue) \in Nat
    BY <2>3
  <2> HIDE DEF first
  <2>6. SubSeq(queue, first + 1, Len(queue)) \in Seq(S)
    BY <2>5, SubSeqProperties
  <2>7. Len(queue) = 1 => SubSeq(queue, first + 1, Len(queue)) = <<>>
    BY <2>5, SubSeqEmpty
  <2> QED
    BY <1>2, <2>4, <2>6, <2>7
<1> QED
  BY <1>1, <1>2

\* The tracker follows the status of a connection.
InHandshake == {i \in Incarnation : inStatus[i] \in {"Open", "Handshake"}}

LEMMA TrackerFollows ==
    ASSUME inStatus \in [Incarnation -> {"None", "Open", "Handshake", "Connected", "Removed"}],
           TrackerIsExact,
           NEW i \in Incarnation, NEW new,
           inStatus' = [inStatus EXCEPT ![i] = new],
           numHandshakes' =
               IF inStatus[i] \in {"Open", "Handshake"}
               THEN IF new \in {"Open", "Handshake"} THEN numHandshakes ELSE numHandshakes - 1
               ELSE IF new \in {"Open", "Handshake"} THEN numHandshakes + 1 ELSE numHandshakes
    PROVE  TrackerIsExact'
<1>1. IsFiniteSet(InHandshake) /\ Cardinality(InHandshake) \in Nat
  <2>1. IsFiniteSet(Incarnation)
    BY FS_Interval DEF Incarnation
  <2> QED
    BY <2>1, FS_Subset, FS_CardinalityType DEF InHandshake
<1>2. numHandshakes = Cardinality(InHandshake)
  BY DEF TrackerIsExact, InHandshake
<1>3. InHandshake' = IF new \in {"Open", "Handshake"} THEN InHandshake \cup {i}
                                                     ELSE InHandshake \ {i}
  BY DEF InHandshake
<1>4. inStatus[i] \in {"Open", "Handshake"} <=> i \in InHandshake
  BY DEF InHandshake
<1>5. numHandshakes' = Cardinality(InHandshake')
  <2>1. CASE new \in {"Open", "Handshake"}
    BY <1>1, <1>2, <1>3, <1>4, <2>1, FS_AddElement
  <2>2. CASE new \notin {"Open", "Handshake"}
    BY <1>1, <1>2, <1>3, <1>4, <2>2, FS_RemoveElement
  <2> QED
    BY <2>1, <2>2
<1> QED
  BY <1>5 DEF TrackerIsExact, InHandshake

LEMMA CountIsNatural == \A S \in SUBSET Incarnation : Cardinality(S) \in Nat
<1>1. IsFiniteSet(Incarnation)
  BY FS_Interval DEF Incarnation
<1> QED
  BY <1>1, FS_Subset, FS_CardinalityType

\* A message that arrives leaves no message that was not there.
LEMMA Arriving ==
    ASSUME NEW m
    PROVE  /\ ArriveAtOutbound(m) => toOutbound' \subseteq toOutbound
           /\ ArriveAtInbound(m) => toInbound' \subseteq toInbound
BY DEF ArriveAtOutbound, ArriveAtInbound

\* A connection whose record does not change keeps the tracker.
LEMMA TrackerStays == TrackerIsExact /\ UNCHANGED <<inStatus, numHandshakes>> => TrackerIsExact'
BY DEF TrackerIsExact

\* What AddConnection does.
LEMMA Added ==
    ASSUME TypeOK, Shape, TrackerIsExact, NEW seqnum \in Nat, AddConnection(seqnum)
    PROVE  /\ \/ UNCHANGED <<inVars, mapVars>>
              \/ /\ created + 1 \in Incarnation
                 /\ created' = created + 1
                 /\ accepting' = created'
                 /\ inStatus' = [inStatus EXCEPT ![created + 1] = "Open"]
                 /\ inThread' \in [Incarnation -> WorkerThreads]
                 /\ inLast' = [inLast EXCEPT ![created + 1] = seqnum]
                 /\ numHandshakes' = numHandshakes + 1
                 /\ UNCHANGED <<inCondition, inSyn, established>>
           /\ TrackerIsExact'
<1> USE DEF AddConnection
<1>1. PICK t \in WorkerThreads :
          \/ UNCHANGED <<inVars, mapVars>>
          \/ /\ created < MaxIncarnations
             /\ created' = created + 1
             /\ accepting' = created'
             /\ inStatus' = [inStatus EXCEPT ![created'] = "Open"]
             /\ inThread' = [inThread EXCEPT ![created'] = t]
             /\ inLast' = [inLast EXCEPT ![created'] = seqnum]
             /\ numHandshakes' = numHandshakes + 1
             /\ UNCHANGED <<inCondition, inSyn, established>>
  OBVIOUS
<1>2. CASE UNCHANGED <<inVars, mapVars>>
  BY <1>2, TrackerStays DEF inVars
<1>3. CASE ~UNCHANGED <<inVars, mapVars>>
  <2>1. created + 1 \in Incarnation
    BY <1>1, <1>3 DEF TypeOK, Incarnation
  <2>2. inStatus[created + 1] = "None"
    BY <2>1 DEF Shape, TypeOK
  <2>3. TrackerIsExact'
    <3>1. /\ inStatus' = [inStatus EXCEPT ![created + 1] = "Open"]
          /\ numHandshakes' = numHandshakes + 1
      BY <1>1, <1>3
    <3>2. inStatus \in [Incarnation -> {"None", "Open", "Handshake", "Connected", "Removed"}]
      BY DEF TypeOK
    <3> QED
      BY <2>1, <2>2, <3>1, <3>2, TrackerFollows
  <2>4. inThread' \in [Incarnation -> WorkerThreads]
    BY <1>1, <1>3, <2>1 DEF TypeOK
  <2> QED
    BY <1>1, <1>3, <2>1, <2>3, <2>4
<1> QED
  BY <1>2, <1>3

\* What the thread of the listener does with a Syn.
ListenerStep ==
    /\ UNCHANGED <<outVars, keyVars, zeroPosition>>
    /\ accepting = 0
    /\ toInbound' \subseteq toInbound
    /\ TrackerIsExact'
    /\ trouble' \in {trouble, trouble \cup {"cookie"}}
    /\ \/ UNCHANGED <<inVars, mapVars, toOutbound>>
       \/ /\ UNCHANGED <<inVars, mapVars>>
          /\ toOutbound' = toOutbound \cup
                 {[from |-> Listener, keys |-> DefaultKeys, type |-> "Cookie"]}
          /\ "cookie" \in trouble'
       \/ \E m \in toInbound :
             /\ m.type = "Syn"
             /\ created + 1 \in Incarnation
             /\ created' = created + 1
             /\ accepting' = created'
             /\ inStatus' = [inStatus EXCEPT ![created + 1] = "Open"]
             /\ inThread' \in [Incarnation -> WorkerThreads]
             /\ m.seqnum \in Nat
             /\ inLast' = [inLast EXCEPT ![created + 1] = m.seqnum]
             /\ numHandshakes' = numHandshakes + 1
             /\ UNCHANGED <<inCondition, inSyn, established, toOutbound>>
             /\ "cookie" \notin trouble' => \A i \in Incarnation : ~Live(i)

LEMMA ListenerSteps ==
    ASSUME TypeOK, Shape, TrackerIsExact, AcceptConnection
    PROVE  ListenerStep
<1>1. PICK m \in toInbound :
          /\ m.to = Listener
          /\ \/ \E others \in OtherHandshakes : AcceptSyn(m, others)
             \/ CookiesExpire /\ m.cookie /\ UNCHANGED <<inVars, mapVars, trouble, toOutbound>>
          /\ ArriveAtInbound(m)
  BY DEF AcceptConnection
<1>2. UNCHANGED <<outVars, keyVars, zeroPosition>> /\ accepting = 0
  BY DEF AcceptConnection
<1>3. toInbound' \subseteq toInbound
  BY <1>1, Arriving
<1>4. m.type = "Syn"
  BY <1>1 DEF Shape
<1>5. m.seqnum \in Nat
  BY <1>4 DEF TypeOK, OutboundMessage
<1>6. CASE UNCHANGED <<inVars, mapVars, trouble, toOutbound>>
  BY <1>2, <1>3, <1>6, TrackerStays DEF inVars, TypeOK, ListenerStep
<1>7. ASSUME NEW others \in OtherHandshakes, AcceptSyn(m, others)
      PROVE  ListenerStep
  <2> DEFINE answer == QueryAddConnection(others)
  <2>1. trouble' = IF answer = "RequireSynCookie" THEN trouble \cup {"cookie"} ELSE trouble
    BY <1>7 DEF AcceptSyn
  <2>2. trouble' \in {trouble, trouble \cup {"cookie"}}
    BY <2>1
  <2>3. CASE /\ answer = "OK" \/ (answer = "RequireSynCookie" /\ m.cookie)
             /\ AddConnection(m.seqnum)
             /\ UNCHANGED toOutbound
    <3>1. answer = "OK" => \A i \in Incarnation : ~Live(i)
      BY DEF QueryAddConnection
    <3>2. "cookie" \notin trouble' => \A i \in Incarnation : ~Live(i)
      BY <2>1, <2>3, <3>1
    <3> HIDE DEF answer
    <3> QED
      BY <1>2, <1>3, <1>4, <1>5, <2>2, <2>3, <3>2, Added DEF ListenerStep
  <2>4. CASE /\ answer = "RequireSynCookie"
             /\ Reply("Cookie", Listener, DefaultKeys)
             /\ UNCHANGED <<inVars, mapVars>>
    <3> HIDE DEF answer
    <3> QED
      BY <1>2, <1>3, <2>1, <2>2, <2>4, TrackerStays DEF ListenerStep, Reply, inVars
  <2>5. CASE UNCHANGED <<inVars, mapVars, toOutbound>>
    BY <1>2, <1>3, <2>2, <2>5, TrackerStays DEF ListenerStep, inVars
  <2> QED
    BY <1>7, <2>3, <2>4, <2>5 DEF AcceptSyn
<1> QED
  BY <1>1, <1>6, <1>7

\* How an outbound end that receives changes: it takes a Syn, takes a cookie, closes,
\* moves or ignores the message.
LEMMA OutboundReceives ==
    ASSUME TypeOK, OutboundReceive
    PROVE  /\ UNCHANGED <<inVars, mapVars, keyVars, zeroPosition, toInbound>>
           /\ trouble' = IF endpoint' = peer' THEN trouble ELSE trouble \cup {"moved"}
           /\ toOutbound' \subseteq toOutbound
           /\ Running
           /\ \E m \in toOutbound : \/ ReceiveInboundSyn(m) \/ ReceiveCookie(m) \/ ReceiveReset(m)
                                    \/ CheckEndpointChange(m) \/ IgnoreMessage(m)
BY Arriving DEF OutboundReceive

-----------------------------------------------------------------------------
(* The handshakes in progress.                                             *)

\* A connection that is removed is not in its handshake.
LEMMA RemovalIsTracked ==
    ASSUME TypeOK, TrackerIsExact, NEW i \in Incarnation, NEW reason,
           RemoveConnection(i, reason)
    PROVE  TrackerIsExact'
<1>1. /\ inStatus' = [inStatus EXCEPT ![i] = "Removed"]
      /\ numHandshakes' = IF inStatus[i] \in {"Open", "Handshake"}
                          THEN numHandshakes - 1 ELSE numHandshakes
  BY DEF RemoveConnection
<1> QED
  BY <1>1, TrackerFollows DEF TypeOK

LEMMA NextTracker ==
    ASSUME TypeOK, Shape, TrackerIsExact, [Next]_vars
    PROVE  TrackerIsExact'
<1>1. CASE UNCHANGED <<inStatus, numHandshakes>>
  BY <1>1, TrackerStays
<1>2. CASE AcceptConnection
  BY <1>2, ListenerSteps DEF ListenerStep
<1>3. ASSUME NEW i \in Incarnation, SendInboundSyn(i)
      PROVE  TrackerIsExact'
  BY <1>3, TrackerFollows DEF SendInboundSyn, TypeOK
<1>4. ASSUME NEW i \in Incarnation, InboundReceive(i)
      PROVE  TrackerIsExact'
  BY <1>4, TrackerFollows DEF InboundReceive, BecomeConnected, TypeOK
<1>5. ASSUME NEW i \in Incarnation,
             InboundReceiveReset(i) \/ InboundCannotRead(i) \/ InboundStops(i)
      PROVE  TrackerIsExact'
  BY <1>5, RemovalIsTracked DEF InboundReceiveReset, InboundCannotRead, InboundStops
<1> QED
  BY <1>1, <1>2, <1>3, <1>4, <1>5
  DEF Next, vars, inVars, Connect, SendDelayedItem, Retransmit, SendPendingAcks,
      SendKeepAlive, OutboundReceive, OutboundCannotRead, OutboundStops, KeysExpire, Lose,
      Accept, DataIsAcknowledged, TransmitInboundSyn, OnLocalIPInterfaceChanged

-----------------------------------------------------------------------------
(* Types.                                                                  *)

\* The outbound end and what goes to it, and the inbound connections and what goes to
\* them: an action changes few of these.
OutboundTypeOK ==
    /\ status \in {"Open", "Handshake", "Connected", "Closed"}
    /\ condition \in {"None"} \cup Reasons
    /\ nextSend \in Nat /\ made \in Nat
    /\ delayed \subseteq Pending
    /\ queue \in Seq(Pending)
    /\ peer \in Socket /\ endpoint \in Socket
    /\ {ackDue, keysExpired} \subseteq BOOLEAN

InboundTypeOK ==
    /\ created \in 0..MaxIncarnations /\ accepting \in Socket
    /\ inStatus \in [Incarnation -> {"None", "Open", "Handshake", "Connected", "Removed"}]
    /\ inCondition \in [Incarnation -> {"None"} \cup Reasons]
    /\ inThread \in [Incarnation -> WorkerThreads]
    /\ inLast \in [Incarnation -> Nat] /\ zeroPosition \in Nat
    /\ inSyn \in [Incarnation -> {"unsent", "delayed", "queued", "acked"}]
    /\ inKeysExpired \in [Incarnation -> BOOLEAN]
    /\ numHandshakes \in Nat
    /\ established \subseteq Incarnation
    /\ trouble \subseteq {"cookie", "interface", "moved"}

LEMMA TypeParts ==
    TypeOK <=> /\ OutboundTypeOK /\ InboundTypeOK
               /\ toInbound \subseteq OutboundMessage /\ toOutbound \subseteq InboundMessage
BY DEF TypeOK, OutboundTypeOK, InboundTypeOK, Reasons, Pending

LEMMA OutboundTypeStays ==
    OutboundTypeOK /\ UNCHANGED <<outVars, keysExpired>> => OutboundTypeOK'
BY DEF OutboundTypeOK, outVars

LEMMA InboundTypeStays ==
    InboundTypeOK /\ UNCHANGED <<inVars, mapVars, inKeysExpired, zeroPosition, trouble>> => InboundTypeOK'
BY DEF InboundTypeOK, inVars, mapVars

\* What is sent is a message.
LEMMA MessageTypes ==
    /\ \A to, keys \in Socket, type \in {"EAck", "Null", "Reset"} :
           [to |-> to, keys |-> keys, type |-> type] \in OutboundMessage
    /\ \A to \in Socket, seqnum \in Nat, cookie \in BOOLEAN :
           [to |-> to, keys |-> DefaultKeys, type |-> "Syn", seqnum |-> seqnum,
            cookie |-> cookie] \in OutboundMessage
    /\ \A from, keys \in Socket, type \in {"Cookie", "Null", "Reset"} :
           [from |-> from, keys |-> keys, type |-> type] \in InboundMessage
    /\ \A i \in Incarnation, acknum \in Nat :
           [from |-> Listener, keys |-> DefaultKeys, type |-> "Syn", connection |-> i,
            acknum |-> acknum] \in InboundMessage
BY DEF OutboundMessage, InboundMessage

LEMMA SynFields ==
    /\ \A m \in InboundMessage : m.type = "Syn" =>
           m.from = Listener /\ m.keys = DefaultKeys /\ m.connection \in Incarnation /\ m.acknum \in Nat
    /\ \A m \in OutboundMessage : m.type = "Syn" =>
           m.keys = DefaultKeys /\ m.seqnum \in Nat /\ m.cookie \in BOOLEAN
BY DEF InboundMessage, OutboundMessage

LEMMA SocketTypes == Incarnation \subseteq Socket /\ Listener \in Socket /\ DefaultKeys \in Socket
BY DEF Incarnation, Socket, Listener, DefaultKeys

LEMMA InitialType == Init => TypeOK
<1> SUFFICES ASSUME Init
             PROVE  TypeOK
  OBVIOUS
<1>1. (CHOOSE t \in WorkerThreads : TRUE) \in WorkerThreads
  OBVIOUS
<1>2. inThread \in [Incarnation -> WorkerThreads]
  BY <1>1 DEF Init
<1>3. OutboundTypeOK
  <2>1. queue \in Seq(Pending)
    BY DEF Init
  <2> QED
    BY <2>1, SocketTypes DEF Init, OutboundTypeOK
<1>4. InboundTypeOK
  BY <1>2, SocketTypes DEF Init, InboundTypeOK, DefaultKeys
<1> QED
  BY <1>3, <1>4, TypeParts DEF Init

\* SendSyn and Send put messages on the way to the other end.
LEMMA SentType ==
    ASSUME OutboundTypeOK, toInbound \subseteq OutboundMessage
    PROVE  /\ \A syn \in Pending : SendSyn(syn) => toInbound' \subseteq OutboundMessage
           /\ \A type \in {"EAck", "Null", "Reset"} :
                  Send(type) => toInbound' \subseteq OutboundMessage
<1>1. ASSUME NEW syn \in Pending, SendSyn(syn)
      PROVE  toInbound' \subseteq OutboundMessage
  <2>1. syn.seqnum \in Nat /\ syn.cookie \in BOOLEAN /\ endpoint \in Socket
    BY DEF Pending, OutboundTypeOK
  <2> QED
    BY <1>1, <2>1, MessageTypes DEF SendSyn
<1>2. ASSUME NEW type \in {"EAck", "Null", "Reset"}, Send(type)
      PROVE  toInbound' \subseteq OutboundMessage
  <2>1. peer \in Socket /\ endpoint \in Socket
    BY DEF OutboundTypeOK
  <2> QED
    BY <1>2, <2>1, MessageTypes DEF Send
<1> QED
  BY <1>1, <1>2

LEMMA SendOutboundSynType ==
    ASSUME OutboundTypeOK, NEW cookie \in BOOLEAN, SendOutboundSyn(cookie)
    PROVE  made' \in Nat /\ delayed' \subseteq Pending
BY DEF SendOutboundSyn, OutboundTypeOK, Pending

LEMMA CloseOutboundType ==
    ASSUME OutboundTypeOK, toInbound \subseteq OutboundMessage, UNCHANGED keysExpired,
           NEW reason \in Reasons, CloseOutbound(reason)
    PROVE  OutboundTypeOK' /\ toInbound' \subseteq OutboundMessage
<1>1. OutboundTypeOK'
  BY DEF CloseOutbound, OutboundTypeOK
<1> QED
  BY <1>1, SentType DEF CloseOutbound

LEMMA OutboundReceiveType ==
    ASSUME TypeOK, OutboundReceive
    PROVE  OutboundTypeOK'
<1>1. OutboundTypeOK /\ UNCHANGED keysExpired
  BY TypeParts DEF OutboundReceive, keyVars
<1>2. PICK m \in toOutbound : \/ ReceiveInboundSyn(m) \/ ReceiveCookie(m)
                               \/ ReceiveReset(m) \/ CheckEndpointChange(m) \/ IgnoreMessage(m)
  BY OutboundReceives
<1>3. CASE ReceiveInboundSyn(m)
  <2>1. AfterAck(m.acknum) \in Seq(Pending)
    BY <1>1, AfterAckLeaves DEF OutboundTypeOK
  <2>2. m.connection \in Socket
    BY <1>3, TypeParts, SynFields, SocketTypes DEF ReceiveInboundSyn
  <2> QED
    BY <1>1, <1>3, <2>1, <2>2 DEF ReceiveInboundSyn, OutboundTypeOK
<1>4. CASE ReceiveCookie(m)
  <2>1. made' \in Nat /\ delayed' \subseteq Pending
    BY <1>1, <1>4, SendOutboundSynType DEF ReceiveCookie
  <2>2. queue' \in Seq(Pending)
    BY <1>4 DEF ReceiveCookie
  <2> QED
    BY <1>1, <1>4, <2>1, <2>2 DEF ReceiveCookie, OutboundTypeOK
<1>5. CASE ReceiveReset(m)
  BY <1>1, <1>5 DEF ReceiveReset, OutboundTypeOK, Reasons
<1>6. CASE IgnoreMessage(m)
  BY <1>1, <1>6, OutboundTypeStays DEF IgnoreMessage
<1>7. CASE CheckEndpointChange(m)
  <2>1. m.from \in Socket
    BY <1>7, TypeParts DEF CheckEndpointChange, InboundMessage, Socket, Listener
  <2> QED
    BY <1>1, <1>7, <2>1 DEF CheckEndpointChange, OutboundTypeOK
<1> QED
  BY <1>2, <1>3, <1>4, <1>5, <1>6, <1>7

LEMMA RemovalType ==
    ASSUME TypeOK, TrackerIsExact', NEW i \in Incarnation, NEW reason \in Reasons,
           RemoveConnection(i, reason), established' \subseteq Incarnation
    PROVE  OutboundTypeOK' /\ InboundTypeOK' /\ toOutbound' \subseteq InboundMessage
<1>1. OutboundTypeOK'
  BY TypeParts, OutboundTypeStays DEF RemoveConnection, restVars, keyVars
<1>2. InboundTypeOK'
  <2>1. numHandshakes' \in Nat
    BY CountIsNatural DEF TrackerIsExact
  <2> QED
    BY <2>1, TypeParts DEF RemoveConnection, InboundTypeOK, restVars, keyVars, mapVars
<1>3. toOutbound' \subseteq InboundMessage
  <2>1. CASE Reply("Reset", i, i)
    <3>1. [from |-> i, keys |-> i, type |-> "Reset"] \in InboundMessage
      BY MessageTypes, SocketTypes
    <3> QED
      BY <2>1, <3>1, TypeParts DEF Reply
  <2>2. CASE UNCHANGED toOutbound
    BY <2>2, TypeParts
  <2> QED
    BY <2>1, <2>2 DEF RemoveConnection
<1> QED
  BY <1>1, <1>2, <1>3

LEMMA NextType ==
    ASSUME TypeOK, Shape, TrackerIsExact, [Next]_vars
    PROVE  TypeOK'
<1> DEFINE ToOK == toInbound' \subseteq OutboundMessage /\ toOutbound' \subseteq InboundMessage
<1>0. /\ OutboundTypeOK /\ InboundTypeOK
      /\ toInbound \subseteq OutboundMessage /\ toOutbound \subseteq InboundMessage
  BY TypeParts
<1>n. TrackerIsExact' /\ numHandshakes' \in Nat
  BY NextTracker, CountIsNatural DEF TrackerIsExact
<1> SUFFICES OutboundTypeOK' /\ InboundTypeOK' /\ ToOK
  BY DEF TypeOK, OutboundTypeOK, InboundTypeOK, Reasons, Pending
<1>1. CASE Connect
  <2>1. made' \in Nat /\ delayed' \subseteq Pending
    BY <1>0, <1>1, SendOutboundSynType DEF Connect
  <2>2. OutboundTypeOK'
    BY <1>0, <1>1, <2>1 DEF Connect, OutboundTypeOK, restVars, keyVars
  <2> QED
    BY <1>0, <1>1, <2>2, InboundTypeStays DEF Connect, restVars, keyVars
<1>2. CASE SendDelayedItem
  <2>1. PICK syn \in delayed : /\ delayed' = delayed \ {syn}
                               /\ queue' = Append(queue, syn)
                               /\ nextSend' = nextSend + 1
                               /\ SendSyn(syn)
    BY <1>2 DEF SendDelayedItem
  <2>2. syn \in Pending
    BY <1>0 DEF OutboundTypeOK
  <2>3. queue' \in Seq(Pending)
    BY <1>0, <2>1, <2>2, AppendProperties DEF OutboundTypeOK
  <2>4. OutboundTypeOK'
    BY <1>0, <1>2, <2>1, <2>3 DEF SendDelayedItem, OutboundTypeOK, restVars, keyVars
  <2> QED
    BY <1>0, <1>2, <2>1, <2>2, <2>4, InboundTypeStays, SentType
    DEF SendDelayedItem, restVars, keyVars
<1>3. CASE Retransmit
  <2>1. PICK k \in DOMAIN queue : SendSyn(queue[k])
    BY <1>3 DEF Retransmit
  <2>2. queue[k] \in Pending
    BY <1>0, <2>1 DEF OutboundTypeOK
  <2> QED
    BY <1>0, <1>3, <2>1, <2>2, OutboundTypeStays, InboundTypeStays, SentType
    DEF Retransmit, restVars, keyVars
<1>4. CASE SendPendingAcks
  <2>1. OutboundTypeOK'
    BY <1>0, <1>4 DEF SendPendingAcks, OutboundTypeOK, restVars, keyVars
  <2> QED
    BY <1>0, <1>4, <2>1, InboundTypeStays, SentType DEF SendPendingAcks, restVars, keyVars
<1>5. CASE SendKeepAlive
  BY <1>0, <1>5, OutboundTypeStays, InboundTypeStays, SentType DEF SendKeepAlive, restVars, keyVars
<1>6. CASE OutboundReceive
  <2>1. /\ UNCHANGED <<inVars, mapVars, inKeysExpired, zeroPosition, toInbound>>
        /\ trouble' \subseteq trouble \cup {"moved"} /\ toOutbound' \subseteq toOutbound
    BY <1>6, OutboundReceives DEF keyVars
  <2>2. InboundTypeOK'
    BY <1>0, <2>1 DEF InboundTypeOK, inVars, mapVars
  <2> QED
    BY <1>0, <1>6, <2>1, <2>2, OutboundReceiveType
<1>7. CASE OutboundCannotRead
  <2>1. UNCHANGED <<inVars, mapVars, keysExpired, inKeysExpired, zeroPosition, trouble>>
    BY <1>7 DEF OutboundCannotRead, restVars, keyVars
  <2>2. toOutbound' \subseteq toOutbound
    BY <1>7, Arriving DEF OutboundCannotRead
  <2>3. CloseOutbound("UnknownMessageError") \/ UNCHANGED <<outVars, toInbound>>
    BY <1>7 DEF OutboundCannotRead
  <2> QED
    BY <1>0, <2>1, <2>2, <2>3, OutboundTypeStays, InboundTypeStays, CloseOutboundType DEF Reasons
<1>8. CASE OutboundStops
  <2>1. PICK reason \in Reasons : CloseOutbound(reason)
    BY <1>8 DEF OutboundStops, Reasons
  <2> QED
    BY <1>0, <1>8, <2>1, InboundTypeStays, CloseOutboundType DEF OutboundStops, restVars, keyVars
<1>9. CASE KeysExpire
  <2>1. OutboundTypeOK'
    BY <1>0, <1>9 DEF KeysExpire, OutboundTypeOK, outVars
  <2>2. InboundTypeOK'
    BY <1>0, <1>9 DEF KeysExpire, InboundTypeOK, inVars, mapVars
  <2> QED
    BY <1>0, <1>9, <2>1, <2>2 DEF KeysExpire
<1>10. CASE Lose
  BY <1>0, <1>10, OutboundTypeStays, InboundTypeStays DEF Lose, restVars, keyVars
<1>11. CASE AcceptConnection
  <2>1. ListenerStep
    BY <1>11, ListenerSteps
  <2>2. OutboundTypeOK' /\ UNCHANGED inKeysExpired
    BY <1>0, <2>1, OutboundTypeStays DEF ListenerStep, keyVars
  <2>3. toOutbound' \subseteq InboundMessage
    <3>1. [from |-> Listener, keys |-> DefaultKeys, type |-> "Cookie"] \in InboundMessage
      BY MessageTypes, SocketTypes
    <3> QED
      BY <1>0, <2>1, <3>1 DEF ListenerStep
  <2>4. InboundTypeOK'
    <3>1. CASE UNCHANGED <<inVars, mapVars>>
      BY <1>0, <2>1, <2>2, <3>1 DEF ListenerStep, InboundTypeOK, inVars, mapVars
    <3>2. CASE ~UNCHANGED <<inVars, mapVars>>
      <4>1. created + 1 \in Socket /\ created + 1 \in 0..MaxIncarnations
        BY <2>1, <3>2 DEF ListenerStep, Incarnation, Socket
      <4> QED
        BY <1>0, <1>n, <2>1, <2>2, <3>2, <4>1 DEF ListenerStep, InboundTypeOK
    <3> QED
      BY <3>1, <3>2
  <2> QED
    BY <1>0, <2>1, <2>2, <2>3, <2>4 DEF ListenerStep
<1>12. CASE Accept
  <2>1. InboundTypeOK'
    BY <1>0, <1>12, SocketTypes DEF Accept, InboundTypeOK, inVars, restVars, keyVars, Listener
  <2> QED
    BY <1>0, <1>12, <2>1, OutboundTypeStays DEF Accept, restVars, keyVars
<1>13. ASSUME NEW i \in Incarnation, SendInboundSyn(i)
       PROVE  OutboundTypeOK' /\ InboundTypeOK' /\ ToOK
  <2>1. InboundTypeOK'
    BY <1>0, <1>13 DEF SendInboundSyn, InboundTypeOK, mapVars, restVars, keyVars
  <2> QED
    BY <1>0, <1>13, <2>1, OutboundTypeStays DEF SendInboundSyn, restVars, keyVars
<1>14. ASSUME NEW i \in Incarnation, TransmitInboundSyn(i)
       PROVE  OutboundTypeOK' /\ InboundTypeOK' /\ ToOK
  <2>1. InboundTypeOK'
    BY <1>0, <1>14 DEF TransmitInboundSyn, InboundTypeOK, mapVars, restVars, keyVars
  <2>2. [from |-> Listener, keys |-> DefaultKeys, type |-> "Syn",
         connection |-> i, acknum |-> inLast[i]] \in InboundMessage
    BY <1>0, MessageTypes DEF InboundTypeOK
  <2> QED
    BY <1>0, <1>14, <2>1, <2>2, OutboundTypeStays DEF TransmitInboundSyn, restVars, keyVars
<1>15. ASSUME NEW i \in Incarnation, InboundReceive(i)
       PROVE  OutboundTypeOK' /\ InboundTypeOK' /\ ToOK
  <2>1. inSyn' \in {inSyn, [inSyn EXCEPT ![i] = "acked"]} /\ toInbound' \subseteq toInbound
    BY <1>15, Arriving DEF InboundReceive
  <2>2. InboundTypeOK'
    BY <1>0, <1>n, <1>15, <2>1
    DEF InboundReceive, BecomeConnected, InboundTypeOK, mapVars, restVars, keyVars
  <2> QED
    BY <1>0, <1>15, <2>1, <2>2, OutboundTypeStays DEF InboundReceive, restVars, keyVars
<1>16. ASSUME NEW i \in Incarnation,
              InboundReceiveReset(i) \/ InboundCannotRead(i) \/ InboundStops(i)
       PROVE  OutboundTypeOK' /\ InboundTypeOK' /\ ToOK
  <2>1. PICK reason \in Reasons : RemoveConnection(i, reason)
    BY <1>16 DEF InboundReceiveReset, InboundCannotRead, InboundStops, Reasons
  <2>2. established' \subseteq Incarnation
    BY <1>0, <1>16 DEF InboundTypeOK, InboundReceiveReset, InboundCannotRead, InboundStops
  <2>3. toInbound' \subseteq toInbound
    BY <1>16, Arriving DEF InboundReceiveReset, InboundCannotRead, InboundStops
  <2> QED
    BY <1>0, <1>n, <2>1, <2>2, <2>3, RemovalType
<1>17. ASSUME NEW i \in Incarnation, OnLocalIPInterfaceChanged(i)
       PROVE  OutboundTypeOK' /\ InboundTypeOK' /\ ToOK
  <2>1. InboundTypeOK'
    BY <1>0, <1>17 DEF OnLocalIPInterfaceChanged, InboundTypeOK, inVars, mapVars, keyVars
  <2>2. PICK from, keys \in Socket : Reply("Null", from, keys)
    BY <1>17, SocketTypes DEF OnLocalIPInterfaceChanged
  <2>3. toOutbound' \subseteq InboundMessage
    BY <1>0, <2>2, MessageTypes DEF Reply
  <2> QED
    BY <1>0, <1>17, <2>1, <2>3, OutboundTypeStays DEF OnLocalIPInterfaceChanged, keyVars
<1>19. CASE DataIsAcknowledged
  <2>1. queue' \in Seq(Pending)
    BY <1>19 DEF DataIsAcknowledged
  <2>2. OutboundTypeOK'
    BY <1>0, <1>19, <2>1 DEF DataIsAcknowledged, OutboundTypeOK, restVars, keyVars
  <2> QED
    BY <1>0, <1>19, <2>2, InboundTypeStays DEF DataIsAcknowledged, restVars, keyVars
<1>18. CASE UNCHANGED vars
  BY <1>0, <1>18, OutboundTypeStays, InboundTypeStays DEF vars, restVars, keyVars
<1> QED
  BY <1>1, <1>2, <1>3, <1>4, <1>5, <1>6, <1>7, <1>8, <1>9, <1>10, <1>11, <1>12, <1>13, <1>14,
     <1>15, <1>16, <1>17, <1>18, <1>19 DEF Next

-----------------------------------------------------------------------------
(* Shape, and that only the peer is established.                           *)

Safe == Shape /\ Unmoved

LEMMA InitialSafe == Init => Safe
BY SocketTypes DEF Init, Safe, Shape, Unmoved, Moved, Incarnation, Listener, DefaultKeys

\* What keeps Safe whichever action it is: the outbound end, the connections and the
\* messages stay or lose messages.
LEMMA SafeStays ==
    ASSUME Safe,
           UNCHANGED <<status, peer, endpoint, trouble, keysExpired, accepting, created,
                       inStatus, established>>,
           toOutbound' \subseteq toOutbound, toInbound' \subseteq toInbound
    PROVE  Safe'
BY DEF Safe, Shape, Unmoved, Moved

\* An end that is connected has an established socket to send to.
LEMMA SafeClose ==
    ASSUME Safe, NEW reason, CloseOutbound(reason), toOutbound' \subseteq toOutbound,
           UNCHANGED <<inVars, mapVars, keysExpired, trouble>>
    PROVE  Safe'
BY DEF Safe, Shape, Unmoved, Moved, CloseOutbound, Send, inVars, mapVars

LEMMA SafeRemoval ==
    ASSUME TypeOK, Safe, NEW i \in Incarnation, NEW reason, RemoveConnection(i, reason),
           inStatus[i] # "None", toInbound' \subseteq toInbound,
           established' = established \/ (established' = established \cup {i} /\ (Moved \/ i = peer))
    PROVE  Safe'
<1>1. /\ UNCHANGED <<status, peer, endpoint, trouble, keysExpired, accepting, created>>
      /\ inStatus' = [inStatus EXCEPT ![i] = "Removed"]
      /\ UNCHANGED toOutbound \/ Reply("Reset", i, i)
  BY DEF RemoveConnection, outVars, mapVars, restVars, keyVars
<1>2. /\ \A m \in toOutbound' : m.type = "Syn" => m.connection <= created
      /\ \A m \in toOutbound' : m.type = "Reset" => m.keys = m.from
  BY <1>1 DEF Reply, Safe, Shape
<1>3. \A j \in Incarnation : inStatus'[j] = "None" <=> j > created
  BY <1>1 DEF TypeOK, Safe, Shape
<1> QED
  BY <1>1, <1>2, <1>3 DEF Safe, Shape, Unmoved, Moved

LEMMA NextSafe ==
    ASSUME TypeOK, Safe, TrackerIsExact, [Next]_vars
    PROVE  Safe'
<1> USE DEF restVars, keyVars
<1>1. CASE Connect \/ Accept \/ Lose \/ DataIsAcknowledged \/ UNCHANGED vars
  <2>1. CASE Connect
    BY <2>1 DEF Connect, inVars, mapVars, Safe, Shape, Unmoved, Moved
  <2>2. CASE Accept
    BY <2>2 DEF Accept, outVars, inVars, Safe, Shape, Unmoved, Moved, TypeOK
  <2>3. CASE Lose
    <3>1. toOutbound' \subseteq toOutbound /\ toInbound' \subseteq toInbound
      BY <2>3 DEF Lose
    <3> QED
      BY <2>3, <3>1, SafeStays DEF Lose, outVars, inVars, mapVars
  <2>4. CASE UNCHANGED vars
    BY <2>4, SafeStays DEF vars, outVars, inVars, mapVars
  <2>5. CASE DataIsAcknowledged
    BY <2>5, SafeStays DEF DataIsAcknowledged, inVars, mapVars
  <2> QED
    BY <1>1, <2>1, <2>2, <2>3, <2>4, <2>5
<1>2. CASE SendDelayedItem \/ Retransmit
  <2>1. PICK syn : SendSyn(syn)
    BY <1>2 DEF SendDelayedItem, Retransmit
  <2>2. UNCHANGED <<status, peer, endpoint, trouble, keysExpired, accepting, created,
                       inStatus, established, toOutbound>>
    BY <1>2 DEF SendDelayedItem, Retransmit, outVars, inVars, mapVars
  <2> QED
    BY <2>1, <2>2 DEF SendSyn, Safe, Shape, Unmoved, Moved
<1>3. CASE SendPendingAcks \/ SendKeepAlive
  <2>1. PICK type \in {"EAck", "Null"} : Send(type)
    BY <1>3 DEF SendPendingAcks, SendKeepAlive
  <2>2. /\ status = "Connected"
        /\ UNCHANGED <<status, peer, endpoint, trouble, keysExpired, accepting, created,
                       inStatus, established, toOutbound>>
    BY <1>3 DEF SendPendingAcks, SendKeepAlive, outVars, inVars, mapVars
  <2> QED
    BY <2>1, <2>2 DEF Send, Safe, Shape, Unmoved, Moved
<1>4. CASE OutboundReceive
  <2>1. /\ UNCHANGED <<accepting, created, inStatus, established, keysExpired, toInbound>>
        /\ trouble' = IF endpoint' = peer' THEN trouble ELSE trouble \cup {"moved"}
    BY <1>4 DEF OutboundReceive, inVars, mapVars
  <2>2. toOutbound' \subseteq toOutbound
    BY <1>4, OutboundReceives
  <2>3. PICK m \in toOutbound : \/ ReceiveInboundSyn(m) \/ ReceiveCookie(m)
                                 \/ ReceiveReset(m) \/ CheckEndpointChange(m) \/ IgnoreMessage(m)
    BY <1>4, OutboundReceives
  <2>4. CASE ReceiveInboundSyn(m)
    <3>1. peer = Listener /\ (~Moved => established = {} /\ \A m1 \in toInbound : m1.to = Listener)
      BY <2>4 DEF ReceiveInboundSyn, Safe, Shape, Unmoved, Moved, TypeOK, Incarnation, Listener
    <3>2. status' = "Connected" /\ peer' = m.connection /\ endpoint' = peer' /\ peer' # Listener
      BY <2>4, TypeParts, SynFields DEF ReceiveInboundSyn, Incarnation, Listener
    <3> QED
      BY <2>1, <2>2, <3>1, <3>2 DEF Safe, Shape, Unmoved, Moved
  <2>5. CASE ReceiveCookie(m) \/ ReceiveReset(m) \/ IgnoreMessage(m)
    BY <2>1, <2>2, <2>5
    DEF ReceiveCookie, ReceiveReset, IgnoreMessage, outVars, Safe, Shape, Unmoved, Moved
  <2>6. CASE CheckEndpointChange(m)
    <3>1. endpoint' # Listener /\ status = "Connected" /\ UNCHANGED <<status, peer>>
      BY <2>6 DEF CheckEndpointChange
    <3>2. CASE endpoint' = peer'
      BY <2>1, <2>2, <3>1, <3>2 DEF Safe, Shape, Unmoved, Moved
    <3>3. CASE endpoint' # peer'
      <4>1. "moved" \in trouble'
        BY <2>1, <3>3
      <4>2. Unmoved'
        BY <4>1 DEF Unmoved, Moved
      <4> QED
        BY <2>1, <2>2, <3>1, <4>2 DEF Safe, Shape
    <3> QED
      BY <3>2, <3>3
  <2> QED
    BY <2>3, <2>4, <2>5, <2>6
<1>5. CASE OutboundCannotRead
  <2>1. toOutbound' \subseteq toOutbound
    BY <1>5, Arriving DEF OutboundCannotRead
  <2> QED
    BY <1>5, <2>1, SafeClose, SafeStays DEF OutboundCannotRead, outVars, inVars, mapVars
<1>6. CASE OutboundStops
  <2>1. PICK reason : CloseOutbound(reason)
    BY <1>6 DEF OutboundStops
  <2> QED
    BY <1>6, <2>1, SafeClose DEF OutboundStops
<1>7. CASE KeysExpire
  BY <1>7 DEF KeysExpire, outVars, inVars, mapVars, Safe, Shape, Unmoved, Moved
<1>8. CASE AcceptConnection
  <2>1. ListenerStep
    BY <1>8, ListenerSteps DEF Safe
  <2>2. /\ UNCHANGED <<status, peer, endpoint, keysExpired, established>> /\ toInbound' \subseteq toInbound
        /\ Moved' <=> Moved
    BY <2>1 DEF ListenerStep, outVars, inVars, Moved
  <2>3. \A m \in toOutbound' : m.type \in {"Syn", "Reset"} => m \in toOutbound
    BY <2>1 DEF ListenerStep
  <2>4. CASE UNCHANGED <<inVars, mapVars>>
    BY <2>2, <2>3, <2>4 DEF inVars, mapVars, Safe, Shape, Unmoved, Moved
  <2>5. CASE /\ created + 1 \in Incarnation
             /\ created' = created + 1
             /\ accepting' = created'
             /\ inStatus' = [inStatus EXCEPT ![created + 1] = "Open"]
    <3>1. \A i \in Incarnation : inStatus'[i] = "None" <=> i > created'
      BY <2>5 DEF Safe, Shape, TypeOK, Incarnation
    <3>2. \A m \in toOutbound' : m.type = "Syn" => m.connection <= created'
      <4>1. \A m \in toOutbound : m.type = "Syn" => m.connection \in Nat /\ m.connection <= created
        BY TypeParts, SynFields DEF Safe, Shape, Incarnation
      <4> QED
        BY <2>3, <2>5, <4>1 DEF TypeOK
    <3>3. \A m \in toOutbound' : m.type = "Reset" => m.keys = m.from
      BY <2>3 DEF Safe, Shape
    <3>4. accepting' <= created'
      BY <2>5 DEF TypeOK
    <3> QED
      BY <2>2, <3>1, <3>2, <3>3, <3>4 DEF Safe, Shape, Unmoved, Moved
  <2> QED
    BY <2>1, <2>4, <2>5 DEF ListenerStep
<1>9. ASSUME NEW i \in Incarnation, SendInboundSyn(i)
      PROVE  Safe'
  BY <1>9 DEF SendInboundSyn, outVars, mapVars, Safe, Shape, Unmoved, Moved, TypeOK
<1>10. ASSUME NEW i \in Incarnation, TransmitInboundSyn(i)
       PROVE  Safe'
  <2>1. i <= created
    BY <1>10 DEF TransmitInboundSyn, Safe, Shape, TypeOK, Incarnation
  <2> QED
    BY <1>10, <2>1 DEF TransmitInboundSyn, outVars, mapVars, Safe, Shape, Unmoved, Moved
<1>11. ASSUME NEW i \in Incarnation, InboundReceive(i)
       PROVE  Safe'
  <2>1. /\ toInbound' \subseteq toInbound
        /\ Moved \/ i = peer
        /\ inStatus' = [inStatus EXCEPT ![i] = "Connected"] /\ inStatus[i] # "None"
        /\ established' = established \cup {i}
    BY <1>11, Arriving DEF InboundReceive, BecomeConnected, Safe, Unmoved, Incarnation, Listener
  <2> QED
    BY <1>11, <2>1 DEF InboundReceive, outVars, mapVars, Safe, Shape, Unmoved, Moved, TypeOK
<1>12. ASSUME NEW i \in Incarnation,
              InboundReceiveReset(i) \/ InboundCannotRead(i) \/ InboundStops(i)
       PROVE  Safe'
  <2>1. PICK reason : RemoveConnection(i, reason)
    BY <1>12 DEF InboundReceiveReset, InboundCannotRead, InboundStops
  <2>2. toInbound' \subseteq toInbound /\ inStatus[i] # "None"
    BY <1>12, Arriving DEF InboundReceiveReset, InboundCannotRead, InboundStops, Live
  <2>3. established' = established \/ (established' = established \cup {i} /\ (Moved \/ i = peer))
    BY <1>12 DEF InboundReceiveReset, InboundCannotRead, InboundStops, Safe, Unmoved, Incarnation, Listener
  <2> QED
    BY <2>1, <2>2, <2>3, SafeRemoval
<1>13. ASSUME NEW i \in Incarnation, OnLocalIPInterfaceChanged(i)
       PROVE  Safe'
  <2>1. PICK from, keys : Reply("Null", from, keys)
    BY <1>13 DEF OnLocalIPInterfaceChanged
  <2> QED
    BY <1>13, <2>1
    DEF OnLocalIPInterfaceChanged, Reply, outVars, inVars, mapVars, Safe, Shape, Unmoved, Moved
<1> QED
  BY <1>1, <1>2, <1>3, <1>4, <1>5, <1>6, <1>7, <1>8, <1>9, <1>10, <1>11, <1>12, <1>13 DEF Next

-----------------------------------------------------------------------------
(* What holds as long as it is calm.                                       *)

\* Nothing that the invariant of a calm handshake is about changes, but messages may be lost.
LEMMA CalmStays ==
    ASSUME CalmCore,
           UNCHANGED <<status, condition, nextSend, delayed, queue, created, inStatus,
                       inCondition, inLast, zeroPosition>>,
           toOutbound' \subseteq toOutbound, toInbound' \subseteq toInbound
    PROVE  CalmCore'
BY DEF CalmCore, HandshakeIsOrderly, OneInboundConnection, NoUnknownMessage, Live

\* The same for what is readable: no connection's endpoint changes or is connected, and
\* nothing numbered 0 is sent that was not.
LEMMA ReadableStays ==
    ASSUME SynIsReadable, UNCHANGED <<peer, endpoint, inKeysExpired, zeroPosition>>,
           queue' = queue \/ queue' = <<>>,
           \A i \in Incarnation : inStatus'[i] = "Connected" => inStatus[i] = "Connected" \/ i = peer,
           \A m \in toInbound' : m.type = "Syn" => m \in toInbound
    PROVE  SynIsReadable'
BY DEF SynIsReadable, SynZeroIsSent

\* Each end can read what the other may still send it.
LEMMA PeerIsReadable ==
    ASSUME TypeOK, Safe, ~Moved, HandshakeIsOrderly, Running, NEW m \in toOutbound, m.from = endpoint
    PROVE  OutboundCanRead(m)
<1>1. CASE m.type = "Syn"
  BY <1>1, TypeParts, SynFields DEF OutboundCanRead, DefaultKeys, Listener, Safe, Unmoved
<1>2. CASE m.type = "Reset"
  BY <1>2 DEF OutboundCanRead, Safe, Shape, Unmoved
<1> QED
  BY <1>1, <1>2 DEF HandshakeIsOrderly

LEMMA ConnectionReads ==
    ASSUME TypeOK, Safe, ~Moved, SynIsReadable, NEW i \in Incarnation, NEW m \in toInbound, m.to = i
    PROVE  InboundCanRead(i, m)
<1>1. CASE m.type # "Syn"
  BY <1>1 DEF InboundCanRead, Safe, Unmoved
<1>2. CASE m.type = "Syn"
  <2>1. m.keys = DefaultKeys
    BY <1>2, TypeParts, SynFields
  <2>2. SynZeroIsSent(i)
    BY <1>2 DEF SynIsReadable, SynZeroIsSent, Incarnation, Listener
  <2>3. ~inKeysExpired[i]
    BY <2>2 DEF SynIsReadable
  <2> QED
    BY <2>1, <2>3 DEF InboundCanRead
<1> QED
  BY <1>1, <1>2

LEMMA CalmClose ==
    ASSUME CalmCore, NEW reason, CloseOutbound(reason), reason # "UnknownMessageError",
           UNCHANGED <<inVars, mapVars, restVars>>, toOutbound' \subseteq toOutbound
    PROVE  CalmCore'
BY DEF CalmCore, HandshakeIsOrderly, OneInboundConnection, NoUnknownMessage, Live, CloseOutbound,
       Send, inVars, mapVars, restVars

LEMMA CalmRemoval ==
    ASSUME TypeOK, CalmCore, NEW i \in Incarnation, NEW reason, RemoveConnection(i, reason),
           reason # "UnknownMessageError", toInbound' \subseteq toInbound
    PROVE  CalmCore'
<1>1. /\ UNCHANGED <<status, condition, nextSend, delayed, queue, created, inLast, zeroPosition>>
      /\ inStatus' = [inStatus EXCEPT ![i] = "Removed"]
      /\ inCondition' = [inCondition EXCEPT ![i] = reason]
      /\ UNCHANGED toOutbound \/ Reply("Reset", i, i)
  BY DEF RemoveConnection, outVars, mapVars, restVars
<1>2. HandshakeIsOrderly'
  BY <1>1 DEF CalmCore, HandshakeIsOrderly, Reply
<1>3. OneInboundConnection' /\ NoUnknownMessage'
  BY <1>1 DEF TypeOK, CalmCore, OneInboundConnection, NoUnknownMessage, Live
<1> QED
  BY <1>2, <1>3 DEF CalmCore

\* The acknowledgement of the Syn empties the send queue, but for a Syn numbered 0.
LEMMA CalmReceive ==
    ASSUME TypeOK, Safe, CalmCore, OutboundReceive
    PROVE  CalmCore'
<1>1. /\ UNCHANGED <<created, inStatus, inCondition, inLast, zeroPosition, toInbound>>
      /\ toOutbound' \subseteq toOutbound /\ Running
  BY OutboundReceives DEF inVars, mapVars
<1>2. PICK m \in toOutbound : \/ ReceiveInboundSyn(m) \/ ReceiveCookie(m)
                               \/ ReceiveReset(m) \/ CheckEndpointChange(m) \/ IgnoreMessage(m)
  BY OutboundReceives
<1>3. CASE ReceiveInboundSyn(m)
  <2>1. m.type = "Syn" /\ m.acknum = 0 /\ status = "Handshake"
    BY <1>3 DEF ReceiveInboundSyn, CalmCore, HandshakeIsOrderly
  <2>2. created # 0
    BY <2>1, TypeParts, SynFields DEF Safe, Shape, Incarnation
  <2>3. nextSend = 1 /\ delayed = {} /\ Len(queue) = 1 /\ queue[1].seqnum = 0
    BY <2>1, <2>2 DEF CalmCore, HandshakeIsOrderly
  <2>4. queue' = <<>> \/ (queue' = queue /\ zeroPosition = 0)
    BY <1>3, <2>1, <2>3, AfterAckLeaves DEF ReceiveInboundSyn, TypeOK
  <2>5. UNCHANGED <<condition, nextSend, delayed>> /\ status' = "Connected"
    BY <1>3 DEF ReceiveInboundSyn
  <2> QED
    BY <1>1, <2>3, <2>4, <2>5
    DEF CalmCore, HandshakeIsOrderly, OneInboundConnection, NoUnknownMessage, Live
<1>4. ~ReceiveCookie(m) /\ ~CheckEndpointChange(m)
  BY DEF ReceiveCookie, CheckEndpointChange, CalmCore, HandshakeIsOrderly
<1>5. CASE ReceiveReset(m)
  BY <1>1, <1>5
  DEF ReceiveReset, CalmCore, HandshakeIsOrderly, OneInboundConnection, NoUnknownMessage, Live
<1>6. CASE IgnoreMessage(m)
  BY <1>1, <1>6, CalmStays DEF IgnoreMessage, outVars
<1> QED
  BY <1>2, <1>3, <1>4, <1>5, <1>6

LEMMA CalmAccept ==
    ASSUME TypeOK, Safe, CalmCore, TrackerIsExact, AcceptConnection, "cookie" \notin trouble'
    PROVE  CalmCore'
<1>1. ListenerStep
  BY ListenerSteps DEF Safe
<1>2. UNCHANGED <<status, condition, nextSend, delayed, queue, zeroPosition>> /\ toInbound' \subseteq toInbound
  BY <1>1 DEF ListenerStep, outVars
<1>3. CASE UNCHANGED <<inVars, mapVars, toOutbound>>
  BY <1>2, <1>3, CalmStays DEF inVars, mapVars
<1>4. CASE ~UNCHANGED <<inVars, mapVars, toOutbound>>
  <2>1. PICK m \in toInbound :
            /\ m.type = "Syn"
            /\ created + 1 \in Incarnation
            /\ created' = created + 1
            /\ inStatus' = [inStatus EXCEPT ![created + 1] = "Open"]
            /\ inLast' = [inLast EXCEPT ![created + 1] = m.seqnum]
            /\ UNCHANGED <<inCondition, toOutbound>>
            /\ \A i \in Incarnation : ~Live(i)
    BY <1>1, <1>4 DEF ListenerStep
  <2>2. m.seqnum = 0 /\ ~(status \in {"Open", "Handshake"} /\ nextSend = 0)
    BY <2>1 DEF CalmCore, HandshakeIsOrderly
  <2>3. \A i \in Incarnation : inLast'[i] = 0
    BY <2>1, <2>2 DEF TypeOK, CalmCore, HandshakeIsOrderly
  <2>4. HandshakeIsOrderly'
    BY <1>2, <2>1, <2>2, <2>3 DEF CalmCore, HandshakeIsOrderly
  <2>5. OneInboundConnection' /\ NoUnknownMessage'
    BY <1>2, <2>1 DEF TypeOK, CalmCore, OneInboundConnection, NoUnknownMessage, Live
  <2> QED
    BY <2>4, <2>5 DEF CalmCore
<1> QED
  BY <1>3, <1>4

LEMMA InitialCalm == Init => CalmCore
BY DEF Init, CalmCore, HandshakeIsOrderly, OneInboundConnection, NoUnknownMessage, Live

LEMMA NextCalm ==
    ASSUME TypeOK, Safe, CalmCore, SynIsReadable, TrackerIsExact, [Next]_vars, ~Moved, trouble' = {}
    PROVE  CalmCore'
<1> USE DEF restVars, keyVars
<1>1. CASE Connect
  <2>1. /\ status' = "Handshake" /\ created = 0 /\ queue = <<>> /\ nextSend = 0
        /\ \A s \in delayed' : s.seqnum = 0 /\ delayed' = {s}
    <3>1. nextSend = 0 /\ delayed = {} /\ created = 0 /\ queue = <<>>
      BY <1>1 DEF Connect, CalmCore, HandshakeIsOrderly
    <3>2. delayed' = {[seqnum |-> nextSend, cookie |-> FALSE, id |-> made']}
      BY <1>1, <3>1 DEF Connect, SendOutboundSyn
    <3> QED
      BY <1>1, <3>1, <3>2 DEF Connect
  <2> QED
    BY <1>1, <2>1 DEF Connect, inVars, mapVars, CalmCore, HandshakeIsOrderly,
                      OneInboundConnection, NoUnknownMessage, Live
<1>2. CASE SendDelayedItem
  <2>1. PICK syn \in delayed : /\ delayed' = delayed \ {syn}
                               /\ queue' = Append(queue, syn)
                               /\ nextSend' = nextSend + 1
                               /\ SendSyn(syn)
    BY <1>2 DEF SendDelayedItem
  <2>2. UNCHANGED <<status, peer, condition, created, inStatus, inCondition, inLast, zeroPosition,
                    toOutbound>>
    BY <1>2 DEF SendDelayedItem, inVars, mapVars
  <2>3. status = "Handshake" /\ nextSend = 0
    BY <1>2, <2>1 DEF SendDelayedItem, Running, CalmCore, HandshakeIsOrderly
  <2>4. delayed' = {} /\ nextSend' = 1 /\ queue = <<>> /\ syn.seqnum = 0 /\ peer = Listener
    BY <2>1, <2>3 DEF CalmCore, HandshakeIsOrderly, Safe, Shape
  <2>5. Len(queue') = 1 /\ queue'[1].seqnum = 0
    BY <2>1, <2>4
  <2>6. \A m \in toInbound' : m.type = "Syn" => m.seqnum = 0
    BY <2>1, <2>4 DEF SendSyn, CalmCore, HandshakeIsOrderly
  <2> QED
    BY <2>2, <2>3, <2>4, <2>5, <2>6
    DEF CalmCore, HandshakeIsOrderly, OneInboundConnection, NoUnknownMessage, Live
<1>3. CASE Retransmit
  <2>1. PICK k \in DOMAIN queue : SendSyn(queue[k])
    BY <1>3 DEF Retransmit
  <2>2. UNCHANGED <<status, condition, nextSend, delayed, queue, created, inStatus,
                    inCondition, inLast, zeroPosition, toOutbound>>
    BY <1>3 DEF Retransmit, outVars, inVars, mapVars
  <2>3. queue # <<>> /\ DOMAIN queue = 1..Len(queue) /\ Running
    BY <1>3, <2>1 DEF Retransmit, TypeOK
  <2>4. Len(queue) = 1 /\ queue[1].seqnum = 0 /\ (status = "Handshake" => nextSend # 0)
    BY <2>3 DEF Running, CalmCore, HandshakeIsOrderly
  <2>5. queue[k].seqnum = 0
    BY <2>1, <2>3, <2>4
  <2>6. \A m \in toInbound' : m.type = "Syn" => m.seqnum = 0
    BY <2>1, <2>5 DEF SendSyn, CalmCore, HandshakeIsOrderly
  <2> QED
    BY <2>2, <2>3, <2>4, <2>6
    DEF Running, CalmCore, HandshakeIsOrderly, OneInboundConnection, NoUnknownMessage, Live
<1>4. CASE SendPendingAcks \/ SendKeepAlive
  <2>1. PICK type \in {"EAck", "Null"} : Send(type)
    BY <1>4 DEF SendPendingAcks, SendKeepAlive
  <2>2. /\ status = "Connected"
        /\ UNCHANGED <<status, condition, nextSend, delayed, queue, created, inStatus,
                       inCondition, inLast, zeroPosition, toOutbound>>
    BY <1>4 DEF SendPendingAcks, SendKeepAlive, outVars, inVars, mapVars
  <2>3. \A m \in toInbound' : m.type = "Syn" => m \in toInbound
    BY <2>1 DEF Send
  <2> QED
    BY <2>2, <2>3 DEF CalmCore, HandshakeIsOrderly, OneInboundConnection, NoUnknownMessage, Live
<1>5. CASE OutboundReceive
  BY <1>5, CalmReceive
<1>6. CASE OutboundCannotRead
  <2>1. UNCHANGED <<outVars, toInbound>>
    BY <1>6, PeerIsReadable DEF OutboundCannotRead, CalmCore
  <2>2. toOutbound' \subseteq toOutbound
    BY <1>6, Arriving DEF OutboundCannotRead
  <2> QED
    BY <1>6, <2>1, <2>2, CalmStays DEF OutboundCannotRead, outVars, inVars, mapVars
<1>7. CASE OutboundStops
  <2>1. PICK reason \in {"TimedOutError", "LocalCloseRequest"} : CloseOutbound(reason)
    BY <1>7 DEF OutboundStops
  <2> QED
    BY <1>7, <2>1, CalmClose DEF OutboundStops
<1>8. CASE KeysExpire \/ Accept \/ Lose \/ UNCHANGED vars
  <2>1. UNCHANGED <<status, condition, nextSend, delayed, queue, created, inStatus,
                    inCondition, inLast, zeroPosition>>
    BY <1>8 DEF KeysExpire, Accept, Lose, vars, outVars, inVars, mapVars
  <2>2. toOutbound' \subseteq toOutbound /\ toInbound' \subseteq toInbound
    BY <1>8 DEF KeysExpire, Accept, Lose, vars
  <2> QED
    BY <2>1, <2>2, CalmStays
<1>9. CASE AcceptConnection
  BY <1>9, CalmAccept
<1>10. ASSUME NEW i \in Incarnation, SendInboundSyn(i)
       PROVE  CalmCore'
  BY <1>10 DEF SendInboundSyn, outVars, mapVars, TypeOK, CalmCore, HandshakeIsOrderly,
               OneInboundConnection, NoUnknownMessage, Live
<1>11. ASSUME NEW i \in Incarnation, TransmitInboundSyn(i)
       PROVE  CalmCore'
  BY <1>11 DEF TransmitInboundSyn, outVars, mapVars, CalmCore, HandshakeIsOrderly,
               OneInboundConnection, NoUnknownMessage, Live
<1>12. ASSUME NEW i \in Incarnation, InboundReceive(i)
       PROVE  CalmCore'
  <2>1. /\ UNCHANGED <<status, condition, nextSend, delayed, queue, created, inCondition,
                       inLast, zeroPosition, toOutbound>>
        /\ toInbound' \subseteq toInbound
        /\ inStatus[i] \in {"Handshake", "Connected"}
        /\ inStatus' = [inStatus EXCEPT ![i] = "Connected"]
    BY <1>12, Arriving DEF InboundReceive, BecomeConnected, outVars, mapVars
  <2> QED
    BY <2>1 DEF TypeOK, CalmCore, HandshakeIsOrderly, OneInboundConnection, NoUnknownMessage, Live
<1>13. ASSUME NEW i \in Incarnation,
              InboundReceiveReset(i) \/ InboundCannotRead(i) \/ InboundStops(i)
       PROVE  CalmCore'
  <2>1. ~InboundCannotRead(i)
    BY ConnectionReads DEF InboundCannotRead
  <2>2. PICK reason \in {"PeerCloseRequest", "TimedOutError", "LocalCloseRequest"} :
            RemoveConnection(i, reason)
    BY <1>13, <2>1 DEF InboundReceiveReset, InboundStops
  <2>3. toInbound' \subseteq toInbound
    BY <1>13, <2>1, Arriving DEF InboundReceiveReset, InboundStops
  <2> QED
    BY <2>2, <2>3, CalmRemoval
<1>15. CASE DataIsAcknowledged
  <2>1. /\ status = "Connected" /\ queue' = <<>>
        /\ UNCHANGED <<status, condition, nextSend, delayed, created, inStatus, inCondition,
                       inLast, zeroPosition, toOutbound, toInbound>>
    BY <1>15 DEF DataIsAcknowledged, inVars, mapVars
  <2> QED
    BY <2>1 DEF CalmCore, HandshakeIsOrderly, OneInboundConnection, NoUnknownMessage, Live
<1>14. \A i \in Incarnation : ~OnLocalIPInterfaceChanged(i)
  BY DEF OnLocalIPInterfaceChanged
<1> QED
  BY <1>1, <1>2, <1>3, <1>4, <1>5, <1>6, <1>7, <1>8, <1>9, <1>10, <1>11, <1>12, <1>13, <1>14, <1>15
  DEF Next

\* The Syn that stays in the queue can be read as long as it is sent.
LEMMA InitialReadable == Init => SynIsReadable
BY DEF Init, SynIsReadable

LEMMA NextReadable ==
    ASSUME TypeOK, Safe, CalmCore, SynIsReadable, TrackerIsExact, [Next]_vars, ~Moved, trouble' = {}
    PROVE  SynIsReadable'
<1> USE DEF restVars, keyVars
<1>0. peer = Listener => \A i \in Incarnation : i # peer
  BY DEF Incarnation, Listener
<1>1. CASE SendDelayedItem
  <2>1. PICK syn \in delayed : SendSyn(syn)
    BY <1>1 DEF SendDelayedItem
  <2>2. UNCHANGED <<peer, endpoint, inStatus, inKeysExpired, zeroPosition>>
    BY <1>1 DEF SendDelayedItem, inVars
  <2>3. peer = Listener /\ endpoint = Listener
    BY <1>1, <2>1 DEF SendDelayedItem, Running, CalmCore, HandshakeIsOrderly, Safe, Shape
  <2>4. \A m \in toInbound' : m.to # Listener => m \in toInbound
    BY <2>1, <2>3 DEF SendSyn
  <2> QED
    BY <1>0, <2>2, <2>3, <2>4 DEF SynIsReadable, SynZeroIsSent
<1>2. CASE Retransmit
  <2>1. PICK k \in DOMAIN queue : SendSyn(queue[k])
    BY <1>2 DEF Retransmit
  <2>2. UNCHANGED <<peer, endpoint, queue, inStatus, inKeysExpired, zeroPosition>> /\ Running
    BY <1>2 DEF Retransmit, outVars, inVars
  <2>3. CASE status = "Handshake"
    <3>1. peer = Listener /\ endpoint = Listener
      BY <2>3 DEF Safe, Shape
    <3>2. \A m \in toInbound' : m.to # Listener => m \in toInbound
      BY <2>1, <3>1 DEF SendSyn
    <3> QED
      BY <1>0, <2>2, <3>1, <3>2 DEF SynIsReadable, SynZeroIsSent
  <2>4. CASE status = "Connected"
    <3>1. queue # <<>> /\ DOMAIN queue = 1..Len(queue)
      BY <2>1 DEF TypeOK
    <3>2. zeroPosition = 0 /\ Len(queue) = 1 /\ queue[1].seqnum = 0
      BY <2>4, <3>1 DEF CalmCore, HandshakeIsOrderly
    <3>3. queue[k].seqnum = zeroPosition
      BY <2>1, <3>1, <3>2
    <3>4. \A i \in Incarnation : i = peer => SynZeroIsSent(i)
      BY <2>1, <3>3 DEF SynZeroIsSent, Safe, Unmoved
    <3>5. \A i \in Incarnation : ~inKeysExpired'[i]
      BY <2>2, <3>4 DEF SynIsReadable
    <3>6. \A m \in toInbound' : m \in toInbound \/ m.seqnum = zeroPosition
      BY <2>1, <3>3 DEF SendSyn
    <3> QED
      BY <2>2, <3>5, <3>6 DEF SynIsReadable
  <2> QED
    BY <2>2, <2>3, <2>4 DEF Running
<1>3. CASE SendPendingAcks \/ SendKeepAlive
  <2>1. PICK type \in {"EAck", "Null"} : Send(type)
    BY <1>3 DEF SendPendingAcks, SendKeepAlive
  <2>2. UNCHANGED <<peer, endpoint, queue, inStatus, inKeysExpired, zeroPosition>>
    BY <1>3 DEF SendPendingAcks, SendKeepAlive, outVars, inVars
  <2>3. \A m \in toInbound' : m.type = "Syn" => m \in toInbound
    BY <2>1 DEF Send
  <2> QED
    BY <2>2, <2>3, ReadableStays
<1>4. CASE OutboundReceive
  <2>1. UNCHANGED <<inStatus, inKeysExpired, zeroPosition, toInbound>>
    BY <1>4, OutboundReceives DEF inVars
  <2>2. PICK m \in toOutbound : \/ ReceiveInboundSyn(m) \/ ReceiveCookie(m)
                                 \/ ReceiveReset(m) \/ CheckEndpointChange(m) \/ IgnoreMessage(m)
    BY <1>4, OutboundReceives
  <2>3. CASE ReceiveInboundSyn(m)
    <3>1. peer = Listener
      BY <2>3 DEF ReceiveInboundSyn, Safe, Shape
    <3> QED
      BY <1>0, <2>1, <3>1 DEF SynIsReadable
  <2>4. ~ReceiveCookie(m) /\ ~CheckEndpointChange(m)
    BY DEF ReceiveCookie, CheckEndpointChange, CalmCore, HandshakeIsOrderly
  <2>5. CASE ReceiveReset(m) \/ IgnoreMessage(m)
    BY <2>1, <2>5, ReadableStays DEF ReceiveReset, IgnoreMessage, outVars
  <2> QED
    BY <2>2, <2>3, <2>4, <2>5
<1>5. CASE OutboundCannotRead \/ OutboundStops
  <2>1. UNCHANGED <<peer, endpoint, queue, inStatus, inKeysExpired, zeroPosition>>
    BY <1>5 DEF OutboundCannotRead, OutboundStops, CloseOutbound, outVars, inVars
  <2>2. UNCHANGED toInbound \/ Send("Reset")
    BY <1>5 DEF OutboundCannotRead, OutboundStops, CloseOutbound
  <2>3. \A m \in toInbound' : m.type = "Syn" => m \in toInbound
    BY <2>2 DEF Send
  <2> QED
    BY <2>1, <2>3, ReadableStays
<1>6. CASE KeysExpire
  <2>1. UNCHANGED <<peer, endpoint, queue, inStatus, zeroPosition, toInbound>>
    BY <1>6 DEF KeysExpire, outVars, inVars
  <2>2. \A i \in Incarnation : inKeysExpired'[i] =>
            inKeysExpired[i] \/ (inStatus[i] = "Connected" /\ ~SynZeroIsSent(i))
    BY <1>6 DEF KeysExpire, TypeOK
  <2> QED
    BY <2>1, <2>2 DEF SynIsReadable, SynZeroIsSent
<1>7. CASE Connect \/ Accept \/ Lose \/ DataIsAcknowledged \/ UNCHANGED vars
  <2>1. UNCHANGED <<peer, endpoint, inStatus, inKeysExpired, zeroPosition>>
    BY <1>7 DEF Connect, Accept, Lose, DataIsAcknowledged, vars, outVars, inVars
  <2>2. toInbound' \subseteq toInbound /\ (queue' = queue \/ queue' = <<>>)
    BY <1>7 DEF Connect, Accept, Lose, DataIsAcknowledged, vars, outVars
  <2> QED
    BY <2>1, <2>2, ReadableStays
<1>8. CASE AcceptConnection
  <2>1. ListenerStep
    BY <1>8, ListenerSteps DEF Safe
  <2>2. /\ UNCHANGED <<peer, endpoint, queue, inKeysExpired, zeroPosition>> /\ toInbound' \subseteq toInbound
        /\ \A i \in Incarnation : inStatus'[i] = "Connected" => inStatus[i] = "Connected"
    BY <2>1 DEF ListenerStep, outVars, inVars, TypeOK
  <2> QED
    BY <2>2, ReadableStays
<1>9. ASSUME NEW i \in Incarnation, SendInboundSyn(i) \/ TransmitInboundSyn(i)
      PROVE  SynIsReadable'
  <2>1. /\ UNCHANGED <<peer, endpoint, queue, inKeysExpired, zeroPosition, toInbound>>
        /\ \A j \in Incarnation : inStatus'[j] = "Connected" => inStatus[j] = "Connected"
    BY <1>9 DEF SendInboundSyn, TransmitInboundSyn, outVars, TypeOK
  <2> QED
    BY <2>1, ReadableStays
<1>10. ASSUME NEW i \in Incarnation, InboundReceive(i)
       PROVE  SynIsReadable'
  <2>1. /\ UNCHANGED <<peer, endpoint, queue, inKeysExpired, zeroPosition>> /\ toInbound' \subseteq toInbound
        /\ inStatus' = [inStatus EXCEPT ![i] = "Connected"]
    BY <1>10, Arriving DEF InboundReceive, BecomeConnected, outVars
  <2>2. i = peer
    BY <1>10 DEF InboundReceive, Safe, Unmoved, Incarnation, Listener
  <2> QED
    BY <2>1, <2>2, ReadableStays DEF TypeOK
<1>11. ASSUME NEW i \in Incarnation,
              InboundReceiveReset(i) \/ InboundCannotRead(i) \/ InboundStops(i)
       PROVE  SynIsReadable'
  <2>1. /\ UNCHANGED <<peer, endpoint, queue, inKeysExpired, zeroPosition>>
        /\ inStatus' = [inStatus EXCEPT ![i] = "Removed"]
    BY <1>11 DEF InboundReceiveReset, InboundCannotRead, InboundStops, RemoveConnection, outVars
  <2>2. toInbound' \subseteq toInbound
    BY <1>11, Arriving DEF InboundReceiveReset, InboundCannotRead, InboundStops
  <2> QED
    BY <2>1, <2>2, ReadableStays DEF TypeOK
<1>12. \A i \in Incarnation : ~OnLocalIPInterfaceChanged(i)
  BY DEF OnLocalIPInterfaceChanged
<1> QED
  BY <1>1, <1>2, <1>3, <1>4, <1>5, <1>6, <1>7, <1>8, <1>9, <1>10, <1>11, <1>12 DEF Next

-----------------------------------------------------------------------------
(* The theorems.                                                           *)

LEMMA InitialInvariant == Init => HandshakeInv
<1>1. Init => TrackerIsExact
  <2>1. Init => InHandshake = {}
    BY DEF Init, InHandshake
  <2> QED
    BY <2>1, FS_EmptySet DEF Init, TrackerIsExact, InHandshake
<1> QED
  BY <1>1, InitialType, InitialSafe, InitialCalm, InitialReadable DEF HandshakeInv, CalmInv, Safe

LEMMA CalmIsOver == [Next]_vars /\ calm' => calm
BY DEF calm, Next, vars, restVars, Connect, SendDelayedItem, Retransmit, SendPendingAcks,
    SendKeepAlive, DataIsAcknowledged, OutboundReceive, OutboundCannotRead, OutboundStops,
    KeysExpire, Lose, AcceptConnection, AcceptSyn, Accept, SendInboundSyn, TransmitInboundSyn, InboundReceive,
    InboundReceiveReset, InboundCannotRead, InboundStops, RemoveConnection,
    OnLocalIPInterfaceChanged

LEMMA NextInvariant == HandshakeInv /\ [Next]_vars => HandshakeInv'
<1> SUFFICES ASSUME HandshakeInv, [Next]_vars
             PROVE  HandshakeInv'
  OBVIOUS
<1>1. TypeOK' /\ TrackerIsExact'
  BY NextType, NextTracker DEF HandshakeInv
<1>2. Safe'
  BY NextSafe DEF HandshakeInv, Safe
<1>3. calm' => CalmInv'
  <2> SUFFICES ASSUME calm'
               PROVE  CalmInv'
    OBVIOUS
  <2>1. trouble = {} /\ trouble' = {} /\ ~Moved
    BY CalmIsOver DEF calm, Moved
  <2> QED
    BY <2>1, NextCalm, NextReadable DEF HandshakeInv, CalmInv, Safe, calm
<1> QED
  BY <1>1, <1>2, <1>3 DEF HandshakeInv, Safe

LEMMA InvariantHolds == Spec => []HandshakeInv
BY InitialInvariant, NextInvariant, PTL DEF Spec

\* The variables keep their types.
THEOREM TypeCorrect == Spec => []TypeOK
<1>1. HandshakeInv => TypeOK
  BY DEF HandshakeInv
<1> QED
  BY <1>1, InvariantHolds, PTL

\* Only the connection that the connecting end completed its handshake with is ever
\* established (UDPConnection.cpp), unless a keepalive moves that end to another; as long
\* as no cookie was asked for and no interface has changed it is the only one of its ID, and
\* no end takes a message of the other for an attacker's, whatever is lost, late, repeated
\* or closed.
THEOREM Established == Spec => []OneConnection
<1>1. HandshakeInv => OneConnection
  BY DEF HandshakeInv, OneConnection, OnlyPeerIsEstablished, Unmoved, Moved, CalmInv, CalmCore
<1> QED
  BY <1>1, InvariantHolds, PTL

\* The handshakes in progress, which decide whether cookies are asked for, are counted
\* exactly; and as long as it is calm the ends of an established connection agree on the
\* next sequence number, and nothing of the handshake is left to be sent, but for a Syn
\* numbered 0, whose acknowledgement is ignored (UDPConnectionSendQueue.cpp).
THEOREM Agreed == Spec => []NumbersAgree
<1>1. HandshakeInv => NumbersAgree
  <2> SUFFICES ASSUME HandshakeInv, calm, status = "Connected"
               PROVE  /\ nextSend = inLast[peer] + 1 /\ delayed = {}
                      /\ queue # <<>> => inLast[peer] = zeroPosition /\ Len(queue) = 1
                                          /\ queue[1].seqnum = zeroPosition
    BY DEF HandshakeInv, NumbersAgree, SequencesAgree
  <2>1. peer \in Incarnation
    BY DEF HandshakeInv, TypeOK, Shape, Socket, Incarnation, Listener
  <2> QED
    BY <2>1 DEF HandshakeInv, CalmInv, CalmCore, HandshakeIsOrderly
<1> QED
  BY <1>1, InvariantHolds, PTL
=============================================================================
