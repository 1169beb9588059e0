---------------------------- MODULE RelayProofs ----------------------------
(***************************************************************************)
(* Proofs about Relay, for a link over any number of hosts, with any       *)
(* number of event threads, any faults and any amount of data: a neighbour *)
(* is told at most once that the link is over, the user's socket is        *)
(* suspended exactly while its link is, and what the end's user gets is    *)
(* what the beginning's user wrote, in order and within the window.        *)
(***************************************************************************)
EXTENDS Relay, SequenceTheorems, TLAPS

USE RelayAssumption

-----------------------------------------------------------------------------
(* Types.                                                                  *)

\* The variables that only the actions of the users, the network and the data rate limit
\* change.
RestOK ==
  /\ peer \in [Hosts -> [Sides -> PeerStatuses]]
  /\ limit \in [next : Nat, inUse : Int, list : Seq(Nat)]
  /\ sendBuf \in Seq(Nat) /\ written \in Nat /\ got \in Seq(DataMessage)
  /\ silent \subseteq Hosts
  /\ budget \in [data : Nat, faults : Nat, kinds : SUBSET FaultKinds, timeouts : BOOLEAN]
  /\ refused \in BOOLEAN

\* Those of the links, what their users see and what is told about them.
LinksOK ==
  /\ link \in [Hosts -> Links]
  /\ sock \in [Hosts -> Socks]
  /\ farewells \in [Pairs -> Nat]
  /\ opened \subseteq Hosts

ChanOK == chan \in [Pairs -> Seq(Message)]

QueuesOK ==
  /\ portQ \in [Hosts -> Seq(Event)]
  /\ defaultQ \in [Hosts -> [Threads -> Seq(Event)]]

LEMMA TypeParts == TypeOK <=> RestOK /\ LinksOK /\ ChanOK /\ QueuesOK
BY DEF TypeOK, RestOK, LinksOK, ChanOK, QueuesOK

restVars == <<peer, limit, sendBuf, written, got, silent, budget, refused>>

LEMMA TypeStays ==
  /\ RestOK /\ UNCHANGED restVars => RestOK'
  /\ LinksOK /\ UNCHANGED <<link, sock, farewells, opened>> => LinksOK'
  /\ ChanOK /\ UNCHANGED chan => ChanOK'
  /\ QueuesOK /\ UNCHANGED <<portQ, defaultQ>> => QueuesOK'
BY DEF RestOK, LinksOK, ChanOK, QueuesOK, restVars

\* The operators on a link.
LEMMA LinkTypes ==
  ASSUME NEW l \in Links, NEW st \in Statuses, NEW m, NEW sides
  PROVE  /\ WithStatus(l, st) \in Links
         /\ Failed(l) \in Links
         /\ Muted(l, sides, m) \in Links
BY DEF Links, WithStatus, Failed, Muted, Statuses

LEMMA NoLinkType == NoLink \in Links /\ [NoLink EXCEPT !.status = "Removed"] \in Links
BY DEF NoLink, Links, Statuses

LEMMA SentType ==
  ASSUME ChanOK, NEW n, NEW sides, NEW m \in Message
  PROVE  Sent(n, sides, m) \in [Pairs -> Seq(Message)]
BY DEF ChanOK, Sent

LEMMA CountedType ==
  ASSUME farewells \in [Pairs -> Nat], NEW n, NEW sides, NEW st
  PROVE  Counted(n, sides, st) \in [Pairs -> Nat]
BY DEF Counted

LEMMA MessageTypes ==
  /\ Create \in Message
  /\ \A st \in StatusUpdates : Status(st) \in Message
  /\ \A id, piece \in Nat : Data(id, piece) \in Message
  /\ \A id \in Nat : Ack(id) \in Message
BY DEF Create, Status, Data, Ack, Message, DataMessage

LEMMA StatusTypes ==
  /\ {"Disconnected", "Failure", "Connected", "Suspended", "Resumed"} = StatusUpdates
  /\ \A st \in StatusUpdates : Becomes[st] \in Statuses
BY DEF StatusUpdates, Closing, Becomes, Statuses

LEMMA SockTypes ==
  ASSUME LinksOK, NEW n \in Hosts, NEW st
  PROVE  SockAfter(n, st) \in Socks
BY DEF LinksOK, SockAfter, Socks

LEMMA DisconnectType ==
  ASSUME LinksOK, ChanOK, NEW n \in Hosts, NEW l \in Links, Disconnect(n, l)
  PROVE  LinksOK' /\ ChanOK'
<1> DEFINE st == IF l.failed THEN "Failure" ELSE "Disconnected"
           to == MayGet(l, n, {s \in Sides : Present(n, s)})
<1>1. Status(st) \in Message
  BY MessageTypes, StatusTypes
<1>2. chan' \in [Pairs -> Seq(Message)]
  BY <1>1, SentType DEF Disconnect
<1>3. WithStatus(Muted(l, to, st), "Closed") \in Links
  BY LinkTypes DEF Statuses
<1>4. link' \in [Hosts -> Links]
  BY <1>3 DEF Disconnect, LinksOK
<1>5. farewells' \in [Pairs -> Nat]
  BY CountedType DEF Disconnect, LinksOK
<1>6. sock' \in [Hosts -> Socks]
  BY DEF Disconnect, LinksOK, Socks
<1> QED
  BY <1>2, <1>4, <1>5, <1>6 DEF Disconnect, LinksOK, ChanOK

LEMMA ChangeType ==
  ASSUME LinksOK, NEW n \in Hosts, NEW l \in Links, NEW st \in Statuses, Change(n, l, st),
         farewells' \in [Pairs -> Nat]
  PROVE  LinksOK'
<1>1. WithStatus(l, st) \in Links /\ SockAfter(n, st) \in Socks
  BY LinkTypes, SockTypes
<1> QED
  BY <1>1 DEF Change, LinksOK

LEMMA FailType ==
  ASSUME LinksOK, ChanOK, NEW n \in Hosts, Fail(n)
  PROVE  LinksOK' /\ ChanOK'
<1>1. Failed(link[n]) \in Links
  BY LinkTypes DEF LinksOK, Statuses
<1> QED
  BY <1>1 DEF Fail, LinksOK, ChanOK

LEMMA InitialType == Init => TypeOK
<1> SUFFICES ASSUME Init
             PROVE  RestOK /\ LinksOK /\ ChanOK /\ QueuesOK
  BY TypeParts
<1>1. RestOK
  <2>1. peer \in [Hosts -> [Sides -> PeerStatuses]]
    BY DEF Init, PeerStatuses
  <2>2. limit \in [next : Nat, inUse : Int, list : Seq(Nat)]
    BY DEF Init
  <2>3. budget \in [data : Nat, faults : Nat, kinds : SUBSET FaultKinds, timeouts : BOOLEAN]
    BY DEF Init
  <2>4. sendBuf \in Seq(Nat) /\ got \in Seq(DataMessage)
    BY DEF Init
  <2> QED
    BY <2>1, <2>2, <2>3, <2>4 DEF Init, RestOK
<1>2. LinksOK
  BY NoLinkType DEF Init, LinksOK, NoSock, Socks
<1>3. ChanOK
  BY DEF Init, ChanOK
<1>4. QueuesOK
  BY DEF Init, QueuesOK
<1> QED
  BY <1>1, <1>2, <1>3, <1>4

LEMMA FaultType ==
  ASSUME RestOK, NEW kind, Fault(kind)
  PROVE  budget' \in [data : Nat, faults : Nat, kinds : SUBSET FaultKinds, timeouts : BOOLEAN]
<1>1. budget.faults - 1 \in Nat
  BY DEF RestOK, Fault
<1>2. budget' = [budget EXCEPT !.faults = budget.faults - 1]
  BY DEF Fault
<1> QED
  BY <1>1, <1>2 DEF RestOK

LEMMA PrimaryThreadType ==
  ASSUME TypeOK, NEW n \in Hosts, PrimaryThread(n) \/ LinkTimeout(n) \/ Shutdown(n)
  PROVE  TypeOK'
<1>0. RestOK /\ LinksOK /\ ChanOK /\ QueuesOK /\ link[n] \in Links
  BY TypeParts DEF LinksOK
<1> SUFFICES RestOK' /\ LinksOK' /\ ChanOK' /\ QueuesOK'
  BY DEF TypeOK, RestOK, LinksOK, ChanOK, QueuesOK
<1>1. CASE PeerMissing(n) /\ UNCHANGED <<peer, written, got, silent, refused>>
  <2>1. [link[n] EXCEPT !.status = "Exception", !.failed = LostPeer(n)] \in Links
    <3>1. LostPeer(n) \in BOOLEAN
      BY DEF LostPeer
    <3> QED
      BY <1>0, <3>1 DEF Links, Statuses
  <2>2. LinksOK' /\ ChanOK'
    BY <1>0, <1>1, <2>1, DisconnectType DEF PeerMissing
  <2> QED
    BY <1>0, <1>1, <2>2, TypeStays DEF PeerMissing, restVars
<1>2. CASE AlreadyEnded(n) /\ UNCHANGED <<peer, written, got, silent, refused>>
  BY <1>0, <1>2, DisconnectType, TypeStays DEF AlreadyEnded, restVars
<1>3. CASE ProcessConnect(n) /\ UNCHANGED <<peer, written, got, silent, refused>>
  <2>1. LinksOK'
    BY <1>0, <1>3, ChangeType DEF ProcessConnect, LinksOK, Statuses
  <2>2. ChanOK'
    BY <1>0, <1>3, SentType, MessageTypes, StatusTypes DEF ProcessConnect, ChanOK
  <2> QED
    BY <1>0, <1>3, <2>1, <2>2, TypeStays DEF ProcessConnect, restVars
<1>4. CASE ProcessConnectedSuspend(n) /\ UNCHANGED <<peer, written, got, silent, refused>>
  <2> DEFINE away == {s \in Sides : InStatus(n, s, "Suspended")}
             far == {s \in away : ~IsUser(n, s)}
             to == IF HasUser(n) THEN {} ELSE MayGet(link[n], n, Sides \ away)
             l == [link[n] EXCEPT !.suspended = [s \in Sides |-> s \in far],
                                  !.needsResume = [s \in Sides |-> s \in to \/ @[s]]]
  <2>1. l \in Links
    <3>1. [s \in Sides |-> s \in far] \in [Sides -> BOOLEAN]
      OBVIOUS
    <3>2. [s \in Sides |-> s \in to \/ link[n].needsResume[s]] \in [Sides -> BOOLEAN]
      <4> HIDE DEF to
      <4> QED
        OBVIOUS
    <3> HIDE DEF to, far
    <3> QED
      BY <1>0, <3>1, <3>2 DEF Links
  <2>2. ASSUME Disconnect(n, Failed(link[n]))
        PROVE  LinksOK' /\ ChanOK'
    <3>1. Failed(link[n]) \in Links
      BY <1>0, LinkTypes DEF Statuses
    <3> QED
      BY <1>0, <2>2, <3>1, DisconnectType
  <2>3. ASSUME Change(n, l, "Suspended"),
               chan' = Sent(n, to, Status("Suspended")),
               UNCHANGED farewells
        PROVE  LinksOK' /\ ChanOK'
    <3> HIDE DEF l
    <3>1. LinksOK'
      BY <1>0, <2>1, <2>3, ChangeType DEF LinksOK, Statuses
    <3>2. ChanOK'
      BY <1>0, <2>3, SentType, MessageTypes, StatusTypes DEF ChanOK
    <3> QED
      BY <3>1, <3>2
  <2>4. LinksOK' /\ ChanOK'
    BY <1>4, <2>2, <2>3 DEF ProcessConnectedSuspend
  <2> QED
    BY <1>0, <1>4, <2>4, TypeStays DEF ProcessConnectedSuspend, restVars
<1>5. CASE n = 1 /\ ProcessConnectedSend /\ UNCHANGED <<peer, written, got, silent, refused>>
  <2>1. Head(sendBuf) \in Nat /\ Tail(sendBuf) \in Seq(Nat)
    BY <1>0, <1>5 DEF ProcessConnectedSend, RestOK
  <2>2. [side |-> "in", m |-> Data(limit.next, Head(sendBuf))] \in Event
    BY <1>0, <2>1, MessageTypes DEF RestOK, Event, Sides
  <2>3. QueuesOK'
    BY <1>0, <1>5, <2>2 DEF ProcessConnectedSend, QueuesOK
  <2>4. AddMTU(limit) \in [next : Nat, inUse : Int, list : Seq(Nat)]
    <3>1. limit.next \in Nat /\ limit.inUse \in Int /\ limit.list \in Seq(Nat)
      BY <1>0 DEF RestOK
    <3>2. Append(limit.list, limit.next) \in Seq(Nat)
      BY <3>1
    <3>3. Len(limit.list) = NumMTUsPerWindow => Append(Tail(limit.list), limit.next) \in Seq(Nat)
      <4>1. ASSUME Len(limit.list) = NumMTUsPerWindow
            PROVE  Append(Tail(limit.list), limit.next) \in Seq(Nat)
        <5>1. limit.list # <<>>
          <6>1. Len(limit.list) = 2
            BY <4>1 DEF NumMTUsPerWindow
          <6>2. Len(<<>>) = 0
            OBVIOUS
          <6>3. CASE limit.list = <<>>
            BY <6>1, <6>2, <6>3
          <6> QED
            BY <6>3
        <5>2. Tail(limit.list) \in Seq(Nat)
          BY <3>1, <5>1
        <5> QED
          BY <3>1, <5>2
      <4> QED
        BY <4>1
    <3> QED
      BY <3>1, <3>2, <3>3 DEF AddMTU
  <2>5. RestOK'
    BY <1>0, <1>5, <2>1, <2>4 DEF ProcessConnectedSend, RestOK
  <2> QED
    BY <1>0, <1>5, <2>3, <2>5, TypeStays DEF ProcessConnectedSend
<1>6. CASE ProcessSuspended(n) /\ UNCHANGED <<peer, written, got, silent, refused>>
  <2> DEFINE l == [link[n] EXCEPT !.suspended = NoLink.suspended,
                                  !.needsResume = NoLink.needsResume]
  <2>1. l \in Links
    BY <1>0 DEF Links, NoLink
  <2>2. Change(n, l, "Connected")
    BY <1>6 DEF ProcessSuspended
  <2> HIDE DEF l
  <2>3. LinksOK'
    BY <1>0, <1>6, <2>1, <2>2, ChangeType DEF ProcessSuspended, LinksOK, Statuses
  <2>4. ChanOK'
    BY <1>0, <1>6, SentType, MessageTypes, StatusTypes DEF ProcessSuspended, ChanOK
  <2> QED
    BY <1>0, <1>6, <2>3, <2>4, TypeStays DEF ProcessSuspended, restVars
<1>7. CASE RemoveClosed(n) /\ UNCHANGED <<peer, written, got, silent, refused>>
  <2>1. LinksOK'
    BY <1>0, <1>7, NoLinkType DEF RemoveClosed, LinksOK
  <2>2. QueuesOK'
    BY <1>0, <1>7 DEF RemoveClosed, QueuesOK
  <2> QED
    BY <1>0, <1>7, <2>1, <2>2, TypeStays DEF RemoveClosed, restVars
<1>8. CASE LinkTimeout(n)
  <2>1. LinksOK' /\ ChanOK'
    BY <1>0, <1>8, LinkTypes, DisconnectType DEF LinkTimeout, TimedOut, Statuses
  <2>2. RestOK'
    BY <1>0, <1>8, FaultType DEF LinkTimeout, TimedOut, RestOK
  <2> QED
    BY <1>0, <1>8, <2>1, <2>2, TypeStays DEF LinkTimeout, TimedOut
<1>9. CASE Shutdown(n)
  <2>1. LinksOK' /\ ChanOK'
    BY <1>0, <1>9, DisconnectType DEF Shutdown
  <2>2. RestOK'
    BY <1>0, <1>9, FaultType DEF Shutdown, RestOK
  <2>3. QueuesOK'
    BY <1>0, <1>9 DEF Shutdown, QueuesOK
  <2> QED
    BY <2>1, <2>2, <2>3
<1> QED
  BY <1>1, <1>2, <1>3, <1>4, <1>5, <1>6, <1>7, <1>8, <1>9 DEF PrimaryThread

\* An event that is taken from a queue is an event, and the queue stays one.
LEMMA PoppedType ==
  ASSUME QueuesOK, NEW n \in Hosts, NEW q \in Threads \cup {"port"},
         Front(n, q) # <<>>, Popped(n, q)
  PROVE  QueuesOK' /\ Head(Front(n, q)) \in Event
<1>1. Front(n, q) \in Seq(Event)
  BY DEF QueuesOK, Front
<1>2. Head(Front(n, q)) \in Event /\ Tail(Front(n, q)) \in Seq(Event)
  BY <1>1
<1>3. CASE q = "port"
  BY <1>2, <1>3 DEF Popped, Front, QueuesOK
<1>4. CASE q # "port"
  <2>1. q \in Threads /\ Front(n, q) = defaultQ[n][q]
    BY <1>4 DEF Front
  <2>2. [defaultQ[n] EXCEPT ![q] = Tail(defaultQ[n][q])] \in [Threads -> Seq(Event)]
    BY <1>2, <2>1 DEF QueuesOK
  <2>3. defaultQ' = [defaultQ EXCEPT ![n] = [defaultQ[n] EXCEPT ![q] = Tail(defaultQ[n][q])]]
    BY <1>4 DEF Popped
  <2>4. defaultQ' \in [Hosts -> [Threads -> Seq(Event)]]
    BY <2>2, <2>3 DEF QueuesOK
  <2> QED
    BY <1>2, <1>4, <2>4 DEF Popped, QueuesOK
<1> QED
  BY <1>2, <1>3, <1>4

LEMMA EventFields ==
  ASSUME NEW e \in Event
  PROVE  /\ e.side \in Sides /\ e.m \in Message
         /\ e.m.type = "Status" => e.m.status \in StatusUpdates
         /\ e.m.type = "Data" => e.m.id \in Nat /\ e.m \in DataMessage
         /\ e.m.type = "Ack" => e.m.id \in Nat
         /\ e.m.type = "Create" => e.m = Create
BY DEF Event, Message, DataMessage, Create

LEMMA ProcessCreateType ==
  ASSUME RestOK, LinksOK, ChanOK, NEW n \in Hosts, NEW e \in Event, ProcessCreate(n, e),
         UNCHANGED <<sendBuf, written, silent>>
  PROVE  RestOK' /\ LinksOK' /\ ChanOK'
<1> USE DEF ProcessCreate
<1>1. CASE Fault("refusal") /\ Ignore /\ UNCHANGED peer
  BY <1>1, FaultType, TypeStays DEF Ignore, RestOK
<1>2. CASE /\ Fault("refusal")
           /\ chan' = IF Present(n, e.side) THEN Sent(n, {e.side}, Status("Failure")) ELSE chan
           /\ farewells' = IF Present(n, e.side) THEN Counted(n, {e.side}, "Failure") ELSE farewells
           /\ UNCHANGED <<link, peer, sock, opened, refused>>
  <2>1. ChanOK'
    BY <1>2, SentType, MessageTypes, StatusTypes DEF ChanOK
  <2>2. LinksOK'
    BY <1>2, CountedType DEF LinksOK
  <2> QED
    BY <1>2, <2>1, <2>2, FaultType DEF RestOK
<1>3. CASE /\ link' = [link EXCEPT ![n] = WithStatus(NoLink, "Connect")]
           /\ peer' = IF n = Last THEN [peer EXCEPT ![n].out = "Connecting"] ELSE peer
           /\ UNCHANGED <<chan, sock, farewells, opened, refused, budget>>
  <2>1. WithStatus(NoLink, "Connect") \in Links
    BY NoLinkType, LinkTypes DEF Statuses
  <2>2. peer' \in [Hosts -> [Sides -> PeerStatuses]]
    BY <1>3 DEF RestOK, PeerStatuses
  <2> QED
    BY <1>3, <2>1, <2>2 DEF RestOK, LinksOK, ChanOK
<1> QED
  BY <1>1, <1>2, <1>3

LEMMA ProcessStatusType ==
  ASSUME RestOK, LinksOK, ChanOK, NEW n \in Hosts, NEW e \in Event, e.m.type = "Status",
         ProcessStatus(n, e), UNCHANGED <<sendBuf, written, silent>>
  PROVE  RestOK' /\ LinksOK' /\ ChanOK'
<1> DEFINE st == e.m.status
           l == Muted(link[n], {e.side}, st)
           to == IF HasUser(n) THEN {} ELSE MayGet(l, n, {Other(e.side)})
           l2 == [Muted(l, to, st) EXCEPT !.failed = @ \/ st = "Failure"]
<1>1. st \in StatusUpdates /\ e.m \in Message
  BY EventFields
<1>2. l \in Links /\ Failed(l) \in Links
  BY LinkTypes DEF LinksOK, Statuses
<1>3. Muted(l, to, st) \in Links
  BY <1>2, LinkTypes DEF Statuses
<1>4. l2 \in Links
  <2> HIDE DEF l, to, st
  <2>1. Muted(l, to, st).failed \in BOOLEAN
    BY <1>3 DEF Links
  <2>2. (Muted(l, to, st).failed \/ st = "Failure") \in BOOLEAN
    OBVIOUS
  <2> QED
    BY <1>3, <2>2 DEF Links
<1>5. RestOK'
  BY DEF ProcessStatus, Ignore, RestOK
<1>6. CASE Ignore
  BY <1>5, <1>6, TypeStays DEF Ignore
<1>7. CASE Fail(n)
  BY <1>5, <1>7, FailType
<1>8. CASE /\ link' = [link EXCEPT ![n] = Failed(l)]
           /\ UNCHANGED <<chan, sock, farewells, opened>>
  <2> HIDE DEF l
  <2> QED
    BY <1>2, <1>5, <1>8 DEF LinksOK, ChanOK
<1>9. CASE /\ Change(n, l2, Becomes[st])
           /\ chan' = Sent(n, to, e.m)
           /\ farewells' = Counted(n, to, st)
  <2> HIDE DEF l2, to
  <2>1. farewells' \in [Pairs -> Nat]
    BY <1>9, CountedType DEF LinksOK
  <2>2. LinksOK'
    BY <1>1, <1>4, <1>9, <2>1, StatusTypes, ChangeType
  <2>3. ChanOK'
    BY <1>1, <1>9, SentType DEF ChanOK
  <2> QED
    BY <1>5, <2>2, <2>3
<1> QED
  BY <1>6, <1>7, <1>8, <1>9 DEF ProcessStatus

LEMMA ProcessDataType ==
  ASSUME RestOK, LinksOK, ChanOK, NEW n \in Hosts, NEW e \in Event, e.m.type = "Data",
         ProcessData(n, e), UNCHANGED <<sendBuf, written, silent>>
  PROVE  RestOK' /\ LinksOK' /\ ChanOK'
<1>1. e.m \in DataMessage /\ e.m \in Message /\ Ack(e.m.id) \in Message
  BY EventFields, MessageTypes
<1>2. RestOK'
  <2>1. got' = got \/ got' = Append(got, e.m)
    BY DEF ProcessData
  <2>2. got' \in Seq(DataMessage)
    <3>1. got \in Seq(DataMessage)
      BY DEF RestOK
    <3>2. Append(got, e.m) \in Seq(DataMessage)
      BY <1>1, <3>1, AppendProperties
    <3> QED
      BY <2>1, <3>1, <3>2
  <2> QED
    BY <2>2 DEF ProcessData, Ignore, RelayOn, RestOK
<1>3. CASE Fail(n)
  BY <1>2, <1>3, FailType
<1>4. CASE ~Fail(n)
  <2>1. UNCHANGED <<link, sock, farewells, opened>>
    BY <1>4 DEF ProcessData, Ignore
  <2>2. chan' = chan \/ \E sides : \E m \in Message : chan' = Sent(n, sides, m)
    <3>1. \/ chan' = chan
          \/ chan' = Sent(n, {e.side}, Ack(e.m.id))
          \/ chan' = Sent(n, {Other(e.side)}, e.m)
      BY <1>4 DEF ProcessData, Ignore, RelayOn
    <3> QED
      BY <1>1, <3>1
  <2>3. ChanOK'
    BY <2>2, SentType DEF ChanOK
  <2> QED
    BY <1>2, <2>1, <2>3, TypeStays
<1> QED
  BY <1>3, <1>4

LEMMA ProcessAckType ==
  ASSUME RestOK, LinksOK, ChanOK, NEW n \in Hosts, NEW e \in Event, e.m.type = "Ack",
         ProcessAck(n, e), UNCHANGED <<sendBuf, written, silent>>
  PROVE  RestOK' /\ LinksOK' /\ ChanOK'
<1>1. e.m \in Message
  BY EventFields
<1>2. RestOK'
  <2>1. AckMTU(limit, e.m.id) \in [next : Nat, inUse : Int, list : Seq(Nat)]
    <3>1. limit.inUse - 1 \in Int /\ limit \in [next : Nat, inUse : Int, list : Seq(Nat)]
      BY DEF RestOK
    <3>2. [limit EXCEPT !.inUse = limit.inUse - 1] \in [next : Nat, inUse : Int, list : Seq(Nat)]
      BY <3>1
    <3> QED
      BY <3>1, <3>2 DEF AckMTU
  <2>2. limit' \in [next : Nat, inUse : Int, list : Seq(Nat)]
    BY <2>1 DEF RestOK, ProcessAck
  <2> QED
    BY <2>2 DEF ProcessAck, Ignore, RestOK
<1>3. CASE Fail(n)
  BY <1>2, <1>3, FailType
<1>4. CASE ~Fail(n)
  <2>1. UNCHANGED <<link, sock, farewells, opened>>
    BY <1>4 DEF ProcessAck, Ignore
  <2>2. ChanOK'
    BY <1>1, <1>4, SentType DEF ProcessAck, Ignore, ChanOK
  <2> QED
    BY <1>2, <2>1, <2>2, TypeStays
<1> QED
  BY <1>3, <1>4

LEMMA ProcessEventsType ==
  ASSUME TypeOK, NEW n \in Hosts, NEW q \in Threads \cup {"port"}, ProcessEvents(n, q)
  PROVE  TypeOK'
<1> DEFINE e == Head(Front(n, q))
<1>0. RestOK /\ LinksOK /\ ChanOK /\ QueuesOK
  BY TypeParts
<1>1. QueuesOK' /\ e \in Event
  BY <1>0, PoppedType DEF ProcessEvents
<1>2. UNCHANGED <<sendBuf, written, silent>>
  BY DEF ProcessEvents
<1>3. \/ e.m.type = "Create" /\ ProcessCreate(n, e)
      \/ e.m.type = "Status" /\ ProcessStatus(n, e)
      \/ e.m.type = "Data" /\ ProcessData(n, e)
      \/ e.m.type = "Ack" /\ ProcessAck(n, e)
  BY DEF ProcessEvents
<1> HIDE DEF e
<1>4. RestOK' /\ LinksOK' /\ ChanOK'
  BY <1>0, <1>1, <1>2, <1>3, ProcessCreateType, ProcessStatusType, ProcessDataType, ProcessAckType
<1> QED
  BY <1>1, <1>4 DEF TypeOK, RestOK, LinksOK, ChanOK, QueuesOK

\* A message that is received becomes an event.
LEMMA ReceiveType ==
  ASSUME TypeOK, NEW p \in Pairs, Receive(p)
  PROVE  TypeOK'
<1> DEFINE n == p[2]
           e == [side |-> Side(n, p[1]), m |-> Head(chan[p])]
<1>0. RestOK /\ LinksOK /\ ChanOK /\ QueuesOK /\ n \in Hosts
  BY TypeParts DEF Pairs
<1>1. chan[p] \in Seq(Message) /\ chan[p] # <<>>
  BY <1>0 DEF ChanOK, Receive
<1>2. Head(chan[p]) \in Message /\ Tail(chan[p]) \in Seq(Message)
  BY <1>1
<1>3. e \in Event
  BY <1>2 DEF Event, Side, Sides
<1>4. ChanOK'
  BY <1>0, <1>2 DEF Receive, ChanOK
<1>5. \/ \E t \in Threads : /\ defaultQ' = [defaultQ EXCEPT ![n][t] = Append(@, e)]
                            /\ UNCHANGED portQ
      \/ portQ' = [portQ EXCEPT ![n] = Append(@, e)] /\ UNCHANGED defaultQ
  BY DEF Receive
<1> HIDE DEF e, n
<1>6. QueuesOK'
  <2>1. CASE portQ' = [portQ EXCEPT ![n] = Append(@, e)] /\ UNCHANGED defaultQ
    <3>1. Append(portQ[n], e) \in Seq(Event)
      BY <1>0, <1>3, AppendProperties DEF QueuesOK
    <3> QED
      BY <1>0, <2>1, <3>1 DEF QueuesOK
  <2>2. ASSUME NEW t \in Threads, defaultQ' = [defaultQ EXCEPT ![n][t] = Append(@, e)],
               UNCHANGED portQ
        PROVE  QueuesOK'
    <3>1. Append(defaultQ[n][t], e) \in Seq(Event)
      BY <1>0, <1>3, AppendProperties DEF QueuesOK
    <3>2. [defaultQ[n] EXCEPT ![t] = Append(defaultQ[n][t], e)] \in [Threads -> Seq(Event)]
      BY <1>0, <3>1 DEF QueuesOK
    <3>3. defaultQ' = [defaultQ EXCEPT ![n] = [defaultQ[n] EXCEPT ![t] = Append(defaultQ[n][t], e)]]
      BY <2>2
    <3> QED
      BY <1>0, <2>2, <3>2, <3>3 DEF QueuesOK
  <2> QED
    BY <1>5, <2>1, <2>2
<1>7. RestOK' /\ LinksOK'
  BY <1>0, TypeStays DEF Receive, restVars
<1> QED
  BY <1>4, <1>6, <1>7 DEF TypeOK, RestOK, LinksOK, ChanOK, QueuesOK

\* What the peers and their connections do leaves the links and their queues alone.
PeerStep ==
  /\ PeersOnly
  /\ silent' \subseteq Hosts
  /\ peer' \in [Hosts -> [Sides -> PeerStatuses]]
  /\ budget' \in [data : Nat, faults : Nat, kinds : SUBSET FaultKinds, timeouts : BOOLEAN]
  /\ \/ UNCHANGED chan
     \/ \E r \in Hosts \X Hosts : chan' = [p \in Pairs |-> IF p = r THEN <<>> ELSE chan[p]]
     \/ chan' = [p \in Pairs |-> chan[p]]

LEMMA PeerSteps ==
  ASSUME TypeOK, NEW n \in Hosts, NEW s \in Sides,
         \/ UserNotices(n) \/ UserEnds(n) \/ FallsSilent(n) \/ ComesBack(n)
         \/ PeerReady(n, s) \/ PeerSuspends(n, s) \/ PeerResumes(n, s)
         \/ PeerGone(n, s) \/ PeerNoticesGone(n, s)
  PROVE  PeerStep
<1>0. RestOK /\ ChanOK
  BY TypeParts
<1>1. ASSUME NEW u \in Sides, NEW st \in PeerStatuses, SetPeer(n, u, st)
      PROVE  peer' \in [Hosts -> [Sides -> PeerStatuses]]
  BY <1>0, <1>1 DEF SetPeer, RestOK
<1>2. ASSUME NEW u \in Sides, Leave(n, u)
      PROVE  /\ PeersOnly
             /\ peer' \in [Hosts -> [Sides -> PeerStatuses]]
             /\ \/ \E r \in Hosts \X Hosts : chan' = [p \in Pairs |-> IF p = r THEN <<>> ELSE chan[p]]
                \/ chan' = [p \in Pairs |-> chan[p]]
  <2>1. peer' \in [Hosts -> [Sides -> PeerStatuses]]
    BY <1>1, <1>2 DEF Leave, PeerStatuses
  <2>2. CASE <<Neighbour(n, u), n>> \in Hosts \X Hosts
    BY <1>2, <2>1, <2>2 DEF Leave
  <2>3. CASE <<Neighbour(n, u), n>> \notin Hosts \X Hosts
    BY <1>2, <2>1, <2>3 DEF Leave, Pairs
  <2> QED
    BY <2>2, <2>3
<1>3. UserSide(n) \in Sides
  BY DEF UserSide, Sides
<1>4. CASE FallsSilent(n) \/ ComesBack(n)
  BY <1>0, <1>4, FaultType DEF FallsSilent, ComesBack, PeerStep, RestOK
<1>5. CASE UserNotices(n)
  BY <1>0, <1>1, <1>3, <1>5 DEF UserNotices, PeerStatuses, PeerStep, RestOK
<1>6. CASE PeerReady(n, s) \/ PeerSuspends(n, s) \/ PeerResumes(n, s)
  BY <1>0, <1>1, <1>6 DEF PeerReady, PeerSuspends, PeerResumes, PeerStatuses, PeerStep, RestOK
<1>7. CASE UserEnds(n)
  BY <1>0, <1>2, <1>3, <1>7 DEF UserEnds, PeerStep, RestOK
<1>8. CASE PeerGone(n, s) \/ PeerNoticesGone(n, s)
  BY <1>0, <1>2, <1>8, FaultType DEF PeerGone, PeerNoticesGone, PeerStep, RestOK
<1> QED
  BY <1>4, <1>5, <1>6, <1>7, <1>8

LEMMA PeerStepType == TypeOK /\ PeerStep => TypeOK'
<1> SUFFICES ASSUME RestOK, LinksOK, ChanOK, QueuesOK, PeerStep
             PROVE  RestOK' /\ LinksOK' /\ ChanOK' /\ QueuesOK'
  BY TypeParts DEF TypeOK, RestOK, LinksOK, ChanOK, QueuesOK
<1>1. RestOK' /\ LinksOK' /\ QueuesOK'
  BY DEF PeerStep, PeersOnly, RestOK, LinksOK, QueuesOK
<1>2. ChanOK'
  <2>1. CASE UNCHANGED chan
    BY <2>1 DEF ChanOK
  <2>2. ASSUME NEW r \in Hosts \X Hosts, chan' = [p \in Pairs |-> IF p = r THEN <<>> ELSE chan[p]]
        PROVE  ChanOK'
    BY <2>2 DEF ChanOK
  <2>3. CASE chan' = [p \in Pairs |-> chan[p]]
    BY <2>3 DEF ChanOK
  <2> QED
    BY <2>1, <2>2, <2>3 DEF PeerStep
<1> QED
  BY <1>1, <1>2

LEMMA NextType == TypeOK /\ [Next]_vars => TypeOK'
<1> SUFFICES ASSUME TypeOK, [Next]_vars
             PROVE  TypeOK'
  OBVIOUS
<1>0. RestOK /\ LinksOK /\ ChanOK /\ QueuesOK
  BY TypeParts
<1>1. CASE Open
  <2>1. WithStatus(NoLink, "Connect") \in Links /\ 1 \in Hosts
    BY NoLinkType, LinkTypes DEF Statuses, Hosts
  <2> QED
    BY <1>1, <2>1 DEF Open, TypeOK
<1>2. CASE UserSend
  <2>1. sendBuf' \in Seq(Nat) /\ written' \in Nat
    <3>1. sendBuf \in Seq(Nat) /\ written + 1 \in Nat
      BY <1>0 DEF RestOK
    <3> QED
      BY <1>2, <3>1, AppendProperties DEF UserSend
  <2> QED
    BY <1>2, <2>1 DEF UserSend, TypeOK
<1>3. ASSUME NEW n \in Hosts, PrimaryThread(n) \/ LinkTimeout(n) \/ Shutdown(n)
      PROVE  TypeOK'
  BY <1>3, PrimaryThreadType
<1>4. ASSUME NEW n \in Hosts, NEW q \in Threads \cup {"port"}, ProcessEvents(n, q)
      PROVE  TypeOK'
  BY <1>4, ProcessEventsType
<1>5. ASSUME NEW p \in Pairs, Receive(p)
      PROVE  TypeOK'
  BY <1>5, ReceiveType
<1>6. ASSUME NEW n \in Hosts, NEW s \in Sides,
             \/ UserNotices(n) \/ UserEnds(n) \/ FallsSilent(n) \/ ComesBack(n)
             \/ PeerReady(n, s) \/ PeerSuspends(n, s) \/ PeerResumes(n, s)
             \/ PeerGone(n, s) \/ PeerNoticesGone(n, s)
      PROVE  TypeOK'
  BY <1>6, PeerSteps, PeerStepType
<1>7. CASE UNCHANGED vars
  BY <1>7 DEF vars, TypeOK
<1>8. \E s \in Sides : TRUE
  BY DEF Sides
<1> QED
  BY <1>1, <1>2, <1>3, <1>4, <1>5, <1>6, <1>7, <1>8 DEF Next

\* The variables keep their types.
THEOREM TypeCorrect == Spec => []TypeOK
BY InitialType, NextType, PTL DEF Spec

-----------------------------------------------------------------------------
(* The user's socket.  A link that is not yet connected has a socket that is   *)
(* not suspended, so that it is not when the link gets connected.              *)

SockInv ==
  \A n \in Hosts : HasUser(n) =>
    /\ link[n].status \in {"None", "Connect", "Connecting", "Connected"} => ~sock[n].suspended
    /\ link[n].status = "Suspended" => sock[n].suspended

\* What the statuses that a link may get follow.
Reachable(n, st) ==
  /\ st \in Statuses \ {"None", "Connect"}
  /\ st = "Connecting" => link[n].status = "Connect"
  /\ st = "Connected" => link[n].status \in {"Connect", "Connecting", "Connected", "Suspended"}
  /\ st = "Suspended" => link[n].status \in {"Connected", "Suspended"}

LEMMA ChangeSock ==
  ASSUME LinksOK, SockInv, NEW n \in Hosts, NEW l \in Links, NEW st, Reachable(n, st), Change(n, l, st)
  PROVE  SockInv'
<1>1. sock' = [sock EXCEPT ![n] = SockAfter(n, st)]
  BY DEF Change
<1>2. link'[n].status = st /\ \A m \in Hosts \ {n} : link'[m] = link[m]
  BY DEF Change, LinksOK, WithStatus, Links
<1>3. HasUser(n) =>
        /\ st \in {"Connecting", "Connected"} => ~SockAfter(n, st).suspended
        /\ st = "Suspended" => SockAfter(n, st).suspended
  BY DEF SockAfter, Reachable, LinksOK, Socks, SockInv
<1>4. SockAfter(n, st) = sock'[n] /\ \A m \in Hosts \ {n} : sock'[m] = sock[m]
  BY <1>1 DEF LinksOK
<1> QED
  BY <1>2, <1>3, <1>4 DEF SockInv, Reachable, HasUser, IsUser, Neighbour

LEMMA DisconnectSock ==
  ASSUME LinksOK, SockInv, NEW n \in Hosts, NEW l \in Links, Disconnect(n, l)
  PROVE  SockInv'
<1>1. link'[n].status = "Closed" /\ \A m \in Hosts \ {n} : link'[m] = link[m]
  <2>1. \E k \in Links : link' = [link EXCEPT ![n] = WithStatus(k, "Closed")]
    BY LinkTypes DEF Disconnect, Statuses
  <2> QED
    BY <2>1 DEF LinksOK, WithStatus, Links
<1>2. \A m \in Hosts \ {n} : sock'[m] = sock[m]
  BY DEF Disconnect, LinksOK
<1> QED
  BY <1>1, <1>2 DEF SockInv, HasUser, IsUser, Neighbour

\* A link that fails, or is removed, is no longer open.
LEMMA SockOfEnded ==
  ASSUME LinksOK, SockInv, NEW n \in Hosts, NEW l,
         link' = [link EXCEPT ![n] = l], l.status \in {"Exception", "Removed"}, UNCHANGED sock
  PROVE  SockInv'
<1>1. link'[n].status \in {"Exception", "Removed"} /\ \A m \in Hosts \ {n} : link'[m] = link[m]
  BY DEF LinksOK
<1> QED
  BY <1>1 DEF SockInv, HasUser, IsUser, Neighbour

LEMMA FailSock ==
  ASSUME LinksOK, SockInv, NEW n \in Hosts, Fail(n)
  PROVE  SockInv'
<1>1. Failed(link[n]).status = "Exception"
  BY DEF Failed, LinksOK, Links
<1> QED
  BY <1>1, SockOfEnded DEF Fail

\* A link that is opened has a socket as that of none.
LEMMA OpenedSock ==
  ASSUME LinksOK, SockInv, NEW n \in Hosts, link[n].status = "None",
         link' = [link EXCEPT ![n] = WithStatus(NoLink, "Connect")], UNCHANGED sock
  PROVE  SockInv'
<1>1. link'[n].status = "Connect" /\ \A m \in Hosts \ {n} : link'[m] = link[m]
  BY DEF LinksOK, WithStatus, NoLink
<1> QED
  BY <1>1 DEF SockInv, HasUser, IsUser, Neighbour

LEMMA SockStays == SockInv /\ UNCHANGED <<link, sock>> => SockInv'
BY DEF SockInv, HasUser, IsUser, Neighbour

LEMMA PrimaryThreadSock ==
  ASSUME TypeOK, SockInv, NEW n \in Hosts, PrimaryThread(n) \/ LinkTimeout(n) \/ Shutdown(n)
  PROVE  SockInv'
<1>0. LinksOK /\ link[n] \in Links
  BY TypeParts DEF LinksOK
<1>1. ASSUME NEW l \in Links, Disconnect(n, l)
      PROVE  SockInv'
  BY <1>0, <1>1, DisconnectSock
<1>2. CASE PeerMissing(n)
  <2>1. LostPeer(n) \in BOOLEAN
    BY DEF LostPeer
  <2>2. [link[n] EXCEPT !.status = "Exception", !.failed = LostPeer(n)] \in Links
    BY <1>0, <2>1 DEF Links, Statuses
  <2> QED
    BY <1>1, <1>2, <2>2 DEF PeerMissing
<1>3. CASE AlreadyEnded(n) \/ Shutdown(n)
  BY <1>0, <1>1, <1>3 DEF AlreadyEnded, Shutdown
<1>4. CASE LinkTimeout(n)
  BY <1>0, <1>1, <1>4, LinkTypes DEF LinkTimeout, TimedOut, Statuses
<1>5. CASE ProcessConnect(n)
  <2>1. PICK st \in {"Connected", "Connecting"} : Change(n, link[n], st)
    BY <1>5 DEF ProcessConnect
  <2>2. Reachable(n, st)
    BY <1>5 DEF ProcessConnect, Reachable, Statuses
  <2> QED
    BY <1>0, <2>1, <2>2, ChangeSock
<1>6. CASE ProcessConnectedSuspend(n)
  <2>1. CASE Disconnect(n, Failed(link[n]))
    BY <1>0, <1>1, <2>1, LinkTypes DEF Statuses
  <2>2. CASE \E far, needs \in [Sides -> BOOLEAN] :
               Change(n, [link[n] EXCEPT !.suspended = far, !.needsResume = needs], "Suspended")
    <3>1. PICK far, needs \in [Sides -> BOOLEAN] :
                 Change(n, [link[n] EXCEPT !.suspended = far, !.needsResume = needs], "Suspended")
      BY <2>2
    <3>2. [link[n] EXCEPT !.suspended = far, !.needsResume = needs] \in Links
      BY <1>0 DEF Links
    <3>3. Reachable(n, "Suspended")
      BY <1>6 DEF ProcessConnectedSuspend, Reachable, Statuses
    <3> QED
      BY <1>0, <3>1, <3>2, <3>3, ChangeSock
  <2>3. ASSUME NEW far, NEW to
        PROVE  /\ [s \in Sides |-> s \in far] \in [Sides -> BOOLEAN]
               /\ [s \in Sides |-> s \in to \/ link[n].needsResume[s]] \in [Sides -> BOOLEAN]
    OBVIOUS
  <2> QED
    BY <1>6, <2>1, <2>2, <2>3 DEF ProcessConnectedSuspend
<1>7. CASE n = 1 /\ ProcessConnectedSend
  BY <1>7, SockStays DEF ProcessConnectedSend
<1>8. CASE ProcessSuspended(n)
  <2>1. [link[n] EXCEPT !.suspended = NoLink.suspended,
                        !.needsResume = NoLink.needsResume] \in Links
    BY <1>0 DEF Links, NoLink
  <2>2. Reachable(n, "Connected")
    BY <1>8 DEF ProcessSuspended, Reachable, Statuses
  <2> QED
    BY <1>0, <1>8, <2>1, <2>2, ChangeSock DEF ProcessSuspended
<1>9. CASE RemoveClosed(n)
  BY <1>0, <1>9, SockOfEnded DEF RemoveClosed, NoLink
<1> QED
  BY <1>2, <1>3, <1>4, <1>5, <1>6, <1>7, <1>8, <1>9 DEF PrimaryThread

\* A status update that a link accepts is one it may get.
LEMMA AcceptedIsReachable ==
  ASSUME NEW n \in Hosts, NEW l, l.status = link[n].status, NEW st \in StatusUpdates,
         NoChange(l, st) \/ MayBecome(l, Becomes[st])
  PROVE  Reachable(n, Becomes[st])
BY DEF StatusUpdates, Closing, NoChange, MayBecome, Becomes, Follows, Reachable, Statuses

LEMMA ProcessStatusSock ==
  ASSUME LinksOK, SockInv, NEW n \in Hosts, NEW e \in Event, e.m.type = "Status",
         ProcessStatus(n, e)
  PROVE  SockInv'
<1> DEFINE st == e.m.status
           l == Muted(link[n], {e.side}, st)
           to == IF HasUser(n) THEN {} ELSE MayGet(l, n, {Other(e.side)})
           l2 == [Muted(l, to, st) EXCEPT !.failed = @ \/ st = "Failure"]
<1>1. st \in StatusUpdates
  BY EventFields
<1>2. l \in Links /\ l.status = link[n].status
  <2>1. l \in Links
    BY LinkTypes DEF LinksOK, Statuses
  <2>2. l.status = link[n].status
    BY DEF Muted, LinksOK, Links
  <2> QED
    BY <2>1, <2>2
<1>3. l2 \in Links
  <2>1. Muted(l, to, st) \in Links
    BY <1>2, LinkTypes DEF Statuses
  <2> HIDE DEF l, to, st
  <2>2. (Muted(l, to, st).failed \/ st = "Failure") \in BOOLEAN
    OBVIOUS
  <2> QED
    BY <2>1, <2>2 DEF Links
<1>4. CASE Ignore
  BY <1>4, SockStays DEF Ignore
<1>5. CASE Fail(n)
  BY <1>5, FailSock
<1>6. CASE link' = [link EXCEPT ![n] = Failed(l)] /\ UNCHANGED sock
  <2>1. Failed(l).status = "Exception"
    BY <1>2 DEF Failed, Links
  <2> QED
    BY <1>6, <2>1, SockOfEnded
<1>7. CASE Change(n, l2, Becomes[st]) /\ (NoChange(l, st) \/ MayBecome(l, Becomes[st]))
  <2> HIDE DEF l2, l, st
  <2>1. Reachable(n, Becomes[st])
    BY <1>1, <1>2, <1>7, AcceptedIsReachable
  <2> QED
    BY <1>3, <1>7, <2>1, ChangeSock
<1> QED
  BY <1>4, <1>5, <1>6, <1>7 DEF ProcessStatus

LEMMA ProcessEventsSock ==
  ASSUME TypeOK, SockInv, NEW n \in Hosts, NEW q \in Threads \cup {"port"}, ProcessEvents(n, q)
  PROVE  SockInv'
<1> DEFINE e == Head(Front(n, q))
<1>0. LinksOK /\ QueuesOK
  BY TypeParts
<1>1. e \in Event
  BY <1>0, PoppedType DEF ProcessEvents
<1>2. CASE ProcessCreate(n, e)
  BY <1>0, <1>2, OpenedSock, SockStays DEF ProcessCreate, Ignore
<1>3. CASE e.m.type = "Status" /\ ProcessStatus(n, e)
  BY <1>0, <1>1, <1>3, ProcessStatusSock
<1>4. CASE ProcessData(n, e)
  BY <1>0, <1>4, FailSock, SockStays DEF ProcessData, Ignore
<1>5. CASE ProcessAck(n, e)
  BY <1>0, <1>5, FailSock, SockStays DEF ProcessAck, Ignore
<1> QED
  BY <1>2, <1>3, <1>4, <1>5 DEF ProcessEvents

LEMMA NextSock == TypeOK /\ SockInv /\ [Next]_vars => SockInv'
<1> SUFFICES ASSUME TypeOK, SockInv, [Next]_vars
             PROVE  SockInv'
  OBVIOUS
<1>1. CASE Open
  <2>1. 1 \in Hosts
    BY DEF Hosts
  <2> QED
    BY <1>1, <2>1, OpenedSock, TypeParts DEF Open
<1>2. CASE UserSend \/ UNCHANGED vars
  BY <1>2, SockStays DEF UserSend, vars
<1>3. ASSUME NEW n \in Hosts, PrimaryThread(n) \/ LinkTimeout(n) \/ Shutdown(n)
      PROVE  SockInv'
  BY <1>3, PrimaryThreadSock
<1>4. ASSUME NEW n \in Hosts, NEW q \in Threads \cup {"port"}, ProcessEvents(n, q)
      PROVE  SockInv'
  BY <1>4, ProcessEventsSock
<1>5. ASSUME NEW p \in Pairs, Receive(p)
      PROVE  SockInv'
  BY <1>5, SockStays DEF Receive
<1>6. ASSUME NEW n \in Hosts, NEW s \in Sides,
             \/ UserNotices(n) \/ UserEnds(n) \/ FallsSilent(n) \/ ComesBack(n)
             \/ PeerReady(n, s) \/ PeerSuspends(n, s) \/ PeerResumes(n, s)
             \/ PeerGone(n, s) \/ PeerNoticesGone(n, s)
      PROVE  SockInv'
  BY <1>6, PeerSteps, SockStays DEF PeerStep, PeersOnly
<1>7. \E s \in Sides : TRUE
  BY DEF Sides
<1> QED
  BY <1>1, <1>2, <1>3, <1>4, <1>5, <1>6, <1>7 DEF Next

\* The user's socket is suspended exactly while its link is open and suspended, whatever
\* overtakes what and however often the link is suspended and resumed: a user never writes
\* into a suspended link, and never waits at one that was resumed.
THEOREM SocketFollows == Spec => []SocketFollowsLink
<1>1. Init => SockInv
  BY DEF Init, SockInv, NoLink, NoSock
<1>2. TypeOK /\ SockInv => SocketFollowsLink
  BY DEF TypeOK, Socks, SockInv, SocketFollowsLink
<1> QED
  BY <1>1, <1>2, TypeCorrect, NextSock, PTL DEF Spec

-----------------------------------------------------------------------------
(* Connect messages.  One is sent to each host, by the host before it, and the *)
(* link of the host is made when its event is handled.                         *)

Has(q, kinds) == \E i \in DOMAIN q : q[i] \in kinds
AtMostOne(q, kinds) == \A i, j \in DOMAIN q : q[i] \in kinds /\ q[j] \in kinds => i = j

\* The second queue has no more of the kinds than the first.
Fewer(q2, q1, kinds) ==
  /\ Has(q2, kinds) => Has(q1, kinds)
  /\ AtMostOne(q1, kinds) => AtMostOne(q2, kinds)

LEMMA Emptied == \A q, kinds : ~Has(<<>>, kinds) /\ Fewer(<<>>, q, kinds) /\ Fewer(q, q, kinds)
BY DEF Has, AtMostOne, Fewer

LEMMA Added ==
  ASSUME NEW S, NEW q \in Seq(S), NEW x \in S, NEW kinds
  PROVE  /\ Has(Append(q, x), kinds) <=> Has(q, kinds) \/ x \in kinds
         /\ AtMostOne(q, kinds) /\ (x \in kinds => ~Has(q, kinds)) => AtMostOne(Append(q, x), kinds)
         /\ x \notin kinds => Fewer(Append(q, x), q, kinds)
<1>1. /\ Append(q, x) \in Seq(S)
      /\ Len(Append(q, x)) = Len(q) + 1
      /\ \A i \in 1..Len(q) : Append(q, x)[i] = q[i]
      /\ Append(q, x)[Len(q) + 1] = x
  BY AppendProperties
<1>2. DOMAIN q = 1..Len(q) /\ DOMAIN Append(q, x) = 1..Len(q) + 1 /\ Len(q) \in Nat
  BY <1>1, LenProperties
<1>3. \A i \in 1..Len(q) + 1 : i \in 1..Len(q) \/ i = Len(q) + 1
  BY <1>2
<1>4. Has(Append(q, x), kinds) <=> Has(q, kinds) \/ x \in kinds
  BY <1>1, <1>2, <1>3 DEF Has
<1>5. AtMostOne(q, kinds) /\ (x \in kinds => ~Has(q, kinds)) => AtMostOne(Append(q, x), kinds)
  BY <1>1, <1>2, <1>3 DEF Has, AtMostOne
<1> QED
  BY <1>4, <1>5 DEF Fewer

LEMMA Taken ==
  ASSUME NEW S, NEW q \in Seq(S), q # <<>>, NEW kinds
  PROVE  /\ Fewer(Tail(q), q, kinds)
         /\ Head(q) \in kinds => Has(q, kinds)
         /\ Head(q) \in kinds /\ AtMostOne(q, kinds) => ~Has(Tail(q), kinds)
<1>1. /\ Len(q) \in Nat /\ Len(q) >= 1
      /\ Tail(q) \in Seq(S) /\ Len(Tail(q)) = Len(q) - 1
      /\ \A i \in 1..Len(q) - 1 : Tail(q)[i] = q[i + 1]
      /\ Head(q) = q[1]
  BY HeadTailProperties, EmptySeq
<1>2. DOMAIN q = 1..Len(q) /\ DOMAIN Tail(q) = 1..Len(q) - 1
  BY <1>1, LenProperties
<1>3. \A i \in 1..Len(q) - 1 : i + 1 \in 1..Len(q) /\ i + 1 # 1
  BY <1>1
<1>4. Has(Tail(q), kinds) => Has(q, kinds)
  BY <1>1, <1>2, <1>3 DEF Has
<1>5. AtMostOne(q, kinds) => AtMostOne(Tail(q), kinds)
  BY <1>1, <1>2, <1>3 DEF AtMostOne
<1>6. 1 \in DOMAIN q
  BY <1>1, <1>2
<1>7. Head(q) \in kinds => Has(q, kinds)
  BY <1>1, <1>6 DEF Has
<1>8. ASSUME Head(q) \in kinds, AtMostOne(q, kinds), Has(Tail(q), kinds)
      PROVE  FALSE
  <2>1. PICK i \in 1..Len(q) - 1 : Tail(q)[i] \in kinds
    BY <1>2, <1>8 DEF Has
  <2>2. q[i + 1] \in kinds /\ q[1] \in kinds /\ i + 1 \in DOMAIN q
    BY <1>1, <1>2, <1>3, <1>8, <2>1
  <2> QED
    BY <1>3, <1>6, <1>8, <2>1, <2>2 DEF AtMostOne
<1> QED
  BY <1>4, <1>5, <1>7, <1>8 DEF Fewer

Asking == {Create}
Asked == {[side |-> "in", m |-> Create]}
AskedBack == {[side |-> "out", m |-> Create]}

\* The host is asked to connect, and has not looked at it yet.
Pending(n) == Has(chan[<<n - 1, n>>], Asking) \/ \E t \in Threads : Has(defaultQ[n][t], Asked)

CreateInv ==
  /\ \A p \in Pairs : AtMostOne(chan[p], Asking) /\ (p[1] > p[2] => ~Has(chan[p], Asking))
  /\ \A n \in Hosts : ~Has(portQ[n], Asked) /\ ~Has(portQ[n], AskedBack)
  /\ \A n \in Hosts, t \in Threads :
       /\ ~Has(defaultQ[n][t], AskedBack)
       /\ AtMostOne(defaultQ[n][t], Asked)
       /\ n = 1 => ~Has(defaultQ[n][t], Asked)
       /\ n # 1 /\ Has(defaultQ[n][t], Asked) => ~Has(chan[<<n - 1, n>>], Asking)
       /\ \A u \in Threads : Has(defaultQ[n][t], Asked) /\ Has(defaultQ[n][u], Asked) => t = u
  /\ \A n \in Hosts \ {1} :
       /\ Pending(n) => link[n].status = "None"
       /\ link[n - 1].status \in {"None", "Connect"} => ~Pending(n) /\ link[n].status = "None"

\* The queues have no more connect messages than before.
QueuesFewer ==
  /\ \A p \in Pairs : Fewer(chan'[p], chan[p], Asking)
  /\ \A n \in Hosts : /\ Fewer(portQ'[n], portQ[n], Asked)
                      /\ Fewer(portQ'[n], portQ[n], AskedBack)
                      /\ \A t \in Threads : /\ Fewer(defaultQ'[n][t], defaultQ[n][t], Asked)
                                             /\ Fewer(defaultQ'[n][t], defaultQ[n][t], AskedBack)

\* A host tells the neighbours of the sides "to" that the link is over, or only changes its
\* link.  Whom it may still tell afterwards it has not told.
Tells(n) ==
  /\ HasLink(n)
  /\ \E k \in Links, to \in SUBSET Sides :
       /\ link' = [link EXCEPT ![n] = k]
       /\ k.status \notin {"None", "Connect"}
       /\ k.status # "Removed" =>
            \A s \in Sides : k.updates[s] => link[n].updates[s] /\ s \notin to
       /\ \A s \in to : link[n].updates[s] /\ ~IsUser(n, s)
       /\ farewells' = [p \in Pairs |-> IF p[1] = n /\ \E s \in to : p[2] = Neighbour(n, s)
                                         THEN farewells[p] + 1 ELSE farewells[p]]

\* A host makes its link.
Makes(n) ==
  /\ link[n].status = "None"
  /\ link' = [link EXCEPT ![n] = WithStatus(NoLink, "Connect")]
  /\ UNCHANGED farewells

\* A host sends the next one a connect message.
Asks(n) ==
  /\ n + 1 \in Hosts
  /\ link[n].status = "Connect"
  /\ \E k \in Links : /\ link' = [link EXCEPT ![n] = k]
                        /\ k.status = "Connecting" /\ k.updates = link[n].updates
  /\ \A p \in Pairs : chan'[p] = IF p = <<n, n + 1>> THEN Append(chan[p], Create) ELSE chan[p]
  /\ UNCHANGED <<portQ, defaultQ, farewells>>

\* A host takes the connect message: it is an event of one of its threads.
Hears(n) ==
  /\ n - 1 \in Hosts
  /\ chan[<<n - 1, n>>] # <<>> /\ Head(chan[<<n - 1, n>>]) = Create
  /\ chan' = [chan EXCEPT ![<<n - 1, n>>] = Tail(@)]
  /\ \E t \in Threads :
       defaultQ' = [defaultQ EXCEPT ![n][t] = Append(@, [side |-> "in", m |-> Create])]
  /\ UNCHANGED <<link, portQ, farewells>>

\* A thread of a host looks at it: it makes the link, refuses with a status, or is silent.
Answers(n) ==
  /\ \E t \in Threads :
       /\ defaultQ[n][t] # <<>> /\ Head(defaultQ[n][t]) \in Asked
       /\ defaultQ' = [defaultQ EXCEPT ![n][t] = Tail(@)]
  /\ UNCHANGED portQ
  /\ \A p \in Pairs : Fewer(chan'[p], chan[p], Asking)
  /\ \/ Makes(n)
     \/ /\ UNCHANGED link
        /\ \/ UNCHANGED farewells
           \/ farewells' = [p \in Pairs |-> IF p = <<n, n - 1>> THEN farewells[p] + 1
                                                                ELSE farewells[p]]

\* What every step is to the connect messages and to what the hosts tell each other.
Kind ==
  \/ UNCHANGED <<link, farewells>> /\ QueuesFewer
  \/ \E n \in Hosts : Tells(n) /\ QueuesFewer
  \/ Makes(1) /\ QueuesFewer
  \/ \E n \in Hosts : Asks(n) \/ Hears(n) \/ Answers(n)

LEMMA PairTypes ==
  /\ \A n \in Hosts : n \in Nat /\ n >= 1 /\ n <= Last
  /\ \A n \in Hosts \ {1} : n - 1 \in Hosts /\ <<n - 1, n>> \in Pairs /\ <<n, n - 1>> \in Pairs
  /\ \A n \in Hosts : n + 1 \in Hosts => <<n, n + 1>> \in Pairs /\ <<n + 1, n>> \in Pairs
  /\ \A p \in Pairs : /\ p[1] \in Hosts /\ p[2] \in Hosts /\ p = <<p[1], p[2]>>
                      /\ p[1] = p[2] - 1 \/ p[1] = p[2] + 1
BY DEF Hosts, Pairs

LEMMA CreatesStay ==
  ASSUME CreateInv, QueuesFewer,
         \A n \in Hosts :
           /\ link'[n].status \in {"None", "Connect"} => link[n].status \in {"None", "Connect"}
           /\ link[n].status = "None" => link'[n].status = "None" \/ n = 1
  PROVE  CreateInv'
<1>1. \A p \in Pairs : AtMostOne(chan'[p], Asking) /\ (p[1] > p[2] => ~Has(chan'[p], Asking))
  BY DEF CreateInv, QueuesFewer, Fewer
<1>2. \A n \in Hosts : ~Has(portQ'[n], Asked) /\ ~Has(portQ'[n], AskedBack)
  BY DEF CreateInv, QueuesFewer, Fewer
<1>3. \A n \in Hosts, t \in Threads :
        /\ ~Has(defaultQ'[n][t], AskedBack)
        /\ AtMostOne(defaultQ'[n][t], Asked)
        /\ n = 1 => ~Has(defaultQ'[n][t], Asked)
        /\ \A u \in Threads : Has(defaultQ'[n][t], Asked) /\ Has(defaultQ'[n][u], Asked) => t = u
  BY DEF CreateInv, QueuesFewer, Fewer
<1>4. \A n \in Hosts \ {1} : Has(chan'[<<n - 1, n>>], Asking) => Has(chan[<<n - 1, n>>], Asking)
  BY PairTypes DEF QueuesFewer, Fewer
<1>5. \A n \in Hosts \ {1} : Pending(n)' => Pending(n)
  BY <1>4 DEF Pending, QueuesFewer, Fewer
<1>6. \A n \in Hosts, t \in Threads :
        n # 1 /\ Has(defaultQ'[n][t], Asked) => ~Has(chan'[<<n - 1, n>>], Asking)
  BY <1>4 DEF CreateInv, QueuesFewer, Fewer
<1>7. \A n \in Hosts \ {1} :
        /\ Pending(n)' => link'[n].status = "None"
        /\ link'[n - 1].status \in {"None", "Connect"} => ~Pending(n)' /\ link'[n].status = "None"
  BY <1>5, PairTypes DEF CreateInv
<1> QED
  BY <1>1, <1>2, <1>3, <1>6, <1>7 DEF CreateInv

LEMMA AsksCreates ==
  ASSUME LinksOK, ChanOK, CreateInv, NEW n \in Hosts, Asks(n)
  PROVE  CreateInv'
<1> DEFINE m == n + 1
           p0 == <<n, n + 1>>
<1>0. m \in Hosts \ {1} /\ p0 \in Pairs /\ m - 1 = n
  <2>1. n \in Nat /\ n >= 1 /\ n + 1 \in Hosts
    BY PairTypes DEF Asks
  <2>2. p0 \in Pairs
    BY <2>1, PairTypes
  <2>3. m # 1 /\ m - 1 = n
    BY <2>1
  <2> QED
    BY <2>1, <2>2, <2>3
<1>1. ~Pending(m) /\ link[m].status = "None"
  BY <1>0 DEF Asks, CreateInv
<1>2. ~Has(chan[p0], Asking) /\ \A t \in Threads : ~Has(defaultQ[m][t], Asked)
  BY <1>0, <1>1 DEF Pending
<1>3. chan[p0] \in Seq(Message) /\ Create \in Message /\ chan'[p0] = Append(chan[p0], Create)
  BY <1>0, MessageTypes DEF ChanOK, Asks
<1>4. AtMostOne(chan'[p0], Asking)
  BY <1>0, <1>2, <1>3, Added DEF CreateInv
<1>5. \A p \in Pairs \ {p0} : chan'[p] = chan[p]
  BY DEF Asks
<1>6. link'[n].status = "Connecting" /\ \A i \in Hosts \ {n} : link'[i] = link[i]
  BY DEF Asks, LinksOK
<1>7. UNCHANGED <<portQ, defaultQ>>
  BY DEF Asks
<1>8. \A i \in Hosts \ {1, m} : Pending(i)' <=> Pending(i)
  <2> SUFFICES ASSUME NEW i \in Hosts \ {1, m}
               PROVE  Pending(i)' <=> Pending(i)
    OBVIOUS
  <2>1. <<i - 1, i>> \in Pairs \ {p0}
    BY PairTypes
  <2> QED
    BY <1>5, <1>7, <2>1 DEF Pending
<1>9. n + 1 > n /\ p0[1] = n /\ p0[2] = m
  BY PairTypes
<1> HIDE DEF m, p0
<1>10. \A p \in Pairs : AtMostOne(chan'[p], Asking) /\ (p[1] > p[2] => ~Has(chan'[p], Asking))
  <2>1. ~(p0[1] > p0[2])
    BY <1>0, <1>9, PairTypes DEF m
  <2> QED
    BY <1>4, <1>5, <2>1 DEF CreateInv
<1>11. \A i \in Hosts, t \in Threads :
         i # 1 /\ Has(defaultQ'[i][t], Asked) => ~Has(chan'[<<i - 1, i>>], Asking)
  <2> SUFFICES ASSUME NEW i \in Hosts, NEW t \in Threads, i # 1, Has(defaultQ[i][t], Asked)
               PROVE  ~Has(chan'[<<i - 1, i>>], Asking)
    BY <1>7
  <2>1. i # m
    BY <1>2
  <2>2. <<i - 1, i>> \in Pairs \ {p0}
    BY <2>1, PairTypes DEF p0, m
  <2> QED
    BY <1>5, <2>2 DEF CreateInv
<1>12. \A i \in Hosts \ {1} :
         /\ Pending(i)' => link'[i].status = "None"
         /\ link'[i - 1].status \in {"None", "Connect"} => ~Pending(i)' /\ link'[i].status = "None"
  <2> SUFFICES ASSUME NEW i \in Hosts \ {1}
               PROVE  /\ Pending(i)' => link'[i].status = "None"
                      /\ link'[i - 1].status \in {"None", "Connect"} =>
                           ~Pending(i)' /\ link'[i].status = "None"
    OBVIOUS
  <2>0. i - 1 \in Hosts
    BY PairTypes
  <2>1. CASE i = m
    <3>1. i # n /\ i - 1 = n
      BY <1>0, <2>1, PairTypes DEF m
    <3> QED
      BY <1>1, <1>6, <2>1, <3>1
  <2>2. CASE i # m
    <3>1. i - 1 # n
      BY <2>2, PairTypes DEF m
    <3>2. Pending(i)' <=> Pending(i)
      BY <1>8, <2>2
    <3>3. i = n => ~Pending(i) /\ link[i].status # "None"
      BY DEF CreateInv, Asks
    <3> QED
      BY <1>6, <2>0, <3>1, <3>2, <3>3 DEF CreateInv
  <2> QED
    BY <2>1, <2>2
<1> QED
  BY <1>7, <1>10, <1>11, <1>12 DEF CreateInv

LEMMA HearsCreates ==
  ASSUME ChanOK, QueuesOK, CreateInv, NEW n \in Hosts, Hears(n)
  PROVE  CreateInv' /\ \A i \in Hosts \ {1} : Pending(i)' => Pending(i)
<1> DEFINE p0 == <<n - 1, n>>
           e == [side |-> "in", m |-> Create]
<1>0. n \in Hosts \ {1} /\ p0 \in Pairs
  <2>1. n - 1 \in Hosts /\ n \in Nat
    BY PairTypes DEF Hears
  <2>2. n # 1
    BY <2>1 DEF Hosts
  <2> QED
    BY <2>2, PairTypes
<1>1. PICK t \in Threads : defaultQ' = [defaultQ EXCEPT ![n][t] = Append(@, e)]
  BY DEF Hears
<1>2. /\ chan[p0] \in Seq(Message) /\ chan[p0] # <<>> /\ Head(chan[p0]) \in Asking
      /\ chan'[p0] = Tail(chan[p0])
  BY <1>0 DEF ChanOK, Hears, Asking
<1>3. \A p \in Pairs \ {p0} : chan'[p] = chan[p]
  BY DEF Hears, ChanOK
<1>4. /\ Has(chan[p0], Asking) /\ ~Has(chan'[p0], Asking)
      /\ Fewer(chan'[p0], chan[p0], Asking)
  BY <1>0, <1>2, Taken DEF CreateInv
<1>5. \A u \in Threads : ~Has(defaultQ[n][u], Asked)
  BY <1>0, <1>4 DEF CreateInv
<1>6. /\ defaultQ'[n][t] = Append(defaultQ[n][t], e) /\ defaultQ[n][t] \in Seq(Event)
      /\ \A i \in Hosts, u \in Threads : <<i, u>> # <<n, t>> => defaultQ'[i][u] = defaultQ[i][u]
  BY <1>1 DEF QueuesOK
<1>7. e \in Event /\ e \in Asked /\ e \notin AskedBack
  BY MessageTypes DEF Event, Sides, Asked, AskedBack
<1>8. /\ AtMostOne(defaultQ'[n][t], Asked)
      /\ Has(defaultQ'[n][t], AskedBack) => Has(defaultQ[n][t], AskedBack)
  <2> HIDE DEF e
  <2>1. AtMostOne(defaultQ[n][t], Asked) /\ ~Has(defaultQ[n][t], Asked)
    BY <1>5 DEF CreateInv
  <2>2. AtMostOne(Append(defaultQ[n][t], e), Asked)
    BY <1>6, <1>7, <2>1, Added
  <2>3. Has(Append(defaultQ[n][t], e), AskedBack) <=> Has(defaultQ[n][t], AskedBack)
    BY <1>6, <1>7, Added
  <2> QED
    BY <1>6, <2>2, <2>3
<1>9. UNCHANGED <<link, portQ>>
  BY DEF Hears
<1>10. \A p \in Pairs : AtMostOne(chan'[p], Asking) /\ (p[1] > p[2] => ~Has(chan'[p], Asking))
  BY <1>3, <1>4 DEF CreateInv, Fewer
<1>11. \A i \in Hosts \ {1} : Has(chan'[<<i - 1, i>>], Asking) => Has(chan[<<i - 1, i>>], Asking)
  BY <1>3, <1>4, PairTypes
<1> HIDE DEF p0, e
<1>12. Pending(n) /\ link[n].status = "None"
  BY <1>0, <1>4 DEF Pending, CreateInv, p0
<1>13. \A i \in Hosts \ {1} : Pending(i)' => Pending(i)
  <2> SUFFICES ASSUME NEW i \in Hosts \ {1, n}, Pending(i)'
               PROVE  Pending(i)
    BY <1>12
  <2> QED
    BY <1>6, <1>11 DEF Pending
<1>14. \A i \in Hosts, u \in Threads :
         /\ ~Has(defaultQ'[i][u], AskedBack)
         /\ AtMostOne(defaultQ'[i][u], Asked)
         /\ i = 1 => ~Has(defaultQ'[i][u], Asked)
         /\ i # 1 /\ Has(defaultQ'[i][u], Asked) => ~Has(chan'[<<i - 1, i>>], Asking)
         /\ \A v \in Threads : Has(defaultQ'[i][u], Asked) /\ Has(defaultQ'[i][v], Asked) => u = v
  <2> SUFFICES ASSUME NEW i \in Hosts, NEW u \in Threads
               PROVE  /\ ~Has(defaultQ'[i][u], AskedBack)
                      /\ AtMostOne(defaultQ'[i][u], Asked)
                      /\ i = 1 => ~Has(defaultQ'[i][u], Asked)
                      /\ i # 1 /\ Has(defaultQ'[i][u], Asked) => ~Has(chan'[<<i - 1, i>>], Asking)
                      /\ \A v \in Threads : Has(defaultQ'[i][u], Asked) /\ Has(defaultQ'[i][v], Asked) => u = v
    OBVIOUS
  <2>1. CASE i = n
    <3>1. ~Has(chan'[<<i - 1, i>>], Asking)
      BY <1>4, <2>1 DEF p0
    <3>2. \A v \in Threads \ {t} : defaultQ'[n][v] = defaultQ[n][v] /\ ~Has(defaultQ'[n][v], Asked)
      BY <1>5, <1>6
    <3> QED
      BY <1>0, <1>8, <2>1, <3>1, <3>2 DEF CreateInv
  <2>2. CASE i # n
    <3>1. \A v \in Threads : defaultQ'[i][v] = defaultQ[i][v]
      BY <1>6, <2>2
    <3> QED
      BY <1>11, <3>1 DEF CreateInv
  <2> QED
    BY <2>1, <2>2
<1>15. \A i \in Hosts \ {1} :
         /\ Pending(i)' => link'[i].status = "None"
         /\ link'[i - 1].status \in {"None", "Connect"} => ~Pending(i)' /\ link'[i].status = "None"
  BY <1>9, <1>13 DEF CreateInv
<1> QED
  BY <1>9, <1>10, <1>13, <1>14, <1>15 DEF CreateInv

\* An event taken from a default queue: the queues have no more of them, and if it was the
\* connect message none is left.
LEMMA AnswersFewer ==
  ASSUME QueuesOK, CreateInv, NEW n \in Hosts, Answers(n)
  PROVE  QueuesFewer /\ n # 1 /\ Pending(n) /\ ~Pending(n)'
<1>1. PICK t \in Threads : /\ defaultQ[n][t] # <<>> /\ Head(defaultQ[n][t]) \in Asked
                           /\ defaultQ' = [defaultQ EXCEPT ![n][t] = Tail(@)]
  BY DEF Answers
<1>2. /\ defaultQ[n][t] \in Seq(Event)
      /\ defaultQ'[n][t] = Tail(defaultQ[n][t])
      /\ \A i \in Hosts, u \in Threads : <<i, u>> # <<n, t>> => defaultQ'[i][u] = defaultQ[i][u]
  BY <1>1 DEF QueuesOK
<1>3. AtMostOne(defaultQ[n][t], Asked)
  BY DEF CreateInv
<1>4. /\ Has(defaultQ[n][t], Asked) /\ ~Has(defaultQ'[n][t], Asked)
      /\ \A kinds : Fewer(defaultQ'[n][t], defaultQ[n][t], kinds)
  BY <1>1, <1>2, <1>3, Taken
<1>5. QueuesFewer
  BY <1>2, <1>4, Emptied DEF Answers, QueuesFewer
<1>6. n # 1 /\ Pending(n)
  BY <1>4 DEF CreateInv, Pending
<1>7. \A u \in Threads : ~Has(defaultQ'[n][u], Asked)
  BY <1>2, <1>4 DEF CreateInv
<1>8. ~Has(chan'[<<n - 1, n>>], Asking)
  BY <1>4, <1>5, <1>6, PairTypes DEF CreateInv, QueuesFewer, Fewer
<1> QED
  BY <1>5, <1>6, <1>7, <1>8 DEF Pending

LEMMA AnswersCreates ==
  ASSUME LinksOK, QueuesOK, CreateInv, NEW n \in Hosts, Answers(n)
  PROVE  CreateInv'
<1>1. QueuesFewer /\ n # 1 /\ Pending(n) /\ ~Pending(n)'
  BY AnswersFewer
<1>2. CASE UNCHANGED link
  BY <1>1, <1>2, CreatesStay
<1>3. CASE Makes(n)
  <2>1. link'[n].status = "Connect" /\ \A i \in Hosts \ {n} : link'[i] = link[i]
    BY <1>3 DEF Makes, LinksOK, WithStatus, NoLink
  <2>2. n - 1 \in Hosts /\ link[n].status = "None" /\ link[n - 1].status \notin {"None", "Connect"}
    BY <1>1, <1>3, PairTypes DEF CreateInv, Makes
  <2>3. \A p \in Pairs : AtMostOne(chan'[p], Asking) /\ (p[1] > p[2] => ~Has(chan'[p], Asking))
    BY <1>1 DEF CreateInv, QueuesFewer, Fewer
  <2>4. \A i \in Hosts : ~Has(portQ'[i], Asked) /\ ~Has(portQ'[i], AskedBack)
    BY <1>1 DEF CreateInv, QueuesFewer, Fewer
  <2>5. \A i \in Hosts \ {1} : Has(chan'[<<i - 1, i>>], Asking) => Has(chan[<<i - 1, i>>], Asking)
    BY <1>1, PairTypes DEF QueuesFewer, Fewer
  <2>6. \A i \in Hosts \ {1} : Pending(i)' => Pending(i)
    BY <1>1, <2>5 DEF Pending, QueuesFewer, Fewer
  <2>7. \A i \in Hosts, t \in Threads :
          /\ ~Has(defaultQ'[i][t], AskedBack)
          /\ AtMostOne(defaultQ'[i][t], Asked)
          /\ i = 1 => ~Has(defaultQ'[i][t], Asked)
          /\ i # 1 /\ Has(defaultQ'[i][t], Asked) => ~Has(chan'[<<i - 1, i>>], Asking)
          /\ \A u \in Threads : Has(defaultQ'[i][t], Asked) /\ Has(defaultQ'[i][u], Asked) => t = u
    BY <1>1, <2>5 DEF CreateInv, QueuesFewer, Fewer
  <2>8. \A i \in Hosts \ {1} :
          /\ Pending(i)' => link'[i].status = "None"
          /\ link'[i - 1].status \in {"None", "Connect"} => ~Pending(i)' /\ link'[i].status = "None"
    <3> SUFFICES ASSUME NEW i \in Hosts \ {1}
                 PROVE  /\ Pending(i)' => link'[i].status = "None"
                        /\ link'[i - 1].status \in {"None", "Connect"} =>
                             ~Pending(i)' /\ link'[i].status = "None"
      OBVIOUS
    <3>0. i - 1 \in Hosts /\ i - 1 # i /\ i \in Nat
      <4>1. i \in Nat /\ i - 1 \in Hosts
        BY PairTypes
      <4> QED
        BY <4>1
    <3>1. CASE i = n
      BY <1>1, <2>1, <2>2, <3>0, <3>1
    <3>2. CASE i # n
      <4>1. link[n].status = "None" /\ (i - 1 = n => link[i - 1].status = "None")
        BY <2>2
      <4> QED
        BY <2>1, <2>6, <3>0, <3>2, <4>1 DEF CreateInv
    <3> QED
      BY <3>1, <3>2
  <2> QED
    BY <2>3, <2>4, <2>7, <2>8 DEF CreateInv
<1> QED
  BY <1>2, <1>3 DEF Answers

LEMMA KindCreates ==
  ASSUME LinksOK, ChanOK, QueuesOK, CreateInv, Kind
  PROVE  CreateInv'
<1>1. CASE UNCHANGED <<link, farewells>> /\ QueuesFewer
  BY <1>1, CreatesStay
<1>2. ASSUME NEW n \in Hosts, Tells(n), QueuesFewer
      PROVE  CreateInv'
  <2>1. PICK k : link' = [link EXCEPT ![n] = k] /\ k.status \notin {"None", "Connect"}
    BY <1>2 DEF Tells
  <2>2. /\ link'[n].status \notin {"None", "Connect"} /\ link[n].status # "None"
        /\ \A i \in Hosts \ {n} : link'[i] = link[i]
    BY <1>2, <2>1 DEF Tells, HasLink, LinksOK
  <2> QED
    BY <1>2, <2>2, CreatesStay
<1>3. CASE Makes(1) /\ QueuesFewer
  <2>1. /\ link[1].status = "None" /\ \A i \in Hosts \ {1} : link'[i] = link[i]
    BY <1>3 DEF Makes, LinksOK
  <2> QED
    BY <1>3, <2>1, CreatesStay
<1>4. ASSUME NEW n \in Hosts, Asks(n) \/ Hears(n) \/ Answers(n)
      PROVE  CreateInv'
  BY <1>4, AsksCreates, HearsCreates, AnswersCreates
<1> QED
  BY <1>1, <1>2, <1>3, <1>4 DEF Kind

-----------------------------------------------------------------------------
(* Farewells.  Whom a host may still tell that the link is over it has not     *)
(* told yet.                                                                   *)

FarewellInv ==
  /\ \A p \in Pairs : farewells[p] \in 0..1
  /\ \A n \in Hosts, s \in Sides :
       ~IsUser(n, s) /\ HasLink(n) /\ link[n].updates[s] => farewells[<<n, Neighbour(n, s)>>] = 0
  /\ \A n \in Hosts : n + 1 \in Hosts /\ link[n].status = "None" => farewells[<<n, n + 1>>] = 0
  /\ \A n \in Hosts \ {1} :
       Pending(n) \/ link[n - 1].status \in {"None", "Connect"} => farewells[<<n, n - 1>>] = 0

LEMMA NeighbourPairs ==
  ASSUME NEW n \in Hosts, NEW s \in Sides, ~IsUser(n, s)
  PROVE  /\ <<n, Neighbour(n, s)>> \in Pairs
         /\ Neighbour(n, s) \in Hosts
         /\ s = "in" => n # 1 /\ Neighbour(n, s) = n - 1
         /\ s = "out" => n + 1 \in Hosts /\ Neighbour(n, s) = n + 1
<1>1. Neighbour(n, s) \in Hosts
  BY DEF IsUser
<1>2. CASE s = "in"
  BY <1>1, <1>2 DEF Neighbour, Hosts, Pairs
<1>3. CASE s = "out"
  BY <1>1, <1>3 DEF Neighbour, Hosts, Pairs, Sides
<1> QED
  BY <1>1, <1>2, <1>3 DEF Sides

\* Nothing is told: whom a host may tell, and what is pending, is not more than before.
LEMMA FarewellsStay ==
  ASSUME LinksOK, FarewellInv, UNCHANGED farewells,
         \A i \in Hosts \ {1} : Pending(i)' => Pending(i),
         \A i \in Hosts : /\ link'[i].status \in {"None", "Connect"} => link[i].status \in {"None", "Connect"}
                          /\ link'[i].status = "None" => link[i].status = "None"
                          /\ HasLink(i)' => HasLink(i) /\ \A s \in Sides :
                                              link'[i].updates[s] => link[i].updates[s]
  PROVE  FarewellInv'
<1>1. \A i \in Hosts, s \in Sides :
        ~IsUser(i, s) /\ HasLink(i)' /\ link'[i].updates[s] => farewells'[<<i, Neighbour(i, s)>>] = 0
  BY DEF FarewellInv
<1>2. \A i \in Hosts : i + 1 \in Hosts /\ link'[i].status = "None" => farewells'[<<i, i + 1>>] = 0
  BY DEF FarewellInv
<1>3. \A i \in Hosts \ {1} :
        Pending(i)' \/ link'[i - 1].status \in {"None", "Connect"} => farewells'[<<i, i - 1>>] = 0
  BY PairTypes DEF FarewellInv
<1> QED
  BY <1>1, <1>2, <1>3 DEF FarewellInv, IsUser, Neighbour

LEMMA FewerPending ==
  ASSUME QueuesFewer
  PROVE  \A i \in Hosts \ {1} : Pending(i)' => Pending(i)
<1>1. \A i \in Hosts \ {1} : Has(chan'[<<i - 1, i>>], Asking) => Has(chan[<<i - 1, i>>], Asking)
  BY PairTypes DEF QueuesFewer, Fewer
<1> QED
  BY <1>1 DEF Pending, QueuesFewer, Fewer

\* A host tells those it may tell, and may not tell them again.
LEMMA TellsFarewell ==
  ASSUME LinksOK, CreateInv, FarewellInv, NEW n \in Hosts, Tells(n), QueuesFewer
  PROVE  FarewellInv'
<1>1. PICK k \in Links, to \in SUBSET Sides :
        /\ link' = [link EXCEPT ![n] = k]
        /\ k.status \notin {"None", "Connect"}
        /\ k.status # "Removed" => \A s \in Sides : k.updates[s] => link[n].updates[s] /\ s \notin to
        /\ \A s \in to : link[n].updates[s] /\ ~IsUser(n, s)
        /\ farewells' = [p \in Pairs |-> IF p[1] = n /\ \E s \in to : p[2] = Neighbour(n, s)
                                          THEN farewells[p] + 1 ELSE farewells[p]]
  BY DEF Tells
<1>2. HasLink(n)
  BY DEF Tells
<1>3. link'[n] = k /\ \A i \in Hosts \ {n} : link'[i] = link[i]
  BY <1>1 DEF LinksOK
<1>4. \A p \in Pairs : p[1] = n /\ (\E s \in to : p[2] = Neighbour(n, s)) => farewells[p] = 0
  BY <1>1, <1>2, PairTypes DEF FarewellInv
<1>5. \A p \in Pairs : farewells'[p] \in 0..1
  BY <1>1, <1>4 DEF FarewellInv
<1>6. \A p \in Pairs : p[1] # n => farewells'[p] = farewells[p]
  BY <1>1
<1>7. \A i \in Hosts, s \in Sides :
        ~IsUser(i, s) /\ HasLink(i)' /\ link'[i].updates[s] => farewells'[<<i, Neighbour(i, s)>>] = 0
  <2> SUFFICES ASSUME NEW i \in Hosts, NEW s \in Sides,
                      ~IsUser(i, s), HasLink(i)', link'[i].updates[s]
               PROVE  farewells'[<<i, Neighbour(i, s)>>] = 0
    OBVIOUS
  <2>1. <<i, Neighbour(i, s)>> \in Pairs
    BY NeighbourPairs
  <2>2. CASE i # n
    <3>1. HasLink(i) /\ link[i].updates[s]
      BY <1>3, <2>2 DEF HasLink
    <3> QED
      BY <1>6, <2>1, <2>2, <3>1 DEF FarewellInv
  <2>3. CASE i = n
    <3>1. k.status # "Removed" /\ k.updates[s]
      BY <1>3, <2>3 DEF HasLink
    <3>2. link[n].updates[s] /\ s \notin to
      BY <1>1, <3>1
    <3>3. \A u \in to : Neighbour(n, u) # Neighbour(n, s)
      <4>1. \A u \in Sides : u # s => Neighbour(n, u) # Neighbour(n, s)
        BY DEF Neighbour, Sides, Hosts
      <4> QED
        BY <3>2, <4>1
    <3>4. farewells'[<<n, Neighbour(n, s)>>] = farewells[<<n, Neighbour(n, s)>>]
      BY <1>1, <2>1, <2>3, <3>3
    <3> QED
      BY <1>2, <2>3, <3>2, <3>4 DEF FarewellInv
  <2> QED
    BY <2>2, <2>3
<1>8. \A i \in Hosts : i + 1 \in Hosts /\ link'[i].status = "None" => farewells'[<<i, i + 1>>] = 0
  <2> SUFFICES ASSUME NEW i \in Hosts, i + 1 \in Hosts, link'[i].status = "None"
               PROVE  farewells'[<<i, i + 1>>] = 0
    OBVIOUS
  <2>1. i # n /\ link[i].status = "None" /\ <<i, i + 1>> \in Pairs
    BY <1>1, <1>3, PairTypes
  <2> QED
    BY <1>6, <2>1 DEF FarewellInv
<1>9. \A i \in Hosts \ {1} :
        Pending(i)' \/ link'[i - 1].status \in {"None", "Connect"} => farewells'[<<i, i - 1>>] = 0
  <2> SUFFICES ASSUME NEW i \in Hosts \ {1},
                      Pending(i)' \/ link'[i - 1].status \in {"None", "Connect"}
               PROVE  farewells'[<<i, i - 1>>] = 0
    OBVIOUS
  <2>1. i - 1 \in Hosts /\ <<i, i - 1>> \in Pairs
    BY PairTypes
  <2>2. Pending(i) \/ link[i - 1].status \in {"None", "Connect"}
    BY <1>1, <1>3, <2>1, FewerPending
  <2>3. link[i].status = "None"
    BY <2>2 DEF CreateInv
  <2>4. i # n
    BY <1>2, <2>3 DEF HasLink
  <2> QED
    BY <1>6, <2>1, <2>2, <2>4 DEF FarewellInv
<1> QED
  BY <1>5, <1>7, <1>8, <1>9 DEF FarewellInv, IsUser, Neighbour

\* A host makes its link when it is asked to, or at the beginning: nobody was told anything yet.
LEMMA MakesFarewell ==
  ASSUME LinksOK, FarewellInv, NEW n \in Hosts, Makes(n), n = 1 \/ Pending(n),
         \A i \in Hosts \ {1} : Pending(i)' => Pending(i)
  PROVE  FarewellInv'
<1>1. /\ link[n].status = "None" /\ link'[n].status = "Connect"
      /\ \A i \in Hosts \ {n} : link'[i] = link[i]
  BY DEF Makes, LinksOK, WithStatus, NoLink
<1>2. UNCHANGED farewells
  BY DEF Makes
<1>3. \A i \in Hosts, s \in Sides :
        ~IsUser(i, s) /\ HasLink(i)' /\ link'[i].updates[s] => farewells'[<<i, Neighbour(i, s)>>] = 0
  <2> SUFFICES ASSUME NEW i \in Hosts, NEW s \in Sides,
                      ~IsUser(i, s), HasLink(i)', link'[i].updates[s]
               PROVE  farewells[<<i, Neighbour(i, s)>>] = 0
    BY <1>2
  <2>1. CASE i # n
    BY <1>1, <2>1 DEF FarewellInv, HasLink
  <2>2. CASE i = n /\ s = "out"
    BY <1>1, <2>2, NeighbourPairs DEF FarewellInv
  <2>3. CASE i = n /\ s = "in"
    BY <2>3, NeighbourPairs DEF FarewellInv
  <2> QED
    BY <2>1, <2>2, <2>3 DEF Sides
<1>4. \A i \in Hosts : i + 1 \in Hosts /\ link'[i].status = "None" => farewells'[<<i, i + 1>>] = 0
  BY <1>1, <1>2 DEF FarewellInv
<1>5. \A i \in Hosts \ {1} :
        Pending(i)' \/ link'[i - 1].status \in {"None", "Connect"} => farewells'[<<i, i - 1>>] = 0
  <2> SUFFICES ASSUME NEW i \in Hosts \ {1},
                      Pending(i)' \/ link'[i - 1].status \in {"None", "Connect"}
               PROVE  farewells[<<i, i - 1>>] = 0
    BY <1>2
  <2>1. i - 1 \in Hosts
    BY PairTypes
  <2>2. Pending(i) \/ link[i - 1].status \in {"None", "Connect"}
    BY <1>1, <2>1
  <2> QED
    BY <2>2 DEF FarewellInv
<1> QED
  BY <1>2, <1>3, <1>4, <1>5 DEF FarewellInv, IsUser, Neighbour

\* A host is asked to connect before it has told the one that asks anything.
LEMMA AsksFarewell ==
  ASSUME LinksOK, CreateInv, FarewellInv, NEW n \in Hosts, Asks(n)
  PROVE  FarewellInv'
<1>0. n + 1 \in Hosts \ {1} /\ n \in Nat /\ (n + 1) - 1 = n
  <2>1. n \in Nat /\ n >= 1 /\ n + 1 \in Hosts
    BY PairTypes DEF Asks
  <2> QED
    BY <2>1
<1>1. /\ link[n].status = "Connect"
      /\ link'[n].status = "Connecting" /\ link'[n].updates = link[n].updates
      /\ \A i \in Hosts \ {n} : link'[i] = link[i]
  BY DEF Asks, LinksOK
<1>2. UNCHANGED <<farewells, defaultQ>>
  BY DEF Asks
<1>3. \A i \in Hosts \ {1, n + 1} : Pending(i)' => Pending(i)
  <2> SUFFICES ASSUME NEW i \in Hosts \ {1, n + 1}
               PROVE  Pending(i)' => Pending(i)
    OBVIOUS
  <2>1. <<i - 1, i>> \in Pairs /\ <<i - 1, i>> # <<n, n + 1>>
    BY PairTypes
  <2> QED
    BY <1>2, <2>1 DEF Pending, Asks
<1>4. \A i \in Hosts, s \in Sides :
        ~IsUser(i, s) /\ HasLink(i)' /\ link'[i].updates[s] => farewells'[<<i, Neighbour(i, s)>>] = 0
  <2> SUFFICES ASSUME NEW i \in Hosts, NEW s \in Sides,
                      ~IsUser(i, s), HasLink(i)', link'[i].updates[s]
               PROVE  farewells[<<i, Neighbour(i, s)>>] = 0
    BY <1>2
  <2>1. HasLink(i) /\ link[i].updates[s]
    BY <1>1 DEF HasLink
  <2> QED
    BY <2>1 DEF FarewellInv
<1>5. \A i \in Hosts : i + 1 \in Hosts /\ link'[i].status = "None" => farewells'[<<i, i + 1>>] = 0
  BY <1>1, <1>2 DEF FarewellInv
<1>6. \A i \in Hosts \ {1} :
        Pending(i)' \/ link'[i - 1].status \in {"None", "Connect"} => farewells'[<<i, i - 1>>] = 0
  <2> SUFFICES ASSUME NEW i \in Hosts \ {1},
                      Pending(i)' \/ link'[i - 1].status \in {"None", "Connect"}
               PROVE  farewells[<<i, i - 1>>] = 0
    BY <1>2
  <2>1. i - 1 \in Hosts
    BY PairTypes
  <2>2. CASE i = n + 1
    <3>1. link[i - 1].status = "Connect"
      BY <1>0, <1>1, <2>2
    <3> QED
      BY <3>1 DEF FarewellInv
  <2>3. CASE i # n + 1
    <3>1. Pending(i) \/ link[i - 1].status \in {"None", "Connect"}
      BY <1>1, <1>3, <2>1, <2>3
    <3> QED
      BY <3>1 DEF FarewellInv
  <2> QED
    BY <2>2, <2>3
<1> QED
  BY <1>2, <1>4, <1>5, <1>6 DEF FarewellInv, IsUser, Neighbour

\* A host refuses only the one that asked, which it has told nothing, and it has no link.
LEMMA AnswersFarewell ==
  ASSUME LinksOK, QueuesOK, CreateInv, FarewellInv, NEW n \in Hosts, Answers(n)
  PROVE  FarewellInv'
<1>1. QueuesFewer /\ n # 1 /\ Pending(n) /\ ~Pending(n)'
  BY AnswersFewer
<1>2. \A i \in Hosts \ {1} : Pending(i)' => Pending(i)
  BY <1>1, FewerPending
<1>3. CASE Makes(n)
  BY <1>1, <1>2, <1>3, MakesFarewell
<1>4. CASE UNCHANGED <<link, farewells>>
  BY <1>2, <1>4, FarewellsStay DEF HasLink
<1>5. CASE /\ UNCHANGED link
           /\ farewells' = [p \in Pairs |-> IF p = <<n, n - 1>> THEN farewells[p] + 1
                                                                ELSE farewells[p]]
  <2>1. /\ link[n].status = "None" /\ link[n - 1].status \notin {"None", "Connect"}
        /\ farewells[<<n, n - 1>>] = 0
    BY <1>1 DEF CreateInv, FarewellInv
  <2>2. \A p \in Pairs : farewells'[p] \in 0..1
    BY <1>5, <2>1 DEF FarewellInv
  <2>3. \A p \in Pairs : p # <<n, n - 1>> => farewells'[p] = farewells[p]
    BY <1>5
  <2>4. \A i \in Hosts, s \in Sides :
          ~IsUser(i, s) /\ HasLink(i)' /\ link'[i].updates[s] => farewells'[<<i, Neighbour(i, s)>>] = 0
    <3> SUFFICES ASSUME NEW i \in Hosts, NEW s \in Sides,
                        ~IsUser(i, s), HasLink(i), link[i].updates[s]
                 PROVE  farewells'[<<i, Neighbour(i, s)>>] = 0
      BY <1>5 DEF HasLink
    <3>1. i # n
      BY <2>1 DEF HasLink
    <3>2. <<i, Neighbour(i, s)>> \in Pairs /\ <<i, Neighbour(i, s)>> # <<n, n - 1>>
      BY <3>1, NeighbourPairs
    <3> QED
      BY <2>3, <3>2 DEF FarewellInv
  <2>5. \A i \in Hosts : i + 1 \in Hosts /\ link'[i].status = "None" => farewells'[<<i, i + 1>>] = 0
    <3> SUFFICES ASSUME NEW i \in Hosts, i + 1 \in Hosts, link[i].status = "None"
                 PROVE  farewells'[<<i, i + 1>>] = 0
      BY <1>5
    <3>1. <<i, i + 1>> \in Pairs /\ <<i, i + 1>> # <<n, n - 1>>
      <4>1. i \in Nat /\ n \in Nat /\ <<i, i + 1>> \in Pairs
        BY PairTypes
      <4>2. ~(i = n /\ i + 1 = n - 1)
        BY <4>1
      <4> QED
        BY <4>1, <4>2
    <3> QED
      BY <2>3, <3>1 DEF FarewellInv
  <2>6. \A i \in Hosts \ {1} :
          Pending(i)' \/ link'[i - 1].status \in {"None", "Connect"} => farewells'[<<i, i - 1>>] = 0
    <3> SUFFICES ASSUME NEW i \in Hosts \ {1},
                        Pending(i)' \/ link[i - 1].status \in {"None", "Connect"}
                 PROVE  farewells'[<<i, i - 1>>] = 0
      BY <1>5
    <3>1. i # n
      BY <1>1, <2>1
    <3>2. <<i, i - 1>> \in Pairs /\ <<i, i - 1>> # <<n, n - 1>>
      BY <3>1, PairTypes
    <3> QED
      BY <1>2, <2>3, <3>2 DEF FarewellInv
  <2> QED
    BY <2>2, <2>4, <2>5, <2>6 DEF FarewellInv, IsUser, Neighbour
<1> QED
  BY <1>3, <1>4, <1>5 DEF Answers

LEMMA KindFarewell ==
  ASSUME LinksOK, ChanOK, QueuesOK, CreateInv, FarewellInv, Kind
  PROVE  FarewellInv'
<1>1. CASE UNCHANGED <<link, farewells>> /\ QueuesFewer
  BY <1>1, FewerPending, FarewellsStay DEF HasLink
<1>2. ASSUME NEW n \in Hosts, Tells(n), QueuesFewer
      PROVE  FarewellInv'
  BY <1>2, TellsFarewell
<1>3. CASE Makes(1) /\ QueuesFewer
  <2>1. 1 \in Hosts
    BY DEF Hosts
  <2> QED
    BY <1>3, <2>1, FewerPending, MakesFarewell
<1>4. ASSUME NEW n \in Hosts, Asks(n) \/ Answers(n)
      PROVE  FarewellInv'
  BY <1>4, AsksFarewell, AnswersFarewell
<1>5. ASSUME NEW n \in Hosts, Hears(n)
      PROVE  FarewellInv'
  <2>1. UNCHANGED <<link, farewells>>
    BY <1>5 DEF Hears
  <2> QED
    BY <1>5, <2>1, HearsCreates, FarewellsStay DEF HasLink
<1> QED
  BY <1>1, <1>2, <1>3, <1>4, <1>5 DEF Kind

-----------------------------------------------------------------------------
(* What each step is to the connect messages and the farewells.                *)

LEMMA SentFewer ==
  ASSUME ChanOK, NEW n, NEW sides, NEW m \in Message, m # Create, chan' = Sent(n, sides, m)
  PROVE  \A p \in Pairs : Fewer(chan'[p], chan[p], Asking)
<1> SUFFICES ASSUME NEW p \in Pairs
             PROVE  Fewer(chan'[p], chan[p], Asking)
  OBVIOUS
<1>1. chan[p] \in Seq(Message) /\ m \notin Asking
  BY DEF ChanOK, Asking
<1>2. chan'[p] = chan[p] \/ chan'[p] = Append(chan[p], m)
  BY DEF Sent
<1>3. Fewer(Append(chan[p], m), chan[p], Asking)
  BY <1>1, Added
<1> QED
  BY <1>2, <1>3, Emptied

LEMMA NotCreate ==
  /\ \A st \in StatusUpdates : Status(st) \in Message /\ Status(st) # Create
  /\ \A m \in Message : m.type \in {"Status", "Data", "Ack"} => m # Create
BY MessageTypes DEF Status, Create

LEMMA SameFewer == UNCHANGED chan => \A p \in Pairs : Fewer(chan'[p], chan[p], Asking)
BY Emptied

LEMMA SameQueues ==
  ASSUME UNCHANGED <<portQ, defaultQ>>, \A p \in Pairs : Fewer(chan'[p], chan[p], Asking)
  PROVE  QueuesFewer
BY Emptied DEF QueuesFewer

LEMMA DisconnectTells ==
  ASSUME LinksOK, ChanOK, NEW n \in Hosts, HasLink(n),
         NEW l \in Links, l.updates = link[n].updates, Disconnect(n, l)
  PROVE  Tells(n) /\ \A p \in Pairs : Fewer(chan'[p], chan[p], Asking)
<1> DEFINE st == IF l.failed THEN "Failure" ELSE "Disconnected"
           to == MayGet(l, n, {s \in Sides : Present(n, s)})
           k == WithStatus(Muted(l, to, st), "Closed")
<1>1. /\ link' = [link EXCEPT ![n] = k]
      /\ chan' = Sent(n, to, Status(st))
      /\ farewells' = Counted(n, to, st)
  BY DEF Disconnect
<1>2. st \in Closing /\ st \in StatusUpdates
  BY DEF Closing, StatusUpdates
<1>3. \A p \in Pairs : Fewer(chan'[p], chan[p], Asking)
  BY <1>1, <1>2, NotCreate, SentFewer
<1>4. to \in SUBSET Sides /\ \A s \in to : l.updates[s] /\ ~IsUser(n, s)
  BY DEF MayGet
<1> HIDE DEF st, to
<1>5. k \in Links
  BY LinkTypes DEF Statuses
<1>6. k.status = "Closed" /\ k.updates = [s \in Sides |-> l.updates[s] /\ s \notin to]
  BY <1>2 DEF WithStatus, Muted, Links
<1>7. farewells' = [p \in Pairs |-> IF p[1] = n /\ \E s \in to : p[2] = Neighbour(n, s)
                                      THEN farewells[p] + 1 ELSE farewells[p]]
  BY <1>1, <1>2 DEF Counted
<1> HIDE DEF k
<1>8. \A s \in Sides : k.updates[s] => link[n].updates[s] /\ s \notin to
  BY <1>6
<1>9. k.status \notin {"None", "Connect"} /\ \A s \in to : link[n].updates[s] /\ ~IsUser(n, s)
  BY <1>4, <1>6
<1>10. Tells(n)
  BY <1>1, <1>4, <1>5, <1>7, <1>8, <1>9 DEF Tells
<1> QED
  BY <1>3, <1>10

\* A link that is changed without a farewell.
LEMMA LinkTells ==
  ASSUME LinksOK, NEW n \in Hosts, HasLink(n), UNCHANGED farewells,
         NEW k \in Links, link' = [link EXCEPT ![n] = k], k.status \notin {"None", "Connect"},
         k.status # "Removed" => \A s \in Sides : k.updates[s] => link[n].updates[s]
  PROVE  Tells(n)
<1>1. farewells' = [p \in Pairs |-> IF p[1] = n /\ \E s \in {} : p[2] = Neighbour(n, s)
                                      THEN farewells[p] + 1 ELSE farewells[p]]
  BY DEF LinksOK
<1>2. {} \in SUBSET Sides
  OBVIOUS
<1>3. /\ k.status # "Removed" => \A s \in Sides : k.updates[s] => link[n].updates[s] /\ s \notin {}
      /\ \A s \in {} : link[n].updates[s] /\ ~IsUser(n, s)
  OBVIOUS
<1> QED
  BY <1>1, <1>2, <1>3 DEF Tells

LEMMA ChangeTells ==
  ASSUME LinksOK, NEW n \in Hosts, HasLink(n), UNCHANGED farewells,
         NEW l \in Links, NEW st \in Statuses \ {"None", "Connect"}, Change(n, l, st),
         l.updates = link[n].updates
  PROVE  Tells(n)
<1>1. WithStatus(l, st) \in Links
  BY LinkTypes
<1>2. WithStatus(l, st).status = st /\ WithStatus(l, st).updates = link[n].updates
  BY DEF WithStatus, Links
<1> QED
  BY <1>1, <1>2, LinkTells DEF Change

LEMMA FailTells ==
  ASSUME LinksOK, NEW n \in Hosts, HasLink(n), Fail(n)
  PROVE  Tells(n) /\ \A p \in Pairs : Fewer(chan'[p], chan[p], Asking)
<1>1. link[n] \in Links
  BY DEF LinksOK
<1>2. Failed(link[n]) \in Links
  BY <1>1, LinkTypes DEF Statuses
<1>3. Failed(link[n]).status = "Exception" /\ Failed(link[n]).updates = link[n].updates
  BY <1>1 DEF Failed, Links
<1>4. /\ link' = [link EXCEPT ![n] = Failed(link[n])]
      /\ UNCHANGED <<farewells, chan>>
  BY DEF Fail
<1>5. Tells(n)
  BY <1>2, <1>3, <1>4, LinkTells
<1> QED
  BY <1>4, <1>5, SameFewer

LEMMA PrimaryThreadKind ==
  ASSUME TypeOK, NEW n \in Hosts, PrimaryThread(n) \/ LinkTimeout(n) \/ Shutdown(n)
  PROVE  Kind
<1>0. LinksOK /\ ChanOK /\ QueuesOK /\ link[n] \in Links
  BY TypeParts DEF LinksOK
<1>1. HasLink(n)
  BY DEF PrimaryThread, LinkTimeout, TimedOut, Shutdown, HasLink
<1>2. ASSUME NEW l \in Links, l.updates = link[n].updates, Disconnect(n, l),
             UNCHANGED <<portQ, defaultQ>>
      PROVE  Kind
  BY <1>0, <1>1, <1>2, DisconnectTells, SameQueues DEF Kind
<1>3. Failed(link[n]) \in Links /\ Failed(link[n]).updates = link[n].updates
  <2>1. Failed(link[n]).updates = link[n].updates
    BY <1>0 DEF Failed, Links
  <2> QED
    BY <1>0, <2>1, LinkTypes DEF Statuses
<1>4. CASE PeerMissing(n)
  <2> DEFINE l == [link[n] EXCEPT !.status = "Exception", !.failed = LostPeer(n)]
  <2>1. LostPeer(n) \in BOOLEAN
    BY DEF LostPeer
  <2>2. l \in Links /\ l.updates = link[n].updates
    BY <1>0, <2>1 DEF Links, Statuses
  <2>3. Disconnect(n, l) /\ UNCHANGED <<portQ, defaultQ>>
    BY <1>4 DEF PeerMissing
  <2> HIDE DEF l
  <2> QED
    BY <1>2, <2>2, <2>3
<1>5. CASE AlreadyEnded(n)
  BY <1>0, <1>2, <1>5 DEF AlreadyEnded
<1>6. CASE LinkTimeout(n)
  BY <1>2, <1>3, <1>6 DEF LinkTimeout, TimedOut
<1>7. CASE Shutdown(n)
  <2>1. Tells(n) /\ \A p \in Pairs : Fewer(chan'[p], chan[p], Asking)
    BY <1>0, <1>1, <1>7, DisconnectTells DEF Shutdown
  <2>2. QueuesFewer
    <3>1. \A i \in Hosts : portQ'[i] \in {portQ[i], <<>>}
      BY <1>0, <1>7 DEF Shutdown, QueuesOK
    <3>2. \A i \in Hosts, t \in Threads : defaultQ'[i][t] \in {defaultQ[i][t], <<>>}
      BY <1>0, <1>7 DEF Shutdown, QueuesOK
    <3> QED
      BY <2>1, <3>1, <3>2, Emptied DEF QueuesFewer
  <2> QED
    BY <2>1, <2>2 DEF Kind
<1>8. CASE ProcessConnect(n) /\ n = Last
  <2>1. /\ Change(n, link[n], "Connected") /\ chan' = Sent(n, {"in"}, Status("Connected"))
        /\ UNCHANGED <<portQ, defaultQ, farewells>>
    BY <1>8 DEF ProcessConnect
  <2>2. Tells(n)
    BY <1>0, <1>1, <2>1, ChangeTells DEF Statuses
  <2>3. \A p \in Pairs : Fewer(chan'[p], chan[p], Asking)
    BY <1>0, <2>1, NotCreate, StatusTypes, SentFewer
  <2> QED
    BY <2>1, <2>2, <2>3, SameQueues DEF Kind
<1>9. CASE ProcessConnect(n) /\ n # Last
  <2>1. /\ link[n].status = "Connect"
        /\ Change(n, link[n], "Connecting") /\ chan' = Sent(n, {"out"}, Create)
        /\ UNCHANGED <<portQ, defaultQ, farewells>>
    BY <1>9 DEF ProcessConnect
  <2>2. n + 1 \in Hosts /\ n \in Nat
    BY <1>9 DEF Hosts
  <2>3. \A p \in Pairs : p[1] = n /\ (\E s \in {"out"} : p[2] = Neighbour(n, s)) <=> p = <<n, n + 1>>
    BY PairTypes DEF Neighbour
  <2>4. CASE peer[n + 1][Side(n + 1, n)] = "Gone"
    <3>1. \A p \in Pairs : chan'[p] = chan[p]
      BY <2>1, <2>3, <2>4 DEF Sent
    <3>2. QueuesFewer
      BY <2>1, <3>1, Emptied DEF QueuesFewer
    <3>3. Tells(n)
      BY <1>0, <1>1, <2>1, ChangeTells DEF Statuses
    <3> QED
      BY <3>2, <3>3 DEF Kind
  <2>5. CASE peer[n + 1][Side(n + 1, n)] # "Gone"
    <3>1. \A p \in Pairs : chan'[p] = IF p = <<n, n + 1>> THEN Append(chan[p], Create) ELSE chan[p]
      BY <2>1, <2>3, <2>5 DEF Sent
    <3>2. WithStatus(link[n], "Connecting") \in Links
      BY <1>0, LinkTypes DEF Statuses
    <3>3. /\ WithStatus(link[n], "Connecting").status = "Connecting"
          /\ WithStatus(link[n], "Connecting").updates = link[n].updates
      BY <1>0 DEF WithStatus, Links
    <3>4. Asks(n)
      BY <2>1, <2>2, <3>1, <3>2, <3>3 DEF Asks, Change
    <3> QED
      BY <3>4 DEF Kind
  <2> QED
    BY <2>4, <2>5
<1>10. CASE ProcessConnectedSuspend(n)
  <2> DEFINE away == {s \in Sides : InStatus(n, s, "Suspended")}
             far == {s \in away : ~IsUser(n, s)}
             to == IF HasUser(n) THEN {} ELSE MayGet(link[n], n, Sides \ away)
             l == [link[n] EXCEPT !.suspended = [s \in Sides |-> s \in far],
                                  !.needsResume = [s \in Sides |-> s \in to \/ @[s]]]
  <2>0. UNCHANGED <<portQ, defaultQ>>
    BY <1>10 DEF ProcessConnectedSuspend
  <2>1. CASE Disconnect(n, Failed(link[n]))
    BY <1>2, <1>3, <2>0, <2>1
  <2>2. CASE /\ Change(n, l, "Suspended")
             /\ chan' = Sent(n, to, Status("Suspended"))
             /\ UNCHANGED farewells
    <3>1. l \in Links /\ l.updates = link[n].updates
      <4>1. [s \in Sides |-> s \in far] \in [Sides -> BOOLEAN]
        OBVIOUS
      <4>2. [s \in Sides |-> s \in to \/ link[n].needsResume[s]] \in [Sides -> BOOLEAN]
        <5> HIDE DEF to
        <5> QED
          OBVIOUS
      <4> HIDE DEF to, far
      <4> QED
        BY <1>0, <4>1, <4>2 DEF Links
    <3> HIDE DEF l, to
    <3>2. Tells(n)
      BY <1>0, <1>1, <2>2, <3>1, ChangeTells DEF Statuses
    <3>3. \A p \in Pairs : Fewer(chan'[p], chan[p], Asking)
      BY <1>0, <2>2, NotCreate, StatusTypes, SentFewer
    <3> QED
      BY <2>0, <3>2, <3>3, SameQueues DEF Kind
  <2> QED
    BY <1>10, <2>1, <2>2 DEF ProcessConnectedSuspend
<1>11. CASE n = 1 /\ ProcessConnectedSend
  <2> DEFINE e == [side |-> "in", m |-> Data(limit.next, Head(sendBuf))]
  <2>1. e \in Event
    <3>1. sendBuf \in Seq(Nat) /\ sendBuf # <<>> /\ limit.next \in Nat
      BY <1>11 DEF ProcessConnectedSend, TypeOK
    <3>2. Head(sendBuf) \in Nat
      BY <3>1
    <3> QED
      BY <3>1, <3>2, MessageTypes DEF Event, Sides
  <2>2. e \notin Asked /\ e \notin AskedBack
    BY DEF Asked, AskedBack, Data, Create
  <2>3. /\ portQ' = [portQ EXCEPT ![1] = Append(@, e)]
        /\ UNCHANGED <<chan, defaultQ, link, farewells>>
    BY <1>11 DEF ProcessConnectedSend
  <2> HIDE DEF e
  <2>4. \A i \in Hosts : portQ'[i] = portQ[i] \/ portQ'[i] = Append(portQ[i], e)
    BY <1>0, <2>3 DEF QueuesOK
  <2>5. \A i \in Hosts : /\ Fewer(Append(portQ[i], e), portQ[i], Asked)
                         /\ Fewer(Append(portQ[i], e), portQ[i], AskedBack)
    BY <1>0, <2>1, <2>2, Added DEF QueuesOK
  <2>6. QueuesFewer
    BY <2>3, <2>4, <2>5, Emptied DEF QueuesFewer
  <2> QED
    BY <2>3, <2>6 DEF Kind
<1>12. CASE ProcessSuspended(n)
  <2> DEFINE l == [link[n] EXCEPT !.suspended = NoLink.suspended,
                                  !.needsResume = NoLink.needsResume]
             to == {s \in MayGet(link[n], n, Sides) : link[n].needsResume[s]}
  <2>1. l \in Links /\ l.updates = link[n].updates
    BY <1>0 DEF Links, NoLink
  <2>2. /\ Change(n, l, "Connected") /\ chan' = Sent(n, to, Status("Resumed"))
        /\ UNCHANGED <<portQ, defaultQ, farewells>>
    BY <1>12 DEF ProcessSuspended
  <2> HIDE DEF l, to
  <2>3. Tells(n)
    BY <1>0, <1>1, <2>1, <2>2, ChangeTells DEF Statuses
  <2>4. \A p \in Pairs : Fewer(chan'[p], chan[p], Asking)
    BY <1>0, <2>2, NotCreate, StatusTypes, SentFewer
  <2> QED
    BY <2>2, <2>3, <2>4, SameQueues DEF Kind
<1>13. CASE RemoveClosed(n)
  <2>1. /\ link' = [link EXCEPT ![n] = [NoLink EXCEPT !.status = "Removed"]]
        /\ portQ' = [portQ EXCEPT ![n] = <<>>]
        /\ UNCHANGED <<chan, defaultQ, farewells>>
    BY <1>13 DEF RemoveClosed
  <2>2. [NoLink EXCEPT !.status = "Removed"].status = "Removed"
    BY DEF NoLink
  <2>3. Tells(n)
    BY <1>0, <1>1, <2>1, <2>2, NoLinkType, LinkTells
  <2>4. \A i \in Hosts : portQ'[i] \in {portQ[i], <<>>}
    BY <1>0, <2>1 DEF QueuesOK
  <2>5. QueuesFewer
    BY <2>1, <2>4, Emptied DEF QueuesFewer
  <2> QED
    BY <2>3, <2>5 DEF Kind
<1> QED
  BY <1>4, <1>5, <1>6, <1>7, <1>8, <1>9, <1>10, <1>11, <1>12, <1>13 DEF PrimaryThread

LEMMA PoppedFewer ==
  ASSUME QueuesOK, NEW n \in Hosts, NEW q \in Threads \cup {"port"},
         Front(n, q) # <<>>, Popped(n, q), \A p \in Pairs : Fewer(chan'[p], chan[p], Asking)
  PROVE  QueuesFewer
<1>1. CASE q = "port"
  <2>1. portQ' = [portQ EXCEPT ![n] = Tail(@)] /\ UNCHANGED defaultQ /\ portQ[n] # <<>>
    BY <1>1 DEF Popped, Front
  <2>2. \A i \in Hosts : portQ'[i] = portQ[i] \/ (i = n /\ portQ'[i] = Tail(portQ[n]))
    BY <2>1 DEF QueuesOK
  <2>3. Fewer(Tail(portQ[n]), portQ[n], Asked) /\ Fewer(Tail(portQ[n]), portQ[n], AskedBack)
    BY <2>1, Taken DEF QueuesOK
  <2> QED
    BY <2>1, <2>2, <2>3, Emptied DEF QueuesFewer
<1>2. CASE q # "port"
  <2>1. /\ q \in Threads /\ defaultQ' = [defaultQ EXCEPT ![n][q] = Tail(@)] /\ UNCHANGED portQ
        /\ defaultQ[n][q] # <<>>
    BY <1>2 DEF Popped, Front
  <2>2. \A i \in Hosts, t \in Threads :
          defaultQ'[i][t] = defaultQ[i][t] \/ (i = n /\ t = q /\ defaultQ'[i][t] = Tail(defaultQ[n][q]))
    BY <2>1 DEF QueuesOK
  <2>3. /\ Fewer(Tail(defaultQ[n][q]), defaultQ[n][q], Asked)
        /\ Fewer(Tail(defaultQ[n][q]), defaultQ[n][q], AskedBack)
    BY <2>1, Taken DEF QueuesOK
  <2> QED
    BY <2>1, <2>2, <2>3, Emptied DEF QueuesFewer
<1> QED
  BY <1>1, <1>2

\* A connect message at the front of a queue is of the host before, and in a default queue.
LEMMA ProcessCreateKind ==
  ASSUME TypeOK, CreateInv, NEW n \in Hosts, NEW q \in Threads \cup {"port"},
         Front(n, q) # <<>>, Popped(n, q),
         Head(Front(n, q)).m = Create, ProcessCreate(n, Head(Front(n, q)))
  PROVE  Answers(n)
<1> DEFINE e == Head(Front(n, q))
<1>0. LinksOK /\ ChanOK /\ QueuesOK
  BY TypeParts
<1>1. e \in Event
  BY <1>0, PoppedType
<1>2. e \in Asked \/ e \in AskedBack
  BY <1>1 DEF Event, Sides, Asked, AskedBack
<1>3. q # "port"
  <2>1. ASSUME q = "port"
        PROVE  FALSE
    <3>1. portQ[n] \in Seq(Event) /\ portQ[n] # <<>> /\ e = Head(portQ[n])
      BY <1>0, <2>1 DEF QueuesOK, Front
    <3>2. Has(portQ[n], Asked) \/ Has(portQ[n], AskedBack)
      BY <1>2, <3>1, Taken
    <3> QED
      BY <3>2 DEF CreateInv
  <2> QED
    BY <2>1
<1>4. /\ q \in Threads /\ defaultQ[n][q] \in Seq(Event) /\ defaultQ[n][q] # <<>>
      /\ e = Head(defaultQ[n][q])
      /\ defaultQ' = [defaultQ EXCEPT ![n][q] = Tail(@)] /\ UNCHANGED portQ
  BY <1>0, <1>3 DEF QueuesOK, Front, Popped
<1>5. e \in Asked
  <2>1. e \notin AskedBack
    BY <1>4, Taken DEF CreateInv
  <2> QED
    BY <1>2, <2>1
<1>6. e.side = "in"
  BY <1>5 DEF Asked
<1> HIDE DEF e
<1>7. \E t \in Threads :
        /\ defaultQ[n][t] # <<>> /\ Head(defaultQ[n][t]) \in Asked
        /\ defaultQ' = [defaultQ EXCEPT ![n][t] = Tail(@)]
  BY <1>4, <1>5
<1>8. n \in Nat /\ \A p \in Pairs : p[1] = n /\ (\E s \in {"in"} : p[2] = Neighbour(n, s)) <=> p = <<n, n - 1>>
  BY PairTypes DEF Neighbour
<1>9. ProcessCreate(n, e)
  BY DEF e
<1>10. CASE Ignore
  <2>1. UNCHANGED <<link, farewells, chan>>
    BY <1>10 DEF Ignore
  <2> QED
    BY <1>4, <1>7, <2>1, SameFewer DEF Answers
<1>11. CASE /\ chan' = IF Present(n, e.side) THEN Sent(n, {e.side}, Status("Failure")) ELSE chan
            /\ farewells' = IF Present(n, e.side) THEN Counted(n, {e.side}, "Failure") ELSE farewells
            /\ UNCHANGED link
  <2>1. \A p \in Pairs : Fewer(chan'[p], chan[p], Asking)
    BY <1>0, <1>11, NotCreate, StatusTypes, SentFewer, SameFewer
  <2>2. \/ UNCHANGED farewells
        \/ farewells' = [p \in Pairs |-> IF p = <<n, n - 1>> THEN farewells[p] + 1 ELSE farewells[p]]
    <3>1. CASE ~Present(n, e.side)
      BY <1>11, <3>1
    <3>2. CASE Present(n, e.side)
      <4>1. farewells' = [p \in Pairs |-> IF p[1] = n /\ \E s \in {"in"} : p[2] = Neighbour(n, s)
                                            THEN farewells[p] + 1 ELSE farewells[p]]
        BY <1>6, <1>11, <3>2 DEF Counted, Closing
      <4> QED
        BY <1>8, <4>1
    <3> QED
      BY <3>1, <3>2
  <2> QED
    BY <1>4, <1>7, <1>11, <2>1, <2>2 DEF Answers
<1>12. CASE /\ link[n].status = "None"
            /\ link' = [link EXCEPT ![n] = WithStatus(NoLink, "Connect")]
            /\ UNCHANGED <<chan, farewells>>
  <2>1. Makes(n)
    BY <1>12 DEF Makes
  <2> QED
    BY <1>4, <1>7, <1>12, <2>1, SameFewer DEF Answers
<1> QED
  BY <1>9, <1>10, <1>11, <1>12 DEF ProcessCreate

LEMMA ProcessStatusKind ==
  ASSUME LinksOK, ChanOK, NEW n \in Hosts, NEW e \in Event, e.m.type = "Status", ProcessStatus(n, e)
  PROVE  /\ \A p \in Pairs : Fewer(chan'[p], chan[p], Asking)
         /\ UNCHANGED <<link, farewells>> \/ Tells(n)
<1> DEFINE st == e.m.status
           l == Muted(link[n], {e.side}, st)
           to == IF HasUser(n) THEN {} ELSE MayGet(l, n, {Other(e.side)})
           l2 == [Muted(l, to, st) EXCEPT !.failed = @ \/ st = "Failure"]
<1>1. st \in StatusUpdates /\ e.m \in Message /\ e.m # Create
  BY EventFields, NotCreate
<1>2. l \in Links /\ \A s \in Sides : l.updates[s] => link[n].updates[s]
  <2>1. l \in Links
    BY LinkTypes DEF LinksOK, Statuses
  <2>2. \A s \in Sides : l.updates[s] => link[n].updates[s]
    BY DEF Muted, LinksOK, Links
  <2> QED
    BY <2>1, <2>2
<1>3. to \in SUBSET Sides /\ \A s \in to : l.updates[s] /\ ~IsUser(n, s)
  BY DEF MayGet, Other, Sides
<1>4. CASE Ignore
  BY <1>4, SameFewer DEF Ignore
<1>5. CASE HasLink(n) /\ Fail(n)
  BY <1>5, FailTells
<1>6. CASE /\ HasLink(n) /\ link' = [link EXCEPT ![n] = Failed(l)]
           /\ UNCHANGED <<chan, farewells>>
  <2> HIDE DEF l
  <2>1. Failed(l) \in Links /\ Failed(l).status = "Exception" /\ Failed(l).updates = l.updates
    <3>1. Failed(l) \in Links
      BY <1>2, LinkTypes DEF Statuses
    <3> QED
      BY <1>2, <3>1 DEF Failed, Links
  <2>2. Tells(n)
    BY <1>2, <1>6, <2>1, LinkTells
  <2> QED
    BY <1>6, <2>2, SameFewer
<1>7. CASE /\ HasLink(n) /\ Change(n, l2, Becomes[st])
           /\ chan' = Sent(n, to, e.m)
           /\ farewells' = Counted(n, to, st)
  <2> DEFINE k == WithStatus(l2, Becomes[st])
  <2>1. \A p \in Pairs : Fewer(chan'[p], chan[p], Asking)
    BY <1>1, <1>7, SentFewer
  <2>2. Muted(l, to, st) \in Links
    <3> HIDE DEF l, to, st
    <3> QED
      BY <1>2, LinkTypes DEF Statuses
  <2>3. l2 \in Links /\ l2.updates = Muted(l, to, st).updates
    <3> DEFINE m == Muted(l, to, st)
    <3> HIDE DEF m, st
    <3>1. (m.failed \/ st = "Failure") \in BOOLEAN
      OBVIOUS
    <3>2. [m EXCEPT !.failed = m.failed \/ st = "Failure"] \in Links
      BY <2>2, <3>1 DEF Links, m
    <3>3. [m EXCEPT !.failed = m.failed \/ st = "Failure"].updates = m.updates
      BY <2>2 DEF Links, m
    <3> QED
      BY <3>2, <3>3 DEF m
  <2> HIDE DEF l2
  <2>4. Becomes[st] \in Statuses \ {"None", "Connect", "Removed"}
    BY <1>1 DEF StatusUpdates, Closing, Becomes, Statuses
  <2>5. k \in Links /\ k.status = Becomes[st] /\ k.updates = Muted(l, to, st).updates
    <3>1. k \in Links
      BY <2>3, <2>4, LinkTypes
    <3> QED
      BY <2>3, <3>1 DEF WithStatus, Links
  <2>6. link' = [link EXCEPT ![n] = k]
    BY <1>7 DEF Change
  <2> HIDE DEF k, l, to, st
  <2>7. CASE st \in Closing
    <3>1. \A s \in Sides : k.updates[s] => link[n].updates[s] /\ s \notin to
      <4>1. k.updates = [s \in Sides |-> l.updates[s] /\ s \notin to]
        BY <1>2, <2>5, <2>7 DEF Muted, Links
      <4> QED
        BY <1>2, <4>1
    <3>2. farewells' = [p \in Pairs |-> IF p[1] = n /\ \E s \in to : p[2] = Neighbour(n, s)
                                          THEN farewells[p] + 1 ELSE farewells[p]]
      BY <1>7, <2>7 DEF Counted
    <3>3. \A s \in to : link[n].updates[s] /\ ~IsUser(n, s)
      BY <1>2, <1>3
    <3>4. k.status \notin {"None", "Connect"}
      BY <2>4, <2>5
    <3>5. Tells(n)
      BY <1>3, <1>7, <2>5, <2>6, <3>1, <3>2, <3>3, <3>4 DEF Tells
    <3> QED
      BY <2>1, <3>5
  <2>8. CASE st \notin Closing
    <3>1. \A s \in Sides : k.updates[s] => link[n].updates[s]
      BY <1>2, <2>5, <2>8 DEF Muted
    <3>2. UNCHANGED farewells
      BY <1>7, <2>8 DEF Counted, LinksOK
    <3>3. k.status \notin {"None", "Connect"}
      BY <2>4, <2>5
    <3>4. Tells(n)
      BY <1>7, <2>5, <2>6, <3>1, <3>2, <3>3, LinkTells
    <3> QED
      BY <2>1, <3>4
  <2> QED
    BY <2>7, <2>8
<1> QED
  BY <1>4, <1>5, <1>6, <1>7 DEF ProcessStatus

LEMMA ProcessDataKind ==
  ASSUME LinksOK, ChanOK, NEW n \in Hosts, NEW e \in Event,
         \/ e.m.type = "Data" /\ ProcessData(n, e)
         \/ e.m.type = "Ack" /\ ProcessAck(n, e)
  PROVE  /\ \A p \in Pairs : Fewer(chan'[p], chan[p], Asking)
         /\ UNCHANGED <<link, farewells>> \/ Tells(n)
<1>1. e.m \in Message /\ e.m # Create
  BY EventFields, NotCreate
<1>2. CASE HasLink(n) /\ Fail(n)
  BY <1>2, FailTells
<1>3. CASE ~(HasLink(n) /\ Fail(n))
  <2>1. UNCHANGED <<link, farewells>>
    BY <1>3 DEF ProcessData, ProcessAck, Ignore
  <2>2. chan' = chan \/ \E sides : \E m \in Message \ {Create} : chan' = Sent(n, sides, m)
    <3>1. CASE e.m.type = "Data" /\ ProcessData(n, e)
      <4>1. Ack(e.m.id) \in Message /\ Ack(e.m.id) # Create
        <5>1. Ack(e.m.id) \in Message
          BY <3>1, EventFields, MessageTypes
        <5> QED
          BY <5>1 DEF Ack, Create
      <4>2. \/ chan' = chan
            \/ chan' = Sent(n, {e.side}, Ack(e.m.id))
            \/ chan' = Sent(n, {Other(e.side)}, e.m)
        BY <1>3, <3>1 DEF ProcessData, Ignore, RelayOn
      <4> QED
        BY <1>1, <4>1, <4>2
    <3>2. CASE e.m.type = "Ack" /\ ProcessAck(n, e)
      <4>1. chan' = chan \/ chan' = Sent(n, {Other(e.side)}, e.m)
        BY <1>3, <3>2 DEF ProcessAck, Ignore
      <4> QED
        BY <1>1, <4>1
    <3> QED
      BY <3>1, <3>2
  <2>3. ASSUME NEW sides, NEW m \in Message \ {Create}, chan' = Sent(n, sides, m)
        PROVE  \A p \in Pairs : Fewer(chan'[p], chan[p], Asking)
    BY <2>3, SentFewer
  <2> QED
    BY <2>1, <2>2, <2>3, SameFewer
<1> QED
  BY <1>2, <1>3

LEMMA ProcessEventsKind ==
  ASSUME TypeOK, CreateInv, NEW n \in Hosts, NEW q \in Threads \cup {"port"}, ProcessEvents(n, q)
  PROVE  Kind
<1> DEFINE e == Head(Front(n, q))
<1>0. LinksOK /\ ChanOK /\ QueuesOK
  BY TypeParts
<1>1. /\ e \in Event /\ Front(n, q) # <<>> /\ Popped(n, q)
  BY <1>0, PoppedType DEF ProcessEvents
<1>2. CASE e.m.type = "Create" /\ ProcessCreate(n, e)
  <2>1. e.m = Create
    BY <1>1, <1>2, EventFields
  <2> QED
    BY <1>1, <1>2, <2>1, ProcessCreateKind DEF Kind
<1>3. CASE \/ e.m.type = "Status" /\ ProcessStatus(n, e)
           \/ e.m.type = "Data" /\ ProcessData(n, e)
           \/ e.m.type = "Ack" /\ ProcessAck(n, e)
  <2> HIDE DEF e
  <2>1. /\ \A p \in Pairs : Fewer(chan'[p], chan[p], Asking)
        /\ UNCHANGED <<link, farewells>> \/ Tells(n)
    BY <1>0, <1>1, <1>3, ProcessStatusKind, ProcessDataKind
  <2>2. QueuesFewer
    BY <1>0, <1>1, <2>1, PoppedFewer
  <2> QED
    BY <2>1, <2>2 DEF Kind
<1> QED
  BY <1>2, <1>3 DEF ProcessEvents

LEMMA ReceiveKind ==
  ASSUME TypeOK, CreateInv, NEW p \in Pairs, Receive(p)
  PROVE  Kind
<1> DEFINE n == p[2]
           s == Side(n, p[1])
           e == [side |-> s, m |-> Head(chan[p])]
<1>0. ChanOK /\ QueuesOK /\ n \in Hosts /\ p[1] \in Hosts
  BY TypeParts, PairTypes
<1>1. chan[p] \in Seq(Message) /\ chan[p] # <<>>
  BY <1>0 DEF ChanOK, Receive
<1>2. Head(chan[p]) \in Message
  BY <1>1
<1>3. /\ chan' = [chan EXCEPT ![p] = Tail(@)]
      /\ UNCHANGED <<link, farewells>>
  BY DEF Receive
<1>4. CASE Head(chan[p]) = Create
  <2>1. Has(chan[p], Asking)
    BY <1>1, <1>4, Taken DEF Asking
  <2>2. ~(p[1] > p[2])
    BY <2>1 DEF CreateInv
  <2>3. /\ p[1] = n - 1 /\ p = <<n - 1, n>> /\ p[1] < n
    <3>1. p[1] \in Nat /\ p[2] \in Nat /\ p = <<p[1], p[2]>> /\ (p[1] = p[2] - 1 \/ p[1] = p[2] + 1)
      BY PairTypes
    <3>2. p[1] = p[2] - 1
      BY <2>2, <3>1
    <3> QED
      BY <3>1, <3>2
  <2>4. s = "in"
    BY <2>3 DEF Side
  <2>5. UsesDefaultQueue(n, Create)
    BY DEF UsesDefaultQueue, Create
  <2>6. /\ \E t \in Threads : defaultQ' = [defaultQ EXCEPT ![n][t] = Append(@, e)]
        /\ UNCHANGED portQ
    BY <1>4, <2>5 DEF Receive
  <2>7. e = [side |-> "in", m |-> Create]
    BY <1>4, <2>4
  <2> HIDE DEF e, s
  <2>8. Hears(n)
    BY <1>0, <1>1, <1>3, <1>4, <2>3, <2>6, <2>7 DEF Hears
  <2> QED
    BY <1>0, <2>8 DEF Kind
<1>5. CASE Head(chan[p]) # Create
  <2>1. \A r \in Pairs : Fewer(chan'[r], chan[r], Asking)
    <3>1. \A r \in Pairs : chan'[r] = chan[r] \/ (r = p /\ chan'[r] = Tail(chan[p]))
      BY <1>0, <1>3 DEF ChanOK
    <3>2. Fewer(Tail(chan[p]), chan[p], Asking)
      BY <1>1, Taken
    <3> QED
      BY <3>1, <3>2, Emptied
  <2>2. e \in Event /\ e \notin Asked /\ e \notin AskedBack
    BY <1>2, <1>5 DEF Event, Sides, Side, Asked, AskedBack
  <2>3. \/ /\ \E t \in Threads : defaultQ' = [defaultQ EXCEPT ![n][t] = Append(@, e)]
           /\ UNCHANGED portQ
        \/ portQ' = [portQ EXCEPT ![n] = Append(@, e)] /\ UNCHANGED defaultQ
    BY DEF Receive
  <2> HIDE DEF e, s
  <2>4. QueuesFewer
    <3>1. CASE portQ' = [portQ EXCEPT ![n] = Append(@, e)] /\ UNCHANGED defaultQ
      <4>1. \A i \in Hosts : portQ'[i] = portQ[i] \/ portQ'[i] = Append(portQ[i], e)
        BY <1>0, <3>1 DEF QueuesOK
      <4>2. \A i \in Hosts : /\ Fewer(Append(portQ[i], e), portQ[i], Asked)
                             /\ Fewer(Append(portQ[i], e), portQ[i], AskedBack)
        BY <1>0, <2>2, Added DEF QueuesOK
      <4> QED
        BY <2>1, <3>1, <4>1, <4>2, Emptied DEF QueuesFewer
    <3>2. CASE /\ \E t \in Threads : defaultQ' = [defaultQ EXCEPT ![n][t] = Append(@, e)]
               /\ UNCHANGED portQ
      <4>1. \A i \in Hosts, t \in Threads :
              defaultQ'[i][t] = defaultQ[i][t] \/ defaultQ'[i][t] = Append(defaultQ[i][t], e)
        BY <1>0, <3>2 DEF QueuesOK
      <4>2. \A i \in Hosts, t \in Threads :
              /\ Fewer(Append(defaultQ[i][t], e), defaultQ[i][t], Asked)
              /\ Fewer(Append(defaultQ[i][t], e), defaultQ[i][t], AskedBack)
        BY <1>0, <2>2, Added DEF QueuesOK
      <4> QED
        BY <2>1, <3>2, <4>1, <4>2, Emptied DEF QueuesFewer
    <3> QED
      BY <2>3, <3>1, <3>2
  <2> QED
    BY <1>3, <2>4 DEF Kind
<1> QED
  BY <1>4, <1>5

LEMMA PeerStepKind == ChanOK /\ PeerStep => Kind
<1> SUFFICES ASSUME ChanOK, PeerStep
             PROVE  Kind
  OBVIOUS
<1>1. \A p \in Pairs : chan'[p] \in {chan[p], <<>>}
  BY DEF PeerStep
<1>2. UNCHANGED <<link, farewells, portQ, defaultQ>>
  BY DEF PeerStep, PeersOnly
<1>3. \A p \in Pairs : Fewer(chan'[p], chan[p], Asking)
  BY <1>1, Emptied
<1> QED
  BY <1>2, <1>3, SameQueues DEF Kind

LEMMA NextKind == TypeOK /\ CreateInv /\ [Next]_vars => Kind
<1> SUFFICES ASSUME TypeOK, CreateInv, [Next]_vars
             PROVE  Kind
  OBVIOUS
<1>1. CASE Open
  BY <1>1, SameFewer, SameQueues DEF Open, Makes, Kind
<1>2. CASE UserSend \/ UNCHANGED vars
  BY <1>2, SameFewer, SameQueues DEF UserSend, vars, Kind
<1>3. ASSUME NEW n \in Hosts, PrimaryThread(n) \/ LinkTimeout(n) \/ Shutdown(n)
      PROVE  Kind
  BY <1>3, PrimaryThreadKind
<1>4. ASSUME NEW n \in Hosts, NEW q \in Threads \cup {"port"}, ProcessEvents(n, q)
      PROVE  Kind
  BY <1>4, ProcessEventsKind
<1>5. ASSUME NEW p \in Pairs, Receive(p)
      PROVE  Kind
  BY <1>5, ReceiveKind
<1>6. ASSUME NEW n \in Hosts, NEW s \in Sides,
             \/ UserNotices(n) \/ UserEnds(n) \/ FallsSilent(n) \/ ComesBack(n)
             \/ PeerReady(n, s) \/ PeerSuspends(n, s) \/ PeerResumes(n, s)
             \/ PeerGone(n, s) \/ PeerNoticesGone(n, s)
      PROVE  Kind
  BY <1>6, PeerSteps, PeerStepKind, TypeParts
<1>7. \E s \in Sides : TRUE
  BY DEF Sides
<1> QED
  BY <1>1, <1>2, <1>3, <1>4, <1>5, <1>6, <1>7 DEF Next

LEMMA NextFarewell ==
  TypeOK /\ CreateInv /\ FarewellInv /\ [Next]_vars => CreateInv' /\ FarewellInv'
BY TypeParts, NextKind, KindCreates, KindFarewell

LEMMA InitialFarewell == Init => CreateInv /\ FarewellInv
<1> SUFFICES ASSUME Init
             PROVE  CreateInv /\ FarewellInv
  OBVIOUS
<1>1. /\ \A p \in Pairs : chan[p] = <<>> /\ farewells[p] = 0
      /\ \A n \in Hosts : portQ[n] = <<>> /\ link[n].status = "None"
      /\ \A n \in Hosts, t \in Threads : defaultQ[n][t] = <<>>
  BY DEF Init, NoLink
<1>2. \A n \in Hosts \ {1} : ~Pending(n)
  BY <1>1, Emptied, PairTypes DEF Pending
<1>3. \A kinds : AtMostOne(<<>>, kinds)
  BY DEF AtMostOne
<1>4. CreateInv
  BY <1>1, <1>2, <1>3, Emptied, PairTypes DEF CreateInv
<1>5. FarewellInv
  <2>1. \A n \in Hosts : ~HasLink(n)
    BY <1>1 DEF HasLink
  <2>2. \A n \in Hosts : n + 1 \in Hosts => farewells[<<n, n + 1>>] = 0
    BY <1>1, PairTypes
  <2>3. \A n \in Hosts \ {1} : farewells[<<n, n - 1>>] = 0
    BY <1>1, PairTypes
  <2> QED
    BY <1>1, <2>1, <2>2, <2>3 DEF FarewellInv
<1> QED
  BY <1>4, <1>5

\* A host tells a neighbour at most once that the link is over, however many status updates,
\* missing peers, time-outs and shutdowns end the link at the same time, and a host that
\* refuses a link has not told the one that asked for it anything else.
THEOREM OneFarewellEach == Spec => []OneFarewell
<1>1. FarewellInv => OneFarewell
  BY DEF FarewellInv, OneFarewell
<1> QED
  BY <1>1, TypeCorrect, InitialFarewell, NextFarewell, PTL DEF Spec

-----------------------------------------------------------------------------
(* What flows: data from the beginning to the end, acknowledgements back.      *)
(* Queues of events are seen as the queues of their messages.                  *)

Messages(q) == [i \in DOMAIN q |-> q[i].m]

LEMMA SeqFacts ==
  ASSUME NEW S, NEW q \in Seq(S)
  PROVE  /\ Len(q) \in Nat /\ DOMAIN q = 1 .. Len(q)
         /\ q = <<>> <=> Len(q) = 0
         /\ q # <<>> => /\ Head(q) \in S /\ Head(q) = q[1] /\ Len(q) >= 1
                        /\ Tail(q) \in Seq(S) /\ Len(Tail(q)) = Len(q) - 1
                        /\ \A i \in 1 .. Len(q) - 1 : Tail(q)[i] = q[i + 1]
         /\ \A x \in S : /\ Append(q, x) \in Seq(S) /\ Len(Append(q, x)) = Len(q) + 1
                         /\ \A i \in 1 .. Len(q) : Append(q, x)[i] = q[i]
                         /\ Append(q, x)[Len(q) + 1] = x
<1>1. Len(q) \in Nat /\ DOMAIN q = 1 .. Len(q) /\ (q = <<>> <=> Len(q) = 0)
  BY LenProperties, EmptySeq
<1>2. ASSUME q # <<>>
      PROVE  /\ Head(q) \in S /\ Head(q) = q[1] /\ Len(q) >= 1
             /\ Tail(q) \in Seq(S) /\ Len(Tail(q)) = Len(q) - 1
             /\ \A i \in 1 .. Len(q) - 1 : Tail(q)[i] = q[i + 1]
  BY <1>1, <1>2, HeadTailProperties
<1>3. ASSUME NEW x \in S
      PROVE  /\ Append(q, x) \in Seq(S) /\ Len(Append(q, x)) = Len(q) + 1
             /\ \A i \in 1 .. Len(q) : Append(q, x)[i] = q[i]
             /\ Append(q, x)[Len(q) + 1] = x
  BY AppendProperties
<1> QED
  BY <1>1, <1>2, <1>3

\* The elements of a queue after one is added or taken.
LEMMA Elements ==
  ASSUME NEW S, NEW q \in Seq(S)
  PROVE  /\ \A x \in S : \A i \in DOMAIN Append(q, x) :
              Append(q, x)[i] = x \/ \E j \in DOMAIN q : Append(q, x)[i] = q[j]
         /\ q # <<>> => /\ \A i \in DOMAIN Tail(q) : \E j \in DOMAIN q : Tail(q)[i] = q[j]
                        /\ \E j \in DOMAIN q : Head(q) = q[j]
<1>1. Len(q) \in Nat /\ DOMAIN q = 1 .. Len(q)
  BY SeqFacts
<1>2. ASSUME NEW x \in S, NEW i \in DOMAIN Append(q, x)
      PROVE  Append(q, x)[i] = x \/ \E j \in DOMAIN q : Append(q, x)[i] = q[j]
  <2>1. Append(q, x) \in Seq(S) /\ Len(Append(q, x)) = Len(q) + 1
    BY SeqFacts
  <2>2. DOMAIN Append(q, x) = 1 .. Len(q) + 1
    BY <2>1, SeqFacts
  <2>3. i \in 1 .. Len(q) \/ i = Len(q) + 1
    BY <1>1, <1>2, <2>2
  <2> QED
    BY <1>1, <2>3, SeqFacts
<1>3. ASSUME q # <<>>, NEW i \in DOMAIN Tail(q)
      PROVE  \E j \in DOMAIN q : Tail(q)[i] = q[j]
  <2>1. Tail(q) \in Seq(S) /\ Len(Tail(q)) = Len(q) - 1
    BY <1>3, SeqFacts
  <2>2. i \in 1 .. Len(q) - 1
    BY <1>3, <2>1, SeqFacts
  <2>3. Tail(q)[i] = q[i + 1]
    BY <1>3, <2>2, SeqFacts
  <2>4. i + 1 \in 1 .. Len(q)
    BY <1>1, <2>2
  <2> QED
    BY <1>1, <2>3, <2>4
<1>4. ASSUME q # <<>>
      PROVE  \E j \in DOMAIN q : Head(q) = q[j]
  <2>1. Head(q) = q[1] /\ 1 \in 1 .. Len(q)
    BY <1>1, <1>4, SeqFacts
  <2> QED
    BY <1>1, <2>1
<1> QED
  BY <1>2, <1>3, <1>4

LEMMA MessagesOf ==
  ASSUME NEW q \in Seq(Event)
  PROVE  /\ Messages(q) \in Seq(Message)
         /\ Messages(<<>>) = <<>>
         /\ q # <<>> => /\ Messages(q) # <<>> /\ Head(Messages(q)) = Head(q).m
                        /\ Messages(Tail(q)) = Tail(Messages(q))
         /\ \A e \in Event : Messages(Append(q, e)) = Append(Messages(q), e.m)
<1>0. \A e \in Event : e.m \in Message
  BY EventFields
<1>1. Len(q) \in Nat /\ DOMAIN q = 1 .. Len(q) /\ \A i \in 1 .. Len(q) : q[i] \in Event
  BY SeqFacts
<1>2. Messages(q) \in Seq(Message) /\ Len(Messages(q)) = Len(q)
  <2>1. Messages(q) = [i \in 1 .. Len(q) |-> q[i].m]
    BY <1>1 DEF Messages
  <2>2. \A i \in 1 .. Len(q) : q[i].m \in Message
    BY <1>0, <1>1
  <2> QED
    BY <1>1, <2>1, <2>2
<1>3. Messages(<<>>) = <<>>
  BY DEF Messages
<1>4. ASSUME q # <<>>
      PROVE  /\ Messages(q) # <<>> /\ Head(Messages(q)) = Head(q).m
             /\ Messages(Tail(q)) = Tail(Messages(q))
  <2>1. Len(q) >= 1 /\ Head(q) = q[1] /\ Tail(q) \in Seq(Event) /\ Len(Tail(q)) = Len(q) - 1
    BY <1>4, SeqFacts
  <2>2. Messages(q) # <<>>
    BY <1>2, <2>1, SeqFacts
  <2>3. Head(Messages(q)) = Messages(q)[1] /\ Messages(q)[1] = q[1].m
    <3>1. Head(Messages(q)) = Messages(q)[1]
      BY <1>2, <2>2, SeqFacts
    <3>2. 1 \in DOMAIN q
      BY <1>1, <2>1
    <3> QED
      BY <3>1, <3>2 DEF Messages
  <2>4. Tail(Messages(q)) \in Seq(Message) /\ Len(Tail(Messages(q))) = Len(q) - 1
    BY <1>2, <2>2, SeqFacts
  <2>5. DOMAIN Tail(Messages(q)) = 1 .. Len(q) - 1 /\ DOMAIN Tail(q) = 1 .. Len(q) - 1
    BY <2>1, <2>4, SeqFacts
  <2>6. \A i \in 1 .. Len(q) - 1 : Tail(Messages(q))[i] = Tail(q)[i].m
    <3> SUFFICES ASSUME NEW i \in 1 .. Len(q) - 1
                 PROVE  Tail(Messages(q))[i] = Tail(q)[i].m
      OBVIOUS
    <3>1. Tail(Messages(q))[i] = Messages(q)[i + 1]
      BY <1>2, <2>2, SeqFacts
    <3>2. Tail(q)[i] = q[i + 1]
      BY <1>4, SeqFacts
    <3>3. i + 1 \in DOMAIN q
      BY <1>1
    <3> QED
      BY <3>1, <3>2, <3>3 DEF Messages
  <2>7. Tail(Messages(q)) = [i \in 1 .. Len(q) - 1 |-> Tail(Messages(q))[i]]
    <3>1. Tail(Messages(q)) \in [1 .. Len(q) - 1 -> Message]
      BY <2>4, LenProperties
    <3> QED
      BY <3>1
  <2>8. Messages(Tail(q)) = [i \in 1 .. Len(q) - 1 |-> Tail(q)[i].m]
    BY <2>5 DEF Messages
  <2> QED
    BY <2>2, <2>3, <2>6, <2>7, <2>8
<1>5. ASSUME NEW e \in Event
      PROVE  Messages(Append(q, e)) = Append(Messages(q), e.m)
  <2>1. Append(q, e) \in Seq(Event) /\ Len(Append(q, e)) = Len(q) + 1
    BY SeqFacts
  <2>2. DOMAIN Append(q, e) = 1 .. Len(q) + 1
    BY <2>1, SeqFacts
  <2>3. Append(Messages(q), e.m) \in Seq(Message) /\ Len(Append(Messages(q), e.m)) = Len(q) + 1
    BY <1>0, <1>2, SeqFacts
  <2>4. DOMAIN Append(Messages(q), e.m) = 1 .. Len(q) + 1
    BY <2>3, SeqFacts
  <2>5. \A i \in 1 .. Len(q) + 1 : Append(Messages(q), e.m)[i] = Append(q, e)[i].m
    <3> SUFFICES ASSUME NEW i \in 1 .. Len(q) + 1
                 PROVE  Append(Messages(q), e.m)[i] = Append(q, e)[i].m
      OBVIOUS
    <3>1. CASE i = Len(q) + 1
      BY <1>0, <1>2, <3>1, SeqFacts
    <3>2. CASE i # Len(q) + 1
      <4>1. i \in 1 .. Len(q)
        BY <1>1, <3>2
      <4>2. Append(Messages(q), e.m)[i] = Messages(q)[i]
        BY <1>0, <1>2, <4>1, SeqFacts
      <4>3. Append(q, e)[i] = q[i]
        BY <4>1, SeqFacts
      <4> QED
        BY <1>1, <4>1, <4>2, <4>3 DEF Messages
    <3> QED
      BY <3>1, <3>2
  <2>6. Append(Messages(q), e.m) = [i \in 1 .. Len(q) + 1 |-> Append(Messages(q), e.m)[i]]
    <3>1. Append(Messages(q), e.m) \in [1 .. Len(q) + 1 -> Message]
      BY <2>3, LenProperties
    <3> QED
      BY <3>1
  <2>7. Messages(Append(q, e)) = [i \in 1 .. Len(q) + 1 |-> Append(q, e)[i].m]
    BY <2>2 DEF Messages
  <2> QED
    BY <2>5, <2>6, <2>7
<1> QED
  BY <1>2, <1>3, <1>4, <1>5

-----------------------------------------------------------------------------
(* Runs.  A queue holds the data numbered a .. b - 1, each with its piece, in  *)
(* order; or acknowledgements of numbers in a .. b - 1, in order.              *)

DataRun(q, a, b) ==
  \E c \in [0 .. Len(q) -> Nat] :
    /\ c[0] = a /\ c[Len(q)] = b
    /\ \A i \in 0 .. Len(q) : c[i] <= b
    /\ \A i \in 1 .. Len(q) :
         IF q[i].type = "Data" THEN c[i] = c[i - 1] + 1 /\ q[i].id = c[i - 1] /\ q[i].piece = c[i]
                               ELSE c[i] = c[i - 1]

AckRun(q, a, b) ==
  \E c \in [0 .. Len(q) -> Nat] :
    /\ \A i \in 0 .. Len(q) : a <= c[i] /\ c[i] <= b
    /\ \A i, j \in 0 .. Len(q) : i <= j => c[i] <= c[j]
    /\ \A i \in 1 .. Len(q) :
         q[i].type = "Ack" => c[i - 1] <= q[i].id /\ q[i].id < c[i]

LEMMA RunBounds ==
  ASSUME NEW q \in Seq(Message), NEW a \in Nat, NEW b \in Nat
  PROVE  /\ DataRun(q, a, b) => a <= b
         /\ AckRun(q, a, b) => a <= b
<1>1. Len(q) \in Nat /\ 0 \in 0 .. Len(q)
  BY SeqFacts
<1>2. DataRun(q, a, b) => a <= b
  BY <1>1 DEF DataRun
<1>3. AckRun(q, a, b) => a <= b
  <2> SUFFICES ASSUME NEW c \in [0 .. Len(q) -> Nat],
                      \A i \in 0 .. Len(q) : a <= c[i] /\ c[i] <= b
               PROVE  a <= b
    BY DEF AckRun
  <2>1. c[0] \in Nat /\ a <= c[0] /\ c[0] <= b
    BY <1>1
  <2> QED
    BY <2>1
<1> QED
  BY <1>2, <1>3

LEMMA RunEmpty ==
  ASSUME NEW a \in Nat, NEW b \in Nat
  PROVE  DataRun(<<>>, a, a) /\ (a <= b => AckRun(<<>>, a, b))
<1>1. Len(<<>>) = 0
  OBVIOUS
<1> DEFINE c == [i \in 0 .. 0 |-> a]
<1>2. c \in [0 .. 0 -> Nat] /\ c[0] = a /\ (\A i \in 0 .. 0 : i = 0) /\ 1 .. 0 = {}
  OBVIOUS
<1> HIDE DEF c
<1>3. DataRun(<<>>, a, a)
  <2>1. /\ c[0] = a /\ \A i \in 0 .. 0 : c[i] <= a
    BY <1>2
  <2> QED
    BY <1>1, <1>2, <2>1 DEF DataRun
<1>4. a <= b => AckRun(<<>>, a, b)
  BY <1>1, <1>2 DEF AckRun
<1> QED
  BY <1>3, <1>4

\* The positions of a queue that is one longer, and of one that is one shorter.
LEMMA Positions ==
  ASSUME NEW k \in Nat
  PROVE  /\ \A i \in 0 .. k + 1 : i \in 0 .. k \/ i = k + 1
         /\ \A i \in 1 .. k + 1 : i \in 1 .. k \/ i = k + 1
         /\ \A i \in 1 .. k : i \in 0 .. k /\ i - 1 \in 0 .. k /\ i \in 0 .. k + 1
         /\ k \in 0 .. k /\ 0 \in 0 .. k /\ k + 1 \in 0 .. k + 1 /\ k + 1 \notin 0 .. k
         /\ k >= 1 => /\ \A i \in 0 .. k - 1 : i + 1 \in 0 .. k
                      /\ \A i \in 1 .. k - 1 : i + 1 \in 1 .. k /\ i \in 0 .. k - 1 /\ i - 1 \in 0 .. k - 1
                      /\ 1 \in 1 .. k /\ 1 \in 0 .. k /\ k - 1 \in 0 .. k - 1 /\ 0 \in 0 .. k - 1
OBVIOUS

LEMMA DataRunAppend ==
  ASSUME NEW q \in Seq(Message), NEW m \in Message, NEW a \in Nat, NEW b \in Nat, DataRun(q, a, b)
  PROVE  /\ m.type # "Data" => DataRun(Append(q, m), a, b)
         /\ m.type = "Data" /\ m.id = b /\ m.piece = b + 1 => DataRun(Append(q, m), a, b + 1)
<1> DEFINE k == Len(q)
           r == Append(q, m)
<1>1. k \in Nat /\ Len(r) = k + 1 /\ (\A i \in 1 .. k : r[i] = q[i]) /\ r[k + 1] = m
  BY SeqFacts
<1>2. PICK c \in [0 .. k -> Nat] :
        /\ c[0] = a /\ c[k] = b
        /\ \A i \in 0 .. k : c[i] <= b
        /\ \A i \in 1 .. k :
             IF q[i].type = "Data" THEN c[i] = c[i - 1] + 1 /\ q[i].id = c[i - 1] /\ q[i].piece = c[i]
                                   ELSE c[i] = c[i - 1]
  BY DEF DataRun
<1> HIDE DEF k, r
<1>3. ASSUME NEW z \in Nat, b <= z,
             IF m.type = "Data" THEN z = b + 1 /\ m.id = b /\ m.piece = z ELSE z = b
      PROVE  DataRun(r, a, z)
  <2> DEFINE d == [i \in 0 .. k + 1 |-> IF i = k + 1 THEN z ELSE c[i]]
  <2>1. d \in [0 .. k + 1 -> Nat]
    BY <1>1, Positions
  <2>2. (\A i \in 0 .. k : d[i] = c[i]) /\ d[k + 1] = z
    BY <1>1, Positions
  <2> HIDE DEF d
  <2>3. d[0] = a
    BY <1>1, <1>2, <2>2, Positions
  <2>4. \A i \in 0 .. k + 1 : d[i] <= z
    <3>1. \A i \in 0 .. k : d[i] <= z
      <4> SUFFICES ASSUME NEW i \in 0 .. k
                   PROVE  d[i] <= z
        OBVIOUS
      <4>1. c[i] \in Nat /\ c[i] <= b /\ d[i] = c[i]
        BY <1>2, <2>2
      <4> QED
        BY <1>3, <4>1
    <3>2. d[k + 1] <= z
      BY <2>2
    <3> QED
      BY <1>1, <3>1, <3>2, Positions
  <2>5. \A i \in 1 .. k + 1 :
          IF r[i].type = "Data" THEN d[i] = d[i - 1] + 1 /\ r[i].id = d[i - 1] /\ r[i].piece = d[i]
                                ELSE d[i] = d[i - 1]
    <3> SUFFICES ASSUME NEW i \in 1 .. k + 1
                 PROVE  IF r[i].type = "Data" THEN d[i] = d[i - 1] + 1 /\ r[i].id = d[i - 1] /\ r[i].piece = d[i]
                                              ELSE d[i] = d[i - 1]
      OBVIOUS
    <3>1. CASE i = k + 1
      <4>1. i - 1 = k /\ d[k] = b /\ d[i] = z /\ r[i] = m
        BY <1>1, <1>2, <2>2, <3>1, Positions
      <4> QED
        BY <1>3, <4>1
    <3>2. CASE i \in 1 .. k
      <4>1. d[i] = c[i] /\ d[i - 1] = c[i - 1] /\ r[i] = q[i]
        BY <1>1, <2>2, <3>2, Positions
      <4> QED
        BY <1>2, <3>2, <4>1
    <3> QED
      BY <1>1, <3>1, <3>2, Positions
  <2> QED
    BY <1>1, <2>1, <2>2, <2>3, <2>4, <2>5 DEF DataRun
<1>4. m.type # "Data" => DataRun(r, a, b)
  BY <1>3
<1>5. m.type = "Data" /\ m.id = b /\ m.piece = b + 1 => DataRun(r, a, b + 1)
  <2>1. b + 1 \in Nat /\ b <= b + 1
    OBVIOUS
  <2> QED
    BY <1>3, <2>1
<1> QED
  BY <1>4, <1>5 DEF r

LEMMA DataRunTail ==
  ASSUME NEW q \in Seq(Message), q # <<>>, NEW a \in Nat, NEW b \in Nat, DataRun(q, a, b)
  PROVE  /\ Head(q).type # "Data" => DataRun(Tail(q), a, b)
         /\ Head(q).type = "Data" => /\ a + 1 <= b /\ Head(q).id = a /\ Head(q).piece = a + 1
                                     /\ DataRun(Tail(q), a + 1, b)
<1> DEFINE k == Len(q)
           r == Tail(q)
<1>1. /\ k \in Nat /\ k >= 1 /\ Len(r) = k - 1 /\ Head(q) = q[1]
      /\ \A i \in 1 .. k - 1 : r[i] = q[i + 1]
  BY SeqFacts
<1>2. PICK c \in [0 .. k -> Nat] :
        /\ c[0] = a /\ c[k] = b
        /\ \A i \in 0 .. k : c[i] <= b
        /\ \A i \in 1 .. k :
             IF q[i].type = "Data" THEN c[i] = c[i - 1] + 1 /\ q[i].id = c[i - 1] /\ q[i].piece = c[i]
                                   ELSE c[i] = c[i - 1]
  BY DEF DataRun
<1> HIDE DEF k, r
<1> DEFINE d == [i \in 0 .. k - 1 |-> c[i + 1]]
<1>3. d \in [0 .. k - 1 -> Nat] /\ \A i \in 0 .. k - 1 : d[i] = c[i + 1]
  BY <1>1, Positions
<1> HIDE DEF d
<1>4. d[0] = c[1] /\ d[k - 1] = b
  <2>1. 0 \in 0 .. k - 1 /\ k - 1 \in 0 .. k - 1 /\ (k - 1) + 1 = k /\ 0 + 1 = 1
    BY <1>1
  <2> QED
    BY <1>2, <1>3, <2>1
<1>5. \A i \in 0 .. k - 1 : d[i] <= b
  BY <1>1, <1>2, <1>3, Positions
<1>6. \A i \in 1 .. k - 1 :
        IF r[i].type = "Data" THEN d[i] = d[i - 1] + 1 /\ r[i].id = d[i - 1] /\ r[i].piece = d[i]
                              ELSE d[i] = d[i - 1]
  <2> SUFFICES ASSUME NEW i \in 1 .. k - 1
               PROVE  IF r[i].type = "Data" THEN d[i] = d[i - 1] + 1 /\ r[i].id = d[i - 1] /\ r[i].piece = d[i]
                                            ELSE d[i] = d[i - 1]
    OBVIOUS
  <2>1. i + 1 \in 1 .. k /\ i \in 0 .. k - 1 /\ i - 1 \in 0 .. k - 1 /\ (i - 1) + 1 = i /\ (i + 1) - 1 = i
    BY <1>1
  <2>2. d[i] = c[i + 1] /\ d[i - 1] = c[i] /\ r[i] = q[i + 1]
    BY <1>1, <1>3, <2>1
  <2>3. IF q[i + 1].type = "Data" THEN c[i + 1] = c[i] + 1 /\ q[i + 1].id = c[i] /\ q[i + 1].piece = c[i + 1]
                                  ELSE c[i + 1] = c[i]
    BY <1>2, <2>1
  <2> QED
    BY <2>2, <2>3
<1>7. DataRun(r, c[1], b)
  BY <1>1, <1>3, <1>4, <1>5, <1>6 DEF DataRun
<1>8. /\ IF q[1].type = "Data" THEN c[1] = a + 1 /\ q[1].id = a /\ q[1].piece = c[1] ELSE c[1] = a
      /\ c[1] <= b
  <2>1. 1 \in 1 .. k /\ 1 - 1 = 0 /\ 1 \in 0 .. k
    BY <1>1
  <2> QED
    BY <1>2, <2>1
<1> QED
  BY <1>1, <1>7, <1>8 DEF r

LEMMA AckRunAppend ==
  ASSUME NEW q \in Seq(Message), NEW m \in Message, NEW a \in Nat, NEW b \in Nat, NEW z \in Nat,
         AckRun(q, a, b), b <= z, m.type = "Ack" => m.id \in Nat /\ b <= m.id /\ m.id < z
  PROVE  AckRun(Append(q, m), a, z)
<1> DEFINE k == Len(q)
           r == Append(q, m)
<1>1. k \in Nat /\ Len(r) = k + 1 /\ (\A i \in 1 .. k : r[i] = q[i]) /\ r[k + 1] = m
  BY SeqFacts
<1>2. PICK c \in [0 .. k -> Nat] :
        /\ \A i \in 0 .. k : a <= c[i] /\ c[i] <= b
        /\ \A i, j \in 0 .. k : i <= j => c[i] <= c[j]
        /\ \A i \in 1 .. k : q[i].type = "Ack" => c[i - 1] <= q[i].id /\ q[i].id < c[i]
  BY DEF AckRun
<1> HIDE DEF k, r
<1> DEFINE d == [i \in 0 .. k + 1 |-> IF i = k + 1 THEN z ELSE c[i]]
<1>3. d \in [0 .. k + 1 -> Nat]
  BY <1>1, Positions
<1>4. (\A i \in 0 .. k : d[i] = c[i]) /\ d[k + 1] = z
  BY <1>1, Positions
<1> HIDE DEF d
<1>5. a <= b
  BY RunBounds
<1>6. \A i \in 0 .. k + 1 : a <= d[i] /\ d[i] <= z
  <2>1. \A i \in 0 .. k : a <= d[i] /\ d[i] <= z
    <3> SUFFICES ASSUME NEW i \in 0 .. k
                 PROVE  a <= d[i] /\ d[i] <= z
      OBVIOUS
    <3>1. c[i] \in Nat /\ a <= c[i] /\ c[i] <= b /\ d[i] = c[i]
      BY <1>2, <1>4
    <3> QED
      BY <3>1
  <2>2. a <= d[k + 1] /\ d[k + 1] <= z
    BY <1>4, <1>5
  <2> QED
    BY <1>1, <2>1, <2>2, Positions
<1>7. \A i, j \in 0 .. k + 1 : i <= j => d[i] <= d[j]
  <2> SUFFICES ASSUME NEW i \in 0 .. k + 1, NEW j \in 0 .. k + 1, i <= j
               PROVE  d[i] <= d[j]
    OBVIOUS
  <2>1. CASE j = k + 1
    BY <1>4, <1>6, <2>1
  <2>2. CASE j # k + 1
    <3>1. i \in 0 .. k /\ j \in 0 .. k
      BY <1>1, <2>2
    <3> QED
      BY <1>2, <1>4, <3>1
  <2> QED
    BY <2>1, <2>2
<1>8. \A i \in 1 .. k + 1 : r[i].type = "Ack" => d[i - 1] <= r[i].id /\ r[i].id < d[i]
  <2> SUFFICES ASSUME NEW i \in 1 .. k + 1, r[i].type = "Ack"
               PROVE  d[i - 1] <= r[i].id /\ r[i].id < d[i]
    OBVIOUS
  <2>1. CASE i = k + 1
    <3>1. i - 1 = k /\ d[k] = c[k] /\ d[i] = z /\ r[i] = m /\ c[k] \in Nat /\ c[k] <= b
      BY <1>1, <1>2, <1>4, <2>1, Positions
    <3> QED
      BY <3>1
  <2>2. CASE i \in 1 .. k
    <3>1. d[i] = c[i] /\ d[i - 1] = c[i - 1] /\ r[i] = q[i]
      BY <1>1, <1>4, <2>2, Positions
    <3> QED
      BY <1>2, <2>2, <3>1
  <2> QED
    BY <1>1, <2>1, <2>2, Positions
<1> QED
  BY <1>1, <1>3, <1>6, <1>8, <1>7 DEF AckRun, r

LEMMA AckRunTail ==
  ASSUME NEW q \in Seq(Message), q # <<>>, NEW a \in Nat, NEW b \in Nat, AckRun(q, a, b)
  PROVE  /\ AckRun(Tail(q), a, b)
         /\ Head(q).type = "Ack" => /\ a <= Head(q).id /\ Head(q).id + 1 <= b
                                    /\ AckRun(Tail(q), Head(q).id + 1, b)
<1> DEFINE k == Len(q)
           r == Tail(q)
<1>1. /\ k \in Nat /\ k >= 1 /\ Len(r) = k - 1 /\ Head(q) = q[1]
      /\ \A i \in 1 .. k - 1 : r[i] = q[i + 1]
  BY SeqFacts
<1>2. PICK c \in [0 .. k -> Nat] :
        /\ \A i \in 0 .. k : a <= c[i] /\ c[i] <= b
        /\ \A i, j \in 0 .. k : i <= j => c[i] <= c[j]
        /\ \A i \in 1 .. k : q[i].type = "Ack" => c[i - 1] <= q[i].id /\ q[i].id < c[i]
  BY DEF AckRun
<1> HIDE DEF k, r
<1> DEFINE d == [i \in 0 .. k - 1 |-> c[i + 1]]
<1>3. d \in [0 .. k - 1 -> Nat] /\ \A i \in 0 .. k - 1 : d[i] = c[i + 1]
  BY <1>1, Positions
<1> HIDE DEF d
<1>4. /\ \A i, j \in 0 .. k - 1 : i <= j => d[i] <= d[j]
      /\ \A i \in 1 .. k - 1 : r[i].type = "Ack" => d[i - 1] <= r[i].id /\ r[i].id < d[i]
  <2>1. ASSUME NEW i \in 0 .. k - 1, NEW j \in 0 .. k - 1, i <= j
        PROVE  d[i] <= d[j]
    <3>1. i + 1 \in 0 .. k /\ j + 1 \in 0 .. k /\ i + 1 <= j + 1
      BY <1>1, <2>1
    <3> QED
      BY <1>2, <1>3, <3>1
  <2>2. ASSUME NEW i \in 1 .. k - 1, r[i].type = "Ack"
        PROVE  d[i - 1] <= r[i].id /\ r[i].id < d[i]
    <3>1. i + 1 \in 1 .. k /\ i \in 0 .. k - 1 /\ i - 1 \in 0 .. k - 1 /\ (i - 1) + 1 = i /\ (i + 1) - 1 = i
      BY <1>1
    <3>2. d[i] = c[i + 1] /\ d[i - 1] = c[i] /\ r[i] = q[i + 1]
      BY <1>1, <1>3, <3>1
    <3>3. q[i + 1].type = "Ack" => c[i] <= q[i + 1].id /\ q[i + 1].id < c[i + 1]
      BY <1>2, <3>1
    <3> QED
      BY <2>2, <3>2, <3>3
  <2> QED
    BY <2>1, <2>2
<1>5. \A i \in 0 .. k - 1 : a <= d[i] /\ d[i] <= b
  BY <1>1, <1>2, <1>3, Positions
<1>6. AckRun(r, a, b)
  BY <1>1, <1>3, <1>4, <1>5 DEF AckRun
<1>7. ASSUME q[1].type = "Ack"
      PROVE  /\ a <= q[1].id /\ q[1].id + 1 <= b
             /\ AckRun(r, q[1].id + 1, b)
  <2>1. 1 \in 1 .. k /\ 1 - 1 = 0 /\ 1 \in 0 .. k /\ 0 \in 0 .. k
    BY <1>1
  <2>2. /\ c[0] <= q[1].id /\ q[1].id < c[1] /\ c[0] \in Nat /\ c[1] \in Nat
        /\ a <= c[0] /\ c[1] <= b
    BY <1>2, <1>7, <2>1
  <2>3. q[1].id \in Nat
    <3>1. q[1] \in Message
      BY <1>1, SeqFacts
    <3> QED
      BY <1>7, <3>1 DEF Message, DataMessage
  <2>4. a <= q[1].id /\ q[1].id + 1 <= b /\ q[1].id + 1 <= c[1]
    BY <2>2, <2>3
  <2>5. \A i \in 0 .. k - 1 : c[1] <= d[i]
    <3> SUFFICES ASSUME NEW i \in 0 .. k - 1
                 PROVE  c[1] <= d[i]
      OBVIOUS
    <3>1. i + 1 \in 0 .. k /\ 1 <= i + 1
      BY <1>1
    <3> QED
      BY <1>2, <1>3, <2>1, <3>1
  <2>6. \A i \in 0 .. k - 1 : q[1].id + 1 <= d[i] /\ d[i] <= b
    <3> SUFFICES ASSUME NEW i \in 0 .. k - 1
                 PROVE  q[1].id + 1 <= d[i] /\ d[i] <= b
      OBVIOUS
    <3>1. c[1] <= d[i] /\ d[i] \in Nat /\ d[i] <= b
      BY <1>3, <1>5, <2>5
    <3> QED
      BY <2>2, <2>3, <2>4, <3>1
  <2>7. AckRun(r, q[1].id + 1, b)
    BY <1>1, <1>3, <1>4, <2>6 DEF AckRun
  <2> QED
    BY <2>4, <2>7
<1> QED
  BY <1>1, <1>6, <1>7 DEF r

-----------------------------------------------------------------------------
(* Which way messages flow, and when.  A link is connected from its end to its *)
(* beginning, so that a host whose link has opened has only hosts after it     *)
(* whose links have been opened, be they closed by now; nothing flows before.  *)

Ended == {"Disconnected", "Exception", "Closed", "Removed"}
IsEnded(n) == link[n].status \in Ended
IsOpen(n) == link[n].status \in {"Connected", "Suspended"}
Started(n) == IsOpen(n) \/ IsEnded(n)
StartedFrom(n) == \A m \in Hosts : m >= n => Started(m)
StartedAfter(n) == \A m \in Hosts : m > n => Started(m)

OpeningMessages == {Status("Connected"), Status("Resumed")}
Flowing(m) == m.type \in {"Data", "Ack"}

\* The hosts from which on all links have been opened; what a host may send to another.
Begun == {n \in Hosts : StartedFrom(n)}
Carries(from, to, m, begun) ==
  /\ m.type = "Data" => from < to
  /\ m.type = "Ack" => from > to /\ from <= Last
  /\ Flowing(m) => 1 \in begun
  /\ m \in OpeningMessages => from \in begun

WayInv ==
  /\ \A n \in Hosts : IsOpen(n) => StartedFrom(n)
  /\ \A p \in Pairs : \A i \in DOMAIN chan[p] : Carries(p[1], p[2], chan[p][i], Begun)
  /\ \A n \in Hosts : \A i \in DOMAIN portQ[n] :
       Carries(Neighbour(n, portQ[n][i].side), n, portQ[n][i].m, Begun)
  /\ \A n \in Hosts, t \in Threads : \A i \in DOMAIN defaultQ[n][t] :
       /\ Carries(Neighbour(n, defaultQ[n][t][i].side), n, defaultQ[n][t][i].m, Begun)
       /\ Flowing(defaultQ[n][t][i].m) => link[n].status = "Removed"

\* What a step does to the links and the peers.
LinkStep ==
  /\ \A n \in Hosts : /\ IsEnded(n) => IsEnded(n)'
                      /\ Started(n) => Started(n)'
                      /\ link[n].status = "Removed" => link'[n].status = "Removed"
                      /\ IsOpen(n)' => StartedFrom(n)'
  /\ \A n \in Hosts, s \in Sides : Present(n, s)' /\ ~IsUser(n, s) => Present(n, s)

\* A step that nothing flows by, though something that flowed may be lost.
QuietChan ==
  \A p \in Pairs :
    \/ chan'[p] = chan[p]
    \/ \E m \in Message : /\ ~Flowing(m) /\ (m \in OpeningMessages => StartedFrom(p[1])')
                          /\ chan'[p] = Append(chan[p], m)
    \/ chan'[p] = <<>> /\ ~Present(p[2], Side(p[2], p[1]))'

QuietQueues ==
  /\ \A n \in Hosts :
       \/ portQ'[n] = portQ[n]
       \/ portQ'[n] = <<>> /\ IsEnded(n)'
       \/ /\ portQ[n] # <<>> /\ portQ'[n] = Tail(portQ[n])
          /\ Head(portQ[n]).m.type = "Data" => IsEnded(n)'
  /\ \A n \in Hosts, t \in Threads :
       \/ defaultQ'[n][t] \in {defaultQ[n][t], <<>>}
       \/ defaultQ[n][t] # <<>> /\ defaultQ'[n][t] = Tail(defaultQ[n][t])

Quiet ==
  /\ UNCHANGED <<limit, got>>
  /\ \/ UNCHANGED <<sendBuf, written>>
     \/ written' = written + 1 /\ sendBuf' = Append(sendBuf, written')
  /\ QuietChan /\ QuietQueues

\* A host takes a message from its port's queue.
Takes(n) ==
  /\ ~IsEnded(n)
  /\ portQ[n] # <<>> /\ portQ' = [portQ EXCEPT ![n] = Tail(@)]
  /\ UNCHANGED <<defaultQ, link, peer, sendBuf, written>>

\* Data is passed on, delivered at the end; an acknowledgement is passed on, and gets to
\* the beginning.
PassesData(n) ==
  /\ Takes(n) /\ n # Last /\ Head(portQ[n]).m.type = "Data"
  /\ chan' = Sent(n, {"out"}, Head(portQ[n]).m)
  /\ UNCHANGED <<limit, got>>
Delivers ==
  /\ Takes(Last) /\ Head(portQ[Last]).m.type = "Data"
  /\ got' = Append(got, Head(portQ[Last]).m)
  /\ chan' = chan \/ chan' = Sent(Last, {"in"}, Ack(Head(portQ[Last]).m.id))
  /\ UNCHANGED limit
PassesAck(n) ==
  /\ Takes(n) /\ n \notin {1, Last} /\ Head(portQ[n]).m.type = "Ack"
  /\ chan' = Sent(n, {"in"}, Head(portQ[n]).m)
  /\ UNCHANGED <<limit, got>>
Credits ==
  /\ Takes(1) /\ 1 # Last /\ Head(portQ[1]).m.type = "Ack"
  /\ limit' = AckMTU(limit, Head(portQ[1]).m.id)
  /\ UNCHANGED <<chan, got>>
Writes ==
  /\ ProcessConnectedSend /\ UNCHANGED <<peer, written, got>>

FlowStep ==
  /\ LinkStep
  /\ \/ Quiet \/ Writes \/ Delivers \/ Credits
     \/ \E p \in Pairs : Receive(p)
     \/ \E n \in Hosts : PassesData(n) \/ PassesAck(n)

\* The statuses that a link may change to.
Legal(n, st) ==
  /\ link[n].status = "Removed" => st = "Removed"
  /\ IsEnded(n) => st \in Ended
  /\ Started(n) => st \in Ended \cup {"Connected", "Suspended"}
  /\ st \in {"Connected", "Suspended"} => StartedAfter(n)

LEMMA LinkChanges ==
  ASSUME LinksOK, WayInv, NEW n \in Hosts, NEW l, Legal(n, l.status),
         link' = [link EXCEPT ![n] = l],
         \A m \in Hosts, s \in Sides : Present(m, s)' /\ ~IsUser(m, s) => Present(m, s)
  PROVE  LinkStep
<1>1. link'[n] = l /\ \A m \in Hosts \ {n} : link'[m] = link[m]
  BY DEF LinksOK
<1>2. ASSUME NEW m \in Hosts
      PROVE  /\ IsEnded(m) => IsEnded(m)'
             /\ Started(m) => Started(m)'
             /\ link[m].status = "Removed" => link'[m].status = "Removed"
  BY <1>1 DEF Legal, IsEnded, Started, IsOpen, Ended
<1>3. ASSUME NEW m \in Hosts, IsOpen(m)'
      PROVE  StartedFrom(m)'
  <2>1. CASE m = n
    <3>1. StartedAfter(n)
      BY <1>1, <1>3, <2>1 DEF Legal, IsOpen
    <3>2. \A k \in Hosts : k >= n => k = n \/ k > n
      BY DEF Hosts
    <3>3. Started(n)'
      BY <1>3, <2>1 DEF Started
    <3> QED
      BY <1>2, <2>1, <3>1, <3>2, <3>3 DEF StartedAfter, StartedFrom
  <2>2. CASE m # n
    <3>1. IsOpen(m)
      BY <1>1, <1>3, <2>2 DEF IsOpen
    <3>2. StartedFrom(m)
      BY <3>1 DEF WayInv
    <3> QED
      BY <1>2, <3>2 DEF StartedFrom
  <2> QED
    BY <2>1, <2>2
<1> QED
  BY <1>2, <1>3 DEF LinkStep

LEMMA LinkSame ==
  ASSUME WayInv, UNCHANGED link,
         \A n \in Hosts, s \in Sides : Present(n, s)' /\ ~IsUser(n, s) => Present(n, s)
  PROVE  LinkStep
<1>1. \A n \in Hosts : IsOpen(n)' => StartedFrom(n)'
  BY DEF WayInv, IsOpen, IsEnded, StartedFrom, Started
<1> QED
  BY <1>1 DEF LinkStep, IsOpen, IsEnded, Started

LEMMA SamePeers ==
  ASSUME UNCHANGED peer
  PROVE  \A n \in Hosts, s \in Sides : Present(n, s)' /\ ~IsUser(n, s) => Present(n, s)
BY DEF Present

LEMMA SentQuiet ==
  ASSUME ChanOK, NEW n, NEW sides, NEW m \in Message, ~Flowing(m),
         m \in OpeningMessages => StartedFrom(n)', chan' = Sent(n, sides, m)
  PROVE  QuietChan
<1>1. \A p \in Pairs : chan'[p] = chan[p] \/ (p[1] = n /\ chan'[p] = Append(chan[p], m))
  BY DEF Sent
<1> QED
  BY <1>1 DEF QuietChan

LEMMA SameQuiet ==
  /\ UNCHANGED chan => QuietChan
  /\ UNCHANGED <<portQ, defaultQ>> => QuietQueues
BY DEF QuietChan, QuietQueues

\* The messages about a link do not flow.
LEMMA ControlMessages ==
  /\ Create \in Message /\ ~Flowing(Create) /\ Create \notin OpeningMessages
  /\ \A st \in StatusUpdates :
       /\ Status(st) \in Message /\ ~Flowing(Status(st))
       /\ Status(st) \in OpeningMessages <=> st \in {"Connected", "Resumed"}
  /\ \A m \in Message : m.type = "Status" =>
       ~Flowing(m) /\ (m \in OpeningMessages <=> m.status \in {"Connected", "Resumed"})
<1>1. \A m \in Message : m.type = "Status" =>
        ~Flowing(m) /\ (m \in OpeningMessages <=> m.status \in {"Connected", "Resumed"})
  <2> SUFFICES ASSUME NEW m \in Message, m.type = "Status"
               PROVE  ~Flowing(m) /\ (m \in OpeningMessages <=> m.status \in {"Connected", "Resumed"})
    OBVIOUS
  <2>1. m \in [type : {"Status"}, status : StatusUpdates]
    BY DEF Message, DataMessage, Create
  <2>2. m = [type |-> "Status", status |-> m.status]
    BY <2>1
  <2> QED
    BY <2>2 DEF Flowing, OpeningMessages, Status
<1>2. \A st \in StatusUpdates : Status(st).type = "Status" /\ Status(st).status = st
  BY DEF Status
<1>3. ~Flowing(Create) /\ Create \notin OpeningMessages
  BY DEF Create, Flowing, OpeningMessages, Status
<1> QED
  BY <1>1, <1>2, <1>3, MessageTypes

LEMMA DisconnectFlow ==
  ASSUME LinksOK, ChanOK, WayInv, NEW n \in Hosts, link[n].status # "Removed",
         NEW l \in Links, Disconnect(n, l), UNCHANGED peer
  PROVE  LinkStep /\ QuietChan /\ IsEnded(n)'
<1> DEFINE st == IF l.failed THEN "Failure" ELSE "Disconnected"
           to == MayGet(l, n, {s \in Sides : Present(n, s)})
           k == WithStatus(Muted(l, to, st), "Closed")
<1>1. /\ link' = [link EXCEPT ![n] = k]
      /\ chan' = Sent(n, to, Status(st))
  BY DEF Disconnect
<1>2. st \in StatusUpdates /\ st \notin {"Connected", "Resumed"}
  BY DEF StatusUpdates, Closing
<1> HIDE DEF st, to
<1>3. QuietChan
  BY <1>1, <1>2, ControlMessages, SentQuiet
<1>4. k.status = "Closed"
  <2>1. Muted(l, to, st) \in Links
    BY LinkTypes DEF Statuses
  <2> QED
    BY <2>1 DEF WithStatus, Links
<1> HIDE DEF k
<1>5. Legal(n, k.status)
  BY <1>4 DEF Legal, Ended
<1>6. LinkStep
  BY <1>1, <1>5, SamePeers, LinkChanges
<1>7. IsEnded(n)'
  BY <1>1, <1>4 DEF LinksOK, IsEnded, Ended
<1> QED
  BY <1>3, <1>6, <1>7

LEMMA FailFlow ==
  ASSUME LinksOK, WayInv, NEW n \in Hosts, link[n].status # "Removed", Fail(n), UNCHANGED peer
  PROVE  LinkStep /\ QuietChan /\ IsEnded(n)'
<1>1. link[n] \in Links
  BY DEF LinksOK
<1>2. Failed(link[n]).status = "Exception"
  BY <1>1 DEF Failed, Links
<1>3. link' = [link EXCEPT ![n] = Failed(link[n])] /\ UNCHANGED chan
  BY DEF Fail
<1>4. Legal(n, Failed(link[n]).status)
  BY <1>2 DEF Legal, Ended
<1>5. LinkStep
  BY <1>3, <1>4, SamePeers, LinkChanges
<1>6. IsEnded(n)'
  BY <1>2, <1>3 DEF LinksOK, IsEnded, Ended
<1> QED
  BY <1>3, <1>5, <1>6, SameQuiet

LEMMA ChangeFlow ==
  ASSUME LinksOK, WayInv, NEW n \in Hosts, NEW l \in Links, NEW st \in Statuses,
         Legal(n, st), Change(n, l, st), UNCHANGED peer
  PROVE  LinkStep /\ link'[n].status = st
<1>1. WithStatus(l, st).status = st
  BY DEF WithStatus, Links
<1>2. link' = [link EXCEPT ![n] = WithStatus(l, st)]
  BY DEF Change
<1> QED
  BY <1>1, <1>2, SamePeers, LinkChanges DEF LinksOK

LEMMA PrimaryThreadFlow ==
  ASSUME TypeOK, WayInv, NEW n \in Hosts, PrimaryThread(n) \/ LinkTimeout(n) \/ Shutdown(n)
  PROVE  FlowStep
<1>0. LinksOK /\ ChanOK /\ QueuesOK /\ RestOK /\ link[n] \in Links
  BY TypeParts DEF LinksOK
<1>1. link[n].status # "Removed" /\ link[n].status # "None"
  BY DEF PrimaryThread, LinkTimeout, TimedOut, Shutdown
<1>2. ASSUME LinkStep, QuietChan, UNCHANGED <<portQ, defaultQ, limit, got, sendBuf, written>>
      PROVE  FlowStep
  BY <1>2, SameQuiet DEF FlowStep, Quiet
<1>3. ASSUME NEW l \in Links, Disconnect(n, l), UNCHANGED peer,
             UNCHANGED <<portQ, defaultQ, limit, got, sendBuf, written>>
      PROVE  FlowStep
  BY <1>0, <1>1, <1>2, <1>3, DisconnectFlow
<1>4. Failed(link[n]) \in Links
  BY <1>0, LinkTypes DEF Statuses
<1>5. CASE PeerMissing(n) /\ UNCHANGED <<peer, written, got, silent, refused>>
  <2> DEFINE l == [link[n] EXCEPT !.status = "Exception", !.failed = LostPeer(n)]
  <2>1. LostPeer(n) \in BOOLEAN
    BY DEF LostPeer
  <2>2. l \in Links
    BY <1>0, <2>1 DEF Links, Statuses
  <2>3. Disconnect(n, l) /\ UNCHANGED <<portQ, defaultQ, limit, sendBuf>>
    BY <1>5 DEF PeerMissing
  <2> HIDE DEF l
  <2> QED
    BY <1>3, <1>5, <2>2, <2>3
<1>6. CASE AlreadyEnded(n) /\ UNCHANGED <<peer, written, got, silent, refused>>
  BY <1>0, <1>3, <1>6 DEF AlreadyEnded
<1>7. CASE LinkTimeout(n)
  BY <1>3, <1>4, <1>7 DEF LinkTimeout, TimedOut
<1>8. CASE Shutdown(n)
  <2>1. LinkStep /\ QuietChan /\ IsEnded(n)'
    BY <1>0, <1>1, <1>8, DisconnectFlow DEF Shutdown
  <2>2. QuietQueues
    <3>1. \A i \in Hosts : portQ'[i] = portQ[i] \/ (i = n /\ portQ'[i] = <<>>)
      BY <1>0, <1>8 DEF Shutdown, QueuesOK
    <3>2. \A i \in Hosts, t \in Threads : defaultQ'[i][t] \in {defaultQ[i][t], <<>>}
      BY <1>0, <1>8 DEF Shutdown, QueuesOK
    <3> QED
      BY <2>1, <3>1, <3>2 DEF QuietQueues
  <2> QED
    BY <1>8, <2>1, <2>2 DEF Shutdown, FlowStep, Quiet
<1>9. CASE ProcessConnect(n) /\ n = Last /\ UNCHANGED <<peer, written, got, silent, refused>>
  <2>1. /\ Change(n, link[n], "Connected") /\ chan' = Sent(n, {"in"}, Status("Connected"))
        /\ link[n].status = "Connect" /\ UNCHANGED <<portQ, defaultQ, limit, sendBuf>>
    BY <1>9 DEF ProcessConnect
  <2>2. \A m \in Hosts : ~(m > n) /\ (m >= n => m = n)
    BY <1>9 DEF Hosts
  <2>3. Legal(n, "Connected")
    BY <2>1, <2>2 DEF Legal, IsEnded, Started, IsOpen, Ended, StartedAfter
  <2>4. LinkStep /\ link'[n].status = "Connected"
    BY <1>0, <1>9, <2>1, <2>3, ChangeFlow DEF Statuses
  <2>5. StartedFrom(n)'
    BY <2>2, <2>4 DEF StartedFrom, Started, IsOpen
  <2>6. QuietChan
    BY <1>0, <2>1, <2>5, ControlMessages, StatusTypes, SentQuiet
  <2> QED
    BY <1>2, <1>9, <2>1, <2>4, <2>6
<1>10. CASE ProcessConnect(n) /\ n # Last /\ UNCHANGED <<peer, written, got, silent, refused>>
  <2>1. /\ Change(n, link[n], "Connecting") /\ chan' = Sent(n, {"out"}, Create)
        /\ link[n].status = "Connect" /\ UNCHANGED <<portQ, defaultQ, limit, sendBuf>>
    BY <1>10 DEF ProcessConnect
  <2>2. Legal(n, "Connecting")
    BY <2>1 DEF Legal, IsEnded, Started, IsOpen, Ended
  <2>3. LinkStep
    BY <1>0, <1>10, <2>1, <2>2, ChangeFlow DEF Statuses
  <2>4. QuietChan
    BY <1>0, <2>1, ControlMessages, SentQuiet
  <2> QED
    BY <1>2, <1>10, <2>1, <2>3, <2>4
<1>11. CASE ProcessConnectedSuspend(n) /\ UNCHANGED <<peer, written, got, silent, refused>>
  <2> DEFINE away == {s \in Sides : InStatus(n, s, "Suspended")}
             far == {s \in away : ~IsUser(n, s)}
             to == IF HasUser(n) THEN {} ELSE MayGet(link[n], n, Sides \ away)
             l == [link[n] EXCEPT !.suspended = [s \in Sides |-> s \in far],
                                  !.needsResume = [s \in Sides |-> s \in to \/ @[s]]]
  <2>0. UNCHANGED <<portQ, defaultQ, limit, sendBuf>> /\ link[n].status = "Connected"
    BY <1>11 DEF ProcessConnectedSuspend
  <2>1. CASE Disconnect(n, Failed(link[n]))
    BY <1>3, <1>4, <1>11, <2>0, <2>1
  <2>2. CASE /\ Change(n, l, "Suspended")
             /\ chan' = Sent(n, to, Status("Suspended"))
    <3>1. l \in Links
      <4>1. [s \in Sides |-> s \in far] \in [Sides -> BOOLEAN]
        OBVIOUS
      <4>2. [s \in Sides |-> s \in to \/ link[n].needsResume[s]] \in [Sides -> BOOLEAN]
        <5> HIDE DEF to
        <5> QED
          OBVIOUS
      <4> HIDE DEF to, far
      <4> QED
        BY <1>0, <4>1, <4>2 DEF Links
    <3> HIDE DEF l, to
    <3>2. StartedAfter(n)
      <4>1. StartedFrom(n)
        BY <2>0 DEF WayInv, IsOpen
      <4>2. \A m \in Hosts : m > n => m >= n
        BY DEF Hosts
      <4> QED
        BY <4>1, <4>2 DEF StartedFrom, StartedAfter
    <3>3. Legal(n, "Suspended")
      BY <2>0, <3>2 DEF Legal, IsEnded, Ended
    <3>4. LinkStep
      BY <1>0, <1>11, <2>2, <3>1, <3>3, ChangeFlow DEF Statuses
    <3>5. QuietChan
      BY <1>0, <2>2, ControlMessages, StatusTypes, SentQuiet
    <3> QED
      BY <1>2, <1>11, <2>0, <3>4, <3>5
  <2> QED
    BY <1>11, <2>1, <2>2 DEF ProcessConnectedSuspend
<1>12. CASE n = 1 /\ ProcessConnectedSend /\ UNCHANGED <<peer, written, got, silent, refused>>
  <2>1. LinkStep
    BY <1>12, SamePeers, LinkSame DEF ProcessConnectedSend
  <2> QED
    BY <1>12, <2>1 DEF FlowStep, Writes
<1>13. CASE ProcessSuspended(n) /\ UNCHANGED <<peer, written, got, silent, refused>>
  <2> DEFINE l == [link[n] EXCEPT !.suspended = NoLink.suspended,
                                  !.needsResume = NoLink.needsResume]
             to == {s \in MayGet(link[n], n, Sides) : link[n].needsResume[s]}
  <2>1. l \in Links
    BY <1>0 DEF Links, NoLink
  <2>2. /\ Change(n, l, "Connected") /\ chan' = Sent(n, to, Status("Resumed"))
        /\ UNCHANGED <<portQ, defaultQ, limit, sendBuf>> /\ link[n].status = "Suspended"
    BY <1>13 DEF ProcessSuspended
  <2> HIDE DEF l, to
  <2>3. StartedFrom(n)
    BY <2>2 DEF WayInv, IsOpen
  <2>4. StartedAfter(n)
    <3>1. \A m \in Hosts : m > n => m >= n
      BY DEF Hosts
    <3> QED
      BY <2>3, <3>1 DEF StartedFrom, StartedAfter
  <2>5. Legal(n, "Connected")
    BY <2>2, <2>4 DEF Legal, IsEnded, Ended
  <2>6. LinkStep
    BY <1>0, <1>13, <2>1, <2>2, <2>5, ChangeFlow DEF Statuses
  <2>7. StartedFrom(n)'
    BY <2>3, <2>6 DEF StartedFrom, LinkStep
  <2>8. QuietChan
    BY <1>0, <2>2, <2>7, ControlMessages, StatusTypes, SentQuiet
  <2> QED
    BY <1>2, <1>13, <2>2, <2>6, <2>8
<1>14. CASE RemoveClosed(n) /\ UNCHANGED <<peer, written, got, silent, refused>>
  <2> DEFINE l == [NoLink EXCEPT !.status = "Removed"]
  <2>1. /\ link' = [link EXCEPT ![n] = l]
        /\ portQ' = [portQ EXCEPT ![n] = <<>>]
        /\ UNCHANGED <<chan, defaultQ, limit, sendBuf>>
    BY <1>14 DEF RemoveClosed
  <2>2. l.status = "Removed"
    BY DEF NoLink
  <2> HIDE DEF l
  <2>3. Legal(n, l.status)
    BY <2>2 DEF Legal, Ended
  <2>4. LinkStep
    BY <1>0, <1>14, <2>1, <2>3, SamePeers, LinkChanges
  <2>5. IsEnded(n)'
    BY <1>0, <2>1, <2>2 DEF LinksOK, IsEnded, Ended
  <2>6. \A i \in Hosts : portQ'[i] = portQ[i] \/ (i = n /\ portQ'[i] = <<>>)
    BY <1>0, <2>1 DEF QueuesOK
  <2>7. QuietQueues
    BY <2>1, <2>5, <2>6 DEF QuietQueues
  <2> QED
    BY <1>14, <2>1, <2>4, <2>7, SameQuiet DEF FlowStep, Quiet
<1> QED
  BY <1>5, <1>6, <1>7, <1>8, <1>9, <1>10, <1>11, <1>12, <1>13, <1>14 DEF PrimaryThread

\* An event that is taken from a queue, and its message.
LEMMA PoppedQuiet ==
  ASSUME QueuesOK, NEW n \in Hosts, NEW q \in Threads \cup {"port"},
         Front(n, q) # <<>>, Popped(n, q),
         q = "port" /\ Head(Front(n, q)).m.type = "Data" => IsEnded(n)'
  PROVE  QuietQueues
<1>1. CASE q = "port"
  <2>1. portQ' = [portQ EXCEPT ![n] = Tail(@)] /\ UNCHANGED defaultQ /\ portQ[n] # <<>>
    BY <1>1 DEF Popped, Front
  <2>2. \A i \in Hosts : portQ'[i] = portQ[i] \/ (i = n /\ portQ'[i] = Tail(portQ[n]))
    BY <2>1 DEF QueuesOK
  <2>3. Head(portQ[n]).m.type = "Data" => IsEnded(n)'
    BY <1>1 DEF Front
  <2> QED
    BY <2>1, <2>2, <2>3 DEF QuietQueues
<1>2. CASE q # "port"
  <2>1. /\ q \in Threads /\ defaultQ' = [defaultQ EXCEPT ![n][q] = Tail(@)] /\ UNCHANGED portQ
        /\ defaultQ[n][q] # <<>>
    BY <1>2 DEF Popped, Front
  <2>2. \A i \in Hosts, t \in Threads :
          defaultQ'[i][t] = defaultQ[i][t] \/ (i = n /\ t = q /\ defaultQ'[i][t] = Tail(defaultQ[n][q]))
    BY <2>1 DEF QueuesOK
  <2> QED
    BY <2>1, <2>2 DEF QuietQueues
<1> QED
  BY <1>1, <1>2

LEMMA PoppedWay ==
  ASSUME QueuesOK, WayInv, NEW n \in Hosts, NEW q \in Threads \cup {"port"}, Front(n, q) # <<>>
  PROVE  /\ Carries(Neighbour(n, Head(Front(n, q)).side), n, Head(Front(n, q)).m, Begun)
         /\ q # "port" /\ Flowing(Head(Front(n, q)).m) => link[n].status = "Removed"
<1>1. Front(n, q) \in Seq(Event)
  BY DEF QueuesOK, Front
<1>2. PICK i \in DOMAIN Front(n, q) : Head(Front(n, q)) = Front(n, q)[i]
  BY <1>1, Elements
<1> QED
  BY <1>2 DEF Front, WayInv

LEMMA ProcessCreateFlow ==
  ASSUME LinksOK, ChanOK, RestOK, WayInv, NEW n \in Hosts, NEW e \in Event, ProcessCreate(n, e)
  PROVE  /\ QuietChan /\ UNCHANGED <<limit, got>>
         /\ LinkStep
<1>1. UNCHANGED <<limit, got>>
  BY DEF ProcessCreate
<1>2. CASE Ignore /\ UNCHANGED peer
  BY <1>1, <1>2, SameQuiet, SamePeers, LinkSame DEF Ignore
<1>3. CASE /\ chan' = IF Present(n, e.side) THEN Sent(n, {e.side}, Status("Failure")) ELSE chan
           /\ UNCHANGED <<link, peer>>
  <2>1. QuietChan
    BY <1>3, ControlMessages, StatusTypes, SentQuiet, SameQuiet
  <2> QED
    BY <1>1, <1>3, <2>1, SamePeers, LinkSame
<1>4. CASE /\ link[n].status = "None"
           /\ link' = [link EXCEPT ![n] = WithStatus(NoLink, "Connect")]
           /\ peer' = IF n = Last THEN [peer EXCEPT ![n].out = "Connecting"] ELSE peer
           /\ UNCHANGED chan
  <2>1. WithStatus(NoLink, "Connect").status = "Connect"
    BY DEF WithStatus, NoLink
  <2>2. Legal(n, WithStatus(NoLink, "Connect").status)
    BY <1>4, <2>1 DEF Legal, IsEnded, Started, IsOpen, Ended
  <2>3. \A m \in Hosts, s \in Sides : Present(m, s)' /\ ~IsUser(m, s) => Present(m, s)
    <3>1. IsUser(Last, "out")
      BY DEF IsUser, Neighbour, Hosts
    <3>2. \A m \in Hosts, s \in Sides : ~IsUser(m, s) => peer'[m][s] = peer[m][s]
      BY <1>4, <3>1 DEF RestOK, Sides
    <3> QED
      BY <3>2 DEF Present
  <2>4. LinkStep
    BY <1>4, <2>2, <2>3, LinkChanges
  <2> QED
    BY <1>1, <1>4, <2>4, SameQuiet
<1> QED
  BY <1>2, <1>3, <1>4 DEF ProcessCreate

LEMMA ProcessStatusFlow ==
  ASSUME LinksOK, ChanOK, WayInv, NEW n \in Hosts, NEW e \in Event, e.m.type = "Status",
         Carries(Neighbour(n, e.side), n, e.m, Begun), ProcessStatus(n, e)
  PROVE  LinkStep /\ QuietChan /\ UNCHANGED <<limit, got>>
<1> DEFINE st == e.m.status
           l == Muted(link[n], {e.side}, st)
           to == IF HasUser(n) THEN {} ELSE MayGet(l, n, {Other(e.side)})
           l2 == [Muted(l, to, st) EXCEPT !.failed = @ \/ st = "Failure"]
<1>0. UNCHANGED <<peer, limit, got>>
  BY DEF ProcessStatus
<1>1. st \in StatusUpdates /\ e.m \in Message /\ e.side \in Sides
  BY EventFields
<1>2. l \in Links /\ l.status = link[n].status
  <2>1. l \in Links
    BY LinkTypes DEF LinksOK, Statuses
  <2>2. l.status = link[n].status
    BY DEF Muted, LinksOK, Links
  <2> QED
    BY <2>1, <2>2
<1>3. l2 \in Links
  <2>1. Muted(l, to, st) \in Links
    BY <1>2, LinkTypes DEF Statuses
  <2> HIDE DEF l, to, st
  <2>2. (Muted(l, to, st).failed \/ st = "Failure") \in BOOLEAN
    OBVIOUS
  <2> QED
    BY <2>1, <2>2 DEF Links
<1>4. CASE Ignore
  BY <1>0, <1>4, SameQuiet, SamePeers, LinkSame DEF Ignore
<1>5. CASE HasLink(n) /\ Fail(n)
  BY <1>0, <1>5, FailFlow DEF HasLink
<1>6. CASE HasLink(n) /\ link' = [link EXCEPT ![n] = Failed(l)] /\ UNCHANGED chan
  <2> HIDE DEF l
  <2>1. Failed(l).status = "Exception"
    BY <1>2 DEF Failed, Links
  <2>2. Legal(n, Failed(l).status)
    BY <1>6, <2>1 DEF Legal, Ended, HasLink
  <2>3. LinkStep
    BY <1>0, <1>6, <2>2, SamePeers, LinkChanges
  <2> QED
    BY <1>0, <1>6, <2>3, SameQuiet
<1>7. CASE /\ HasLink(n)
           /\ NoChange(l, st) \/ MayBecome(l, Becomes[st])
           /\ Change(n, l2, Becomes[st]) /\ chan' = Sent(n, to, e.m)
  <2> HIDE DEF l, l2, to
  <2>1. Reachable(n, Becomes[st])
    BY <1>1, <1>2, <1>7, AcceptedIsReachable
  <2>2. \/ Becomes[st] \in {"Disconnected", "Exception"}
        \/ /\ Becomes[st] \in {"Connected", "Suspended"}
           /\ Becomes[st] = "Connected" => st \in {"Connected", "Resumed"}
    BY <1>1 DEF StatusUpdates, Closing, Becomes
  <2>3. link[n].status # "Removed"
    BY <1>7 DEF HasLink
  <2>4. Becomes[st] \in {"Connected", "Suspended"} => ~IsEnded(n)
    BY <1>1, <2>1 DEF Reachable, IsEnded, Ended
  <2>5. Becomes[st] \in {"Connected", "Suspended"} => StartedAfter(n)
    <3>1. CASE IsOpen(n)
      <4>1. StartedFrom(n)
        BY <3>1 DEF WayInv
      <4>2. \A m \in Hosts : m > n => m >= n
        BY DEF Hosts
      <4> QED
        BY <4>1, <4>2 DEF StartedFrom, StartedAfter
    <3>2. CASE ~IsOpen(n) /\ Becomes[st] \in {"Connected", "Suspended"}
      <4>1. st \in {"Connected", "Resumed"}
        <5>1. Becomes[st] = "Connected"
          BY <2>1, <3>2 DEF Reachable, IsOpen
        <5> QED
          BY <2>2, <3>2, <5>1
      <4>2. e.m \in OpeningMessages
        BY <1>1, <4>1, ControlMessages
      <4>3. StartedFrom(Neighbour(n, e.side))
        BY <4>2 DEF Carries, Begun
      <4>4. \A m \in Hosts : m > n => m >= Neighbour(n, e.side)
        BY DEF Hosts, Neighbour
      <4> QED
        BY <4>3, <4>4 DEF StartedFrom, StartedAfter
    <3> QED
      BY <3>1, <3>2
  <2>6. Legal(n, Becomes[st])
    BY <2>2, <2>3, <2>4, <2>5 DEF Legal, Ended
  <2>7. Becomes[st] \in Statuses
    BY <1>1, StatusTypes
  <2>8. LinkStep /\ link'[n].status = Becomes[st]
    BY <1>0, <1>3, <1>7, <2>6, <2>7, ChangeFlow
  <2>9. e.m \in OpeningMessages => StartedFrom(n)'
    <3>1. ASSUME e.m \in OpeningMessages
          PROVE  StartedFrom(n)'
      <4>1. st \in {"Connected", "Resumed"}
        BY <1>1, <3>1, ControlMessages
      <4>2. IsOpen(n)'
        BY <2>8, <4>1 DEF IsOpen, Becomes
      <4> QED
        BY <2>8, <4>2 DEF LinkStep
    <3> QED
      BY <3>1
  <2>10. QuietChan
    BY <1>1, <1>7, <2>9, ControlMessages, SentQuiet
  <2> QED
    BY <1>0, <2>8, <2>10
<1> QED
  BY <1>4, <1>5, <1>6, <1>7 DEF ProcessStatus

\* Which side an event that flows comes from.
LEMMA FlowSides ==
  ASSUME NEW n \in Hosts, NEW e \in Event, Carries(Neighbour(n, e.side), n, e.m, Begun)
  PROVE  /\ e.m.type = "Data" => e.side = "in"
         /\ e.m.type = "Ack" => e.side = "out" /\ n # Last
BY EventFields DEF Carries, Neighbour, Hosts, Sides

LEMMA ProcessDataFlow ==
  ASSUME TypeOK, WayInv, NEW n \in Hosts, NEW q \in Threads \cup {"port"},
         Front(n, q) # <<>>, Popped(n, q), Head(Front(n, q)).m.type = "Data",
         ProcessData(n, Head(Front(n, q))), UNCHANGED <<sendBuf, written>>
  PROVE  FlowStep
<1> DEFINE e == Head(Front(n, q))
<1>0. LinksOK /\ ChanOK /\ QueuesOK
  BY TypeParts
<1>1. e \in Event /\ Carries(Neighbour(n, e.side), n, e.m, Begun)
  BY <1>0, PoppedType, PoppedWay
<1>2. e.side = "in" /\ Other(e.side) = "out" /\ e.m \in Message
  BY <1>1, FlowSides, EventFields DEF Other
<1>3. q # "port" => link[n].status = "Removed"
  BY <1>0, PoppedWay DEF Flowing
<1>4. Started(n)
  <2>1. StartedFrom(1)
    BY <1>1 DEF Carries, Begun, Flowing
  <2> QED
    BY <2>1 DEF StartedFrom, Hosts
<1>5. UNCHANGED <<peer, limit>>
  BY DEF ProcessData
<1>6. ProcessData(n, e)
  OBVIOUS
<1>7. CASE (~HasLink(n) \/ link[n].status \notin {"Connected", "Suspended"}) /\ Ignore /\ UNCHANGED got
  <2>1. LinkStep /\ QuietChan
    BY <1>5, <1>7, SameQuiet, SamePeers, LinkSame DEF Ignore
  <2>2. IsEnded(n)
    BY <1>4, <1>7 DEF Started, IsOpen, HasLink
  <2>3. QuietQueues
    BY <1>0, <2>1, <2>2, PoppedQuiet DEF LinkStep
  <2> QED
    BY <1>5, <1>7, <2>1, <2>3 DEF FlowStep, Quiet
<1>8. CASE HasLink(n) /\ Fail(n) /\ UNCHANGED got
  <2>1. LinkStep /\ QuietChan /\ IsEnded(n)'
    BY <1>0, <1>5, <1>8, FailFlow DEF HasLink
  <2>2. QuietQueues
    BY <1>0, <2>1, PoppedQuiet
  <2> QED
    BY <1>5, <1>8, <2>1, <2>2 DEF FlowStep, Quiet
<1>9. CASE /\ HasLink(n) /\ link[n].status \in {"Connected", "Suspended"}
           /\ ~(Fail(n) /\ UNCHANGED got)
  <2>1. q = "port" /\ ~IsEnded(n) /\ e = Head(portQ[n])
    BY <1>3, <1>9 DEF HasLink, IsEnded, Ended, Front
  <2>2. /\ portQ[n] # <<>> /\ portQ' = [portQ EXCEPT ![n] = Tail(@)]
        /\ UNCHANGED defaultQ
    BY <2>1 DEF Popped, Front
  <2> HIDE DEF e
  <2>3. UNCHANGED link
    BY <1>6, <1>9 DEF ProcessData
  <2>4. Takes(n)
    BY <1>5, <2>1, <2>2, <2>3 DEF Takes
  <2>5. LinkStep
    BY <1>5, <2>3, SamePeers, LinkSame
  <2>6. CASE IsUser(n, "out")
    <3>1. n = Last
      BY <2>6 DEF IsUser, Neighbour, Hosts
    <3>2. /\ got' = Append(got, e.m)
          /\ chan' = chan \/ chan' = Sent(n, {"in"}, Ack(e.m.id))
      BY <1>2, <1>6, <1>9, <2>6 DEF ProcessData
    <3>3. e.m.type = "Data"
      BY DEF e
    <3>4. Delivers
      BY <1>5, <2>1, <2>4, <3>1, <3>2, <3>3 DEF Delivers
    <3> QED
      BY <2>5, <3>4 DEF FlowStep
  <2>7. CASE ~IsUser(n, "out")
    <3>1. n # Last
      BY <2>7 DEF IsUser, Neighbour, Hosts
    <3>2. UNCHANGED got /\ chan' = Sent(n, {"out"}, e.m)
      BY <1>2, <1>6, <1>9, <2>7 DEF ProcessData, RelayOn
    <3>3. e.m.type = "Data"
      BY DEF e
    <3>4. PassesData(n)
      BY <1>5, <2>1, <2>4, <3>1, <3>2, <3>3 DEF PassesData
    <3> QED
      BY <2>5, <3>4 DEF FlowStep
  <2> QED
    BY <2>6, <2>7
<1> QED
  BY <1>6, <1>7, <1>8, <1>9 DEF ProcessData

LEMMA ProcessAckFlow ==
  ASSUME TypeOK, WayInv, NEW n \in Hosts, NEW q \in Threads \cup {"port"},
         Front(n, q) # <<>>, Popped(n, q), Head(Front(n, q)).m.type = "Ack",
         ProcessAck(n, Head(Front(n, q))), UNCHANGED <<sendBuf, written>>
  PROVE  FlowStep
<1> DEFINE e == Head(Front(n, q))
<1>0. LinksOK /\ ChanOK /\ QueuesOK
  BY TypeParts
<1>1. e \in Event /\ Carries(Neighbour(n, e.side), n, e.m, Begun)
  BY <1>0, PoppedType, PoppedWay
<1>2. e.side = "out" /\ n # Last /\ Other(e.side) = "in" /\ e.m \in Message
  BY <1>1, FlowSides, EventFields DEF Other
<1>3. q # "port" => link[n].status = "Removed"
  BY <1>0, PoppedWay DEF Flowing
<1>4. UNCHANGED <<peer, got>>
  BY DEF ProcessAck
<1>5. ProcessAck(n, e)
  OBVIOUS
<1>6. QuietQueues
  BY <1>0, PoppedQuiet
<1>7. CASE Ignore /\ UNCHANGED limit
  <2>1. LinkStep /\ QuietChan
    BY <1>4, <1>7, SameQuiet, SamePeers, LinkSame DEF Ignore
  <2> QED
    BY <1>4, <1>6, <1>7, <2>1 DEF FlowStep, Quiet
<1>8. CASE HasLink(n) /\ Fail(n) /\ UNCHANGED limit
  <2>1. LinkStep /\ QuietChan
    BY <1>0, <1>4, <1>8, FailFlow DEF HasLink
  <2> QED
    BY <1>4, <1>6, <1>8, <2>1 DEF FlowStep, Quiet
<1>9. CASE /\ HasLink(n) /\ link[n].status \in {"Connected", "Suspended"}
           /\ ~(Fail(n) /\ UNCHANGED limit)
  <2>1. q = "port" /\ ~IsEnded(n) /\ e = Head(portQ[n])
    BY <1>3, <1>9 DEF HasLink, IsEnded, Ended, Front
  <2>2. /\ portQ[n] # <<>> /\ portQ' = [portQ EXCEPT ![n] = Tail(@)]
        /\ UNCHANGED defaultQ
    BY <2>1 DEF Popped, Front
  <2> HIDE DEF e
  <2>3. UNCHANGED link
    BY <1>5, <1>9 DEF ProcessAck, Ignore
  <2>4. Takes(n)
    BY <1>4, <2>1, <2>2, <2>3 DEF Takes
  <2>5. LinkStep
    BY <1>4, <2>3, SamePeers, LinkSame
  <2>6. e.m.type = "Ack"
    BY DEF e
  <2>7. HasUser(n) <=> n = 1
    BY <1>2 DEF HasUser, IsUser, Neighbour, Hosts, Sides
  <2>8. CASE n = 1
    <3>1. limit' = AckMTU(limit, e.m.id) /\ UNCHANGED chan
      BY <1>5, <1>9, <2>7, <2>8 DEF ProcessAck, Ignore
    <3>2. Credits
      BY <1>2, <1>4, <2>1, <2>4, <2>6, <2>8, <3>1 DEF Credits
    <3> QED
      BY <2>5, <3>2 DEF FlowStep
  <2>9. CASE n # 1
    <3>1. UNCHANGED limit /\ chan' = Sent(n, {"in"}, e.m)
      BY <1>2, <1>5, <1>9, <2>7, <2>9 DEF ProcessAck
    <3>2. PassesAck(n)
      BY <1>2, <1>4, <2>1, <2>4, <2>6, <2>9, <3>1 DEF PassesAck
    <3> QED
      BY <2>5, <3>2 DEF FlowStep
  <2> QED
    BY <2>8, <2>9
<1> QED
  BY <1>5, <1>7, <1>8, <1>9 DEF ProcessAck

LEMMA ProcessEventsFlow ==
  ASSUME TypeOK, WayInv, NEW n \in Hosts, NEW q \in Threads \cup {"port"}, ProcessEvents(n, q)
  PROVE  FlowStep
<1> DEFINE e == Head(Front(n, q))
<1>0. LinksOK /\ ChanOK /\ QueuesOK /\ RestOK
  BY TypeParts
<1>1. e \in Event /\ Front(n, q) # <<>> /\ Popped(n, q) /\ UNCHANGED <<sendBuf, written>>
  BY <1>0, PoppedType DEF ProcessEvents
<1>2. Carries(Neighbour(n, e.side), n, e.m, Begun)
  BY <1>0, <1>1, PoppedWay
<1>3. CASE \/ e.m.type = "Create" /\ ProcessCreate(n, e)
           \/ e.m.type = "Status" /\ ProcessStatus(n, e)
  <2>1. QuietQueues
    BY <1>0, <1>1, <1>3, PoppedQuiet
  <2> HIDE DEF e
  <2>2. LinkStep /\ QuietChan /\ UNCHANGED <<limit, got>>
    BY <1>0, <1>1, <1>2, <1>3, ProcessCreateFlow, ProcessStatusFlow
  <2> QED
    BY <1>1, <2>1, <2>2 DEF FlowStep, Quiet
<1>4. CASE e.m.type = "Data" /\ ProcessData(n, e)
  BY <1>1, <1>4, ProcessDataFlow
<1>5. CASE e.m.type = "Ack" /\ ProcessAck(n, e)
  BY <1>1, <1>5, ProcessAckFlow
<1> QED
  BY <1>3, <1>4, <1>5 DEF ProcessEvents

LEMMA ReceiveFlow ==
  ASSUME WayInv, NEW p \in Pairs, Receive(p)
  PROVE  FlowStep
<1>1. LinkStep
  BY SamePeers, LinkSame DEF Receive
<1> QED
  BY <1>1 DEF FlowStep

LEMMA PeerFlow ==
  ASSUME TypeOK, WayInv, NEW n \in Hosts, NEW s \in Sides,
         \/ UserNotices(n) \/ UserEnds(n) \/ FallsSilent(n) \/ ComesBack(n)
         \/ PeerReady(n, s) \/ PeerSuspends(n, s) \/ PeerResumes(n, s)
         \/ PeerGone(n, s) \/ PeerNoticesGone(n, s)
  PROVE  FlowStep
<1>0. peer \in [Hosts -> [Sides -> PeerStatuses]] /\ UserSide(n) \in Sides
  BY DEF TypeOK, UserSide, Sides
<1>1. PeersOnly
  BY DEF UserNotices, UserEnds, FallsSilent, ComesBack, PeerReady, PeerSuspends, PeerResumes,
         PeerGone, PeerNoticesGone, Leave
<1>2. ASSUME QuietChan, \A m \in Hosts, u \in Sides : Present(m, u)' => Present(m, u)
      PROVE  FlowStep
  <2>1. LinkStep
    BY <1>1, <1>2, LinkSame DEF PeersOnly
  <2> QED
    BY <1>1, <1>2, <2>1, SameQuiet DEF PeersOnly, FlowStep, Quiet
<1>3. ASSUME NEW u \in Sides, NEW st, SetPeer(n, u, st), st = "Gone" \/ Present(n, u)
      PROVE  /\ \A m \in Hosts, v \in Sides : Present(m, v)' => Present(m, v)
             /\ peer'[n][u] = st
  BY <1>0, <1>3 DEF SetPeer, Present
<1>4. ASSUME NEW u \in Sides, Leave(n, u)
      PROVE  FlowStep
  <2>1. /\ \A m \in Hosts, v \in Sides : Present(m, v)' => Present(m, v)
        /\ ~Present(n, u)'
    BY <1>3, <1>4 DEF Leave, Present
  <2>2. \A p \in Pairs : chan'[p] = chan[p] \/ (p = <<Neighbour(n, u), n>> /\ chan'[p] = <<>>)
    BY <1>4 DEF Leave
  <2>3. <<Neighbour(n, u), n>>[2] = n /\ <<Neighbour(n, u), n>>[1] = Neighbour(n, u)
    OBVIOUS
  <2>4. Side(n, Neighbour(n, u)) = u
    BY DEF Side, Neighbour, Hosts, Sides
  <2>5. QuietChan
    BY <2>1, <2>2, <2>3, <2>4 DEF QuietChan
  <2> QED
    BY <1>2, <2>1, <2>5
<1>5. CASE FallsSilent(n) \/ ComesBack(n)
  BY <1>2, <1>5, SameQuiet DEF FallsSilent, ComesBack, Present
<1>6. CASE UserNotices(n)
  <2>1. UNCHANGED chan
    BY <1>6 DEF UserNotices
  <2>2. \E st : SetPeer(n, UserSide(n), st) /\ Present(n, UserSide(n))
    BY <1>6 DEF UserNotices, InStatus, Present
  <2> QED
    BY <1>0, <1>2, <1>3, <2>1, <2>2, SameQuiet
<1>7. CASE PeerReady(n, s) \/ PeerSuspends(n, s) \/ PeerResumes(n, s)
  <2>1. UNCHANGED chan
    BY <1>7 DEF PeerReady, PeerSuspends, PeerResumes
  <2>2. \E st : SetPeer(n, s, st) /\ Present(n, s)
    BY <1>7 DEF PeerReady, PeerSuspends, PeerResumes, InStatus, Present
  <2> QED
    BY <1>0, <1>2, <1>3, <2>1, <2>2, SameQuiet
<1>8. CASE UserEnds(n) \/ PeerGone(n, s) \/ PeerNoticesGone(n, s)
  BY <1>0, <1>4, <1>8 DEF UserEnds, PeerGone, PeerNoticesGone
<1> QED
  BY <1>5, <1>6, <1>7, <1>8

LEMMA NextFlow == TypeOK /\ WayInv /\ [Next]_vars => FlowStep
<1> SUFFICES ASSUME TypeOK, WayInv, [Next]_vars
             PROVE  FlowStep
  OBVIOUS
<1>0. LinksOK /\ 1 \in Hosts
  BY TypeParts DEF Hosts
<1>1. CASE Open
  <2>1. WithStatus(NoLink, "Connect").status = "Connect"
    BY DEF WithStatus, NoLink
  <2>2. Legal(1, WithStatus(NoLink, "Connect").status)
    BY <1>1, <2>1 DEF Open, Legal, IsEnded, Started, IsOpen, Ended
  <2>3. LinkStep
    BY <1>0, <1>1, <2>2, SamePeers, LinkChanges DEF Open
  <2> QED
    BY <1>1, <2>3, SameQuiet DEF Open, FlowStep, Quiet
<1>2. CASE UserSend
  <2>1. LinkStep
    BY <1>2, SamePeers, LinkSame DEF UserSend
  <2> QED
    BY <1>2, <2>1, SameQuiet DEF UserSend, FlowStep, Quiet
<1>3. ASSUME NEW n \in Hosts, PrimaryThread(n) \/ LinkTimeout(n) \/ Shutdown(n)
      PROVE  FlowStep
  BY <1>3, PrimaryThreadFlow
<1>4. ASSUME NEW n \in Hosts, NEW q \in Threads \cup {"port"}, ProcessEvents(n, q)
      PROVE  FlowStep
  BY <1>4, ProcessEventsFlow
<1>5. ASSUME NEW p \in Pairs, Receive(p)
      PROVE  FlowStep
  BY <1>5, ReceiveFlow
<1>6. ASSUME NEW n \in Hosts, NEW s \in Sides,
             \/ UserNotices(n) \/ UserEnds(n) \/ FallsSilent(n) \/ ComesBack(n)
             \/ PeerReady(n, s) \/ PeerSuspends(n, s) \/ PeerResumes(n, s)
             \/ PeerGone(n, s) \/ PeerNoticesGone(n, s)
      PROVE  FlowStep
  BY <1>6, PeerFlow
<1>7. CASE UNCHANGED vars
  <2>1. LinkStep
    BY <1>7, SamePeers, LinkSame DEF vars
  <2> QED
    BY <1>7, <2>1, SameQuiet DEF vars, FlowStep, Quiet
<1>8. \E s \in Sides : TRUE
  BY DEF Sides
<1> QED
  BY <1>1, <1>2, <1>3, <1>4, <1>5, <1>6, <1>7, <1>8 DEF Next

\* Nothing that may flow stops to.
LEMMA CarriesStays ==
  ASSUME LinkStep
  PROVE  /\ Begun \subseteq Begun'
         /\ \A from, to, m : Carries(from, to, m, Begun) => Carries(from, to, m, Begun')
<1>1. Begun \subseteq Begun'
  BY DEF StartedFrom, LinkStep, Begun
<1> QED
  BY <1>1 DEF Carries

LEMMA ChanWay ==
  ASSUME ChanOK, WayInv, LinkStep,
         \A p \in Pairs :
           \/ chan'[p] \in {chan[p], <<>>}
           \/ chan[p] # <<>> /\ chan'[p] = Tail(chan[p])
           \/ \E m \in Message : Carries(p[1], p[2], m, Begun') /\ chan'[p] = Append(chan[p], m)
  PROVE  \A p \in Pairs : \A i \in DOMAIN chan'[p] : Carries(p[1], p[2], chan'[p][i], Begun')
<1> SUFFICES ASSUME NEW p \in Pairs, NEW i \in DOMAIN chan'[p]
             PROVE  Carries(p[1], p[2], chan'[p][i], Begun')
  OBVIOUS
<1>1. chan[p] \in Seq(Message)
  BY DEF ChanOK
<1>2. \A j \in DOMAIN chan[p] : Carries(p[1], p[2], chan[p][j], Begun')
  BY CarriesStays DEF WayInv
<1>3. CASE chan'[p] \in {chan[p], <<>>}
  BY <1>2, <1>3
<1>4. CASE chan[p] # <<>> /\ chan'[p] = Tail(chan[p])
  <2>1. \E j \in DOMAIN chan[p] : chan'[p][i] = chan[p][j]
    BY <1>1, <1>4, Elements
  <2> QED
    BY <1>2, <2>1
<1>5. ASSUME NEW m \in Message, Carries(p[1], p[2], m, Begun'), chan'[p] = Append(chan[p], m)
      PROVE  Carries(p[1], p[2], chan'[p][i], Begun')
  <2>1. chan'[p][i] = m \/ \E j \in DOMAIN chan[p] : chan'[p][i] = chan[p][j]
    BY <1>1, <1>5, Elements
  <2> QED
    BY <1>2, <1>5, <2>1
<1> QED
  BY <1>3, <1>4, <1>5

LEMMA PortWay ==
  ASSUME QueuesOK, WayInv, LinkStep,
         \A n \in Hosts :
           \/ portQ'[n] \in {portQ[n], <<>>}
           \/ portQ[n] # <<>> /\ portQ'[n] = Tail(portQ[n])
           \/ \E e \in Event : Carries(Neighbour(n, e.side), n, e.m, Begun') /\ portQ'[n] = Append(portQ[n], e)
  PROVE  \A n \in Hosts : \A i \in DOMAIN portQ'[n] :
           Carries(Neighbour(n, portQ'[n][i].side), n, portQ'[n][i].m, Begun')
<1> SUFFICES ASSUME NEW n \in Hosts, NEW i \in DOMAIN portQ'[n]
             PROVE  Carries(Neighbour(n, portQ'[n][i].side), n, portQ'[n][i].m, Begun')
  OBVIOUS
<1>1. portQ[n] \in Seq(Event)
  BY DEF QueuesOK
<1>2. \A j \in DOMAIN portQ[n] : Carries(Neighbour(n, portQ[n][j].side), n, portQ[n][j].m, Begun')
  BY CarriesStays DEF WayInv
<1>3. CASE portQ'[n] \in {portQ[n], <<>>}
  BY <1>2, <1>3
<1>4. CASE portQ[n] # <<>> /\ portQ'[n] = Tail(portQ[n])
  <2>1. \E j \in DOMAIN portQ[n] : portQ'[n][i] = portQ[n][j]
    BY <1>1, <1>4, Elements
  <2> QED
    BY <1>2, <2>1
<1>5. ASSUME NEW e \in Event, Carries(Neighbour(n, e.side), n, e.m, Begun'), portQ'[n] = Append(portQ[n], e)
      PROVE  Carries(Neighbour(n, portQ'[n][i].side), n, portQ'[n][i].m, Begun')
  <2>1. portQ'[n][i] = e \/ \E j \in DOMAIN portQ[n] : portQ'[n][i] = portQ[n][j]
    BY <1>1, <1>5, Elements
  <2> QED
    BY <1>2, <1>5, <2>1
<1> QED
  BY <1>3, <1>4, <1>5

LEMMA DefaultWay ==
  ASSUME QueuesOK, WayInv, LinkStep,
         \A n \in Hosts, t \in Threads :
           \/ defaultQ'[n][t] \in {defaultQ[n][t], <<>>}
           \/ defaultQ[n][t] # <<>> /\ defaultQ'[n][t] = Tail(defaultQ[n][t])
           \/ \E e \in Event : /\ Carries(Neighbour(n, e.side), n, e.m, Begun')
                               /\ Flowing(e.m) => link[n].status = "Removed"
                               /\ defaultQ'[n][t] = Append(defaultQ[n][t], e)
  PROVE  \A n \in Hosts, t \in Threads : \A i \in DOMAIN defaultQ'[n][t] :
           /\ Carries(Neighbour(n, defaultQ'[n][t][i].side), n, defaultQ'[n][t][i].m, Begun')
           /\ Flowing(defaultQ'[n][t][i].m) => link'[n].status = "Removed"
<1> SUFFICES ASSUME NEW n \in Hosts, NEW t \in Threads, NEW i \in DOMAIN defaultQ'[n][t]
             PROVE  /\ Carries(Neighbour(n, defaultQ'[n][t][i].side), n, defaultQ'[n][t][i].m, Begun')
                    /\ Flowing(defaultQ'[n][t][i].m) => link'[n].status = "Removed"
  OBVIOUS
<1>1. defaultQ[n][t] \in Seq(Event)
  BY DEF QueuesOK
<1>2. \A j \in DOMAIN defaultQ[n][t] :
        /\ Carries(Neighbour(n, defaultQ[n][t][j].side), n, defaultQ[n][t][j].m, Begun')
        /\ Flowing(defaultQ[n][t][j].m) => link'[n].status = "Removed"
  BY CarriesStays DEF WayInv, LinkStep
<1>3. CASE defaultQ'[n][t] \in {defaultQ[n][t], <<>>}
  BY <1>2, <1>3
<1>4. CASE defaultQ[n][t] # <<>> /\ defaultQ'[n][t] = Tail(defaultQ[n][t])
  <2>1. \E j \in DOMAIN defaultQ[n][t] : defaultQ'[n][t][i] = defaultQ[n][t][j]
    BY <1>1, <1>4, Elements
  <2> QED
    BY <1>2, <2>1
<1>5. ASSUME NEW e \in Event, Carries(Neighbour(n, e.side), n, e.m, Begun'),
             Flowing(e.m) => link[n].status = "Removed",
             defaultQ'[n][t] = Append(defaultQ[n][t], e)
      PROVE  /\ Carries(Neighbour(n, defaultQ'[n][t][i].side), n, defaultQ'[n][t][i].m, Begun')
             /\ Flowing(defaultQ'[n][t][i].m) => link'[n].status = "Removed"
  <2>1. defaultQ'[n][t][i] = e \/ \E j \in DOMAIN defaultQ[n][t] : defaultQ'[n][t][i] = defaultQ[n][t][j]
    BY <1>1, <1>5, Elements
  <2> QED
    BY <1>2, <1>5, <2>1 DEF LinkStep
<1> QED
  BY <1>3, <1>4, <1>5

\* What a host passes on from its port's queue goes on the way it came.
LEMMA TakenWay ==
  ASSUME QueuesOK, WayInv, NEW n \in Hosts, portQ[n] # <<>>, Flowing(Head(portQ[n]).m)
  PROVE  /\ Head(portQ[n]) \in Event /\ Head(portQ[n]).m \in Message
         /\ StartedFrom(1)
<1>1. Head(portQ[n]) \in Event
  BY SeqFacts DEF QueuesOK
<1>2. PICK i \in DOMAIN portQ[n] : Head(portQ[n]) = portQ[n][i]
  BY Elements DEF QueuesOK
<1> QED
  BY <1>1, <1>2, EventFields DEF WayInv, Carries, Begun

LEMMA SentWay ==
  ASSUME LinkStep, NEW n \in Hosts, NEW s \in Sides, NEW m \in Message, chan' = Sent(n, {s}, m),
         Flowing(m), m.type = "Data" <=> s = "out", StartedFrom(1)
  PROVE  \A p \in Pairs : \/ chan'[p] \in {chan[p], <<>>}
                          \/ \E k \in Message : Carries(p[1], p[2], k, Begun') /\ chan'[p] = Append(chan[p], k)
<1> SUFFICES ASSUME NEW p \in Pairs, chan'[p] # chan[p]
             PROVE  Carries(p[1], p[2], m, Begun') /\ chan'[p] = Append(chan[p], m)
  OBVIOUS
<1>1. p[1] = n /\ p[2] = Neighbour(n, s) /\ chan'[p] = Append(chan[p], m)
  BY DEF Sent
<1>2. n \in Nat /\ n <= Last
  BY DEF Hosts
<1>3. m.type = "Data" => p[1] < p[2]
  BY <1>1, <1>2 DEF Neighbour
<1>4. m.type = "Ack" => p[1] > p[2] /\ p[1] <= Last
  BY <1>1, <1>2 DEF Neighbour, Sides
<1>5. m \notin OpeningMessages
  BY DEF OpeningMessages, Status, Flowing
<1>6. Carries(p[1], p[2], m, Begun)
  BY <1>3, <1>4, <1>5 DEF Carries, Begun, Hosts
<1> QED
  BY <1>1, <1>6, CarriesStays

LEMMA FlowWay == TypeOK /\ WayInv /\ FlowStep => WayInv'
<1> SUFFICES ASSUME TypeOK, WayInv, FlowStep
             PROVE  WayInv'
  OBVIOUS
<1>0. ChanOK /\ QueuesOK /\ RestOK /\ LinkStep /\ 1 \in Hosts /\ Last \in Hosts
  BY TypeParts DEF FlowStep, Hosts
<1> DEFINE ChanStep == \A p \in Pairs :
             \/ chan'[p] \in {chan[p], <<>>}
             \/ chan[p] # <<>> /\ chan'[p] = Tail(chan[p])
             \/ \E m \in Message : Carries(p[1], p[2], m, Begun') /\ chan'[p] = Append(chan[p], m)
           PortStep == \A n \in Hosts :
             \/ portQ'[n] \in {portQ[n], <<>>}
             \/ portQ[n] # <<>> /\ portQ'[n] = Tail(portQ[n])
             \/ \E e \in Event : Carries(Neighbour(n, e.side), n, e.m, Begun') /\ portQ'[n] = Append(portQ[n], e)
           DefaultStep == \A n \in Hosts, t \in Threads :
             \/ defaultQ'[n][t] \in {defaultQ[n][t], <<>>}
             \/ defaultQ[n][t] # <<>> /\ defaultQ'[n][t] = Tail(defaultQ[n][t])
             \/ \E e \in Event : /\ Carries(Neighbour(n, e.side), n, e.m, Begun')
                                 /\ Flowing(e.m) => link[n].status = "Removed"
                                 /\ defaultQ'[n][t] = Append(defaultQ[n][t], e)
<1>1. ASSUME ChanStep, PortStep, DefaultStep
      PROVE  WayInv'
  <2>1. \A n \in Hosts : IsOpen(n)' => StartedFrom(n)'
    BY <1>0 DEF LinkStep
  <2>2. \A p \in Pairs : \A i \in DOMAIN chan'[p] : Carries(p[1], p[2], chan'[p][i], Begun')
    BY <1>0, <1>1, ChanWay
  <2>3. \A n \in Hosts : \A i \in DOMAIN portQ'[n] :
          Carries(Neighbour(n, portQ'[n][i].side), n, portQ'[n][i].m, Begun')
    BY <1>0, <1>1, PortWay
  <2>4. \A n \in Hosts, t \in Threads : \A i \in DOMAIN defaultQ'[n][t] :
          /\ Carries(Neighbour(n, defaultQ'[n][t][i].side), n, defaultQ'[n][t][i].m, Begun')
          /\ Flowing(defaultQ'[n][t][i].m) => link'[n].status = "Removed"
    BY <1>0, <1>1, DefaultWay
  <2> QED
    BY <2>1, <2>2, <2>3, <2>4 DEF WayInv
<1>2. /\ UNCHANGED chan => ChanStep
      /\ UNCHANGED portQ => PortStep
      /\ UNCHANGED defaultQ => DefaultStep
  OBVIOUS
<1>3. CASE Quiet
  <2>1. ChanStep
    <3> SUFFICES ASSUME NEW p \in Pairs, NEW m \in Message, ~Flowing(m),
                        m \in OpeningMessages => StartedFrom(p[1])'
                 PROVE  Carries(p[1], p[2], m, Begun')
      BY <1>3 DEF Quiet, QuietChan
    <3> QED
      BY PairTypes DEF Carries, Flowing, Begun
  <2>2. PortStep /\ DefaultStep
    BY <1>3 DEF Quiet, QuietQueues
  <2> HIDE DEF ChanStep, PortStep, DefaultStep
  <2> QED
    BY <1>1, <2>1, <2>2
<1>4. ASSUME NEW n \in Hosts, Takes(n)
      PROVE  PortStep /\ DefaultStep
  <2>1. \A i \in Hosts : portQ'[i] = portQ[i] \/ (i = n /\ portQ'[i] = Tail(portQ[n]))
    BY <1>0, <1>4 DEF Takes, QueuesOK
  <2> QED
    BY <1>2, <1>4, <2>1 DEF Takes
<1>5. CASE Writes
  <2> DEFINE e == [side |-> "in", m |-> Data(limit.next, Head(sendBuf))]
  <2>1. e \in Event
    <3>1. limit.next \in Nat /\ Head(sendBuf) \in Nat
      BY <1>0, <1>5, SeqFacts DEF RestOK, Writes, ProcessConnectedSend
    <3> QED
      BY <3>1, MessageTypes DEF Event, Sides
  <2>2. e.m.type = "Data" /\ e.m \notin OpeningMessages /\ e.side = "in"
    BY DEF Data, OpeningMessages, Status
  <2>3. StartedFrom(1)
    BY <1>0, <1>5 DEF Writes, ProcessConnectedSend, WayInv, IsOpen
  <2>4. portQ' = [portQ EXCEPT ![1] = Append(@, e)] /\ UNCHANGED <<chan, defaultQ>>
    BY <1>5 DEF Writes, ProcessConnectedSend
  <2> HIDE DEF e
  <2>5. Carries(Neighbour(1, e.side), 1, e.m, Begun')
    <3>1. Carries(Neighbour(1, e.side), 1, e.m, Begun)
      BY <1>0, <2>2, <2>3 DEF Carries, Neighbour, Begun
    <3> QED
      BY <1>0, <3>1, CarriesStays
  <2>6. \A n \in Hosts : portQ'[n] = portQ[n] \/ (n = 1 /\ portQ'[n] = Append(portQ[n], e))
    BY <1>0, <2>4 DEF QueuesOK
  <2>7. PortStep
    BY <2>1, <2>5, <2>6
  <2> HIDE DEF ChanStep, PortStep, DefaultStep
  <2> QED
    BY <1>1, <1>2, <2>4, <2>7
<1>6. CASE Delivers
  <2> DEFINE m == Head(portQ[Last]).m
  <2>1. Takes(Last) /\ m.type = "Data"
    BY <1>6 DEF Delivers
  <2>2. Head(portQ[Last]) \in Event /\ StartedFrom(1)
    BY <1>0, <2>1, TakenWay DEF Takes, Flowing
  <2>3. Ack(m.id) \in Message /\ Ack(m.id).type = "Ack"
    <3>1. m.id \in Nat
      BY <2>1, <2>2, EventFields
    <3> QED
      BY <3>1, MessageTypes DEF Ack
  <2>4. chan' = chan \/ chan' = Sent(Last, {"in"}, Ack(m.id))
    BY <1>6 DEF Delivers
  <2> HIDE DEF m
  <2>5. ChanStep
    BY <1>0, <2>2, <2>3, <2>4, SentWay DEF Flowing, Sides
  <2> HIDE DEF ChanStep, PortStep, DefaultStep
  <2> QED
    BY <1>0, <1>1, <1>4, <2>1, <2>5
<1>7. CASE Credits
  <2>1. Takes(1) /\ UNCHANGED chan
    BY <1>7 DEF Credits
  <2> HIDE DEF ChanStep, PortStep, DefaultStep
  <2> QED
    BY <1>0, <1>1, <1>2, <1>4, <2>1
<1>8. ASSUME NEW n \in Hosts, PassesData(n) \/ PassesAck(n)
      PROVE  WayInv'
  <2> DEFINE m == Head(portQ[n]).m
  <2>1. Takes(n) /\ \/ m.type = "Data" /\ chan' = Sent(n, {"out"}, m)
                    \/ m.type = "Ack" /\ chan' = Sent(n, {"in"}, m)
    BY <1>8 DEF PassesData, PassesAck
  <2>2. m \in Message /\ Flowing(m) /\ StartedFrom(1)
    BY <1>0, <2>1, TakenWay DEF Takes, Flowing
  <2> HIDE DEF m
  <2>3. ChanStep
    BY <1>0, <2>1, <2>2, SentWay DEF Sides
  <2> HIDE DEF ChanStep, PortStep, DefaultStep
  <2> QED
    BY <1>1, <1>4, <2>1, <2>3
<1>9. ASSUME NEW p \in Pairs, Receive(p)
      PROVE  WayInv'
  <2> DEFINE n == p[2]
             e == [side |-> Side(n, p[1]), m |-> Head(chan[p])]
  <2>1. n \in Hosts /\ p[1] \in Hosts /\ (p[1] = n - 1 \/ p[1] = n + 1) /\ n \in Nat
    BY PairTypes
  <2>2. chan[p] \in Seq(Message) /\ chan[p] # <<>>
    BY <1>0, <1>9 DEF ChanOK, Receive
  <2>3. Head(chan[p]) \in Message /\ Carries(p[1], n, Head(chan[p]), Begun)
    <3>1. PICK i \in DOMAIN chan[p] : Head(chan[p]) = chan[p][i]
      BY <2>2, Elements
    <3> QED
      BY <2>2, <3>1, SeqFacts DEF WayInv
  <2>4. e \in Event /\ Neighbour(n, e.side) = p[1]
    BY <2>1, <2>3 DEF Event, Side, Sides, Neighbour
  <2>5. Carries(Neighbour(n, e.side), n, e.m, Begun')
    BY <1>0, <2>3, <2>4, CarriesStays
  <2>6. \/ /\ UsesDefaultQueue(n, e.m)
           /\ \E t \in Threads : defaultQ' = [defaultQ EXCEPT ![n][t] = Append(@, e)]
           /\ UNCHANGED portQ
        \/ portQ' = [portQ EXCEPT ![n] = Append(@, e)] /\ UNCHANGED defaultQ
    BY <1>9 DEF Receive
  <2>7. ChanStep
    <3>1. \A r \in Pairs : chan'[r] = chan[r] \/ (r = p /\ chan'[r] = Tail(chan[p]))
      BY <1>0, <1>9 DEF Receive, ChanOK
    <3> QED
      BY <2>2, <3>1
  <2> HIDE DEF e, n, ChanStep
  <2>8. CASE portQ' = [portQ EXCEPT ![n] = Append(@, e)] /\ UNCHANGED defaultQ
    <3>1. \A i \in Hosts : portQ'[i] = portQ[i] \/ (i = n /\ portQ'[i] = Append(portQ[i], e))
      BY <1>0, <2>8 DEF QueuesOK
    <3>2. PortStep
      BY <2>4, <2>5, <3>1
    <3> HIDE DEF PortStep, DefaultStep
    <3> QED
      BY <1>1, <1>2, <2>7, <2>8, <3>2
  <2>9. ASSUME NEW t \in Threads, defaultQ' = [defaultQ EXCEPT ![n][t] = Append(@, e)],
               UsesDefaultQueue(n, e.m), UNCHANGED portQ
        PROVE  WayInv'
    <3>1. \A i \in Hosts, u \in Threads :
            \/ defaultQ'[i][u] = defaultQ[i][u]
            \/ i = n /\ u = t /\ defaultQ'[i][u] = Append(defaultQ[i][u], e)
      BY <1>0, <2>1, <2>9 DEF QueuesOK
    <3>2. Flowing(e.m) => link[n].status = "Removed"
      <4> SUFFICES ASSUME Flowing(e.m)
                   PROVE  link[n].status = "Removed"
        OBVIOUS
      <4>1. ~HasLink(n)
        BY <2>9 DEF UsesDefaultQueue, Flowing, Create
      <4>2. StartedFrom(1)
        BY <2>3 DEF Carries, Begun, e
      <4>3. Started(n)
        BY <2>1, <4>2 DEF StartedFrom, Hosts
      <4> QED
        BY <4>1, <4>3 DEF HasLink, Started, IsOpen, IsEnded, Ended
    <3>3. DefaultStep
      BY <2>4, <2>5, <3>1, <3>2
    <3> HIDE DEF PortStep, DefaultStep
    <3> QED
      BY <1>1, <1>2, <2>7, <2>9, <3>3
  <2> QED
    BY <2>6, <2>8, <2>9
<1> HIDE DEF ChanStep, PortStep, DefaultStep
<1> QED
  BY <1>3, <1>5, <1>6, <1>7, <1>8, <1>9 DEF FlowStep

LEMMA InitialWay == Init => WayInv
<1> SUFFICES ASSUME Init
             PROVE  WayInv
  OBVIOUS
<1>1. \A n \in Hosts : ~IsOpen(n)
  BY DEF Init, NoLink, IsOpen
<1> QED
  BY <1>1 DEF Init, WayInv

-----------------------------------------------------------------------------
(* The data.  f[n] is the number of pieces that host n has passed on, f[0] of  *)
(* those the beginning has written: what a host has not passed on is on its    *)
(* way to it in order, unless its link has ended.                              *)

Arrives(n, a, b) ==
  \E x \in Nat : /\ x <= b /\ DataRun(Messages(portQ[n]), a, x)
                 /\ n = 1 => x = b
                 /\ n # 1 /\ Present(n, "in") => DataRun(chan[<<n - 1, n>>], x, b)

Stream(f) ==
  /\ f[0] = limit.next /\ f[Last] = Len(got)
  /\ \A m, n \in 0 .. Last : m <= n => f[n] <= f[m]
  /\ \A n \in Hosts : IsEnded(n) \/ Arrives(n, f[n], f[n - 1])

WrittenInOrder ==
  /\ \A i \in DOMAIN sendBuf : sendBuf[i] = limit.next + i
  /\ limit.next + Len(sendBuf) = written

DataInv == /\ RelayedInOrder /\ WrittenInOrder
           /\ \E f \in [0 .. Last -> Nat] : Stream(f)

LEMMA HostNumbers ==
  /\ \A n \in Hosts : n \in 0 .. Last /\ n - 1 \in 0 .. Last /\ n - 1 # n /\ n \in Nat
  /\ 0 \in 0 .. Last /\ Last \in 0 .. Last /\ 0 # Last /\ Last \in Hosts /\ 1 \in Hosts
  /\ 0 \notin Hosts /\ \A n \in Hosts \ {Last} : n + 1 \in Hosts
  /\ \A m \in 0 .. Last : m = 0 \/ m \in Hosts
BY DEF Hosts

\* What keeps the data on its way to a host as it was.
LEMMA ArrivesStays ==
  ASSUME LinkStep, NEW n \in Hosts, NEW a \in Nat, NEW b \in Nat, Arrives(n, a, b),
         \A x \in Nat : DataRun(Messages(portQ[n]), a, x) => DataRun(Messages(portQ[n]), a, x)',
         n # 1 /\ Present(n, "in")' =>
           \A x \in Nat : DataRun(chan[<<n - 1, n>>], x, b) => DataRun(chan[<<n - 1, n>>], x, b)'
  PROVE  Arrives(n, a, b)'
<1>1. PICK x \in Nat : /\ x <= b /\ DataRun(Messages(portQ[n]), a, x)
                       /\ n = 1 => x = b
                       /\ n # 1 /\ Present(n, "in") => DataRun(chan[<<n - 1, n>>], x, b)
  BY DEF Arrives
<1>2. n # 1 /\ Present(n, "in")' => Present(n, "in")
  BY PairTypes DEF LinkStep, IsUser, Neighbour, Sides
<1>3. /\ x <= b /\ DataRun(Messages(portQ[n]), a, x)'
      /\ n = 1 => x = b
      /\ n # 1 /\ Present(n, "in")' => DataRun(chan[<<n - 1, n>>], x, b)'
  BY <1>1, <1>2
<1> QED
  BY <1>3 DEF Arrives

LEMMA SameRun ==
  ASSUME NEW n \in Hosts, NEW a \in Nat
  PROVE  /\ portQ'[n] = portQ[n] =>
              \A x \in Nat : DataRun(Messages(portQ[n]), a, x) => DataRun(Messages(portQ[n]), a, x)'
         /\ n # 1 /\ chan'[<<n - 1, n>>] = chan[<<n - 1, n>>] =>
              \A x, b \in Nat : DataRun(chan[<<n - 1, n>>], x, b) => DataRun(chan[<<n - 1, n>>], x, b)'
OBVIOUS

\* The queue of a port without its first event.
LEMMA TakenRun ==
  ASSUME QueuesOK, NEW n \in Hosts, NEW a \in Nat, NEW x \in Nat,
         portQ[n] # <<>>, portQ'[n] = Tail(portQ[n]), DataRun(Messages(portQ[n]), a, x)
  PROVE  /\ Head(portQ[n]).m.type # "Data" => DataRun(Messages(portQ[n]), a, x)'
         /\ Head(portQ[n]).m.type = "Data" =>
              /\ Head(portQ[n]).m.id = a /\ Head(portQ[n]).m.piece = a + 1
              /\ a + 1 <= x /\ DataRun(Messages(portQ[n]), a + 1, x)'
<1>1. portQ[n] \in Seq(Event)
  BY DEF QueuesOK
<1>2. /\ Messages(portQ[n]) \in Seq(Message) /\ Messages(portQ[n]) # <<>>
      /\ Head(Messages(portQ[n])) = Head(portQ[n]).m
      /\ Messages(portQ'[n]) = Tail(Messages(portQ[n]))
  BY <1>1, MessagesOf
<1> DEFINE q == Messages(portQ[n])
<1>3. /\ Head(q).type # "Data" => DataRun(Tail(q), a, x)
      /\ Head(q).type = "Data" => /\ a + 1 <= x /\ Head(q).id = a /\ Head(q).piece = a + 1
                                  /\ DataRun(Tail(q), a + 1, x)
  <2> HIDE DEF q
  <2>1. q \in Seq(Message) /\ q # <<>> /\ DataRun(q, a, x)
    BY <1>2 DEF q
  <2> QED
    BY <2>1, DataRunTail
<1>4. \A y \in Nat : DataRun(Messages(portQ[n]), y, x)' <=> DataRun(Tail(q), y, x)
  BY <1>2
<1> QED
  BY <1>2, <1>3, <1>4

LEMMA QuietData ==
  ASSUME TypeOK, LinkStep, Quiet, DataInv
  PROVE  DataInv'
<1>0. ChanOK /\ QueuesOK /\ RestOK
  BY TypeParts
<1>1. PICK f \in [0 .. Last -> Nat] : Stream(f)
  BY DEF DataInv
<1>2. UNCHANGED <<limit, got>>
  BY DEF Quiet
<1>3. ASSUME NEW n \in Hosts, ~IsEnded(n)'
      PROVE  Arrives(n, f[n], f[n - 1])'
  <2>1. ~IsEnded(n)
    BY <1>3 DEF LinkStep
  <2>2. f[n] \in Nat /\ f[n - 1] \in Nat /\ Arrives(n, f[n], f[n - 1])
    BY <1>1, <2>1, HostNumbers DEF Stream
  <2>3. ASSUME NEW x \in Nat, DataRun(Messages(portQ[n]), f[n], x)
        PROVE  DataRun(Messages(portQ[n]), f[n], x)'
    <3>1. \/ portQ'[n] = portQ[n]
          \/ /\ portQ[n] # <<>> /\ portQ'[n] = Tail(portQ[n])
             /\ Head(portQ[n]).m.type # "Data"
      BY <1>3 DEF Quiet, QuietQueues
    <3> QED
      BY <1>0, <2>2, <2>3, <3>1, TakenRun
  <2>4. ASSUME n # 1, Present(n, "in")', NEW x \in Nat, DataRun(chan[<<n - 1, n>>], x, f[n - 1])
        PROVE  DataRun(chan[<<n - 1, n>>], x, f[n - 1])'
    <3> DEFINE p == <<n - 1, n>>
    <3>1. p \in Pairs /\ p[2] = n /\ Side(p[2], p[1]) = "in" /\ chan[p] \in Seq(Message)
      <4>1. p \in Pairs /\ p[1] = n - 1 /\ p[2] = n /\ n - 1 < n
        <5>1. p \in Pairs
          BY <2>4, PairTypes
        <5>2. n - 1 < n
          BY DEF Hosts
        <5> QED
          BY <5>1, <5>2
      <4> QED
        BY <1>0, <4>1 DEF Side, ChanOK
    <3>2. \/ chan'[p] = chan[p]
          \/ \E m \in Message : ~Flowing(m) /\ chan'[p] = Append(chan[p], m)
      BY <2>4, <3>1 DEF Quiet, QuietChan
    <3> HIDE DEF p
    <3>3. ASSUME NEW m \in Message, ~Flowing(m), chan'[p] = Append(chan[p], m),
                 DataRun(chan[p], x, f[n - 1])
          PROVE  DataRun(chan'[p], x, f[n - 1])
      <4>1. chan[p] \in Seq(Message) /\ f[n] \in Nat /\ f[n - 1] \in Nat
        BY <2>2, <3>1
      <4>2. m.type # "Data"
        BY <3>3 DEF Flowing
      <4>3. DataRun(Append(chan[p], m), x, f[n - 1])
        BY ONLY <4>1, <4>2, x \in Nat, m \in Message, DataRun(chan[p], x, f[n - 1]), DataRunAppend
      <4> QED
        BY <3>3, <4>3
    <3>4. DataRun(chan[p], x, f[n - 1])
      BY <2>4 DEF p
    <3>5. DataRun(chan'[p], x, f[n - 1])
      BY <3>2, <3>3, <3>4
    <3> QED
      BY <3>5 DEF p
  <2> QED
    BY <2>2, <2>3, <2>4, ArrivesStays
<1>4. Stream(f)'
  BY <1>1, <1>2, <1>3 DEF Stream
<1>5. WrittenInOrder'
  <2>1. CASE UNCHANGED <<sendBuf, written>>
    BY <1>2, <2>1 DEF DataInv, WrittenInOrder
  <2>2. CASE written' = written + 1 /\ sendBuf' = Append(sendBuf, written')
    <3>1. sendBuf \in Seq(Nat) /\ written + 1 \in Nat /\ limit.next \in Nat
      BY <1>0 DEF RestOK
    <3>2. /\ sendBuf' \in Seq(Nat) /\ Len(sendBuf') = Len(sendBuf) + 1 /\ Len(sendBuf) \in Nat
          /\ \A i \in 1 .. Len(sendBuf) : sendBuf'[i] = sendBuf[i]
          /\ sendBuf'[Len(sendBuf) + 1] = written + 1
      BY <2>2, <3>1, SeqFacts
    <3>3. DOMAIN sendBuf = 1 .. Len(sendBuf) /\ DOMAIN sendBuf' = 1 .. Len(sendBuf) + 1
      BY <3>1, <3>2, SeqFacts
    <3>4. /\ \A i \in 1 .. Len(sendBuf) : sendBuf[i] = limit.next + i
          /\ limit.next + Len(sendBuf) = written
      BY <3>3 DEF DataInv, WrittenInOrder
    <3>5. \A i \in 1 .. Len(sendBuf) + 1 : sendBuf'[i] = limit.next + i
      <4>1. written + 1 = limit.next + (Len(sendBuf) + 1)
        BY <3>1, <3>2, <3>4
      <4>2. \A i \in 1 .. Len(sendBuf) + 1 : i \in 1 .. Len(sendBuf) \/ i = Len(sendBuf) + 1
        BY <3>2
      <4> QED
        BY <3>2, <3>4, <4>1, <4>2
    <3>6. limit.next + Len(sendBuf') = written'
      BY <2>2, <3>1, <3>2, <3>4
    <3> QED
      BY <1>2, <3>3, <3>5, <3>6 DEF WrittenInOrder
  <2> QED
    BY <2>1, <2>2 DEF Quiet
<1> QED
  BY <1>2, <1>4, <1>5 DEF DataInv, RelayedInOrder

LEMMA WritesData ==
  ASSUME TypeOK, LinkStep, Writes, DataInv
  PROVE  DataInv'
<1>0. ChanOK /\ QueuesOK /\ RestOK
  BY TypeParts
<1>1. PICK f \in [0 .. Last -> Nat] : Stream(f)
  BY DEF DataInv
<1> DEFINE e == [side |-> "in", m |-> Data(limit.next, Head(sendBuf))]
           g == [f EXCEPT ![0] = f[0] + 1]
<1>2. /\ portQ' = [portQ EXCEPT ![1] = Append(@, e)]
      /\ sendBuf # <<>> /\ sendBuf' = Tail(sendBuf) /\ limit' = AddMTU(limit)
      /\ UNCHANGED <<chan, link, got, written>>
  BY DEF Writes, ProcessConnectedSend
<1>3. sendBuf \in Seq(Nat) /\ limit.next \in Nat /\ limit'.next = limit.next + 1
  BY <1>0, <1>2 DEF RestOK, AddMTU
<1>4. /\ Len(sendBuf) \in Nat /\ Len(sendBuf) >= 1 /\ DOMAIN sendBuf = 1 .. Len(sendBuf)
      /\ Head(sendBuf) = sendBuf[1] /\ sendBuf' \in Seq(Nat) /\ Len(sendBuf') = Len(sendBuf) - 1
      /\ \A i \in 1 .. Len(sendBuf) - 1 : sendBuf'[i] = sendBuf[i + 1]
  BY <1>2, <1>3, SeqFacts
<1>5. /\ \A i \in 1 .. Len(sendBuf) : sendBuf[i] = limit.next + i
      /\ limit.next + Len(sendBuf) = written
  BY <1>4 DEF DataInv, WrittenInOrder
<1>6. WrittenInOrder'
  <2>1. DOMAIN sendBuf' = 1 .. Len(sendBuf) - 1
    BY <1>4, SeqFacts
  <2>2. \A i \in 1 .. Len(sendBuf) - 1 : sendBuf'[i] = limit'.next + i
    <3> SUFFICES ASSUME NEW i \in 1 .. Len(sendBuf) - 1
                 PROVE  sendBuf'[i] = limit'.next + i
      OBVIOUS
    <3>1. i + 1 \in 1 .. Len(sendBuf) /\ sendBuf'[i] = sendBuf[i + 1]
      BY <1>4
    <3>2. sendBuf[i + 1] = limit.next + (i + 1)
      BY <1>5, <3>1
    <3>3. limit.next + (i + 1) = (limit.next + 1) + i
      BY <1>3
    <3> QED
      BY <1>3, <3>1, <3>2, <3>3
  <2>3. limit'.next + Len(sendBuf') = written'
    BY <1>2, <1>3, <1>4, <1>5
  <2> QED
    BY <2>1, <2>2, <2>3 DEF WrittenInOrder
<1>7. Head(sendBuf) = limit.next + 1
  BY <1>4, <1>5
<1>8. e \in Event /\ e.m \in Message /\ e.m.type = "Data" /\ e.m.id = limit.next /\ e.m.piece = limit.next + 1
  <2>1. Data(limit.next, limit.next + 1) \in Message
    BY <1>3, MessageTypes
  <2> QED
    BY <1>7, <2>1 DEF Event, Sides, Data
<1> HIDE DEF e
<1>9. f[0] \in Nat /\ f[0] = limit.next
  BY <1>1, HostNumbers DEF Stream
<1>10. g \in [0 .. Last -> Nat] /\ g[0] = f[0] + 1 /\ \A m \in Hosts : g[m] = f[m]
  BY <1>9, HostNumbers
<1> HIDE DEF g
<1>11. \A m, n \in 0 .. Last : m <= n => g[n] <= g[m]
  <2> SUFFICES ASSUME NEW m \in 0 .. Last, NEW n \in 0 .. Last, m <= n
               PROVE  g[n] <= g[m]
    OBVIOUS
  <2>1. f[n] <= f[m] /\ f[n] \in Nat /\ f[m] \in Nat
    BY <1>1 DEF Stream
  <2>2. CASE n = 0
    <3>1. m = 0
      BY <2>2
    <3> QED
      BY <1>9, <1>10, <2>2, <3>1
  <2>3. CASE n # 0
    <3>1. g[n] = f[n] /\ (g[m] = f[m] \/ g[m] = f[m] + 1)
      BY <1>10, <2>3, HostNumbers
    <3> QED
      BY <2>1, <3>1
  <2> QED
    BY <2>2, <2>3
<1>12. ASSUME NEW n \in Hosts, ~IsEnded(n)'
       PROVE  Arrives(n, g[n], g[n - 1])'
  <2>1. ~IsEnded(n)
    BY <1>12 DEF LinkStep
  <2>2. f[n] \in Nat /\ f[n - 1] \in Nat /\ Arrives(n, f[n], f[n - 1]) /\ g[n] = f[n]
    BY <1>1, <1>10, <2>1, HostNumbers DEF Stream
  <2>3. CASE n = 1
    <3>1. DataRun(Messages(portQ[1]), f[1], f[0])
      BY <2>2, <2>3 DEF Arrives
    <3>2. portQ[1] \in Seq(Event) /\ portQ'[1] = Append(portQ[1], e)
      BY <1>0, <1>2, HostNumbers DEF QueuesOK
    <3>3. Messages(portQ'[1]) = Append(Messages(portQ[1]), e.m) /\ Messages(portQ[1]) \in Seq(Message)
      BY <1>8, <3>2, MessagesOf
    <3>4. DataRun(Messages(portQ'[1]), f[1], f[0] + 1)
      BY <1>8, <1>9, <2>2, <2>3, <3>1, <3>3, DataRunAppend
    <3>5. g[1] = f[1] /\ g[0] = f[0] + 1 /\ f[0] + 1 \in Nat /\ f[0] + 1 <= f[0] + 1
      BY <1>9, <1>10, HostNumbers
    <3>6. DataRun(Messages(portQ[1]), g[1], g[0])'
      BY <3>4, <3>5
    <3>7. Arrives(1, g[1], g[0])'
      BY <3>5, <3>6 DEF Arrives
    <3> QED
      BY <2>3, <3>7
  <2>4. CASE n # 1
    <3>1. n - 1 \in Hosts
      BY <2>4, PairTypes
    <3>2. g[n - 1] = f[n - 1]
      BY <1>10, <3>1
    <3>3. portQ'[n] = portQ[n] /\ UNCHANGED chan
      BY <1>0, <1>2, <2>4 DEF QueuesOK
    <3>4. Arrives(n, f[n], f[n - 1])'
      BY <2>2, <3>3, SameRun, ArrivesStays
    <3> QED
      BY <2>2, <3>2, <3>4
  <2> QED
    BY <2>3, <2>4
<1>13. Stream(g)'
  <2>1. g[0] = limit'.next /\ g[Last] = Len(got')
    BY <1>1, <1>2, <1>3, <1>9, <1>10, HostNumbers DEF Stream
  <2> QED
    BY <1>11, <1>12, <2>1 DEF Stream
<1> QED
  BY <1>2, <1>6, <1>10, <1>13 DEF DataInv, RelayedInOrder

\* Where a message is sent to.
LEMMA SentTo ==
  ASSUME ChanOK, NEW n \in Hosts, NEW s \in Sides, NEW m \in Message, chan' = Sent(n, {s}, m)
  PROVE  /\ s = "in" => \A i \in Hosts \ {1} : chan'[<<i - 1, i>>] = chan[<<i - 1, i>>]
         /\ s = "in" => \A i \in Hosts \ {Last} :
              \/ chan'[<<i + 1, i>>] = chan[<<i + 1, i>>]
              \/ i + 1 = n /\ chan'[<<i + 1, i>>] = Append(chan[<<i + 1, i>>], m)
         /\ s = "out" => \A i \in Hosts \ {Last} : chan'[<<i + 1, i>>] = chan[<<i + 1, i>>]
         /\ s = "out" => \A i \in Hosts \ {1} :
              \/ chan'[<<i - 1, i>>] = chan[<<i - 1, i>>]
                 /\ (i - 1 = n => ~Present(i, "in"))
              \/ i - 1 = n /\ chan'[<<i - 1, i>>] = Append(chan[<<i - 1, i>>], m)
<1> DEFINE to == Neighbour(n, s)
<1>1. \A p \in Pairs : IF p[1] = n /\ p[2] = to /\ peer[p[2]][Side(p[2], n)] # "Gone"
                         THEN chan'[p] = Append(chan[p], m) ELSE chan'[p] = chan[p]
  BY DEF Sent
<1>2. n \in Nat /\ \A i \in Hosts : i \in Nat
  BY DEF Hosts
<1>3. /\ \A i \in Hosts \ {1} : <<i - 1, i>> \in Pairs
      /\ \A i \in Hosts \ {Last} : <<i + 1, i>> \in Pairs
  BY PairTypes, HostNumbers
<1>4. s = "in" => to = n - 1
  BY DEF Neighbour
<1>5. s = "out" => to = n + 1
  BY DEF Neighbour
<1> HIDE DEF to
<1>6. \A i \in Hosts \ {1} : IF i - 1 = n /\ i = to /\ peer[i][Side(i, n)] # "Gone"
                               THEN chan'[<<i - 1, i>>] = Append(chan[<<i - 1, i>>], m)
                               ELSE chan'[<<i - 1, i>>] = chan[<<i - 1, i>>]
  BY <1>1, <1>3
<1>7. \A i \in Hosts \ {Last} : IF i + 1 = n /\ i = to /\ peer[i][Side(i, n)] # "Gone"
                                  THEN chan'[<<i + 1, i>>] = Append(chan[<<i + 1, i>>], m)
                                  ELSE chan'[<<i + 1, i>>] = chan[<<i + 1, i>>]
  BY <1>1, <1>3
<1>8. \A i \in Hosts : i - 1 = n => Side(i, n) = "in" /\ i = n + 1
  BY <1>2 DEF Side
<1>9. ASSUME s = "in"
      PROVE  /\ \A i \in Hosts : ~(i - 1 = n /\ i = to)
             /\ \A i \in Hosts : i + 1 = n => i = to
  BY <1>2, <1>4, <1>9
<1>10. ASSUME s = "out"
       PROVE  /\ \A i \in Hosts : ~(i + 1 = n /\ i = to)
              /\ \A i \in Hosts : i - 1 = n => i = to
  BY <1>2, <1>5, <1>10
<1>11. CASE s = "in"
  BY <1>6, <1>7, <1>9, <1>11
<1>12. CASE s = "out"
  BY <1>6, <1>7, <1>8, <1>10, <1>12 DEF Present
<1> QED
  BY <1>11, <1>12 DEF Sides

LEMMA TakesQueues ==
  ASSUME QueuesOK, NEW n \in Hosts, Takes(n)
  PROVE  /\ portQ[n] # <<>> /\ portQ'[n] = Tail(portQ[n])
         /\ \A i \in Hosts \ {n} : portQ'[i] = portQ[i]
         /\ Head(portQ[n]) \in Event /\ Head(portQ[n]).m \in Message
BY EventFields, SeqFacts DEF Takes, QueuesOK

\* An acknowledgement is passed on, or gets to the beginning.
LEMMA AckedData ==
  ASSUME TypeOK, LinkStep, NEW n \in Hosts, (Credits /\ n = 1) \/ PassesAck(n), DataInv
  PROVE  DataInv'
<1>0. ChanOK /\ QueuesOK /\ RestOK
  BY TypeParts
<1>1. PICK f \in [0 .. Last -> Nat] : Stream(f)
  BY DEF DataInv
<1>2. Takes(n) /\ Head(portQ[n]).m.type = "Ack"
  BY DEF Credits, PassesAck
<1>3. UNCHANGED <<got, sendBuf, written>> /\ limit'.next = limit.next
  BY <1>0, <1>2 DEF Credits, PassesAck, Takes, AckMTU, RestOK
<1>4. \A i \in Hosts \ {1} : chan'[<<i - 1, i>>] = chan[<<i - 1, i>>]
  <2>1. CASE UNCHANGED chan
    BY <2>1
  <2>2. CASE chan' = Sent(n, {"in"}, Head(portQ[n]).m)
    BY <1>0, <1>2, <2>2, SentTo, TakesQueues DEF Sides
  <2> QED
    BY <2>1, <2>2 DEF Credits, PassesAck
<1>5. ASSUME NEW i \in Hosts, ~IsEnded(i)'
      PROVE  Arrives(i, f[i], f[i - 1])'
  <2>1. ~IsEnded(i)
    BY <1>5 DEF LinkStep
  <2>2. f[i] \in Nat /\ f[i - 1] \in Nat /\ Arrives(i, f[i], f[i - 1])
    BY <1>1, <2>1, HostNumbers DEF Stream
  <2>3. ASSUME NEW x \in Nat, DataRun(Messages(portQ[i]), f[i], x)
        PROVE  DataRun(Messages(portQ[i]), f[i], x)'
    <3>1. CASE i # n
      BY <1>0, <1>2, <2>3, <3>1, TakesQueues
    <3>2. CASE i = n
      BY <1>0, <1>2, <2>2, <2>3, <3>2, TakesQueues, TakenRun
    <3> QED
      BY <3>1, <3>2
  <2>4. ASSUME i # 1, NEW x \in Nat, DataRun(chan[<<i - 1, i>>], x, f[i - 1])
        PROVE  DataRun(chan[<<i - 1, i>>], x, f[i - 1])'
    BY <1>4, <2>4
  <2> QED
    BY <2>2, <2>3, <2>4, ArrivesStays
<1>6. Stream(f)'
  BY <1>1, <1>3, <1>5 DEF Stream
<1>7. WrittenInOrder'
  BY <1>3 DEF DataInv, WrittenInOrder
<1> QED
  BY <1>3, <1>6, <1>7 DEF DataInv, RelayedInOrder

\* A piece of data gets past a host: to the next, or at the end to its user.
LEMMA PassedStream ==
  ASSUME TypeOK, LinkStep, NEW n \in Hosts, Takes(n), Head(portQ[n]).m.type = "Data",
         NEW f \in [0 .. Last -> Nat], Stream(f), UNCHANGED limit,
         \A i \in Hosts \ {1} :
           \/ chan'[<<i - 1, i>>] = chan[<<i - 1, i>>] /\ (i - 1 = n => ~Present(i, "in"))
           \/ i - 1 = n /\ chan'[<<i - 1, i>>] = Append(chan[<<i - 1, i>>], Head(portQ[n]).m),
         Len(got') = IF n = Last THEN Len(got) + 1 ELSE Len(got)
  PROVE  /\ Head(portQ[n]).m.id = f[n] /\ Head(portQ[n]).m.piece = f[n] + 1
         /\ \E g \in [0 .. Last -> Nat] : Stream(g)'
<1> DEFINE m == Head(portQ[n]).m
           g == [f EXCEPT ![n] = f[n] + 1]
<1>0. ChanOK /\ QueuesOK /\ RestOK
  BY TypeParts
<1>1. f[n] \in Nat /\ f[n - 1] \in Nat /\ Arrives(n, f[n], f[n - 1])
  BY HostNumbers DEF Stream, Takes
<1>2. PICK x \in Nat : /\ x <= f[n - 1] /\ DataRun(Messages(portQ[n]), f[n], x)
                       /\ n = 1 => x = f[n - 1]
                       /\ n # 1 /\ Present(n, "in") => DataRun(chan[<<n - 1, n>>], x, f[n - 1])
  BY <1>1 DEF Arrives
<1>3. /\ m.id = f[n] /\ m.piece = f[n] + 1 /\ m \in Message
      /\ f[n] + 1 <= x /\ DataRun(Messages(portQ[n]), f[n] + 1, x)'
  BY <1>0, <1>1, <1>2, TakesQueues, TakenRun
<1>4. g \in [0 .. Last -> Nat] /\ g[n] = f[n] + 1 /\ \A i \in 0 .. Last : i # n => g[i] = f[i]
  BY <1>1, HostNumbers
<1> HIDE DEF g
<1>5. f[n] + 1 <= f[n - 1]
  BY <1>1, <1>2, <1>3
<1>6. \A i, j \in 0 .. Last : i <= j => g[j] <= g[i]
  <2> SUFFICES ASSUME NEW i \in 0 .. Last, NEW j \in 0 .. Last, i <= j
               PROVE  g[j] <= g[i]
    OBVIOUS
  <2>1. f[j] <= f[i] /\ f[i] \in Nat /\ f[j] \in Nat
    BY DEF Stream
  <2>2. CASE j # n
    <3>1. g[j] = f[j] /\ (g[i] = f[i] \/ g[i] = f[i] + 1)
      BY <1>4, <2>2
    <3> QED
      BY <2>1, <3>1
  <2>3. CASE j = n /\ i # n
    <3>1. i <= n - 1
      BY <2>3, HostNumbers
    <3>2. f[n - 1] <= f[i]
      BY <3>1, HostNumbers DEF Stream
    <3>3. g[j] = f[n] + 1 /\ g[i] = f[i]
      BY <1>4, <2>3
    <3> QED
      BY <1>1, <1>5, <2>1, <3>2, <3>3
  <2>4. CASE j = n /\ i = n
    BY <1>1, <1>4, <2>4
  <2> QED
    BY <2>2, <2>3, <2>4
<1>7. Arrives(n, g[n], g[n - 1])'
  <2>1. g[n - 1] = f[n - 1] /\ g[n] = f[n] + 1
    BY <1>4, HostNumbers
  <2>2. n # 1 => chan'[<<n - 1, n>>] = chan[<<n - 1, n>>]
    BY HostNumbers
  <2>3. n # 1 /\ Present(n, "in")' => Present(n, "in")
    BY PairTypes DEF LinkStep, IsUser, Neighbour, Sides
  <2>4. n # 1 /\ Present(n, "in")' => DataRun(chan[<<n - 1, n>>], x, f[n - 1])'
    BY <1>2, <2>2, <2>3
  <2>5. Arrives(n, f[n] + 1, f[n - 1])'
    BY <1>2, <1>3, <2>4 DEF Arrives
  <2> QED
    BY <2>1, <2>5
<1>8. ASSUME NEW i \in Hosts, ~IsEnded(i)', i # n
      PROVE  Arrives(i, g[i], g[i - 1])'
  <2>1. ~IsEnded(i) /\ portQ'[i] = portQ[i] /\ g[i] = f[i]
    BY <1>0, <1>4, <1>8, TakesQueues, HostNumbers DEF LinkStep
  <2>2. f[i] \in Nat /\ f[i - 1] \in Nat /\ Arrives(i, f[i], f[i - 1])
    BY <2>1, HostNumbers DEF Stream
  <2>3. CASE i = 1 \/ i - 1 # n
    <3>1. g[i - 1] = f[i - 1]
      <4>1. i = 1 => i - 1 # n
        BY HostNumbers
      <4> QED
        BY <1>4, <2>3, <4>1, HostNumbers
    <3>2. i # 1 => chan'[<<i - 1, i>>] = chan[<<i - 1, i>>]
      BY <2>3
    <3>3. Arrives(i, f[i], f[i - 1])'
      BY <2>1, <2>2, <3>2, SameRun, ArrivesStays
    <3> QED
      BY <2>1, <3>1, <3>3
  <2>4. CASE i # 1 /\ i - 1 = n
    <3>1. PICK y \in Nat : /\ y <= f[n] /\ DataRun(Messages(portQ[i]), f[i], y)
                           /\ Present(i, "in") => DataRun(chan[<<i - 1, i>>], y, f[n])
      BY <2>2, <2>4 DEF Arrives
    <3>2. Present(i, "in")' => Present(i, "in")
      BY <2>4, PairTypes DEF LinkStep, IsUser, Neighbour, Sides
    <3>3. ASSUME Present(i, "in")'
          PROVE  DataRun(chan[<<i - 1, i>>], y, f[n] + 1)'
      <4> DEFINE q == chan[<<i - 1, i>>]
      <4>1. q \in Seq(Message)
        BY <1>0, <2>4, PairTypes DEF ChanOK
      <4>2. chan'[<<i - 1, i>>] = Append(q, m)
        BY <2>4, <3>2, <3>3
      <4>3. DataRun(q, y, f[n])
        BY <3>1, <3>2, <3>3
      <4> HIDE DEF q, m
      <4>4. DataRun(Append(q, m), y, f[n] + 1)
        <5>1. m.type = "Data"
          BY DEF m
        <5> QED
          BY <1>1, <1>3, <4>1, <4>3, <5>1, DataRunAppend
      <4>5. DataRun(chan'[<<i - 1, i>>], y, f[n] + 1)
        BY <4>2, <4>4
      <4> QED
        BY <4>5
    <3>4. y <= f[n] + 1 /\ f[n] + 1 \in Nat
      BY <1>1, <3>1
    <3>5. DataRun(Messages(portQ[i]), f[i], y)'
      BY <2>1, <3>1
    <3>6. Arrives(i, f[i], f[n] + 1)'
      BY <2>4, <3>3, <3>4, <3>5 DEF Arrives
    <3>7. g[i - 1] = f[n] + 1
      BY <1>4, <2>4
    <3> QED
      BY <2>1, <3>6, <3>7
  <2> QED
    BY <2>3, <2>4
<1>9. Stream(g)'
  <2>1. g[0] = limit'.next
    BY <1>4, HostNumbers DEF Stream
  <2>2. g[Last] = Len(got')
    BY <1>4, HostNumbers DEF Stream
  <2> QED
    BY <1>6, <1>7, <1>8, <2>1, <2>2 DEF Stream
<1> QED
  BY <1>3, <1>4, <1>9

LEMMA PassesDataData ==
  ASSUME TypeOK, LinkStep, NEW n \in Hosts, PassesData(n), DataInv
  PROVE  DataInv'
<1>0. ChanOK /\ QueuesOK /\ RestOK
  BY TypeParts
<1>1. PICK f \in [0 .. Last -> Nat] : Stream(f)
  BY DEF DataInv
<1>2. /\ Takes(n) /\ Head(portQ[n]).m.type = "Data" /\ n # Last
      /\ UNCHANGED <<limit, got, sendBuf, written>>
  BY DEF PassesData, Takes
<1>3. \A i \in Hosts \ {1} :
        \/ chan'[<<i - 1, i>>] = chan[<<i - 1, i>>] /\ (i - 1 = n => ~Present(i, "in"))
        \/ i - 1 = n /\ chan'[<<i - 1, i>>] = Append(chan[<<i - 1, i>>], Head(portQ[n]).m)
  <2>1. Head(portQ[n]).m \in Message
    BY <1>0, <1>2, TakesQueues
  <2> QED
    BY <1>0, <2>1, SentTo DEF PassesData, Sides
<1>4. \E g \in [0 .. Last -> Nat] : Stream(g)'
  BY <1>1, <1>2, <1>3, PassedStream
<1> QED
  BY <1>2, <1>4 DEF DataInv, RelayedInOrder, WrittenInOrder

LEMMA DeliversData ==
  ASSUME TypeOK, LinkStep, Delivers, DataInv
  PROVE  DataInv'
<1>0. ChanOK /\ QueuesOK /\ RestOK /\ Last \in Hosts
  BY TypeParts, HostNumbers
<1>1. PICK f \in [0 .. Last -> Nat] : Stream(f)
  BY DEF DataInv
<1> DEFINE m == Head(portQ[Last]).m
<1>2. /\ Takes(Last) /\ m.type = "Data" /\ got' = Append(got, m)
      /\ chan' = chan \/ chan' = Sent(Last, {"in"}, Ack(m.id))
      /\ UNCHANGED <<limit, sendBuf, written>>
  BY DEF Delivers, Takes
<1>3. m \in DataMessage /\ Ack(m.id) \in Message
  <2>1. Head(portQ[Last]) \in Event
    BY <1>0, <1>2, TakesQueues
  <2> QED
    BY <1>2, <2>1, EventFields, MessageTypes
<1>4. /\ Len(got) \in Nat /\ DOMAIN got = 1 .. Len(got)
      /\ Len(got') = Len(got) + 1 /\ DOMAIN got' = 1 .. Len(got) + 1
      /\ \A i \in 1 .. Len(got) : got'[i] = got[i]
      /\ got'[Len(got) + 1] = m
  <2>1. got \in Seq(DataMessage)
    BY <1>0 DEF RestOK
  <2>2. Append(got, m) \in Seq(DataMessage)
    BY <1>3, <2>1, SeqFacts
  <2> HIDE DEF m
  <2> QED
    BY <1>2, <1>3, <2>1, <2>2, SeqFacts
<1>5. \A i \in Hosts \ {1} : chan'[<<i - 1, i>>] = chan[<<i - 1, i>>] /\ i - 1 # Last
  <2>1. \A i \in Hosts : i - 1 # Last
    BY DEF Hosts
  <2> HIDE DEF m
  <2>2. \A i \in Hosts \ {1} : chan'[<<i - 1, i>>] = chan[<<i - 1, i>>]
    BY <1>0, <1>2, <1>3, SentTo DEF Sides
  <2> QED
    BY <2>1, <2>2
<1>6. /\ m.piece = f[Last] + 1
      /\ \E g \in [0 .. Last -> Nat] : Stream(g)'
  BY <1>0, <1>1, <1>2, <1>4, <1>5, PassedStream
<1>7. RelayedInOrder'
  <2> SUFFICES ASSUME NEW i \in 1 .. Len(got) + 1
               PROVE  got'[i].piece = i
    BY <1>4 DEF RelayedInOrder
  <2>1. CASE i \in 1 .. Len(got)
    BY <1>4, <2>1 DEF DataInv, RelayedInOrder
  <2>2. CASE i \notin 1 .. Len(got)
    <3>1. i = Len(got) + 1
      BY <1>4, <2>2
    <3>2. f[Last] = Len(got)
      BY <1>1 DEF Stream
    <3> QED
      BY <1>4, <1>6, <3>1, <3>2
  <2> QED
    BY <2>1, <2>2
<1> QED
  BY <1>2, <1>6, <1>7 DEF DataInv, WrittenInOrder

LEMMA ReceivesData ==
  ASSUME TypeOK, WayInv, LinkStep, NEW p \in Pairs, Receive(p), DataInv
  PROVE  DataInv'
<1> DEFINE n == p[2]
           m == Head(chan[p])
           e == [side |-> Side(n, p[1]), m |-> m]
<1>0. ChanOK /\ QueuesOK /\ RestOK /\ n \in Hosts /\ n \in Nat
  BY TypeParts, PairTypes
<1>1. PICK f \in [0 .. Last -> Nat] : Stream(f)
  BY DEF DataInv
<1>2. /\ chan[p] # <<>> /\ chan' = [chan EXCEPT ![p] = Tail(@)]
      /\ peer[n][Side(n, p[1])] = "Ready"
      /\ IF UsesDefaultQueue(n, m)
           THEN UNCHANGED portQ
           ELSE portQ' = [portQ EXCEPT ![n] = Append(@, e)]
      /\ UNCHANGED <<link, limit, got, sendBuf, written>>
  BY DEF Receive
<1>3. chan[p] \in Seq(Message) /\ m \in Message /\ e \in Event
  <2>1. chan[p] \in Seq(Message)
    BY <1>0 DEF ChanOK
  <2>2. m \in Message
    BY <1>2, <2>1
  <2> QED
    BY <2>1, <2>2 DEF Event, Side, Sides
<1>4. m.type = "Data" => p[1] < p[2] /\ Started(n)
  <2>1. PICK i \in DOMAIN chan[p] : m = chan[p][i]
    BY <1>2, <1>3, Elements
  <2>2. Carries(p[1], p[2], m, Begun)
    BY <2>1 DEF WayInv
  <2> HIDE DEF m
  <2>3. m.type = "Data" => p[1] < p[2] /\ StartedFrom(1)
    BY <2>2 DEF Carries, Flowing, Begun
  <2> QED
    BY <1>0, <2>3 DEF StartedFrom, Hosts
<1>5. /\ chan'[p] = Tail(chan[p]) /\ \A r \in Pairs : r # p => chan'[r] = chan[r]
      /\ \A i \in Hosts : i # n => portQ'[i] = portQ[i]
      /\ portQ'[n] = IF UsesDefaultQueue(n, m) THEN portQ[n] ELSE Append(portQ[n], e)
  BY <1>0, <1>2 DEF ChanOK, QueuesOK
<1>6. p[1] = n - 1 \/ p[1] = n + 1
  BY PairTypes
<1> HIDE DEF m, e, n
<1>7. ASSUME NEW i \in Hosts, ~IsEnded(i)'
      PROVE  Arrives(i, f[i], f[i - 1])'
  <2>1. ~IsEnded(i)
    BY <1>7 DEF LinkStep
  <2>2. f[i] \in Nat /\ f[i - 1] \in Nat /\ Arrives(i, f[i], f[i - 1])
    BY <1>1, <2>1, HostNumbers DEF Stream
  <2>3. CASE i # n
    <3>1. portQ'[i] = portQ[i]
      BY <1>5, <2>3
    <3>2. i # 1 => chan'[<<i - 1, i>>] = chan[<<i - 1, i>>]
      <4>1. ASSUME i # 1
            PROVE  <<i - 1, i>> \in Pairs /\ <<i - 1, i>> # p
        <5>1. <<i - 1, i>> \in Pairs
          BY <4>1, PairTypes
        <5>2. <<i - 1, i>>[2] = i
          OBVIOUS
        <5>3. <<i - 1, i>> # p
          BY <2>3, <5>2 DEF n
        <5> QED
          BY <5>1, <5>3
      <4> QED
        BY <1>5, <4>1
    <3> QED
      BY <2>2, <3>1, <3>2, SameRun, ArrivesStays
  <2>4. CASE i = n /\ m.type # "Data"
    <3>1. ASSUME NEW x \in Nat, DataRun(Messages(portQ[i]), f[i], x)
          PROVE  DataRun(Messages(portQ[i]), f[i], x)'
      <4>1. portQ[i] \in Seq(Event)
        BY <1>0 DEF QueuesOK
      <4>2. /\ Messages(Append(portQ[i], e)) = Append(Messages(portQ[i]), m)
            /\ Messages(portQ[i]) \in Seq(Message)
        BY <1>3, <4>1, MessagesOf DEF e
      <4>3. DataRun(Append(Messages(portQ[i]), m), f[i], x)
        BY <1>3, <2>2, <2>4, <3>1, <4>2, DataRunAppend
      <4>4. DataRun(Messages(portQ'[i]), f[i], x)
        BY <1>5, <2>4, <3>1, <4>2, <4>3
      <4> QED
        BY <4>4
    <3>2. ASSUME i # 1, NEW x \in Nat, DataRun(chan[<<i - 1, i>>], x, f[i - 1])
          PROVE  DataRun(chan[<<i - 1, i>>], x, f[i - 1])'
      <4> DEFINE r == <<i - 1, i>>
      <4>1. r \in Pairs
        BY <3>2, PairTypes
      <4> HIDE DEF r
      <4>2. DataRun(chan[r], x, f[i - 1])
        BY <3>2 DEF r
      <4>3. CASE r # p
        <5>1. DataRun(chan'[r], x, f[i - 1])
          BY <1>5, <4>1, <4>2, <4>3
        <5> QED
          BY <5>1 DEF r
      <4>4. CASE r = p
        <5>1. DataRun(Tail(chan[p]), x, f[i - 1])
          BY <1>2, <1>3, <2>2, <2>4, <4>2, <4>4, DataRunTail DEF m
        <5>2. DataRun(chan'[r], x, f[i - 1])
          BY <1>5, <4>4, <5>1
        <5> QED
          BY <5>2 DEF r
      <4> QED
        BY <4>3, <4>4
    <3> QED
      BY <2>2, <3>1, <3>2, ArrivesStays
  <2>5. CASE i = n /\ m.type = "Data"
    <3>1. p[1] = n - 1 /\ p = <<n - 1, n>> /\ n # 1
      <4>1. p = <<p[1], p[2]>> /\ p[1] \in Hosts
        BY PairTypes
      <4>2. p[1] = n - 1
        BY <1>0, <1>4, <1>6, <2>5 DEF n
      <4>3. n # 1
        BY <4>1, <4>2, HostNumbers
      <4> QED
        BY <4>1, <4>2, <4>3 DEF n
    <3>2. Present(n, "in")
      <4>1. Side(n, p[1]) = "in"
        BY <1>0, <3>1 DEF Side
      <4> QED
        BY <1>2, <4>1 DEF Present
    <3>3. PICK x \in Nat : /\ x <= f[n - 1] /\ DataRun(Messages(portQ[n]), f[n], x)
                           /\ DataRun(chan[p], x, f[n - 1])
      BY <2>2, <2>5, <3>1, <3>2 DEF Arrives
    <3>4. /\ x + 1 <= f[n - 1] /\ m.id = x /\ m.piece = x + 1
          /\ DataRun(Tail(chan[p]), x + 1, f[n - 1])
      BY <1>2, <1>3, <2>2, <2>5, <3>3, DataRunTail DEF m
    <3>5. portQ'[n] = Append(portQ[n], e)
      <4>1. HasLink(n)
        BY <1>4, <2>1, <2>5 DEF Started, IsOpen, HasLink
      <4>2. ~UsesDefaultQueue(n, m)
        BY <2>5, <4>1 DEF UsesDefaultQueue
      <4> QED
        BY <1>5, <4>2
    <3>6. DataRun(Messages(portQ'[n]), f[n], x + 1)
      <4>1. portQ[n] \in Seq(Event)
        BY <1>0 DEF QueuesOK
      <4>2. /\ Messages(Append(portQ[n], e)) = Append(Messages(portQ[n]), m)
            /\ Messages(portQ[n]) \in Seq(Message)
        BY <1>3, <4>1, MessagesOf DEF e
      <4>3. DataRun(Append(Messages(portQ[n]), m), f[n], x + 1)
        BY <1>3, <2>2, <2>5, <3>3, <3>4, <4>2, DataRunAppend
      <4> QED
        BY <3>5, <4>2, <4>3
    <3>7. DataRun(chan'[<<n - 1, n>>], x + 1, f[n - 1])
      BY <1>5, <3>1, <3>4
    <3>8. x + 1 \in Nat
      OBVIOUS
    <3>9. Arrives(n, f[n], f[n - 1])'
      BY <3>1, <3>4, <3>6, <3>7, <3>8 DEF Arrives
    <3> QED
      BY <2>5, <3>9
  <2> QED
    BY <2>3, <2>4, <2>5
<1>8. Stream(f)'
  BY <1>1, <1>2, <1>7 DEF Stream
<1> QED
  BY <1>2, <1>8 DEF DataInv, RelayedInOrder, WrittenInOrder

LEMMA NextData == TypeOK /\ WayInv /\ DataInv /\ FlowStep => DataInv'
<1> SUFFICES ASSUME TypeOK, WayInv, DataInv, FlowStep
             PROVE  DataInv'
  OBVIOUS
<1> QED
  BY HostNumbers, QuietData, WritesData, DeliversData, AckedData, ReceivesData, PassesDataData DEF FlowStep

LEMMA InitialData == Init => DataInv
<1> SUFFICES ASSUME Init
             PROVE  DataInv
  OBVIOUS
<1>1. /\ limit.next = 0 /\ got = <<>> /\ sendBuf = <<>> /\ written = 0
      /\ \A n \in Hosts : portQ[n] = <<>> /\ \A p \in Pairs : chan[p] = <<>>
  BY DEF Init
<1>2. Len(<<>>) = 0 /\ DOMAIN <<>> = {} /\ Messages(<<>>) = <<>>
  <2>1. Len(<<>>) = 0 /\ DOMAIN <<>> = {}
    OBVIOUS
  <2> QED
    BY <2>1 DEF Messages
<1> DEFINE f == [i \in 0 .. Last |-> 0]
<1>3. f \in [0 .. Last -> Nat] /\ \A i \in 0 .. Last : f[i] = 0
  OBVIOUS
<1> HIDE DEF f
<1>4. DataRun(<<>>, 0, 0)
  BY RunEmpty
<1>5. \A n \in Hosts : Arrives(n, 0, 0)
  <2> SUFFICES ASSUME NEW n \in Hosts
               PROVE  Arrives(n, 0, 0)
    OBVIOUS
  <2>1. DataRun(Messages(portQ[n]), 0, 0)
    BY <1>1, <1>2, <1>4
  <2>2. n # 1 => DataRun(chan[<<n - 1, n>>], 0, 0)
    BY <1>1, <1>4, PairTypes
  <2> QED
    BY <2>1, <2>2 DEF Arrives
<1>6. Stream(f)
  <2>1. \A n \in Hosts : Arrives(n, f[n], f[n - 1])
    BY <1>3, <1>5, HostNumbers
  <2>2. f[0] = limit.next /\ f[Last] = Len(got)
    BY <1>1, <1>2, <1>3, HostNumbers
  <2>3. \A m, n \in 0 .. Last : m <= n => f[n] <= f[m]
    BY <1>3
  <2> QED
    BY <2>1, <2>2, <2>3 DEF Stream
<1>7. RelayedInOrder /\ WrittenInOrder
  BY <1>1, <1>2 DEF RelayedInOrder, WrittenInOrder
<1> QED
  BY <1>3, <1>6, <1>7 DEF DataInv
-----------------------------------------------------------------------------
(* The acknowledgements.  h[n] bounds what host n has acknowledged to the one  *)
(* before it, h[1] what the beginning's window has been given back: the        *)
(* acknowledgements on their way to a host are between its own and the next's. *)

Returns(n, a, b) ==
  \E x \in Nat : /\ AckRun(Messages(portQ[n]), a, x)
                 /\ AckRun(chan[<<n + 1, n>>], x, b)

AckInv ==
  /\ limit.inUse <= NumMTUsPerWindow
  /\ \E h \in [Hosts -> Nat] :
       /\ limit.next - limit.inUse <= h[1] /\ h[Last] <= Len(got)
       /\ \A m, n \in Hosts : m <= n => h[m] <= h[n]
       /\ \A n \in Hosts \ {Last} : Returns(n, h[n], h[n + 1])

LEMMA AckRunWeaken ==
  ASSUME NEW q \in Seq(Message), NEW a \in Nat, NEW b \in Nat, NEW z \in Nat, AckRun(q, a, b), b <= z
  PROVE  AckRun(q, a, z)
<1>1. PICK c \in [0 .. Len(q) -> Nat] :
        /\ \A i \in 0 .. Len(q) : a <= c[i] /\ c[i] <= b
        /\ \A i, j \in 0 .. Len(q) : i <= j => c[i] <= c[j]
        /\ \A i \in 1 .. Len(q) : q[i].type = "Ack" => c[i - 1] <= q[i].id /\ q[i].id < c[i]
  BY DEF AckRun
<1>2. \A i \in 0 .. Len(q) : a <= c[i] /\ c[i] <= z
  <2> SUFFICES ASSUME NEW i \in 0 .. Len(q)
               PROVE  a <= c[i] /\ c[i] <= z
    OBVIOUS
  <2>1. c[i] \in Nat /\ a <= c[i] /\ c[i] <= b
    BY <1>1
  <2> QED
    BY <2>1
<1> QED
  BY <1>1, <1>2 DEF AckRun

\* What a step may do to a queue without a change to what is acknowledged in it.
KeepsAcks(q, r) ==
  \/ r = q \/ r = <<>>
  \/ q # <<>> /\ r = Tail(q)
  \/ \E m \in Message : m.type # "Ack" /\ r = Append(q, m)

LEMMA AckRunStays ==
  ASSUME NEW q \in Seq(Message), NEW r, KeepsAcks(q, r), NEW a \in Nat, NEW b \in Nat, AckRun(q, a, b)
  PROVE  AckRun(r, a, b)
<1>1. CASE r = q
  BY <1>1
<1>2. CASE r = <<>>
  BY <1>2, RunBounds, RunEmpty
<1>3. CASE q # <<>> /\ r = Tail(q)
  BY <1>3, AckRunTail
<1>4. ASSUME NEW m \in Message, m.type # "Ack", r = Append(q, m)
      PROVE  AckRun(r, a, b)
  <2>1. b <= b
    OBVIOUS
  <2> QED
    BY <1>4, <2>1, AckRunAppend
<1> QED
  BY <1>1, <1>2, <1>3, <1>4 DEF KeepsAcks

KeepsPort(q, r) ==
  \/ r = q \/ r = <<>>
  \/ q # <<>> /\ r = Tail(q)
  \/ \E e \in Event : e.m.type # "Ack" /\ r = Append(q, e)

LEMMA KeptPort ==
  ASSUME NEW q \in Seq(Event), NEW r, KeepsPort(q, r)
  PROVE  KeepsAcks(Messages(q), Messages(r))
<1>1. CASE r = q
  BY <1>1 DEF KeepsAcks
<1>2. CASE r = <<>>
  BY <1>2, MessagesOf DEF KeepsAcks
<1>3. CASE q # <<>> /\ r = Tail(q)
  BY <1>3, MessagesOf DEF KeepsAcks
<1>4. ASSUME NEW e \in Event, e.m.type # "Ack", r = Append(q, e)
      PROVE  KeepsAcks(Messages(q), Messages(r))
  <2>1. e.m \in Message /\ Messages(r) = Append(Messages(q), e.m)
    BY <1>4, MessagesOf, EventFields
  <2> QED
    BY <1>4, <2>1 DEF KeepsAcks
<1> QED
  BY <1>1, <1>2, <1>3, <1>4 DEF KeepsPort

LEMMA BackPairs ==
  \A i \in Hosts \ {Last} : /\ <<i + 1, i>> \in Pairs /\ i + 1 \in Hosts /\ i \in Hosts
                            /\ <<i + 1, i>>[1] = i + 1 /\ <<i + 1, i>>[2] = i
BY HostNumbers, PairTypes

\* What is acknowledged to a host, after steps that leave its acknowledgements alone.
LEMMA PortStays ==
  ASSUME QueuesOK, NEW i \in Hosts, KeepsPort(portQ[i], portQ'[i]),
         NEW a \in Nat, NEW x \in Nat, AckRun(Messages(portQ[i]), a, x)
  PROVE  AckRun(Messages(portQ'[i]), a, x)
<1>1. portQ[i] \in Seq(Event)
  BY DEF QueuesOK
<1>2. Messages(portQ[i]) \in Seq(Message)
  BY <1>1, MessagesOf
<1>3. KeepsAcks(Messages(portQ[i]), Messages(portQ'[i]))
  BY <1>1, KeptPort
<1> DEFINE q == Messages(portQ[i])
           r == Messages(portQ'[i])
<1>4. q \in Seq(Message) /\ KeepsAcks(q, r) /\ AckRun(q, a, x)
  BY <1>2, <1>3
<1> HIDE DEF q, r
<1>5. AckRun(r, a, x)
  BY <1>4, AckRunStays
<1> QED
  BY <1>5 DEF r

LEMMA BackStays ==
  ASSUME ChanOK, NEW i \in Hosts \ {Last}, KeepsAcks(chan[<<i + 1, i>>], chan'[<<i + 1, i>>]),
         NEW x \in Nat, NEW b \in Nat, AckRun(chan[<<i + 1, i>>], x, b)
  PROVE  AckRun(chan'[<<i + 1, i>>], x, b)
<1>1. chan[<<i + 1, i>>] \in Seq(Message)
  BY BackPairs DEF ChanOK
<1> DEFINE q == chan[<<i + 1, i>>]
           r == chan'[<<i + 1, i>>]
<1>2. q \in Seq(Message) /\ KeepsAcks(q, r) /\ AckRun(q, x, b)
  BY <1>1
<1> HIDE DEF q, r
<1>3. AckRun(r, x, b)
  BY <1>2, AckRunStays
<1> QED
  BY <1>3 DEF r

LEMMA ReturnsStays ==
  ASSUME ChanOK, QueuesOK, NEW i \in Hosts \ {Last}, NEW a \in Nat, NEW b \in Nat, NEW z \in Nat,
         Returns(i, a, b), b <= z,
         KeepsPort(portQ[i], portQ'[i]), KeepsAcks(chan[<<i + 1, i>>], chan'[<<i + 1, i>>])
  PROVE  Returns(i, a, z)'
<1>1. PICK x \in Nat : AckRun(Messages(portQ[i]), a, x) /\ AckRun(chan[<<i + 1, i>>], x, b)
  BY DEF Returns
<1>2. AckRun(chan[<<i + 1, i>>], x, z)
  <2>1. chan[<<i + 1, i>>] \in Seq(Message)
    BY BackPairs DEF ChanOK
  <2> QED
    BY <1>1, <2>1, AckRunWeaken
<1>3. AckRun(Messages(portQ'[i]), a, x)
  BY <1>1, PortStays
<1>4. AckRun(chan'[<<i + 1, i>>], x, z)
  BY <1>2, BackStays
<1> QED
  BY <1>3, <1>4 DEF Returns

\* Nothing is acknowledged by a step.
LEMMA AckStays ==
  ASSUME TypeOK, AckInv,
         \A i \in Hosts \ {Last} : /\ KeepsPort(portQ[i], portQ'[i])
                                   /\ KeepsAcks(chan[<<i + 1, i>>], chan'[<<i + 1, i>>]),
         limit'.inUse <= NumMTUsPerWindow,
         limit'.next - limit'.inUse = limit.next - limit.inUse,
         got' = got
  PROVE  AckInv'
<1>0. ChanOK /\ QueuesOK
  BY TypeParts
<1>1. PICK h \in [Hosts -> Nat] :
        /\ limit.next - limit.inUse <= h[1] /\ h[Last] <= Len(got)
        /\ \A m, n \in Hosts : m <= n => h[m] <= h[n]
        /\ \A n \in Hosts \ {Last} : Returns(n, h[n], h[n + 1])
  BY DEF AckInv
<1>2. ASSUME NEW n \in Hosts \ {Last}
      PROVE  Returns(n, h[n], h[n + 1])'
  <2>1. n \in Hosts /\ n + 1 \in Hosts
    BY BackPairs
  <2>2. h[n] \in Nat /\ h[n + 1] \in Nat /\ h[n + 1] <= h[n + 1]
    BY ONLY h \in [Hosts -> Nat], <2>1
  <2> QED
    BY <1>0, <1>1, <2>2, ReturnsStays
<1>3. limit'.next - limit'.inUse <= h[1] /\ h[Last] <= Len(got')
  BY <1>1
<1> QED
  BY <1>1, <1>2, <1>3 DEF AckInv

LEMMA QuietAck ==
  ASSUME TypeOK, LinkStep, Quiet, AckInv
  PROVE  AckInv'
<1>1. ASSUME NEW i \in Hosts \ {Last}
      PROVE  KeepsPort(portQ[i], portQ'[i])
  BY DEF Quiet, QuietQueues, KeepsPort
<1>2. ASSUME NEW i \in Hosts \ {Last}
      PROVE  KeepsAcks(chan[<<i + 1, i>>], chan'[<<i + 1, i>>])
  <2> DEFINE p == <<i + 1, i>>
  <2>1. p \in Pairs
    BY BackPairs
  <2> HIDE DEF p
  <2>2. \/ chan'[p] \in {chan[p], <<>>}
        \/ \E m \in Message : m.type # "Ack" /\ chan'[p] = Append(chan[p], m)
    BY <2>1 DEF Quiet, QuietChan, Flowing
  <2>3. KeepsAcks(chan[p], chan'[p])
    BY <2>2 DEF KeepsAcks
  <2> QED
    BY <2>3 DEF p
<1>3. UNCHANGED <<limit, got>> /\ limit.inUse <= NumMTUsPerWindow
  BY DEF Quiet, AckInv
<1> QED
  BY <1>1, <1>2, <1>3, AckStays

LEMMA WritesAck ==
  ASSUME TypeOK, Writes, AckInv
  PROVE  AckInv'
<1>0. QueuesOK /\ RestOK
  BY TypeParts
<1> DEFINE e == [side |-> "in", m |-> Data(limit.next, Head(sendBuf))]
<1>1. /\ limit' = AddMTU(limit) /\ portQ' = [portQ EXCEPT ![1] = Append(@, e)]
      /\ UNCHANGED <<got, chan>> /\ CanAddMTU(limit) /\ sendBuf # <<>>
  BY DEF Writes, ProcessConnectedSend
<1>2. /\ limit.next \in Nat /\ limit.inUse \in Int
      /\ limit'.next = limit.next + 1 /\ limit'.inUse = limit.inUse + 1
      /\ limit.inUse < NumMTUsPerWindow
  BY <1>0, <1>1 DEF RestOK, AddMTU, CanAddMTU
<1>3. e \in Event /\ e.m.type # "Ack"
  <2>1. Head(sendBuf) \in Nat
    BY <1>0, <1>1, SeqFacts DEF RestOK
  <2>2. Data(limit.next, Head(sendBuf)) \in Message
    BY <1>2, <2>1, MessageTypes
  <2> QED
    BY <2>2 DEF Event, Sides, Data
<1> HIDE DEF e
<1>4. \A i \in Hosts \ {Last} : KeepsPort(portQ[i], portQ'[i])
  <2>1. \A i \in Hosts : portQ'[i] = portQ[i] \/ portQ'[i] = Append(portQ[i], e)
    BY <1>0, <1>1 DEF QueuesOK
  <2> QED
    BY <1>3, <2>1 DEF KeepsPort
<1>5. \A i \in Hosts \ {Last} : KeepsAcks(chan[<<i + 1, i>>], chan'[<<i + 1, i>>])
  BY <1>1 DEF KeepsAcks
<1>6. /\ limit'.inUse <= NumMTUsPerWindow
      /\ limit'.next - limit'.inUse = limit.next - limit.inUse
  BY <1>2 DEF NumMTUsPerWindow
<1> QED
  BY <1>1, <1>4, <1>5, <1>6, AckStays

LEMMA PassesDataAck ==
  ASSUME TypeOK, NEW n \in Hosts, PassesData(n), AckInv
  PROVE  AckInv'
<1>0. ChanOK /\ QueuesOK
  BY TypeParts
<1>1. Takes(n) /\ chan' = Sent(n, {"out"}, Head(portQ[n]).m) /\ UNCHANGED <<limit, got>>
  BY DEF PassesData
<1>2. /\ portQ[n] # <<>> /\ portQ'[n] = Tail(portQ[n]) /\ Head(portQ[n]).m \in Message
      /\ \A i \in Hosts \ {n} : portQ'[i] = portQ[i]
  BY <1>0, <1>1, TakesQueues
<1>3. \A i \in Hosts \ {Last} : KeepsPort(portQ[i], portQ'[i])
  BY <1>2 DEF KeepsPort
<1>4. \A i \in Hosts \ {Last} : KeepsAcks(chan[<<i + 1, i>>], chan'[<<i + 1, i>>])
  BY <1>0, <1>1, <1>2, SentTo DEF KeepsAcks, Sides
<1> QED
  BY <1>1, <1>3, <1>4, AckStays DEF AckInv

\* The end acknowledges what it delivers, unless the peer before it is gone.
LEMMA DeliversAck ==
  ASSUME TypeOK, Delivers, AckInv, DataInv
  PROVE  AckInv'
<1>0. ChanOK /\ QueuesOK /\ RestOK /\ Last \in Hosts /\ Last \in Nat
  BY TypeParts, HostNumbers
<1> DEFINE m == Head(portQ[Last]).m
           id == m.id
<1>1. /\ Takes(Last) /\ m.type = "Data" /\ got' = Append(got, m) /\ UNCHANGED limit
      /\ chan' = chan \/ chan' = Sent(Last, {"in"}, Ack(id))
  BY DEF Delivers
<1>2. /\ portQ[Last] # <<>> /\ portQ'[Last] = Tail(portQ[Last])
      /\ \A i \in Hosts \ {Last} : portQ'[i] = portQ[i]
      /\ Head(portQ[Last]) \in Event
  BY <1>0, <1>1, TakesQueues
<1>3. m \in DataMessage /\ Ack(id) \in Message /\ Ack(id).type = "Ack" /\ Ack(id).id = id
  <2>1. m \in DataMessage /\ m.id \in Nat
    BY <1>1, <1>2, EventFields
  <2> QED
    BY <2>1, MessageTypes DEF Ack
<1>4. Len(got) \in Nat /\ Len(got') = Len(got) + 1
  <2>1. got \in Seq(DataMessage)
    BY <1>0 DEF RestOK
  <2> HIDE DEF m
  <2> QED
    BY <1>1, <1>3, <2>1, SeqFacts
<1>5. id = Len(got)
  <2>1. PICK f \in [0 .. Last -> Nat] : Stream(f)
    BY DEF DataInv
  <2>2. f[Last] \in Nat /\ f[Last - 1] \in Nat /\ f[Last] = Len(got) /\ Arrives(Last, f[Last], f[Last - 1])
    BY <1>0, <1>1, <2>1, HostNumbers DEF Stream, Takes
  <2>3. PICK x \in Nat : DataRun(Messages(portQ[Last]), f[Last], x)
    BY <2>2 DEF Arrives
  <2>4. id = f[Last]
    BY <1>0, <1>1, <1>2, <2>2, <2>3, TakenRun
  <2> QED
    BY <2>2, <2>4
<1>6. PICK h \in [Hosts -> Nat] :
        /\ limit.next - limit.inUse <= h[1] /\ h[Last] <= Len(got)
        /\ \A i, n \in Hosts : i <= n => h[i] <= h[n]
        /\ \A n \in Hosts \ {Last} : Returns(n, h[n], h[n + 1])
  BY DEF AckInv
<1>20. PICK k \in Nat : k = Len(got)
  BY <1>4
<1> DEFINE g == [h EXCEPT ![Last] = k + 1]
<1>7. g \in [Hosts -> Nat] /\ g[Last] = k + 1 /\ \A i \in Hosts \ {Last} : g[i] = h[i]
  BY <1>0
<1> HIDE DEF m, id, g
<1>8. \A i \in Hosts : h[i] \in Nat /\ h[i] <= Len(got) /\ h[i] <= g[i]
  <2> SUFFICES ASSUME NEW i \in Hosts
               PROVE  h[i] \in Nat /\ h[i] <= Len(got) /\ h[i] <= g[i]
    OBVIOUS
  <2>1. i <= Last
    BY PairTypes
  <2>2. h[i] \in Nat /\ h[Last] \in Nat /\ h[i] <= h[Last] /\ h[Last] <= Len(got)
    BY <1>0, <1>6, <2>1
  <2> QED
    BY <1>4, <1>7, <1>20, <2>2
<1>9. \A i, n \in Hosts : i <= n => g[i] <= g[n]
  <2> SUFFICES ASSUME NEW i \in Hosts, NEW n \in Hosts, i <= n
               PROVE  g[i] <= g[n]
    OBVIOUS
  <2>1. CASE n = Last
    <3>1. g[i] <= Len(got) + 1
      BY <1>4, <1>7, <1>8, <1>20
    <3> QED
      BY <1>7, <1>20, <2>1, <3>1
  <2>2. CASE n # Last
    <3>1. i # Last
      BY <2>2, PairTypes
    <3> QED
      BY <1>6, <1>7, <2>2, <3>1
  <2> QED
    BY <2>1, <2>2
<1>10. ASSUME NEW i \in Hosts \ {Last}
       PROVE  Returns(i, g[i], g[i + 1])'
  <2>1. /\ g[i] = h[i] /\ h[i] \in Nat /\ h[i + 1] \in Nat /\ g[i + 1] \in Nat /\ h[i + 1] <= g[i + 1]
        /\ Returns(i, h[i], h[i + 1])
    BY <1>6, <1>7, <1>8, BackPairs
  <2>2. portQ'[i] = portQ[i] /\ KeepsPort(portQ[i], portQ'[i])
    BY <1>2 DEF KeepsPort
  <2>3. \/ chan'[<<i + 1, i>>] = chan[<<i + 1, i>>]
        \/ i + 1 = Last /\ chan'[<<i + 1, i>>] = Append(chan[<<i + 1, i>>], Ack(id))
    BY <1>0, <1>1, <1>3, SentTo DEF Sides
  <2>4. CASE chan'[<<i + 1, i>>] = chan[<<i + 1, i>>]
    <3>1. KeepsAcks(chan[<<i + 1, i>>], chan'[<<i + 1, i>>])
      BY <2>4 DEF KeepsAcks
    <3>2. Returns(i, h[i], g[i + 1])'
      BY <1>0, <2>1, <2>2, <3>1, ReturnsStays
    <3> QED
      BY <2>1, <3>2
  <2>5. CASE i + 1 = Last /\ chan'[<<i + 1, i>>] = Append(chan[<<i + 1, i>>], Ack(id))
    <3>1. PICK x \in Nat : AckRun(Messages(portQ[i]), h[i], x) /\ AckRun(chan[<<i + 1, i>>], x, h[i + 1])
      BY <2>1 DEF Returns
    <3>2. chan[<<i + 1, i>>] \in Seq(Message)
      BY <1>0, BackPairs DEF ChanOK
    <3>3. /\ h[i + 1] <= Len(got) /\ g[i + 1] = Len(got) + 1
          /\ Len(got) < Len(got) + 1
      BY <1>4, <1>6, <1>7, <1>20, <2>5
    <3>4. AckRun(Append(chan[<<i + 1, i>>], Ack(id)), x, g[i + 1])
      BY <1>3, <1>4, <1>5, <2>1, <3>1, <3>2, <3>3, AckRunAppend
    <3>5. AckRun(chan'[<<i + 1, i>>], x, g[i + 1])
      BY <2>5, <3>4
    <3> QED
      BY <2>1, <2>2, <3>1, <3>5 DEF Returns
  <2> QED
    BY <2>3, <2>4, <2>5
<1>11. limit'.next - limit'.inUse <= g[1] /\ g[Last] <= Len(got') /\ limit'.inUse <= NumMTUsPerWindow
  <2>1. 1 \in Hosts /\ h[1] \in Nat /\ g[1] \in Nat /\ h[1] <= g[1]
    BY <1>7, <1>8, HostNumbers
  <2>2. limit.next - limit.inUse \in Int
    BY <1>0 DEF RestOK
  <2>3. limit.next - limit.inUse <= g[1]
    BY <1>6, <2>1, <2>2
  <2> QED
    BY <1>1, <1>4, <1>7, <1>20, <2>3 DEF AckInv
<1> QED
  BY <1>7, <1>9, <1>10, <1>11 DEF AckInv

\* An acknowledgement gets past a host: to the one before it, or at the beginning into the
\* window.
LEMMA AckedAck ==
  ASSUME TypeOK, NEW n \in Hosts, (Credits /\ n = 1) \/ PassesAck(n), AckInv
  PROVE  AckInv'
<1>0. ChanOK /\ QueuesOK /\ RestOK /\ n \in Nat
  BY TypeParts, HostNumbers
<1> DEFINE m == Head(portQ[n]).m
           id == m.id
<1>1. /\ Takes(n) /\ m.type = "Ack" /\ n # Last /\ UNCHANGED got
      /\ \/ n = 1 /\ UNCHANGED chan /\ limit' = AckMTU(limit, id)
         \/ n # 1 /\ chan' = Sent(n, {"in"}, m) /\ UNCHANGED limit
  BY DEF Credits, PassesAck
<1>2. /\ portQ[n] # <<>> /\ portQ'[n] = Tail(portQ[n])
      /\ \A i \in Hosts \ {n} : portQ'[i] = portQ[i]
      /\ Head(portQ[n]) \in Event /\ m \in Message /\ id \in Nat
  BY <1>0, <1>1, TakesQueues, EventFields
<1>3. PICK h \in [Hosts -> Nat] :
        /\ limit.next - limit.inUse <= h[1] /\ h[Last] <= Len(got)
        /\ \A i, k \in Hosts : i <= k => h[i] <= h[k]
        /\ \A i \in Hosts \ {Last} : Returns(i, h[i], h[i + 1])
  BY DEF AckInv
<1>4. /\ h[n] \in Nat /\ n + 1 \in Hosts /\ h[n + 1] \in Nat /\ Returns(n, h[n], h[n + 1])
      /\ portQ[n] \in Seq(Event) /\ chan[<<n + 1, n>>] \in Seq(Message)
  BY <1>0, <1>1, <1>3, BackPairs DEF QueuesOK, ChanOK
<1>5. PICK x \in Nat : AckRun(Messages(portQ[n]), h[n], x) /\ AckRun(chan[<<n + 1, n>>], x, h[n + 1])
  BY <1>4 DEF Returns
<1>6. /\ Messages(portQ[n]) \in Seq(Message) /\ Messages(portQ[n]) # <<>>
      /\ Head(Messages(portQ[n])) = m /\ Messages(portQ'[n]) = Tail(Messages(portQ[n]))
  BY <1>2, <1>4, MessagesOf
<1>7. h[n] <= id /\ id + 1 <= x /\ AckRun(Messages(portQ'[n]), id + 1, x)
  <2> DEFINE q == Messages(portQ[n])
  <2>1. q \in Seq(Message) /\ q # <<>> /\ AckRun(q, h[n], x) /\ Head(q).type = "Ack" /\ Head(q).id = id
    BY <1>1, <1>5, <1>6
  <2> HIDE DEF q, m, id
  <2>2. h[n] <= id /\ id + 1 <= x /\ AckRun(Tail(q), id + 1, x)
    BY <1>4, <2>1, AckRunTail
  <2> QED
    BY <1>6, <2>2 DEF q
<1>8. x <= h[n + 1]
  BY <1>4, <1>5, RunBounds
<1>20. PICK k \in Nat : k = id
  BY <1>2
<1> DEFINE g == [h EXCEPT ![n] = k + 1]
<1>9. g \in [Hosts -> Nat] /\ g[n] = k + 1 /\ \A i \in Hosts \ {n} : g[i] = h[i]
  OBVIOUS
<1> HIDE DEF m, id, g
<1>10. h[n] <= k + 1 /\ k + 1 <= h[n + 1] /\ \A i \in Hosts : h[i] <= g[i]
  <2>1. h[n] <= k + 1 /\ k + 1 <= h[n + 1]
    BY <1>2, <1>4, <1>7, <1>8, <1>20
  <2>2. \A i \in Hosts \ {n} : g[i] = h[i] /\ h[i] \in Nat
    BY <1>9
  <2> QED
    BY <1>9, <2>1, <2>2
<1>11. \A i, j \in Hosts : i <= j => g[i] <= g[j]
  <2> SUFFICES ASSUME NEW i \in Hosts, NEW j \in Hosts, i <= j
               PROVE  g[i] <= g[j]
    OBVIOUS
  <2>1. h[i] \in Nat /\ h[j] \in Nat /\ h[i] <= h[j]
    BY <1>3
  <2>2. CASE i # n
    <3>1. g[i] = h[i] /\ h[j] <= g[j] /\ g[j] \in Nat
      BY <1>9, <1>10, <2>2
    <3> QED
      BY <2>1, <3>1
  <2>3. CASE i = n /\ j = n
    BY <1>2, <1>9, <2>3
  <2>4. CASE i = n /\ j # n
    <3>1. n + 1 <= j
      BY <2>4, HostNumbers
    <3>2. h[n + 1] <= h[j] /\ g[j] = h[j] /\ g[i] = k + 1
      BY <1>3, <1>4, <1>9, <2>4, <3>1
    <3> QED
      BY <1>2, <1>4, <1>10, <2>1, <3>2
  <2> QED
    BY <2>2, <2>3, <2>4
<1>12. ASSUME NEW i \in Hosts \ {Last}
       PROVE  Returns(i, g[i], g[i + 1])'
  <2>1. /\ h[i] \in Nat /\ h[i + 1] \in Nat /\ g[i + 1] \in Nat /\ h[i + 1] <= g[i + 1]
        /\ i + 1 \in Hosts /\ i \in Nat /\ i + 1 # i
        /\ Returns(i, h[i], h[i + 1])
    BY <1>3, <1>9, <1>10, BackPairs, HostNumbers
  <2>2. CASE i = n
    <3>1. chan'[<<n + 1, n>>] = chan[<<n + 1, n>>]
      <4>1. CASE UNCHANGED chan
        BY <4>1
      <4>2. CASE chan' = Sent(n, {"in"}, m)
        <5>1. n \in Hosts \ {Last} /\ n + 1 # n
          BY <1>0, <1>1
        <5> QED
          BY <1>0, <1>2, <4>2, <5>1, SentTo DEF Sides, m
      <4> QED
        BY <1>1, <4>1, <4>2 DEF m
    <3>2. g[n] = k + 1 /\ g[n + 1] = h[n + 1]
      BY <1>9, <2>1, <2>2
    <3>3. Returns(n, k + 1, h[n + 1])'
      BY <1>5, <1>7, <1>20, <3>1 DEF Returns
    <3> QED
      BY <2>2, <3>2, <3>3
  <2>3. CASE i # n
    <3>1. g[i] = h[i] /\ portQ'[i] = portQ[i] /\ KeepsPort(portQ[i], portQ'[i])
      BY <1>2, <1>9, <2>3 DEF KeepsPort
    <3>2. \/ chan'[<<i + 1, i>>] = chan[<<i + 1, i>>]
          \/ i + 1 = n /\ chan'[<<i + 1, i>>] = Append(chan[<<i + 1, i>>], m)
      <4>1. CASE UNCHANGED chan
        BY <4>1
      <4>2. CASE chan' = Sent(n, {"in"}, m)
        BY <1>0, <1>2, <4>2, SentTo DEF Sides, m
      <4> QED
        BY <1>1, <4>1, <4>2 DEF m
    <3>3. CASE chan'[<<i + 1, i>>] = chan[<<i + 1, i>>]
      <4>1. KeepsAcks(chan[<<i + 1, i>>], chan'[<<i + 1, i>>])
        BY <3>3 DEF KeepsAcks
      <4>2. Returns(i, h[i], g[i + 1])'
        BY <1>0, <2>1, <3>1, <4>1, ReturnsStays
      <4> QED
        BY <3>1, <4>2
    <3>4. CASE i + 1 = n /\ chan'[<<i + 1, i>>] = Append(chan[<<i + 1, i>>], m)
      <4>1. PICK y \in Nat : AckRun(Messages(portQ[i]), h[i], y) /\ AckRun(chan[<<i + 1, i>>], y, h[i + 1])
        BY <2>1 DEF Returns
      <4>2. chan[<<i + 1, i>>] \in Seq(Message)
        BY <1>0, BackPairs DEF ChanOK
      <4>3. /\ g[i + 1] = id + 1 /\ h[i + 1] <= id /\ id < g[i + 1] /\ h[i + 1] <= g[i + 1]
            /\ m \in Message /\ m.id = id
        BY <1>2, <1>7, <1>9, <1>20, <2>1, <3>4 DEF m, id
      <4>4. AckRun(Append(chan[<<i + 1, i>>], m), y, g[i + 1])
        BY <1>2, <2>1, <4>1, <4>2, <4>3, AckRunAppend
      <4>5. AckRun(chan'[<<i + 1, i>>], y, g[i + 1])
        BY <3>4, <4>4
      <4> QED
        BY <3>1, <4>1, <4>5 DEF Returns
    <3> QED
      BY <3>2, <3>3, <3>4
  <2> QED
    BY <2>2, <2>3
<1>13. limit'.next - limit'.inUse <= g[1] /\ g[Last] <= Len(got') /\ limit'.inUse <= NumMTUsPerWindow
  <2>1. 1 \in Hosts /\ h[1] \in Nat /\ g[1] \in Nat /\ h[1] <= g[1]
    BY <1>9, <1>10, HostNumbers
  <2>2. limit.next \in Nat /\ limit.inUse \in Int /\ limit.inUse <= NumMTUsPerWindow
    BY <1>0 DEF RestOK, AckInv
  <2>3. g[Last] <= Len(got')
    BY <1>1, <1>3, <1>9, HostNumbers
  <2>4. CASE UNCHANGED limit
    <3>1. limit.next - limit.inUse <= g[1]
      BY <1>3, <2>1, <2>2
    <3> QED
      BY <2>2, <2>3, <2>4, <3>1
  <2>5. CASE n = 1 /\ limit' = AckMTU(limit, id)
    <3>1. /\ limit'.next = limit.next
          /\ limit'.inUse = limit.inUse \/ limit'.inUse = limit.inUse - 1
      BY <1>0, <2>5 DEF AckMTU, RestOK
    <3>2. h[1] + 1 <= g[1]
      BY <1>2, <1>4, <1>7, <1>9, <1>20, <2>5
    <3>3. limit.next - limit.inUse <= h[1]
      BY <1>3
    <3>4. limit'.next - limit'.inUse <= g[1]
      BY <2>1, <2>2, <3>1, <3>2, <3>3
    <3>5. limit'.inUse <= NumMTUsPerWindow
      BY <2>2, <3>1 DEF NumMTUsPerWindow
    <3> QED
      BY <2>3, <3>4, <3>5
  <2> QED
    BY <1>1, <2>4, <2>5 DEF id
<1> QED
  BY <1>9, <1>11, <1>12, <1>13 DEF AckInv

LEMMA ReceivesAck ==
  ASSUME TypeOK, WayInv, NEW p \in Pairs, Receive(p), AckInv
  PROVE  AckInv'
<1> DEFINE n == p[2]
           m == Head(chan[p])
           e == [side |-> Side(n, p[1]), m |-> m]
<1>0. ChanOK /\ QueuesOK /\ RestOK /\ n \in Hosts /\ n \in Nat
  BY TypeParts, PairTypes
<1>1. /\ chan[p] # <<>> /\ chan' = [chan EXCEPT ![p] = Tail(@)]
      /\ IF UsesDefaultQueue(n, m)
           THEN UNCHANGED portQ
           ELSE portQ' = [portQ EXCEPT ![n] = Append(@, e)]
      /\ UNCHANGED <<limit, got>>
  BY DEF Receive
<1>2. chan[p] \in Seq(Message) /\ m \in Message /\ e \in Event
  <2>1. chan[p] \in Seq(Message)
    BY <1>0 DEF ChanOK
  <2>2. m \in Message
    BY <1>1, <2>1
  <2> QED
    BY <2>1, <2>2 DEF Event, Side, Sides
<1>3. m.type = "Ack" => p[1] > p[2] /\ m.id \in Nat
  <2>1. PICK i \in DOMAIN chan[p] : m = chan[p][i]
    BY <1>1, <1>2, Elements
  <2>2. Carries(p[1], p[2], m, Begun)
    BY <2>1 DEF WayInv
  <2> HIDE DEF m
  <2> QED
    BY <1>2, <2>2 DEF Carries, Message, DataMessage
<1>4. /\ chan'[p] = Tail(chan[p]) /\ \A r \in Pairs : r # p => chan'[r] = chan[r]
      /\ \A i \in Hosts : i # n => portQ'[i] = portQ[i]
      /\ portQ'[n] = portQ[n] \/ portQ'[n] = Append(portQ[n], e)
  BY <1>0, <1>1 DEF ChanOK, QueuesOK
<1>5. p[1] = n - 1 \/ p[1] = n + 1
  BY PairTypes
<1>6. e.m = m
  OBVIOUS
<1>7. ASSUME NEW i \in Hosts \ {Last}
      PROVE  KeepsAcks(chan[<<i + 1, i>>], chan'[<<i + 1, i>>])
  <2> DEFINE r == <<i + 1, i>>
  <2>1. r \in Pairs
    BY BackPairs
  <2> HIDE DEF r, m, e, n
  <2>2. KeepsAcks(chan[r], chan'[r])
    BY <1>1, <1>4, <2>1 DEF KeepsAcks
  <2> QED
    BY <2>2 DEF r
<1>8. CASE portQ'[n] = portQ[n] \/ m.type # "Ack"
  <2> HIDE DEF m, e, n
  <2>1. \A i \in Hosts \ {Last} : KeepsPort(portQ[i], portQ'[i])
    BY <1>2, <1>4, <1>6, <1>8 DEF KeepsPort
  <2> QED
    BY <1>1, <1>7, <2>1, AckStays DEF AckInv
<1>9. CASE portQ'[n] = Append(portQ[n], e) /\ m.type = "Ack"
  <2>1. p = <<n + 1, n>> /\ n \in Hosts \ {Last} /\ n + 1 \in Hosts
    <3>1. p = <<p[1], p[2]>> /\ p[1] \in Hosts /\ p[1] <= Last
      BY PairTypes
    <3>2. p[1] = n + 1
      BY <1>0, <1>3, <1>5, <1>9
    <3>3. n # Last
      BY <1>0, <3>1, <3>2
    <3> QED
      BY <1>0, <3>1, <3>2, <3>3
  <2>2. PICK h \in [Hosts -> Nat] :
          /\ limit.next - limit.inUse <= h[1] /\ h[Last] <= Len(got)
          /\ \A i, k \in Hosts : i <= k => h[i] <= h[k]
          /\ \A i \in Hosts \ {Last} : Returns(i, h[i], h[i + 1])
    BY DEF AckInv
  <2> HIDE DEF m, e, n
  <2>3. h[n] \in Nat /\ h[n + 1] \in Nat /\ Returns(n, h[n], h[n + 1])
    BY <2>1, <2>2
  <2>4. PICK x \in Nat : AckRun(Messages(portQ[n]), h[n], x) /\ AckRun(chan[p], x, h[n + 1])
    BY <2>1, <2>3 DEF Returns
  <2>5. /\ x <= m.id /\ m.id + 1 <= h[n + 1] /\ AckRun(Tail(chan[p]), m.id + 1, h[n + 1])
    BY <1>1, <1>2, <1>9, <2>3, <2>4, AckRunTail DEF m
  <2>6. AckRun(Messages(portQ'[n]), h[n], m.id + 1)
    <3>1. portQ[n] \in Seq(Event)
      BY <1>0 DEF QueuesOK
    <3>2. Messages(portQ[n]) \in Seq(Message) /\ Messages(Append(portQ[n], e)) = Append(Messages(portQ[n]), m)
      BY <1>2, <1>6, <3>1, MessagesOf
    <3> DEFINE q == Messages(portQ[n])
    <3>3. q \in Seq(Message) /\ AckRun(q, h[n], x)
      BY <2>4, <3>2
    <3> HIDE DEF q
    <3>4. m.id \in Nat /\ m.id + 1 \in Nat /\ x <= m.id + 1 /\ m.id < m.id + 1
      BY <1>3, <1>9, <2>5
    <3>5. AckRun(Append(q, m), h[n], m.id + 1)
      BY <1>2, <2>3, <2>5, <3>3, <3>4, AckRunAppend
    <3> QED
      BY <1>9, <3>2, <3>5 DEF q
  <2>7. AckRun(chan'[<<n + 1, n>>], m.id + 1, h[n + 1])
    BY <1>4, <2>1, <2>5
  <2>8. Returns(n, h[n], h[n + 1])'
    <3>1. m.id + 1 \in Nat
      BY <1>3, <1>9
    <3> QED
      BY <2>6, <2>7, <3>1 DEF Returns
  <2>9. ASSUME NEW i \in Hosts \ {Last}, i # n
        PROVE  Returns(i, h[i], h[i + 1])'
    <3>0. i \in Hosts /\ i + 1 \in Hosts
      BY BackPairs
    <3>1. /\ h[i] \in Nat /\ h[i + 1] \in Nat /\ h[i + 1] <= h[i + 1]
      BY ONLY h \in [Hosts -> Nat], <3>0
    <3>2. KeepsPort(portQ[i], portQ'[i])
      BY <1>4, <2>9 DEF KeepsPort
    <3> QED
      BY <1>0, <1>7, <2>2, <3>1, <3>2, ReturnsStays
  <2>10. \A i \in Hosts \ {Last} : Returns(i, h[i], h[i + 1])'
    BY <2>8, <2>9
  <2>11. /\ limit'.next - limit'.inUse <= h[1] /\ h[Last] <= Len(got')
         /\ limit'.inUse <= NumMTUsPerWindow
    BY <1>1, <2>2 DEF AckInv
  <2> QED
    BY <2>2, <2>10, <2>11 DEF AckInv
<1> QED
  BY <1>4, <1>8, <1>9

LEMMA NextAck == TypeOK /\ WayInv /\ DataInv /\ AckInv /\ FlowStep => AckInv'
<1> SUFFICES ASSUME TypeOK, WayInv, DataInv, AckInv, FlowStep
             PROVE  AckInv'
  OBVIOUS
<1> QED
  BY HostNumbers, QuietAck, WritesAck, DeliversAck, AckedAck, ReceivesAck, PassesDataAck DEF FlowStep

LEMMA InitialAck == Init => AckInv
<1> SUFFICES ASSUME Init
             PROVE  AckInv
  OBVIOUS
<1>1. /\ limit.next = 0 /\ limit.inUse = 0 /\ got = <<>>
      /\ \A n \in Hosts : portQ[n] = <<>> /\ \A p \in Pairs : chan[p] = <<>>
  BY DEF Init
<1>2. Len(<<>>) = 0 /\ Messages(<<>>) = <<>>
  <2>1. Len(<<>>) = 0 /\ DOMAIN <<>> = {}
    OBVIOUS
  <2> QED
    BY <2>1 DEF Messages
<1> DEFINE h == [i \in Hosts |-> 0]
<1>3. h \in [Hosts -> Nat] /\ \A i \in Hosts : h[i] = 0
  OBVIOUS
<1> HIDE DEF h
<1>4. ASSUME NEW n \in Hosts \ {Last}
      PROVE  Returns(n, h[n], h[n + 1])
  <2>1. h[n] = 0 /\ h[n + 1] = 0 /\ portQ[n] = <<>> /\ chan[<<n + 1, n>>] = <<>>
    BY <1>1, <1>3, BackPairs
  <2>2. AckRun(<<>>, 0, 0)
    BY RunEmpty
  <2> QED
    BY <1>2, <2>1, <2>2 DEF Returns
<1>5. /\ limit.next - limit.inUse <= h[1] /\ h[Last] <= Len(got)
      /\ limit.inUse <= NumMTUsPerWindow
      /\ \A m, n \in Hosts : m <= n => h[m] <= h[n]
  BY <1>1, <1>2, <1>3, HostNumbers DEF NumMTUsPerWindow
<1> QED
  BY <1>3, <1>4, <1>5 DEF AckInv

-----------------------------------------------------------------------------
FlowInv == TypeOK /\ WayInv /\ DataInv /\ AckInv

\* What the invariant says of the window: nothing not delivered has been given back.
LEMMA FlowIsReliable == FlowInv => RelayIsReliable
<1> SUFFICES ASSUME FlowInv
             PROVE  RelayIsReliable
  OBVIOUS
<1>0. RestOK
  BY TypeParts DEF FlowInv
<1>1. PICK f \in [0 .. Last -> Nat] : Stream(f)
  BY DEF FlowInv, DataInv
<1>2. PICK h \in [Hosts -> Nat] :
        /\ limit.next - limit.inUse <= h[1] /\ h[Last] <= Len(got)
        /\ \A m, n \in Hosts : m <= n => h[m] <= h[n]
  BY DEF FlowInv, AckInv
<1>3. h[1] \in Nat /\ h[Last] \in Nat /\ h[1] <= h[Last]
  BY <1>2, HostNumbers, PairTypes
<1>4. Len(got) <= limit.next
  <2>1. f[0] = limit.next /\ f[Last] = Len(got) /\ 0 \in 0 .. Last /\ Last \in 0 .. Last
    BY <1>1, HostNumbers DEF Stream
  <2>2. f[Last] <= f[0]
    BY <1>1, <2>1, RelayAssumption DEF Stream
  <2> QED
    BY <2>1, <2>2
<1>5. limit.next \in Nat /\ limit.inUse \in Int /\ limit.inUse <= NumMTUsPerWindow /\ Len(got) \in Nat
  <2>1. got \in Seq(DataMessage) /\ limit.next \in Nat /\ limit.inUse \in Int
    BY <1>0 DEF RestOK
  <2> QED
    BY <2>1, SeqFacts DEF FlowInv, AckInv
<1>6. limit.next - limit.inUse <= Len(got) /\ limit.inUse \in 0 .. NumMTUsPerWindow
  <2> DEFINE n == limit.next
             k == limit.inUse
             a == h[1]
             b == h[Last]
             g == Len(got)
  <2>1. /\ a \in Nat /\ b \in Nat /\ g \in Nat /\ n \in Nat /\ k \in Int
        /\ n - k <= a /\ a <= b /\ b <= g /\ g <= n /\ k <= NumMTUsPerWindow
    BY <1>2, <1>3, <1>4, <1>5
  <2> HIDE DEF n, k, a, b, g
  <2>2. n - k <= g
    BY ONLY <2>1
  <2>3. 0 <= k
    BY ONLY <2>1, <2>2
  <2>4. k \in 0 .. NumMTUsPerWindow
    BY <2>1, <2>3 DEF NumMTUsPerWindow
  <2> QED
    BY <2>2, <2>4 DEF n, k, g
<1> QED
  BY <1>6 DEF FlowInv, DataInv, RelayIsReliable, WindowCountsUndelivered

\* What the end's user gets is what the beginning's user wrote, in order and without a
\* gap, and the window is given back only for what has been delivered, along a chain of
\* any length, whatever faults end or suspend its links (RelayLink.h, RelayManager.cpp).
THEOREM RelayReliable == Spec => []RelayIsReliable
<1>1. Init => FlowInv
  BY InitialType, InitialWay, InitialData, InitialAck DEF FlowInv
<1>2. FlowInv /\ [Next]_vars => FlowInv'
  <2> SUFFICES ASSUME FlowInv, [Next]_vars
               PROVE  FlowInv'
    OBVIOUS
  <2>1. TypeOK'
    BY NextType DEF FlowInv
  <2>2. FlowStep
    BY NextFlow DEF FlowInv
  <2>3. WayInv'
    BY <2>2, FlowWay DEF FlowInv
  <2>4. DataInv'
    BY <2>2, NextData DEF FlowInv
  <2>5. AckInv'
    BY <2>2, NextAck DEF FlowInv
  <2> QED
    BY <2>1, <2>3, <2>4, <2>5 DEF FlowInv
<1> QED
  BY <1>1, <1>2, FlowIsReliable, PTL DEF Spec
=============================================================================
