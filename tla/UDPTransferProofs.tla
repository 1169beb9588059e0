------------------------- MODULE UDPTransferProofs -------------------------
(***************************************************************************)
(* Proofs about UDPTransfer, for every width of the sequence number, any   *)
(* windows, bounds and numbers of the two Syns, and for connections that   *)
(* use every number any number of times: what the sequence number          *)
(* arithmetic computes; the types; that no message is taken for another    *)
(* and none is forgotten before the peer has it; and that the connection   *)
(* implements the reliable channel.                                        *)
(***************************************************************************)
EXTENDS UDPTransfer, SequenceTheorems, WellFoundedInduction, TLAPS

(* Counting on from a sequence number yields a sequence number: the only   *)
(* place where the code lets the number wrap (Message::GetNextSequence-    *)
(* Number) keeps it within its 16 bits.                                    *)
THEOREM NextSequenceNumberType ==
    ASSUME NEW s \in SequenceNumbers
    PROVE  NextSequenceNumber(s) \in SequenceNumbers
BY MaxSequenceNumberAssumption DEF SequenceNumbers, NextSequenceNumber

(* The next number is the one at distance 1.                               *)
THEOREM NextIsOneFurther ==
    ASSUME NEW s \in SequenceNumbers
    PROVE  Distance(s, NextSequenceNumber(s)) = 1
BY MaxSequenceNumberAssumption
   DEF SequenceNumbers, NextSequenceNumber, Distance, NumSequenceNumbers

(* The current window is exactly the wnd numbers after the last one taken, *)
(* also where they wrap around.                                            *)
THEOREM CurrentWindowIsDistance ==
    ASSUME NEW s \in SequenceNumbers, NEW last \in SequenceNumbers,
           NEW wnd \in 1..MaxSequenceNumber
    PROVE  InCurrentWindow(s, last, wnd) <=> Distance(last, s) \in 1..wnd
BY MaxSequenceNumberAssumption
   DEF SequenceNumbers, InCurrentWindow, Distance, NumSequenceNumbers

(* The previous window is exactly the last number taken and the wnd before *)
(* it, also where they wrap around.                                        *)
THEOREM PreviousWindowIsDistance ==
    ASSUME NEW s \in SequenceNumbers, NEW last \in SequenceNumbers,
           NEW wnd \in 1..MaxSequenceNumber
    PROVE  InPreviousWindow(s, last, wnd) <=> Distance(s, last) \in 0..wnd
BY MaxSequenceNumberAssumption
   DEF SequenceNumbers, InPreviousWindow, Distance, NumSequenceNumbers

(* GetMessageSequenceNumberWindow classifies a number by its distance from *)
(* the last one taken.                                                     *)
THEOREM WindowOfIsReference ==
    ASSUME NEW s \in SequenceNumbers, NEW last \in SequenceNumbers,
           NEW wnd \in 1..MaxSequenceNumber
    PROVE  WindowOf(s, last, wnd) = ReferenceWindowOf(s, last, wnd)
BY CurrentWindowIsDistance, PreviousWindowIsDistance
   DEF WindowOf, ReferenceWindowOf

(* While less than half the numbers are in the window, no number is both   *)
(* ahead and behind: which of the two tests comes first does not matter.   *)
THEOREM WindowsAreDisjoint ==
    ASSUME NEW s \in SequenceNumbers, NEW last \in SequenceNumbers,
           NEW wnd \in 1..MaxSequenceNumber, 2 * wnd <= MaxSequenceNumber
    PROVE  ~(InCurrentWindow(s, last, wnd) /\ InPreviousWindow(s, last, wnd))
<1>1. Distance(last, s) + Distance(s, last) \in {0, NumSequenceNumbers}
  BY MaxSequenceNumberAssumption
     DEF SequenceNumbers, Distance, NumSequenceNumbers
<1>2. SUFFICES ASSUME Distance(last, s) \in 1..wnd, Distance(s, last) \in 0..wnd
               PROVE  FALSE
  BY CurrentWindowIsDistance, PreviousWindowIsDistance
<1>3. Distance(last, s) + Distance(s, last) \in 1..2 * wnd
  BY <1>2, MaxSequenceNumberAssumption
<1> QED
  BY <1>1, <1>3, MaxSequenceNumberAssumption DEF NumSequenceNumbers

---------------------------------------------------------------------------
(* A nonempty set of natural numbers has a least element.                  *)
LEMMA LeastNatural ==
    ASSUME NEW T \in SUBSET Nat, T # {}
    PROVE  \E i \in T : \A j \in T : i <= j
<1>1. PICK i \in T : \A j \in T : <<j, i>> \notin OpToRel(<, Nat)
  BY NatLessThanWellFounded, WFMin
<1>2. \A j \in T : ~(j < i)
  BY <1>1 DEF OpToRel
<1> QED
  BY <1>2

LEMMA SingletonType ==
    ASSUME NEW S, NEW x \in S
    PROVE  <<x>> \in Seq(S)
<1>1. <<x>> = Append(<<>>, x) /\ <<>> \in Seq(S)
  OBVIOUS
<1> QED
  BY <1>1, AppendProperties

(* Purging takes a prefix of acknowledged items off, up to the first one   *)
(* that is not.                                                            *)
LEMMA PurgeAckedIsSuffix ==
    ASSUME NEW queue \in Seq(QueueItem)
    PROVE  \E k \in 0..Len(queue) :
               /\ PurgeAcked(queue) = SubSeq(queue, k + 1, Len(queue))
               /\ \A i \in 1..k : queue[i].acked
               /\ k < Len(queue) => ~queue[k + 1].acked
<1>1. DOMAIN queue = 1..Len(queue) /\ Len(queue) \in Nat
  OBVIOUS
<1>2. CASE Pending(queue) = {}
  <2>1. PurgeAcked(queue) = <<>>
    BY <1>2 DEF PurgeAcked
  <2>2. SubSeq(queue, Len(queue) + 1, Len(queue)) = <<>>
    BY <1>1, SubSeqEmpty
  <2> QED
    BY <1>1, <1>2, <2>1, <2>2 DEF Pending
<1>3. CASE Pending(queue) # {}
  <2>1. Pending(queue) \in SUBSET Nat
    BY <1>1 DEF Pending
  <2> DEFINE first == Least(Pending(queue))
  <2>2. first \in Pending(queue) /\ \A j \in Pending(queue) : first <= j
    BY <1>3, <2>1, LeastNatural DEF Least
  <2>3. PurgeAcked(queue) = SubSeq(queue, first, Len(queue))
    BY <1>3 DEF PurgeAcked
  <2> HIDE DEF first
  <2>4. first \in 1..Len(queue) /\ ~queue[first].acked
    BY <1>1, <2>2 DEF Pending
  <2>5. \A i \in 1..first - 1 : queue[i].acked
    BY <1>1, <2>2, <2>4 DEF Pending
  <2>6. first - 1 \in 0..Len(queue) /\ first - 1 + 1 = first
    BY <1>1, <2>4
  <2> QED
    BY <2>3, <2>4, <2>5, <2>6
<1> QED
  BY <1>2, <1>3

LEMMA PurgeAckedType ==
    ASSUME NEW queue \in Seq(QueueItem)
    PROVE  PurgeAcked(queue) \in Seq(QueueItem)
<1>1. PICK k \in 0..Len(queue) :
          PurgeAcked(queue) = SubSeq(queue, k + 1, Len(queue))
  BY PurgeAckedIsSuffix
<1> QED
  BY <1>1

LEMMA AckItemsType ==
    ASSUME NEW queue \in Seq(QueueItem), NEW indices
    PROVE  AckItems(queue, indices) \in Seq(QueueItem)
<1>1. \A i \in 1..Len(queue) : AckItem(queue[i]) \in QueueItem
  <2>1. \A item \in QueueItem : AckItem(item) \in QueueItem
    BY DEF QueueItem, AckItem
  <2> QED
    BY <2>1, ElementOfSeq
<1>2. AckItems(queue, indices) =
          [i \in 1..Len(queue) |->
              IF i \in indices THEN AckItem(queue[i]) ELSE queue[i]]
  BY DEF AckItems
<1> QED
  BY <1>1, <1>2

LEMMA InSequenceAckType ==
    ASSUME NEW queue \in Seq(QueueItem), NEW lastSeen, NEW acknum
    PROVE  ProcessReceivedInSequenceAck(queue, lastSeen, acknum)
               \in Seq(QueueItem)
BY PurgeAckedType, AckItemsType DEF ProcessReceivedInSequenceAck

LEMMA AcksType ==
    ASSUME NEW queue \in Seq(QueueItem), NEW acks
    PROVE  ProcessReceivedAcks(queue, acks) \in Seq(QueueItem)
BY PurgeAckedType, AckItemsType DEF ProcessReceivedAcks

-----------------------------------------------------------------------------
(* Type correctness.                                                       *)

LEMMA SequencedType ==
    ASSUME TypeOK, NEW e \in Endpoint, NEW type \in {"Syn", "Data", "State"},
           NEW window \in Nat
    PROVE  Sequenced(e, type, window) \in SequencedMessage
BY DEF TypeOK, Sequenced, SequencedMessage

LEMMA CarryType ==
    ASSUME TypeOK, NEW m \in SequencedMessage \cup AckMessage, NEW outcome,
           Carry(m, outcome)
    PROVE  network' \subseteq SequencedMessage \cup AckMessage
BY DEF TypeOK, Carry

LEMMA SendSequencedType ==
    ASSUME TypeOK, NEW e \in Endpoint, NEW type \in {"Data", "State"},
           NEW window \in Nat, NEW outcome, SendSequenced(e, type, window, outcome)
    PROVE  /\ sendQueue' \in [Endpoint -> Seq(QueueItem)]
           /\ nextSend' \in [Endpoint -> SequenceNumbers]
           /\ created' \in [Endpoint -> Nat]
           /\ lastIsAcked' \in [Endpoint -> BOOLEAN]
           /\ network' \subseteq SequencedMessage \cup AckMessage
<1> DEFINE m == Sequenced(e, type, window)
<1>1. m \in SequencedMessage
  BY SequencedType
<1> HIDE DEF m
<1>2. Item(m, outcome # "refused") \in QueueItem
  BY <1>1 DEF Item, QueueItem
<1>3. Add(e, m, outcome) /\ lastIsAcked' = [lastIsAcked EXCEPT ![e] = TRUE]
  BY DEF SendSequenced, m
<1>4. sendQueue' = [sendQueue EXCEPT
                       ![e] = Append(@, Item(m, outcome # "refused"))]
  BY <1>3 DEF Add
<1>5. Append(sendQueue[e], Item(m, outcome # "refused")) \in Seq(QueueItem)
  BY <1>2, AppendProperties DEF TypeOK
<1>6. sendQueue' \in [Endpoint -> Seq(QueueItem)]
  BY <1>4, <1>5 DEF TypeOK
<1>7. nextSend' \in [Endpoint -> SequenceNumbers]
  BY <1>3, NextSequenceNumberType DEF Add, TypeOK
<1>8. created' \in [Endpoint -> Nat] /\ lastIsAcked' \in [Endpoint -> BOOLEAN]
  BY <1>3 DEF Add, TypeOK
<1>9. network' \subseteq SequencedMessage \cup AckMessage
  BY <1>1, <1>3, CarryType DEF Add
<1> QED
  BY <1>6, <1>7, <1>8, <1>9

LEMMA InitialType == Init => TypeOK
<1> SUFFICES ASSUME Init PROVE TypeOK
  OBVIOUS
<1> USE TransferAssumption, MaxSequenceNumberAssumption
<1>1. \A e \in Endpoint : InitialSequence[e] \in SequenceNumbers
  OBVIOUS
<1>2. 0 \in SequenceNumbers /\ PeerOf \in [Endpoint -> Endpoint]
  BY DEF SequenceNumbers, PeerOf, Endpoint
<1>3. MaxWindow \in WindowSizes
  BY DEF MaxWindow
<1>4. sendQueue \in [Endpoint -> Seq(QueueItem)]
  <2> DEFINE syn == [e \in Endpoint |->
                   [type |-> "Syn", from |-> e, seqnum |-> InitialSequence[e],
                    acknum |-> IF e = Inbound THEN InitialSequence[Outbound]
                                              ELSE 0,
                    window |-> 0, position |-> 0, upTo |-> 0]]
  <2>1. \A e \in Endpoint : syn[e] \in SequencedMessage
    BY <1>1, <1>2 DEF SequencedMessage, Endpoint
  <2>2. sendQueue = [e \in Endpoint |->
                       IF e = Inbound \/ InitialSequence[e] = 0
                       THEN <<Item(syn[e], TRUE)>> ELSE <<>>]
    BY DEF Init
  <2> HIDE DEF syn
  <2>3. \A e \in Endpoint : Item(syn[e], TRUE) \in QueueItem
    BY <2>1 DEF Item, QueueItem
  <2>4. \A e \in Endpoint : <<Item(syn[e], TRUE)>> \in Seq(QueueItem)
    BY <2>3, SingletonType
  <2>5. \A e \in Endpoint : (IF e = Inbound \/ InitialSequence[e] = 0
                             THEN <<Item(syn[e], TRUE)>> ELSE <<>>)
                                \in Seq(QueueItem)
    <3> TAKE e \in Endpoint
    <3>1. CASE e = Inbound \/ InitialSequence[e] = 0
      BY <2>4, <3>1
    <3>2. CASE ~(e = Inbound \/ InitialSequence[e] = 0)
      BY <3>2
    <3> QED
      BY <3>1, <3>2
  <2> QED
    BY <2>2, <2>5
<1>5. nextSend \in [Endpoint -> SequenceNumbers]
  BY <1>1, NextSequenceNumberType DEF Init
<1>6. /\ lastAckSeen \in [Endpoint -> SequenceNumbers]
      /\ lastInOrder \in [Endpoint -> SequenceNumbers]
      /\ pendingAcks \in [Endpoint -> SUBSET Ack]
  BY <1>1, <1>2 DEF Init, Endpoint, Ack
<1>7. /\ peerAdvWindow \in [Endpoint -> Nat]
      /\ lastIsAcked \in [Endpoint -> BOOLEAN]
      /\ receiveWindow \in [Endpoint -> WindowSizes]
      /\ receiveQueue \in [Endpoint -> SUBSET SequencedMessage]
      /\ network \subseteq SequencedMessage \cup AckMessage
      /\ created \in [Endpoint -> Nat]
      /\ taken \in [Endpoint -> Nat]
      /\ sent \in [Endpoint -> Seq(Nat)]
      /\ delivered \in [Endpoint -> Seq(Nat)]
  BY <1>3 DEF Init
<1> QED
  BY <1>4, <1>5, <1>6, <1>7 DEF TypeOK

LEMMA NextType == TypeOK /\ [Next]_vars => TypeOK'
<1> SUFFICES ASSUME TypeOK, [Next]_vars PROVE TypeOK'
  OBVIOUS
<1> USE DEF TypeOK, senderVars, receiverVars
<1>1. ASSUME NEW e \in Endpoint, NEW outcome \in Outcomes,
             SendPendingSocketData(e, outcome)
      PROVE  TypeOK'
  <2>1. SendSequenced(e, "Data", 0, outcome)
    BY <1>1 DEF SendPendingSocketData
  <2>2. sent' \in [Endpoint -> Seq(Nat)]
    BY <1>1, AppendProperties DEF SendPendingSocketData
  <2> QED
    BY <1>1, <2>1, <2>2, SendSequencedType DEF SendPendingSocketData
<1>2. ASSUME NEW e \in Endpoint, NEW outcome \in Outcomes,
             NEW window \in WindowSizes, OnMTUUpdate(e, window, outcome)
      PROVE  TypeOK'
  <2>1. SendSequenced(e, "State", window, outcome) /\ window \in Nat
    BY <1>2, TransferAssumption DEF OnMTUUpdate
  <2> QED
    BY <1>2, <2>1, SendSequencedType DEF OnMTUUpdate
<1>3. ASSUME NEW e \in Endpoint, NEW i \in DOMAIN sendQueue[e],
             NEW outcome, Process(e, i, outcome)
      PROVE  TypeOK'
  <2>1. sendQueue[e][i] \in QueueItem
    BY ElementOfSeq
  <2>2. TriedItem(sendQueue[e][i]) \in QueueItem
    BY <2>1 DEF TriedItem, QueueItem
  <2>3. sendQueue' \in [Endpoint -> Seq(QueueItem)]
    BY <1>3, <2>2, ExceptSeq DEF Process
  <2>4. sendQueue[e][i].message \in SequencedMessage
    BY <2>1 DEF QueueItem
  <2>5. network' \subseteq SequencedMessage \cup AckMessage
    BY <1>3, <2>4, CarryType DEF Process
  <2> QED
    BY <1>3, <2>3, <2>5 DEF Process
<1>4. ASSUME NEW e \in Endpoint, NEW outcome, SendPendingAcks(e, outcome)
      PROVE  TypeOK'
  <2> DEFINE ack == [type |-> "EAck", from |-> e, acknum |-> lastInOrder[e],
                     upTo |-> taken[e], acks |-> pendingAcks[e]]
  <2>1. ack \in AckMessage
    BY DEF AckMessage
  <2>2. Carry(ack, outcome) \/ UNCHANGED network
    BY <1>4 DEF SendPendingAcks
  <2>3. network' \subseteq SequencedMessage \cup AckMessage
    BY <2>1, <2>2, CarryType
  <2> QED
    BY <1>4, <2>3 DEF SendPendingAcks
<1>5. ASSUME NEW e \in Endpoint, NEW m \in network, ReceiveSequenced(e, m)
      PROVE  TypeOK'
  <2>1. m \in SequencedMessage
    BY <1>5 DEF ReceiveSequenced, AckMessage
  <2>2. m.acknum \in SequenceNumbers /\ AckOf(m) \in Ack
    BY <2>1 DEF SequencedMessage, AckOf, Ack
  <2>3. network' \subseteq SequencedMessage \cup AckMessage
    BY <1>5 DEF ReceiveSequenced, Arrive
  <2>4. CASE ReceiveCurrent(e, m)
    <3>1. sendQueue' \in [Endpoint -> Seq(QueueItem)]
      BY <2>4, InSequenceAckType DEF ReceiveCurrent, InSequenceAck
    <3>2. lastAckSeen' \in [Endpoint -> SequenceNumbers]
      BY <2>2, <2>4 DEF ReceiveCurrent, InSequenceAck
    <3>3. receiveQueue' \in [Endpoint -> SUBSET SequencedMessage]
      BY <2>1, <2>4 DEF ReceiveCurrent
    <3>4. /\ pendingAcks' \in [Endpoint -> SUBSET Ack]
          /\ lastIsAcked' \in [Endpoint -> BOOLEAN]
      BY <2>2, <2>4 DEF ReceiveCurrent
    <3> QED
      BY <1>5, <2>3, <2>4, <3>1, <3>2, <3>3, <3>4
         DEF ReceiveSequenced, ReceiveCurrent
  <2>5. CASE ReceivePrevious(e, m)
    BY <1>5, <2>2, <2>3, <2>5 DEF ReceiveSequenced, ReceivePrevious
  <2>6. CASE ReceiveUnknown(e, m)
    BY <1>5, <2>3, <2>6 DEF ReceiveSequenced, ReceiveUnknown
  <2> QED
    BY <1>5, <2>4, <2>5, <2>6 DEF ReceiveSequenced
<1>6. ASSUME NEW e \in Endpoint, NEW m \in network, ReceiveSyn(e, m)
      PROVE  TypeOK'
  BY <1>6 DEF ReceiveSyn, Arrive
<1>7. ASSUME NEW e \in Endpoint, NEW m \in network, ReceiveEAck(e, m)
      PROVE  TypeOK'
  <2>1. m.acknum \in SequenceNumbers
    BY <1>7 DEF ReceiveEAck, SequencedMessage, AckMessage
  <2>2. ProcessReceivedAcks(
            ProcessReceivedInSequenceAck(sendQueue[e], lastAckSeen[e], m.acknum),
            m.acks) \in Seq(QueueItem)
    BY InSequenceAckType, AcksType
  <2> QED
    BY <1>7, <2>1, <2>2 DEF ReceiveEAck, Arrive
<1>8. ASSUME NEW e \in Endpoint, ReceivePendingSocketData(e)
      PROVE  TypeOK'
  <2>1. PICK m \in receiveQueue[e] :
            /\ IF m.type = "Data"
               THEN /\ delivered' = [delivered EXCEPT ![e] = Append(@, m.position)]
                    /\ UNCHANGED peerAdvWindow
               ELSE /\ peerAdvWindow' = [peerAdvWindow EXCEPT ![e] = m.window]
                    /\ UNCHANGED delivered
            /\ lastInOrder' = [lastInOrder EXCEPT ![e] = m.seqnum]
            /\ lastIsAcked' = [lastIsAcked EXCEPT ![e] = FALSE]
            /\ receiveQueue' = [receiveQueue EXCEPT ![e] = @ \ {m}]
            /\ taken' = [taken EXCEPT ![e] = @ + 1]
            /\ UNCHANGED <<senderVars, receiveWindow, pendingAcks, network>>
    BY <1>8 DEF ReceivePendingSocketData
  <2>2. m.seqnum \in SequenceNumbers /\ m.position \in Nat /\ m.window \in Nat
    BY DEF SequencedMessage
  <2>3. Append(delivered[e], m.position) \in Seq(Nat)
    BY <2>2, AppendProperties
  <2>4. delivered' \in [Endpoint -> Seq(Nat)]
    BY <2>1, <2>3
  <2>5. peerAdvWindow' \in [Endpoint -> Nat]
    BY <2>1, <2>2
  <2>6. /\ receiveQueue' \in [Endpoint -> SUBSET SequencedMessage]
        /\ lastInOrder' \in [Endpoint -> SequenceNumbers]
        /\ lastIsAcked' \in [Endpoint -> BOOLEAN]
        /\ taken' \in [Endpoint -> Nat]
    BY <2>1, <2>2
  <2> QED
    BY <2>1, <2>4, <2>5, <2>6
<1>9. CASE UNCHANGED vars
  BY <1>9 DEF vars
<1> QED
  BY <1>1, <1>2, <1>3, <1>4, <1>5, <1>6, <1>7, <1>8, <1>9 DEF Next

(* Every variable keeps its type, for any windows, bounds and numbers of   *)
(* the two Syns: in particular a sequence number never leaves its 16 bits  *)
(* and a send queue only ever holds messages with a number.                *)
THEOREM TypeCorrect == Spec => []TypeOK
BY InitialType, NextType, PTL DEF Spec

-----------------------------------------------------------------------------
(* No message is taken for another one and none is forgotten before the    *)
(* peer has it.                                                            *)

\* An end takes only what was made.
TakenWasMade ==
    \A e \in Endpoint : created[e] >= 1 /\ taken[e] < created[PeerOf[e]]

\* The two numbers an end keeps are those of the positions it has come to.
NumbersFollowPositions ==
    \A e \in Endpoint :
        /\ nextSend[e] = SequenceAt(e, created[e])
        /\ lastInOrder[e] = SequenceAt(PeerOf[e], taken[e])

\* What e acknowledges is the number of a position up to which it has taken all
\* in order, or of one that it has received.
TakenNumber(e, s, q) ==
    q \in 0..taken[e] /\ s = SequenceAt(PeerOf[e], q)

ReceivedNumber(e, a) ==
    /\ a.position \in 0..created[PeerOf[e]] - 1
    /\ a.seqnum = SequenceAt(PeerOf[e], a.position)
    /\ Received(e, a.position)

\* A message with a number was made, at the position that goes with the number.
\* (The first Syn acknowledges nothing yet; what a Syn acknowledges is not looked
\* at any more.)
GoodSequenced(m) ==
    /\ m.position \in 0..created[m.from] - 1
    /\ m.seqnum = SequenceAt(m.from, m.position)
    /\ m.type # "Syn" => TakenNumber(m.from, m.acknum, m.upTo)

\* An acknowledgement tells what has been received.
GoodAck(m) ==
    /\ TakenNumber(m.from, m.acknum, m.upTo)
    /\ \A a \in m.acks : ReceivedNumber(m.from, a)

GoodMessage(m) ==
    /\ m.type = "EAck" => GoodAck(m)
    /\ m.type # "EAck" => GoodSequenced(m)

NetworkIsGood == \A m \in network : GoodMessage(m)

\* The items of a queue are the last ones made; what is missing before them, and
\* those that are acknowledged, have been received.
GoodQueue(e, queue) ==
    /\ Len(queue) <= created[e]
    /\ \A i \in 1..Len(queue) :
           /\ queue[i].message.from = e
           /\ queue[i].message.position = created[e] - Len(queue) + i - 1
           /\ GoodSequenced(queue[i].message)
           /\ queue[i].acked => Received(PeerOf[e], queue[i].message.position)
    /\ \A p \in 0..created[e] - Len(queue) - 1 : Received(PeerOf[e], p)

\* Its oldest item is not acknowledged.
PurgedQueue(queue) == queue # <<>> => ~queue[1].acked

QueuesAreGood ==
    \A e \in Endpoint : GoodQueue(e, sendQueue[e]) /\ PurgedQueue(sendQueue[e])

ReceiveQueuesAreGood ==
    \A e \in Endpoint :
        /\ \A m \in receiveQueue[e] :
               /\ m.from = PeerOf[e]
               /\ GoodSequenced(m) /\ m.type # "Syn"
               /\ taken[e] < m.position /\ m.position <= taken[e] + MaxWindow
        /\ \A m, k \in receiveQueue[e] : m.seqnum = k.seqnum => m = k

PendingAcksAreGood ==
    \A e \in Endpoint : \A a \in pendingAcks[e] : ReceivedNumber(e, a)

\* Every number in use can be told from those made since.
NumbersAreRecent ==
    \A e \in Endpoint : NumbersInUseAreRecent(e, created[e])

IInv ==
    /\ TypeOK
    /\ TakenWasMade
    /\ NumbersFollowPositions
    /\ NumbersAreRecent
    /\ NetworkIsGood
    /\ QueuesAreGood
    /\ ReceiveQueuesAreGood
    /\ PendingAcksAreGood

-----------------------------------------------------------------------------
(* Numbers and positions.                                                  *)

LEMMA DivisionWithRest ==
    ASSUME NEW x \in Nat, NEW n \in Nat \ {0}
    PROVE  /\ x \div n \in Int /\ x % n \in 0..n - 1
           /\ x = (x \div n) * n + (x % n)
OBVIOUS

LEMMA DivisionIsUnique ==
    ASSUME NEW n \in Nat \ {0}, NEW q \in Int, NEW r \in 0..n - 1,
           NEW k \in Int, NEW s \in 0..n - 1, q * n + r = k * n + s
    PROVE  q = k /\ r = s
<1>1. CASE q >= k + 1
  <2>1. (q - k) * n >= n
    BY <1>1
  <2>2. (q - k) * n = s - r
    OBVIOUS
  <2> QED
    BY <2>1, <2>2
<1>2. CASE k >= q + 1
  <2>1. (k - q) * n >= n
    BY <1>2
  <2>2. (k - q) * n = r - s
    OBVIOUS
  <2> QED
    BY <2>1, <2>2
<1> QED
  BY <1>1, <1>2

LEMMA RestOfSum ==
    ASSUME NEW x \in Nat, NEW n \in Nat \ {0}, NEW d \in 0..n - 1
    PROVE  (x + d) % n = IF (x % n) + d < n THEN (x % n) + d ELSE (x % n) + d - n
<1>1. PICK q \in Int, r \in 0..n - 1 : r = x % n /\ x = q * n + r
  BY DivisionWithRest
<1>2. PICK k \in Int, s \in 0..n - 1 : s = (x + d) % n /\ x + d = k * n + s
  <2>1. PICK y \in Nat : y = x + d
    OBVIOUS
  <2>2. /\ y \div n \in Int /\ y % n \in 0..n - 1
        /\ y = (y \div n) * n + (y % n)
    BY DivisionWithRest
  <2> QED
    BY <2>1, <2>2
<1>3. CASE r + d < n
  <2>1. q * n + (r + d) = k * n + s /\ r + d \in 0..n - 1
    BY <1>1, <1>2, <1>3
  <2>2. s = r + d
    BY <2>1, DivisionIsUnique
  <2> QED
    BY <1>1, <1>2, <1>3, <2>2
<1>4. CASE r + d >= n
  <2>1. PICK t \in 0..n - 1, l \in Int : t = r + d - n /\ l = q + 1
    BY <1>4
  <2>2. l * n + t = k * n + s
    BY <1>1, <1>2, <2>1
  <2>3. s = t
    BY <2>2, DivisionIsUnique
  <2> QED
    BY <1>1, <1>2, <1>4, <2>1, <2>3
<1> QED
  BY <1>3, <1>4

LEMMA CountOnType ==
    ASSUME NEW a \in SequenceNumbers, NEW p \in Nat
    PROVE  CountOn(a, p) \in SequenceNumbers
<1>1. a + p \in Nat /\ MaxSequenceNumber \in Nat
  BY MaxSequenceNumberAssumption DEF SequenceNumbers
<1>2. (a + p) % (MaxSequenceNumber + 1) \in 0..MaxSequenceNumber
  BY <1>1, DivisionWithRest
<1> QED
  BY <1>2 DEF CountOn, SequenceNumbers, NumSequenceNumbers

\* The number some steps further on.
LEMMA CountOnFurther ==
    ASSUME NEW a \in SequenceNumbers, NEW p \in Nat,
           NEW d \in 0..MaxSequenceNumber
    PROVE  CountOn(a, p + d) = IF CountOn(a, p) + d <= MaxSequenceNumber
                               THEN CountOn(a, p) + d
                               ELSE CountOn(a, p) + d - NumSequenceNumbers
<1>1. /\ a + p \in Nat /\ MaxSequenceNumber \in Nat /\ a \in Nat
      /\ NumSequenceNumbers = MaxSequenceNumber + 1
  BY MaxSequenceNumberAssumption DEF SequenceNumbers, NumSequenceNumbers
<1>2. PICK x \in Nat, n \in Nat \ {0} : x = a + p /\ n = NumSequenceNumbers
  BY <1>1
<1>3. d \in 0..n - 1
  BY <1>1, <1>2
<1>4. (x + d) % n = IF (x % n) + d < n THEN (x % n) + d ELSE (x % n) + d - n
  BY <1>3, RestOfSum
<1>5. CountOn(a, p + d) = (x + d) % n /\ CountOn(a, p) = x % n
  <2>1. a + (p + d) = x + d
    BY <1>1, <1>2
  <2> QED
    BY <1>2, <2>1 DEF CountOn
<1>6. PICK c \in SequenceNumbers : c = CountOn(a, p)
  BY CountOnType
<1>7. c + d < n <=> c + d <= MaxSequenceNumber
  BY <1>1, <1>2 DEF SequenceNumbers
<1> QED
  BY <1>2, <1>4, <1>5, <1>6, <1>7

LEMMA CountOnNext ==
    ASSUME NEW a \in SequenceNumbers, NEW p \in Nat
    PROVE  NextSequenceNumber(CountOn(a, p)) = CountOn(a, p + 1)
<1>1. PICK c \in SequenceNumbers : c = CountOn(a, p)
  BY CountOnType
<1>2. 1 \in 0..MaxSequenceNumber
  BY MaxSequenceNumberAssumption
<1>3. CountOn(a, p + 1) = IF c + 1 <= MaxSequenceNumber
                          THEN c + 1 ELSE c + 1 - NumSequenceNumbers
  BY <1>1, <1>2, CountOnFurther
<1> QED
  BY <1>1, <1>3, MaxSequenceNumberAssumption
     DEF SequenceNumbers, NumSequenceNumbers, NextSequenceNumber

\* Two positions less than a round apart, by their numbers.
LEMMA CountOnDistance ==
    ASSUME NEW a \in SequenceNumbers, NEW p \in Nat, NEW q \in Nat,
           p <= q, q - p <= MaxSequenceNumber
    PROVE  /\ Distance(CountOn(a, p), CountOn(a, q)) = q - p
           /\ p < q => Distance(CountOn(a, q), CountOn(a, p)) =
                           NumSequenceNumbers - (q - p)
<1>1. MaxSequenceNumber \in Nat
  BY MaxSequenceNumberAssumption
<1>2. PICK d \in 0..MaxSequenceNumber : d = q - p /\ q = p + d
  BY <1>1
<1>3. PICK c \in SequenceNumbers : c = CountOn(a, p)
  BY CountOnType
<1>4. CountOn(a, q) = IF c + d <= MaxSequenceNumber
                      THEN c + d ELSE c + d - NumSequenceNumbers
  BY <1>2, <1>3, CountOnFurther
<1>5. PICK b \in SequenceNumbers : b = CountOn(a, q)
  BY CountOnType
<1>6. Distance(c, b) = d
  BY <1>1, <1>4, <1>5 DEF Distance, SequenceNumbers, NumSequenceNumbers
<1>7. d # 0 => Distance(b, c) = NumSequenceNumbers - d
  BY <1>1, <1>4, <1>5 DEF Distance, SequenceNumbers, NumSequenceNumbers
<1> QED
  BY <1>2, <1>3, <1>5, <1>6, <1>7

LEMMA CountOnInjective ==
    ASSUME NEW a \in SequenceNumbers, NEW p \in Nat, NEW q \in Nat,
           p <= q, q - p <= MaxSequenceNumber, CountOn(a, p) = CountOn(a, q)
    PROVE  p = q
<1>1. PICK c \in SequenceNumbers : c = CountOn(a, p)
  BY CountOnType
<1>2. Distance(c, c) = q - p
  BY <1>1, CountOnDistance
<1> QED
  BY <1>1, <1>2 DEF Distance, SequenceNumbers

LEMMA ConstantFacts ==
    /\ MaxSequenceNumber \in Nat /\ NumSequenceNumbers = MaxSequenceNumber + 1
    /\ MaxWindow \in WindowSizes /\ MaxWindow \in Nat \ {0}
    /\ MaxWindow + 1 <= MaxSequenceNumber
    /\ \A w \in WindowSizes : w \in 1..MaxWindow
    /\ \A e \in Endpoint :
           /\ PeerOf[e] \in Endpoint /\ PeerOf[PeerOf[e]] = e /\ PeerOf[e] # e
           /\ InitialSequence[e] \in SequenceNumbers
<1> USE TransferAssumption
<1>1. MaxWindow \in WindowSizes /\ \A v \in WindowSizes : v <= MaxWindow
  BY DEF MaxWindow
<1>2. \A w \in WindowSizes : w \in 1..MaxWindow
  <2> TAKE w \in WindowSizes
  <2>1. w \in Nat \ {0} /\ MaxWindow \in Nat \ {0} /\ w <= MaxWindow
    BY <1>1
  <2> HIDE TransferAssumption
  <2> QED
    BY <2>1
<1>3. \A e \in Endpoint : /\ PeerOf[e] \in Endpoint /\ PeerOf[PeerOf[e]] = e
                         /\ PeerOf[e] # e
  BY DEF PeerOf, Endpoint
<1>4. MaxWindow \in Nat \ {0} /\ MaxWindow + 1 <= MaxSequenceNumber
  <2>1. MaxWindow \in Nat \ {0}
    BY <1>1
  <2> HIDE TransferAssumption
  <2> QED
    BY <2>1, WindowAssumption, MaxSequenceNumberAssumption
<1> QED
  BY <1>1, <1>2, <1>3, <1>4, MaxSequenceNumberAssumption DEF NumSequenceNumbers

LEMMA PeerIsOther ==
    ASSUME NEW e \in Endpoint, NEW f \in Endpoint, e # f
    PROVE  e = PeerOf[f]
BY TransferAssumption DEF PeerOf, Endpoint

\* The positions before the c-th whose numbers are recent differ by so little
\* that their numbers do.
LEMMA RecentApart ==
    ASSUME NEW c \in Nat, NEW p \in 0..c - 1, NEW q \in 0..c - 1,
           IsRecent(p, c)
    PROVE  q - p <= MaxSequenceNumber - MaxWindow - 1
BY ConstantFacts DEF IsRecent

LEMMA LaterIsRecent ==
    ASSUME NEW c \in Nat, NEW p \in Nat, NEW q \in Nat, IsRecent(p, c), p <= q
    PROVE  IsRecent(q, c)
BY ConstantFacts DEF IsRecent

LEMMA SequenceAtInjective ==
    ASSUME NEW e \in Endpoint, NEW c \in Nat,
           NEW p \in 0..c - 1, NEW q \in 0..c - 1,
           IsRecent(p, c), IsRecent(q, c), SequenceAt(e, p) = SequenceAt(e, q)
    PROVE  p = q
<1>1. /\ q - p <= MaxSequenceNumber - MaxWindow - 1
      /\ p - q <= MaxSequenceNumber - MaxWindow - 1
  BY RecentApart
<1>2. /\ MaxSequenceNumber \in Nat /\ MaxWindow \in Nat
      /\ InitialSequence[e] \in SequenceNumbers
  BY ConstantFacts
<1>3. p \in Nat /\ q \in Nat
  OBVIOUS
<1>4. CASE p <= q
  <2>1. q - p <= MaxSequenceNumber
    BY <1>1, <1>2, <1>3
  <2> QED
    BY <1>2, <1>3, <1>4, <2>1, CountOnInjective DEF SequenceAt
<1>5. CASE q <= p
  <2>1. p - q <= MaxSequenceNumber
    BY <1>1, <1>2, <1>3
  <2> QED
    BY <1>2, <1>3, <1>5, <2>1, CountOnInjective DEF SequenceAt
<1> QED
  BY <1>3, <1>4, <1>5

LEMMA SequenceAtNext ==
    ASSUME NEW e \in Endpoint, NEW p \in Nat
    PROVE  SequenceAt(e, p + 1) = NextSequenceNumber(SequenceAt(e, p))
BY ConstantFacts, CountOnNext DEF SequenceAt

LEMMA RestOfLess ==
    ASSUME NEW n \in Nat \ {0}, NEW x \in 0..n - 1
    PROVE  x % n = x
<1>1. x \in Nat
  OBVIOUS
<1>2. PICK q \in Int, r \in 0..n - 1 : r = x % n /\ x = q * n + r
  BY <1>1, DivisionWithRest
<1>3. 0 * n + x = q * n + r
  BY <1>2
<1>4. x = r
  BY <1>3, DivisionIsUnique
<1> QED
  BY <1>2, <1>4

LEMMA SequenceAtStart ==
    ASSUME NEW e \in Endpoint
    PROVE  SequenceAt(e, 0) = InitialSequence[e]
<1>1. /\ InitialSequence[e] \in 0..NumSequenceNumbers - 1
      /\ InitialSequence[e] + 0 = InitialSequence[e]
      /\ NumSequenceNumbers \in Nat \ {0}
  <2>1. InitialSequence[e] \in 0..MaxSequenceNumber /\ MaxSequenceNumber \in Nat
    BY ConstantFacts DEF SequenceNumbers
  <2> QED
    BY <2>1 DEF NumSequenceNumbers
<1> QED
  BY <1>1, RestOfLess DEF SequenceAt, CountOn

\* What the window says of a message, in terms of positions.
LEMMA WindowOfPosition ==
    ASSUME NEW e \in Endpoint, NEW c \in Nat, NEW p \in 0..c - 1,
           NEW t \in 0..c - 1, IsRecent(p, c), IsRecent(t, c),
           NEW wnd \in WindowSizes
    PROVE  /\ WindowOf(SequenceAt(e, p), SequenceAt(e, t), wnd) = "Current"
                  <=> t < p /\ p <= t + wnd
           /\ WindowOf(SequenceAt(e, p), SequenceAt(e, t), wnd) = "Previous"
                  => p <= t
<1> DEFINE s == SequenceAt(e, p)
           last == SequenceAt(e, t)
<1>1. /\ MaxSequenceNumber \in Nat /\ MaxWindow \in Nat
      /\ NumSequenceNumbers = MaxSequenceNumber + 1
      /\ wnd \in 1..MaxWindow /\ wnd \in 1..MaxSequenceNumber
      /\ InitialSequence[e] \in SequenceNumbers
      /\ p \in Nat /\ t \in Nat
  <2>1. /\ MaxSequenceNumber \in Nat /\ MaxWindow \in Nat
        /\ MaxWindow + 1 <= MaxSequenceNumber /\ wnd \in 1..MaxWindow
    BY ConstantFacts
  <2> QED
    BY <2>1, ConstantFacts
<1>2. /\ t - p <= MaxSequenceNumber - MaxWindow - 1
      /\ p - t <= MaxSequenceNumber - MaxWindow - 1
  BY RecentApart
<1>3. s \in SequenceNumbers /\ last \in SequenceNumbers
  BY <1>1, CountOnType DEF SequenceAt
<1>4. WindowOf(s, last, wnd) = ReferenceWindowOf(s, last, wnd)
  BY <1>1, <1>3, WindowOfIsReference
<1>5. /\ t <= p => Distance(last, s) = p - t
      /\ t < p => Distance(s, last) = NumSequenceNumbers - (p - t)
  <2>1. p - t <= MaxSequenceNumber
    BY <1>1, <1>2
  <2> QED
    BY <1>1, <2>1, CountOnDistance DEF SequenceAt
<1>6. p < t => Distance(last, s) = NumSequenceNumbers - (t - p)
  <2>1. t - p <= MaxSequenceNumber
    BY <1>1, <1>2
  <2> QED
    BY <1>1, <2>1, CountOnDistance DEF SequenceAt
<1> HIDE DEF s, last
<1>7. Distance(last, s) \in 1..wnd <=> t < p /\ p <= t + wnd
  BY <1>1, <1>2, <1>5, <1>6
<1>8. Distance(s, last) \in 0..wnd => p <= t
  BY <1>1, <1>2, <1>5
<1>9. /\ WindowOf(s, last, wnd) = "Current" <=> Distance(last, s) \in 1..wnd
      /\ WindowOf(s, last, wnd) = "Previous" => Distance(s, last) \in 0..wnd
  BY <1>4 DEF ReferenceWindowOf
<1> QED
  BY <1>7, <1>8, <1>9 DEF s, last

-----------------------------------------------------------------------------
(* What has been made, taken or received stays so.                         *)

Grows ==
    \A e \in Endpoint :
        /\ created'[e] \in Nat /\ created[e] <= created'[e]
        /\ taken'[e] \in Nat /\ taken[e] <= taken'[e]
        /\ \A p \in Nat : Received(e, p) => Received(e, p)'

LEMMA TakenNumberGrows ==
    ASSUME TypeOK, Grows, NEW e \in Endpoint, NEW s, NEW q, TakenNumber(e, s, q)
    PROVE  TakenNumber(e, s, q)'
<1>1. q \in 0..taken[e] /\ s = SequenceAt(PeerOf[e], q)
  BY DEF TakenNumber
<1>2. q \in 0..taken'[e]
  BY <1>1 DEF TypeOK, Grows
<1> QED
  BY <1>1, <1>2 DEF TakenNumber

LEMMA ReceivedNumberGrows ==
    ASSUME TypeOK, Grows, NEW e \in Endpoint, NEW a, ReceivedNumber(e, a)
    PROVE  ReceivedNumber(e, a)'
<1>1. /\ a.position \in 0..created[PeerOf[e]] - 1
      /\ a.seqnum = SequenceAt(PeerOf[e], a.position)
      /\ Received(e, a.position)
  BY DEF ReceivedNumber
<1>2. PeerOf[e] \in Endpoint
  BY ConstantFacts
<1>3. a.position \in 0..created'[PeerOf[e]] - 1
  <2>1. created[PeerOf[e]] \in Nat
    BY <1>2 DEF TypeOK
  <2>2. created'[PeerOf[e]] \in Nat /\ created[PeerOf[e]] <= created'[PeerOf[e]]
    BY <1>2 DEF Grows
  <2> QED
    BY <1>1, <2>1, <2>2
<1>4. Received(e, a.position)'
  BY <1>1, <1>3 DEF Grows
<1> QED
  BY <1>1, <1>3, <1>4 DEF ReceivedNumber

LEMMA GoodSequencedGrows ==
    ASSUME TypeOK, Grows, NEW m \in SequencedMessage, GoodSequenced(m)
    PROVE  GoodSequenced(m)'
<1>1. m.from \in Endpoint /\ m.position \in Nat
  BY DEF SequencedMessage
<1>2. m.position \in 0..created'[m.from] - 1
  BY <1>1 DEF GoodSequenced, TypeOK, Grows
<1>3. m.type # "Syn" => TakenNumber(m.from, m.acknum, m.upTo)'
  BY <1>1, TakenNumberGrows DEF GoodSequenced
<1> QED
  BY <1>2, <1>3 DEF GoodSequenced

LEMMA GoodMessageGrows ==
    ASSUME TypeOK, Grows, NEW m \in network, GoodMessage(m)
    PROVE  GoodMessage(m)'
<1>1. CASE m.type = "EAck"
  <2>1. m.from \in Endpoint
    BY DEF TypeOK, SequencedMessage, AckMessage
  <2>2. /\ TakenNumber(m.from, m.acknum, m.upTo)'
        /\ \A a \in m.acks : ReceivedNumber(m.from, a)'
    BY <1>1, <2>1, TakenNumberGrows, ReceivedNumberGrows DEF GoodMessage, GoodAck
  <2> QED
    BY <1>1, <2>2 DEF GoodMessage, GoodAck
<1>2. CASE m.type # "EAck"
  <2>1. m \in SequencedMessage
    BY <1>2 DEF TypeOK, AckMessage
  <2> QED
    BY <1>2, <2>1, GoodSequencedGrows DEF GoodMessage
<1> QED
  BY <1>1, <1>2

LEMMA ItemMessage ==
    ASSUME NEW queue \in Seq(QueueItem), NEW i \in 1..Len(queue)
    PROVE  /\ queue[i] \in QueueItem
           /\ queue[i].message \in SequencedMessage
           /\ queue[i].message.position \in Nat
<1>1. queue[i] \in QueueItem
  BY ElementOfSeq
<1>2. queue[i].message \in SequencedMessage
  BY <1>1 DEF QueueItem
<1>3. queue[i].message.position \in Nat
  BY <1>2 DEF SequencedMessage
<1> QED
  BY <1>1, <1>2, <1>3

\* A queue to which nothing is added stays good.
LEMMA GoodQueueGrows ==
    ASSUME TypeOK, Grows, NEW e \in Endpoint, NEW queue \in Seq(QueueItem),
           GoodQueue(e, queue), created'[e] = created[e]
    PROVE  GoodQueue(e, queue)'
<1>1. PeerOf[e] \in Endpoint /\ Len(queue) \in Nat /\ created[e] \in Nat
  BY ConstantFacts DEF TypeOK
<1>2. ASSUME NEW i \in 1..Len(queue)
      PROVE  /\ GoodSequenced(queue[i].message)'
             /\ queue[i].acked => Received(PeerOf[e], queue[i].message.position)'
  <2>1. queue[i].message \in SequencedMessage /\ queue[i].message.position \in Nat
    BY ItemMessage
  <2>2. GoodSequenced(queue[i].message)'
    BY <2>1, GoodSequencedGrows DEF GoodQueue
  <2>3. queue[i].acked => Received(PeerOf[e], queue[i].message.position)'
    BY <1>1, <2>1 DEF GoodQueue, Grows
  <2> QED
    BY <2>2, <2>3
<1>3. ASSUME NEW p \in 0..created[e] - Len(queue) - 1
      PROVE  Received(PeerOf[e], p)'
  BY <1>1 DEF GoodQueue, Grows
<1> QED
  BY <1>2, <1>3 DEF GoodQueue

-----------------------------------------------------------------------------
(* Acknowledgements.                                                       *)

\* Marking items that the peer has received keeps the queue good.
LEMMA AckItemsGood ==
    ASSUME NEW e \in Endpoint, NEW queue \in Seq(QueueItem), GoodQueue(e, queue),
           NEW indices,
           \A i \in 1..Len(queue) :
               i \in indices => Received(PeerOf[e], queue[i].message.position)
    PROVE  GoodQueue(e, AckItems(queue, indices))
<1> DEFINE Q == AckItems(queue, indices)
<1>1. Q \in Seq(QueueItem)
  BY AckItemsType
<1>2. Len(Q) = Len(queue)
  BY DEF AckItems
<1>3. \A i \in 1..Len(queue) :
          Q[i] = IF i \in indices THEN AckItem(queue[i]) ELSE queue[i]
  BY DEF AckItems
<1> HIDE DEF Q
<1>4. \A i \in 1..Len(queue) :
          /\ Q[i].message = queue[i].message
          /\ Q[i].acked => i \in indices \/ queue[i].acked
  <2> TAKE i \in 1..Len(queue)
  <2>1. CASE i \in indices
    <3>1. Q[i] = AckItem(queue[i])
      BY <1>3, <2>1
    <3>2. AckItem(queue[i]).message = queue[i].message
      BY DEF AckItem
    <3> QED
      BY <2>1, <3>1, <3>2
  <2>2. CASE i \notin indices
    BY <1>3, <2>2
  <2> QED
    BY <2>1, <2>2
<1> QED
  BY <1>2, <1>4 DEF GoodQueue, Q

LEMMA SuffixLength ==
    ASSUME NEW n \in Nat, NEW k \in 0..n
    PROVE  /\ (IF k + 1 <= n THEN n - (k + 1) + 1 ELSE 0) = n - k
           /\ n - k # 0 => 1 \in 1..n - k /\ k < n
OBVIOUS

LEMMA PurgedItems ==
    ASSUME NEW queue \in Seq(QueueItem)
    PROVE  \E k \in 0..Len(queue) :
               /\ \A i \in 1..k : queue[i].acked
               /\ k < Len(queue) => ~queue[k + 1].acked
               /\ Len(PurgeAcked(queue)) = Len(queue) - k
               /\ \A i \in 1..Len(PurgeAcked(queue)) :
                      PurgeAcked(queue)[i] = queue[k + i]
<1>1. PICK k \in 0..Len(queue) :
          /\ PurgeAcked(queue) = SubSeq(queue, k + 1, Len(queue))
          /\ \A i \in 1..k : queue[i].acked
          /\ k < Len(queue) => ~queue[k + 1].acked
  BY PurgeAckedIsSuffix
<1> DEFINE Q == PurgeAcked(queue)
<1>2. Len(queue) \in Nat /\ DOMAIN queue = 1..Len(queue)
  OBVIOUS
<1>3. Len(Q) = Len(queue) - k /\ \A i \in 1..Len(Q) : Q[i] = queue[k + i]
  <2>0. /\ k + 1 \in Int /\ Len(queue) \in Int
        /\ \A j \in (k + 1)..Len(queue) : queue[j] \in QueueItem
    <3>1. \A j \in (k + 1)..Len(queue) : j \in 1..Len(queue)
      BY <1>2
    <3> QED
      BY <1>2, <3>1, ElementOfSeq
  <2>1. Len(Q) = Len(queue) - k
    <3>1. Len(Q) = IF k + 1 <= Len(queue) THEN Len(queue) - (k + 1) + 1 ELSE 0
      BY <1>1, <2>0, SubSeqProperties
    <3> QED
      BY <1>2, <3>1, SuffixLength
  <2>2. ASSUME NEW i \in 1..Len(Q) PROVE Q[i] = queue[k + i]
    <3>1. /\ i \in 1..Len(queue) - (k + 1) + 1
          /\ (k + 1) + i - 1 = k + i
      BY <1>2, <2>1
    <3>2. Q[i] = queue[(k + 1) + i - 1]
      BY <1>1, <2>0, <3>1, SubSeqProperties
    <3> QED
      BY <3>1, <3>2
  <2> QED
    BY <2>1, <2>2
<1> QED
  BY <1>1, <1>3

\* Purging forgets nothing that has not been received.
LEMMA PurgeAckedGood ==
    ASSUME NEW e \in Endpoint, created[e] \in Nat,
           NEW queue \in Seq(QueueItem), GoodQueue(e, queue)
    PROVE  GoodQueue(e, PurgeAcked(queue)) /\ PurgedQueue(PurgeAcked(queue))
<1> DEFINE Q == PurgeAcked(queue)
<1>1. PICK k \in 0..Len(queue) :
          /\ \A i \in 1..k : queue[i].acked
          /\ k < Len(queue) => ~queue[k + 1].acked
          /\ Len(Q) = Len(queue) - k
          /\ \A i \in 1..Len(Q) : Q[i] = queue[k + i]
  BY PurgedItems
<1>2. Len(queue) \in Nat /\ DOMAIN queue = 1..Len(queue)
  OBVIOUS
<1>3. Len(Q) = Len(queue) - k /\ \A i \in 1..Len(Q) : Q[i] = queue[k + i]
  BY <1>1
<1>4. Q = <<>> <=> Len(Q) = 0
  BY <1>1, <1>2, PurgeAckedType, EmptySeq
<1> HIDE DEF Q
<1>5. ASSUME NEW i \in 1..Len(Q)
      PROVE  /\ Q[i].message.from = e
             /\ Q[i].message.position = created[e] - Len(Q) + i - 1
             /\ GoodSequenced(Q[i].message)
             /\ Q[i].acked => Received(PeerOf[e], Q[i].message.position)
  <2>1. k + i \in 1..Len(queue) /\ Q[i] = queue[k + i]
    BY <1>2, <1>3
  <2>2. queue[k + i].message.position = created[e] - Len(queue) + (k + i) - 1
    BY <2>1 DEF GoodQueue
  <2>3. created[e] - Len(queue) + (k + i) - 1 = created[e] - Len(Q) + i - 1
    BY <1>2, <1>3
  <2> QED
    BY <2>1, <2>2, <2>3 DEF GoodQueue
<1>6. ASSUME NEW p \in 0..created[e] - Len(Q) - 1
      PROVE  Received(PeerOf[e], p)
  <2>1. CASE p <= created[e] - Len(queue) - 1
    <3>1. p \in 0..created[e] - Len(queue) - 1
      BY <1>2, <2>1
    <3> QED
      BY <3>1 DEF GoodQueue
  <2>2. CASE p > created[e] - Len(queue) - 1
    <3> DEFINE i == p - (created[e] - Len(queue)) + 1
    <3>1. i \in 1..k /\ i \in 1..Len(queue) /\ p = created[e] - Len(queue) + i - 1
      BY <1>2, <1>3, <2>2
    <3> HIDE DEF i
    <3>2. queue[i].acked /\ queue[i].message.position = p
      BY <1>1, <3>1 DEF GoodQueue
    <3> QED
      BY <3>1, <3>2 DEF GoodQueue
  <2> QED
    BY <1>2, <1>3, <2>1, <2>2
<1>7. Len(Q) <= created[e]
  BY <1>2, <1>3 DEF GoodQueue
<1>8. GoodQueue(e, Q)
  BY <1>5, <1>6, <1>7 DEF GoodQueue
<1>9. PurgedQueue(Q)
  <2>1. Q # <<>> => k < Len(queue) /\ Q[1] = queue[k + 1]
    <3>1. ASSUME Q # <<>> PROVE 1 \in 1..Len(Q) /\ k < Len(queue)
      <4>1. Len(Q) # 0 /\ Len(Q) = Len(queue) - k
        BY <1>3, <1>4, <3>1
      <4> QED
        BY <1>2, <4>1, SuffixLength
    <3> QED
      BY <1>3, <3>1
  <2> QED
    BY <1>1, <2>1 DEF PurgedQueue
<1> QED
  BY <1>8, <1>9 DEF Q

-----------------------------------------------------------------------------
(* The messages of a send queue.                                           *)

MessagesOf(queue) == {queue[i].message : i \in 1..Len(queue)}

LEMMA MessagesOfPurged ==
    ASSUME NEW queue \in Seq(QueueItem)
    PROVE  MessagesOf(PurgeAcked(queue)) \subseteq MessagesOf(queue)
<1>1. PICK k \in 0..Len(queue) :
          /\ Len(PurgeAcked(queue)) = Len(queue) - k
          /\ \A i \in 1..Len(PurgeAcked(queue)) : PurgeAcked(queue)[i] = queue[k + i]
  BY PurgedItems
<1>2. \A i \in 1..Len(PurgeAcked(queue)) : k + i \in 1..Len(queue)
  <2>1. Len(queue) \in Nat
    OBVIOUS
  <2> QED
    BY <1>1, <2>1
<1> QED
  BY <1>1, <1>2 DEF MessagesOf

LEMMA MessagesOfAcked ==
    ASSUME NEW queue \in Seq(QueueItem), NEW indices
    PROVE  MessagesOf(AckItems(queue, indices)) \subseteq MessagesOf(queue)
<1>1. Len(AckItems(queue, indices)) = Len(queue)
  BY DEF AckItems
<1>2. ASSUME NEW i \in 1..Len(queue)
      PROVE  AckItems(queue, indices)[i].message = queue[i].message
  <2>1. AckItems(queue, indices)[i] =
            IF i \in indices THEN AckItem(queue[i]) ELSE queue[i]
    BY DEF AckItems
  <2>2. AckItem(queue[i]).message = queue[i].message
    BY DEF AckItem
  <2> QED
    BY <2>1, <2>2
<1> QED
  BY <1>1, <1>2 DEF MessagesOf

LEMMA MessagesOfInSequence ==
    ASSUME NEW queue \in Seq(QueueItem), NEW lastSeen, NEW acknum
    PROVE  MessagesOf(ProcessReceivedInSequenceAck(queue, lastSeen, acknum))
               \subseteq MessagesOf(queue)
<1>1. PICK newly :
          \/ ProcessReceivedInSequenceAck(queue, lastSeen, acknum) = queue
          \/ ProcessReceivedInSequenceAck(queue, lastSeen, acknum) =
                 PurgeAcked(AckItems(queue, newly))
  BY DEF ProcessReceivedInSequenceAck
<1> QED
  BY <1>1, AckItemsType, MessagesOfAcked, MessagesOfPurged

LEMMA MessagesOfRanges ==
    ASSUME NEW queue \in Seq(QueueItem), NEW acks
    PROVE  MessagesOf(ProcessReceivedAcks(queue, acks)) \subseteq MessagesOf(queue)
<1>1. PICK newly :
          \/ ProcessReceivedAcks(queue, acks) = queue
          \/ ProcessReceivedAcks(queue, acks) = PurgeAcked(AckItems(queue, newly))
  BY DEF ProcessReceivedAcks
<1> QED
  BY <1>1, AckItemsType, MessagesOfAcked, MessagesOfPurged

LEMMA MessagesOfTried ==
    ASSUME NEW queue \in Seq(QueueItem), NEW i \in DOMAIN queue
    PROVE  MessagesOf([queue EXCEPT ![i] = TriedItem(queue[i])])
               \subseteq MessagesOf(queue)
<1> DEFINE Q == [queue EXCEPT ![i] = TriedItem(queue[i])]
<1>1. Len(Q) = Len(queue) /\ DOMAIN queue = 1..Len(queue)
  OBVIOUS
<1>2. TriedItem(queue[i]).message = queue[i].message
  BY DEF TriedItem
<1>3. \A j \in 1..Len(queue) : Q[j].message = queue[j].message
  BY <1>1, <1>2
<1> HIDE DEF Q
<1>4. MessagesOf(Q) \subseteq MessagesOf(queue)
  BY <1>1, <1>3 DEF MessagesOf
<1> QED
  BY <1>4 DEF Q

LEMMA MessagesOfAppended ==
    ASSUME NEW queue \in Seq(QueueItem), NEW item \in QueueItem
    PROVE  MessagesOf(Append(queue, item))
               \subseteq MessagesOf(queue) \cup {item.message}
<1>1. PICK Q : Q = Append(queue, item)
  OBVIOUS
<1>2. /\ Len(Q) = Len(queue) + 1 /\ Len(queue) \in Nat
      /\ \A i \in 1..Len(queue) : Q[i] = queue[i]
      /\ Q[Len(queue) + 1] = item
  BY <1>1, AppendProperties
<1>3. \A i \in 1..Len(Q) : i \in 1..Len(queue) \/ i = Len(queue) + 1
  BY <1>2
<1>4. \A i \in 1..Len(Q) : Q[i].message \in MessagesOf(queue) \cup {item.message}
  BY <1>2, <1>3 DEF MessagesOf
<1> QED
  BY <1>1, <1>4 DEF MessagesOf

-----------------------------------------------------------------------------
(* The numbers in use stay recent.                                         *)

\* They do when those that come into use are.
LEMMA RecentNext ==
    ASSUME TypeOK, TypeOK',
           \A e \in Endpoint : NumbersInUseAreRecent(e, created'[e]),
           \A f \in Endpoint : taken[f] <= taken'[f],
           \A e \in Endpoint : \A m \in network' :
               m \in network \/ NamesRecent(e, m, created'[e]),
           \A e, f \in Endpoint : \A m \in MessagesOf(sendQueue'[f]) :
               m \in MessagesOf(sendQueue[f]) \/ NamesRecent(e, m, created'[e]),
           \A e \in Endpoint : \A a \in pendingAcks'[PeerOf[e]] :
               a \in pendingAcks[PeerOf[e]] \/ IsRecent(a.position, created'[e])
    PROVE  NumbersAreRecent'
<1> SUFFICES ASSUME NEW e \in Endpoint
             PROVE  /\ \A m \in network' : NamesRecent(e, m, created'[e])
                    /\ \A f \in Endpoint : \A i \in DOMAIN sendQueue'[f] :
                           NamesRecent(e, sendQueue'[f][i].message, created'[e])
                    /\ \A a \in pendingAcks'[PeerOf[e]] :
                           IsRecent(a.position, created'[e])
                    /\ IsRecent(taken'[PeerOf[e]], created'[e])
  BY DEF NumbersAreRecent, NumbersInUseAreRecent, NamesRecent, IsRecent
<1>1. NumbersInUseAreRecent(e, created'[e])
  OBVIOUS
<1>2. \A m \in network' : NamesRecent(e, m, created'[e])
  BY <1>1 DEF NumbersInUseAreRecent
<1>3. ASSUME NEW f \in Endpoint, NEW i \in DOMAIN sendQueue'[f]
      PROVE  NamesRecent(e, sendQueue'[f][i].message, created'[e])
  <2>1. /\ DOMAIN sendQueue[f] = 1..Len(sendQueue[f])
        /\ DOMAIN sendQueue'[f] = 1..Len(sendQueue'[f])
    BY DEF TypeOK
  <2>2. PICK m : m = sendQueue'[f][i].message
    OBVIOUS
  <2>3. m \in MessagesOf(sendQueue'[f])
    BY <2>1, <2>2 DEF MessagesOf
  <2>4. CASE m \in MessagesOf(sendQueue[f])
    <3>1. PICK j \in DOMAIN sendQueue[f] : m = sendQueue[f][j].message
      BY <2>1, <2>4 DEF MessagesOf
    <3> QED
      BY <1>1, <2>2, <3>1 DEF NumbersInUseAreRecent
  <2> QED
    BY <2>2, <2>3, <2>4
<1>4. \A a \in pendingAcks'[PeerOf[e]] : IsRecent(a.position, created'[e])
  BY <1>1 DEF NumbersInUseAreRecent
<1>5. IsRecent(taken'[PeerOf[e]], created'[e])
  <2>1. IsRecent(taken[PeerOf[e]], created'[e])
    BY <1>1 DEF NumbersInUseAreRecent
  <2>2. /\ PeerOf[e] \in Endpoint /\ created'[e] \in Nat
        /\ taken[PeerOf[e]] \in Nat /\ taken'[PeerOf[e]] \in Nat
        /\ taken[PeerOf[e]] <= taken'[PeerOf[e]]
    BY ConstantFacts DEF TypeOK
  <2> QED
    BY <2>1, <2>2, LaterIsRecent
<1> QED
  BY <1>2, <1>3, <1>4, <1>5

\* And when nothing is made.
LEMMA RecentStays ==
    ASSUME TypeOK, TypeOK', NumbersAreRecent, UNCHANGED created,
           \A f \in Endpoint : taken[f] <= taken'[f],
           \A e \in Endpoint : \A m \in network' :
               m \in network \/ NamesRecent(e, m, created[e]),
           \A f \in Endpoint :
               MessagesOf(sendQueue'[f]) \subseteq MessagesOf(sendQueue[f]),
           \A e \in Endpoint : \A a \in pendingAcks'[PeerOf[e]] :
               a \in pendingAcks[PeerOf[e]] \/ IsRecent(a.position, created[e])
    PROVE  NumbersAreRecent'
<1>1. \A e \in Endpoint : NumbersInUseAreRecent(e, created'[e])
  BY DEF NumbersAreRecent
<1> QED
  BY <1>1, RecentNext

\* The positions in a queue are recent.
RecentQueue(e, queue) ==
    \A m \in MessagesOf(queue) : IsRecent(m.position, created[e])

LEMMA QueuesAreRecent ==
    ASSUME TypeOK, NumbersAreRecent, QueuesAreGood, NEW e \in Endpoint
    PROVE  RecentQueue(e, sendQueue[e])
<1> SUFFICES ASSUME NEW m \in MessagesOf(sendQueue[e])
             PROVE  IsRecent(m.position, created[e])
  BY DEF RecentQueue
<1>1. PICK queue \in Seq(QueueItem) : queue = sendQueue[e]
  BY DEF TypeOK
<1>2. PICK i \in 1..Len(queue) : m = queue[i].message
  BY <1>1 DEF MessagesOf
<1>3. m.from = e
  BY <1>1, <1>2 DEF QueuesAreGood, GoodQueue
<1>4. m.type # "EAck"
  BY <1>2, ItemMessage DEF SequencedMessage
<1>5. NamesRecent(e, m, created[e])
  <2>1. i \in DOMAIN sendQueue[e] /\ m = sendQueue[e][i].message
    BY <1>1, <1>2
  <2> QED
    BY <2>1 DEF NumbersAreRecent, NumbersInUseAreRecent
<1> QED
  BY <1>3, <1>4, <1>5 DEF NamesRecent

-----------------------------------------------------------------------------
(* Acknowledgements that arrive.                                           *)

LEMMA QueuePositions ==
    ASSUME TypeOK, NEW e \in Endpoint, NEW queue \in Seq(QueueItem),
           GoodQueue(e, queue), RecentQueue(e, queue), NEW i \in 1..Len(queue)
    PROVE  /\ queue[i].message.position \in 0..created[e] - 1
           /\ IsRecent(queue[i].message.position, created[e])
           /\ queue[i].message.seqnum = SequenceAt(e, queue[i].message.position)
<1>1. /\ queue[i].message.from = e
      /\ GoodSequenced(queue[i].message)
  BY DEF GoodQueue
<1>2. /\ queue[i].message.position \in 0..created[e] - 1
      /\ queue[i].message.seqnum = SequenceAt(e, queue[i].message.position)
  BY <1>1 DEF GoodSequenced
<1>3. queue[i].message \in MessagesOf(queue)
  BY DEF MessagesOf
<1> QED
  BY <1>2, <1>3 DEF RecentQueue

\* All up to the acknowledged item has been taken in order by the peer.
LEMMA InSequenceAckGood ==
    ASSUME TypeOK, TakenWasMade, NEW e \in Endpoint,
           NEW queue \in Seq(QueueItem), GoodQueue(e, queue), PurgedQueue(queue),
           RecentQueue(e, queue),
           NEW lastSeen, NEW acknum, NEW q, TakenNumber(PeerOf[e], acknum, q),
           IsRecent(q, created[e])
    PROVE  LET result == ProcessReceivedInSequenceAck(queue, lastSeen, acknum)
           IN  GoodQueue(e, result) /\ PurgedQueue(result)
<1> DEFINE hits == {i \in DOMAIN queue : queue[i].message.seqnum = acknum}
           newly == {j \in DOMAIN queue : /\ \E i \in hits : j <= i
                                          /\ queue[j].tried
                                          /\ ~queue[j].acked}
           result == ProcessReceivedInSequenceAck(queue, lastSeen, acknum)
<1>1. result = IF acknum = lastSeen \/ newly = {} THEN queue
               ELSE PurgeAcked(AckItems(queue, newly))
  BY DEF ProcessReceivedInSequenceAck
<1>2. PeerOf[e] \in Endpoint /\ PeerOf[PeerOf[e]] = e
      /\ DOMAIN queue = 1..Len(queue) /\ Len(queue) \in Nat /\ created[e] \in Nat
      /\ taken[PeerOf[e]] \in Nat
  BY ConstantFacts DEF TypeOK
<1>3. q \in 0..taken[PeerOf[e]] /\ acknum = SequenceAt(e, q)
  BY <1>2 DEF TakenNumber
<1>4. q \in 0..created[e] - 1
  <2>1. taken[PeerOf[e]] < created[e]
    BY <1>2 DEF TakenWasMade
  <2> QED
    BY <1>2, <1>3, <2>1
<1>5. ASSUME NEW j \in 1..Len(queue), j \in newly
      PROVE  Received(PeerOf[e], queue[j].message.position)
  <2>1. PICK i \in 1..Len(queue) : queue[i].message.seqnum = acknum /\ j <= i
    BY <1>2, <1>5
  <2>2. queue[i].message.position = q
    BY <1>2, <1>3, <1>4, <2>1, QueuePositions, SequenceAtInjective
  <2>3. /\ queue[i].message.position = created[e] - Len(queue) + i - 1
        /\ queue[j].message.position = created[e] - Len(queue) + j - 1
    BY DEF GoodQueue
  <2>4. queue[j].message.position <= taken[PeerOf[e]]
    BY <1>2, <1>3, <2>1, <2>2, <2>3
  <2> QED
    BY <2>4 DEF Received
<1> HIDE DEF newly, result
<1>6. GoodQueue(e, AckItems(queue, newly)) /\ AckItems(queue, newly) \in Seq(QueueItem)
  BY <1>5, AckItemsGood, AckItemsType
<1>7. GoodQueue(e, PurgeAcked(AckItems(queue, newly)))
      /\ PurgedQueue(PurgeAcked(AckItems(queue, newly)))
  BY <1>2, <1>6, PurgeAckedGood
<1>8. GoodQueue(e, result) /\ PurgedQueue(result)
  BY <1>1, <1>7
<1> QED
  BY <1>8 DEF result

\* What is acknowledged by ranges has been received.
LEMMA AcksGood ==
    ASSUME TypeOK, NEW e \in Endpoint,
           NEW queue \in Seq(QueueItem), GoodQueue(e, queue), PurgedQueue(queue),
           RecentQueue(e, queue), NEW acks,
           \A a \in acks : /\ ReceivedNumber(PeerOf[e], a)
                           /\ IsRecent(a.position, created[e])
    PROVE  LET result == ProcessReceivedAcks(queue, acks)
           IN  GoodQueue(e, result) /\ PurgedQueue(result)
<1> DEFINE newly == {i \in DOMAIN queue :
                        /\ \E a \in acks : queue[i].message.seqnum = a.seqnum
                        /\ ~queue[i].acked}
           result == ProcessReceivedAcks(queue, acks)
<1>1. result = IF newly = {} THEN queue ELSE PurgeAcked(AckItems(queue, newly))
  BY DEF ProcessReceivedAcks
<1>2. PeerOf[e] \in Endpoint /\ PeerOf[PeerOf[e]] = e
      /\ DOMAIN queue = 1..Len(queue) /\ created[e] \in Nat
  BY ConstantFacts DEF TypeOK
<1>3. ASSUME NEW i \in 1..Len(queue), i \in newly
      PROVE  Received(PeerOf[e], queue[i].message.position)
  <2>1. PICK a \in acks : queue[i].message.seqnum = a.seqnum
    BY <1>3
  <2>2. /\ a.position \in 0..created[e] - 1
        /\ IsRecent(a.position, created[e])
        /\ queue[i].message.seqnum = SequenceAt(e, a.position)
        /\ Received(PeerOf[e], a.position)
    BY <1>2, <2>1 DEF ReceivedNumber
  <2>3. queue[i].message.position = a.position
    BY <1>2, <2>2, QueuePositions, SequenceAtInjective
  <2> QED
    BY <2>2, <2>3
<1> HIDE DEF newly, result
<1>4. GoodQueue(e, AckItems(queue, newly)) /\ AckItems(queue, newly) \in Seq(QueueItem)
  BY <1>3, AckItemsGood, AckItemsType
<1>5. GoodQueue(e, PurgeAcked(AckItems(queue, newly)))
      /\ PurgedQueue(PurgeAcked(AckItems(queue, newly)))
  BY <1>2, <1>4, PurgeAckedGood
<1>6. GoodQueue(e, result) /\ PurgedQueue(result)
  BY <1>1, <1>5
<1> QED
  BY <1>6 DEF result

-----------------------------------------------------------------------------
(* What a step leaves alone, or only adds to, stays good.                  *)

LEMMA GrowsByQueue ==
    ASSUME TypeOK, TypeOK', UNCHANGED taken,
           \A f \in Endpoint : created[f] <= created'[f],
           \A f \in Endpoint : receiveQueue[f] \subseteq receiveQueue'[f]
    PROVE  Grows
<1> SUFFICES ASSUME NEW f \in Endpoint
             PROVE  /\ created'[f] \in Nat /\ created[f] <= created'[f]
                    /\ taken'[f] \in Nat /\ taken[f] <= taken'[f]
                    /\ \A p \in Nat : Received(f, p) => Received(f, p)'
  BY DEF Grows
<1>1. created'[f] \in Nat /\ taken'[f] \in Nat /\ taken[f] \in Nat
  BY DEF TypeOK
<1>2. \A p \in Nat : Received(f, p) => Received(f, p)'
  BY DEF Received
<1> QED
  BY <1>1, <1>2

LEMMA GrowsByReceiving ==
    ASSUME TypeOK, TypeOK', UNCHANGED <<created, taken>>,
           \A f \in Endpoint : receiveQueue[f] \subseteq receiveQueue'[f]
    PROVE  Grows
<1>1. \A f \in Endpoint : created[f] <= created'[f]
  BY DEF TypeOK
<1> QED
  BY <1>1, GrowsByQueue

LEMMA NetworkShrinks ==
    ASSUME TypeOK, Grows, NetworkIsGood, network' \subseteq network
    PROVE  NetworkIsGood'
BY GoodMessageGrows DEF NetworkIsGood

LEMMA NetworkCarries ==
    ASSUME TypeOK, Grows, NetworkIsGood, NEW m, GoodMessage(m)', NEW outcome,
           Carry(m, outcome)
    PROVE  NetworkIsGood'
<1>1. network' \subseteq network \cup {m}
  BY DEF Carry
<1>2. \A k \in network : GoodMessage(k)'
  BY GoodMessageGrows DEF NetworkIsGood
<1> QED
  BY <1>1, <1>2 DEF NetworkIsGood

LEMMA QueueBecomes ==
    ASSUME TypeOK, Grows, QueuesAreGood, NEW e \in Endpoint, NEW queue,
           sendQueue' = [sendQueue EXCEPT ![e] = queue],
           GoodQueue(e, queue)', PurgedQueue(queue),
           \A f \in Endpoint \ {e} : created'[f] = created[f]
    PROVE  QueuesAreGood'
<1> SUFFICES ASSUME NEW f \in Endpoint
             PROVE  (GoodQueue(f, sendQueue[f]) /\ PurgedQueue(sendQueue[f]))'
  BY DEF QueuesAreGood
<1>1. PICK Q : Q = sendQueue'[f]
  OBVIOUS
<1>2. GoodQueue(f, Q)' /\ PurgedQueue(Q)
  <2>1. CASE f = e
    BY <1>1, <2>1 DEF TypeOK
  <2>2. CASE f # e
    <3>1. Q = sendQueue[f] /\ created'[f] = created[f]
      BY <1>1, <2>2 DEF TypeOK
    <3>2. Q \in Seq(QueueItem) /\ GoodQueue(f, Q) /\ PurgedQueue(Q)
      BY <3>1 DEF TypeOK, QueuesAreGood
    <3> QED
      BY <3>1, <3>2, GoodQueueGrows
  <2> QED
    BY <2>1, <2>2
<1> QED
  BY <1>1, <1>2 DEF GoodQueue, PurgedQueue

LEMMA QueuesStay ==
    ASSUME TypeOK, Grows, QueuesAreGood, UNCHANGED <<sendQueue, created>>
    PROVE  QueuesAreGood'
<1> SUFFICES ASSUME NEW f \in Endpoint
             PROVE  (GoodQueue(f, sendQueue[f]) /\ PurgedQueue(sendQueue[f]))'
  BY DEF QueuesAreGood
<1>1. PICK Q : Q = sendQueue[f]
  OBVIOUS
<1>2. Q \in Seq(QueueItem) /\ GoodQueue(f, Q) /\ PurgedQueue(Q)
  BY <1>1 DEF TypeOK, QueuesAreGood
<1>3. GoodQueue(f, Q)'
  BY <1>2, GoodQueueGrows
<1> QED
  BY <1>1, <1>2, <1>3 DEF GoodQueue, PurgedQueue

LEMMA ReceiveQueuesStay ==
    ASSUME TypeOK, Grows, ReceiveQueuesAreGood, UNCHANGED <<receiveQueue, taken>>
    PROVE  ReceiveQueuesAreGood'
<1>1. \A f \in Endpoint : \A m \in receiveQueue[f] : GoodSequenced(m)'
  BY GoodSequencedGrows DEF ReceiveQueuesAreGood, TypeOK
<1> QED
  BY <1>1 DEF ReceiveQueuesAreGood

LEMMA PendingAcksShrink ==
    ASSUME TypeOK, Grows, PendingAcksAreGood,
           \A f \in Endpoint : pendingAcks'[f] \subseteq pendingAcks[f]
    PROVE  PendingAcksAreGood'
BY ReceivedNumberGrows DEF PendingAcksAreGood

LEMMA PendingAcksAdd ==
    ASSUME TypeOK, Grows, PendingAcksAreGood, NEW e \in Endpoint, NEW s,
           pendingAcks' = [pendingAcks EXCEPT ![e] = @ \cup {s}],
           ReceivedNumber(e, s)'
    PROVE  PendingAcksAreGood'
<1>1. \A f \in Endpoint : \A r \in pendingAcks[f] : ReceivedNumber(f, r)'
  BY ReceivedNumberGrows DEF PendingAcksAreGood
<1> QED
  BY <1>1 DEF PendingAcksAreGood, TypeOK

LEMMA CountersStay ==
    ASSUME TakenWasMade, NumbersFollowPositions,
           UNCHANGED <<created, taken, nextSend, lastInOrder>>
    PROVE  TakenWasMade' /\ NumbersFollowPositions'
BY DEF TakenWasMade, NumbersFollowPositions

-----------------------------------------------------------------------------
(* A new message, and one sent again.                                      *)

LEMMA GoodQueueAppend ==
    ASSUME TypeOK, Grows, NEW e \in Endpoint, NEW queue \in Seq(QueueItem),
           GoodQueue(e, queue), PurgedQueue(queue),
           created'[e] = created[e] + 1,
           NEW item \in QueueItem, GoodSequenced(item.message)',
           item.message.from = e, item.message.position = created[e], ~item.acked
    PROVE  GoodQueue(e, Append(queue, item))' /\ PurgedQueue(Append(queue, item))
<1>1. PICK Q : Q = Append(queue, item)
  OBVIOUS
<1>2. /\ Q \in Seq(QueueItem) /\ Len(Q) = Len(queue) + 1
      /\ \A i \in 1..Len(queue) : Q[i] = queue[i]
      /\ Q[Len(queue) + 1] = item /\ Q # <<>>
  BY <1>1, AppendProperties
<1>3. PeerOf[e] \in Endpoint /\ Len(queue) \in Nat /\ created[e] \in Nat
  BY ConstantFacts DEF TypeOK
<1>4. created'[e] - Len(Q) = created[e] - Len(queue)
  BY <1>2, <1>3
<1>5. ASSUME NEW i \in 1..Len(Q)
      PROVE  /\ Q[i].message.from = e
             /\ Q[i].message.position = created'[e] - Len(Q) + i - 1
             /\ GoodSequenced(Q[i].message)'
             /\ Q[i].acked => Received(PeerOf[e], Q[i].message.position)'
  <2>1. CASE i = Len(queue) + 1
    <3>1. Q[i] = item
      BY <1>2, <2>1
    <3>2. created'[e] - Len(Q) + i - 1 = created[e]
      BY <1>3, <1>4, <2>1
    <3> QED
      BY <3>1, <3>2
  <2>2. CASE i # Len(queue) + 1
    <3>1. i \in 1..Len(queue)
      BY <1>2, <1>3, <2>2
    <3>2. Q[i] = queue[i]
      BY <1>2, <3>1
    <3>3. /\ queue[i].message.from = e
          /\ queue[i].message.position = created[e] - Len(queue) + i - 1
          /\ GoodSequenced(queue[i].message)
          /\ queue[i].acked => Received(PeerOf[e], queue[i].message.position)
      BY <3>1 DEF GoodQueue
    <3>4. GoodSequenced(queue[i].message)'
      BY <3>1, <3>3, ItemMessage, GoodSequencedGrows
    <3>5. queue[i].acked => Received(PeerOf[e], queue[i].message.position)'
      BY <1>3, <3>1, <3>3, ItemMessage DEF Grows
    <3> QED
      BY <1>4, <3>2, <3>3, <3>4, <3>5
  <2> QED
    BY <2>1, <2>2
<1>6. ASSUME NEW p \in 0..created'[e] - Len(Q) - 1
      PROVE  Received(PeerOf[e], p)'
  BY <1>3, <1>4 DEF GoodQueue, Grows
<1>7. Len(Q) <= created'[e]
  BY <1>2, <1>3 DEF GoodQueue
<1>8. GoodQueue(e, Q)'
  BY <1>5, <1>6, <1>7 DEF GoodQueue
<1>9. ~Q[1].acked
  <2>1. CASE Len(queue) = 0
    BY <1>2, <2>1
  <2>2. CASE Len(queue) # 0
    <3>1. 1 \in 1..Len(queue) /\ queue # <<>>
      BY <1>3, <2>2
    <3> QED
      BY <1>2, <3>1 DEF PurgedQueue
  <2> QED
    BY <2>1, <2>2
<1> QED
  BY <1>1, <1>8, <1>9 DEF PurgedQueue

LEMMA GoodQueueTried ==
    ASSUME NEW e \in Endpoint, NEW queue \in Seq(QueueItem),
           GoodQueue(e, queue), PurgedQueue(queue), NEW i \in DOMAIN queue,
           NEW Q, Q = [queue EXCEPT ![i] = TriedItem(queue[i])]
    PROVE  Q \in Seq(QueueItem) /\ GoodQueue(e, Q) /\ PurgedQueue(Q)
<1>1. i \in 1..Len(queue) /\ Len(queue) \in Nat
  OBVIOUS
<1>2. TriedItem(queue[i]) \in QueueItem
  BY <1>1, ItemMessage DEF TriedItem, QueueItem
<1>3. Q \in Seq(QueueItem) /\ Len(Q) = Len(queue)
  BY <1>1, <1>2, ExceptSeq
<1>4. TriedItem(queue[i]).message = queue[i].message
      /\ TriedItem(queue[i]).acked = queue[i].acked
  BY DEF TriedItem
<1>5. \A j \in 1..Len(queue) : /\ Q[j].message = queue[j].message
                               /\ Q[j].acked = queue[j].acked
  BY <1>4
<1>6. GoodQueue(e, Q)
  BY <1>3, <1>5 DEF GoodQueue
<1>7. PurgedQueue(Q)
  <2>1. 1 \in 1..Len(queue) /\ queue # <<>>
    BY <1>1
  <2> QED
    BY <1>5, <2>1 DEF PurgedQueue
<1> QED
  BY <1>3, <1>6, <1>7

\* A message that is handed to the send queue.
LEMMA SendSequencedGood ==
    ASSUME IInv, TypeOK', NEW e \in Endpoint, NEW type \in {"Data", "State"},
           NEW window \in Nat, NEW outcome, SendSequenced(e, type, window, outcome),
           UNCHANGED <<receiveQueue, taken, pendingAcks, lastInOrder>>
    PROVE  IInv'
<1> USE DEF IInv
<1>1. /\ created' = [created EXCEPT ![e] = @ + 1]
      /\ nextSend' = [nextSend EXCEPT ![e] = NextSequenceNumber(@)]
      /\ created[e] \in Nat /\ created \in [Endpoint -> Nat]
      /\ nextSend \in [Endpoint -> SequenceNumbers]
      /\ taken[e] \in Nat /\ lastInOrder[e] \in SequenceNumbers
  BY DEF SendSequenced, Add, TypeOK
<1>2. /\ created'[e] = created[e] + 1
      /\ \A f \in Endpoint \ {e} : created'[f] = created[f]
      /\ \A f \in Endpoint : created[f] <= created'[f]
  BY <1>1
<1>3. Grows
  BY <1>2, GrowsByQueue
<1>4. PICK m : m = Sequenced(e, type, window)
  OBVIOUS
<1>5. /\ m \in SequencedMessage
      /\ m.from = e /\ m.type = type /\ m.seqnum = nextSend[e]
      /\ m.acknum = lastInOrder[e] /\ m.position = created[e]
      /\ m.upTo = taken[e]
  BY <1>4, SequencedType DEF Sequenced
<1>6. GoodSequenced(m)'
  <2>1. m.position \in 0..created'[m.from] - 1
    BY <1>1, <1>2, <1>5
  <2>2. m.seqnum = SequenceAt(m.from, m.position)
    BY <1>5 DEF NumbersFollowPositions
  <2>3. TakenNumber(e, m.acknum, m.upTo)
    <3>1. taken[e] \in 0..taken[e]
      BY <1>1
    <3> QED
      BY <1>5, <3>1 DEF NumbersFollowPositions, TakenNumber
  <2>4. TakenNumber(m.from, m.acknum, m.upTo)'
    BY <1>3, <1>5, <2>3, TakenNumberGrows
  <2> QED
    BY <2>1, <2>2, <2>4 DEF GoodSequenced
<1>7. NetworkIsGood'
  <2>1. GoodMessage(m)'
    BY <1>5, <1>6 DEF GoodMessage
  <2>2. Carry(m, outcome)
    BY <1>4 DEF SendSequenced, Add
  <2> QED
    BY <1>3, <2>1, <2>2, NetworkCarries
<1>8. QueuesAreGood'
  <2>1. PICK item : item = Item(m, outcome # "refused")
    OBVIOUS
  <2>2. item \in QueueItem /\ item.message = m /\ ~item.acked
    BY <1>5, <2>1 DEF Item, QueueItem
  <2>3. PICK queue : queue = sendQueue[e]
    OBVIOUS
  <2>4. PICK Q : Q = Append(queue, item)
    OBVIOUS
  <2>5. /\ queue \in Seq(QueueItem) /\ GoodQueue(e, queue) /\ PurgedQueue(queue)
    BY <2>3 DEF TypeOK, QueuesAreGood
  <2>6. GoodQueue(e, Append(queue, item))' /\ PurgedQueue(Append(queue, item))
    BY <1>2, <1>3, <1>5, <1>6, <2>2, <2>5, GoodQueueAppend
  <2>7. GoodQueue(e, Q)' /\ PurgedQueue(Q)
    BY <2>4, <2>6
  <2>8. sendQueue' = [sendQueue EXCEPT ![e] = Q]
    BY <1>4, <2>1, <2>3, <2>4 DEF SendSequenced, Add
  <2> QED
    BY <1>2, <1>3, <2>7, <2>8, QueueBecomes
<1>9. NumbersFollowPositions'
  <2>1. NextSequenceNumber(SequenceAt(e, created[e])) = SequenceAt(e, created[e] + 1)
    BY <1>1, SequenceAtNext
  <2>2. nextSend'[e] = SequenceAt(e, created'[e])
    BY <1>1, <1>2, <2>1 DEF NumbersFollowPositions
  <2>3. \A f \in Endpoint \ {e} : nextSend'[f] = SequenceAt(f, created'[f])
    BY <1>1, <1>2 DEF NumbersFollowPositions
  <2>4. \A f \in Endpoint : lastInOrder'[f] = SequenceAt(PeerOf[f], taken'[f])
    BY DEF NumbersFollowPositions
  <2> QED
    BY <2>2, <2>3, <2>4 DEF NumbersFollowPositions
<1>10. ReceiveQueuesAreGood' /\ PendingAcksAreGood'
  BY <1>3, ReceiveQueuesStay, PendingAcksShrink
<1>11. TakenWasMade'
  <2> SUFFICES ASSUME NEW f \in Endpoint
               PROVE  created'[f] >= 1 /\ taken'[f] < created'[PeerOf[f]]
    BY DEF TakenWasMade
  <2>1. /\ PeerOf[f] \in Endpoint /\ created[f] \in Nat /\ created'[f] \in Nat
        /\ created[PeerOf[f]] \in Nat /\ created'[PeerOf[f]] \in Nat
        /\ taken[f] \in Nat
    BY ConstantFacts DEF TypeOK
  <2>2. created[f] <= created'[f] /\ created[PeerOf[f]] <= created'[PeerOf[f]]
    BY <1>2, <2>1
  <2>3. created[f] >= 1 /\ taken[f] < created[PeerOf[f]]
    BY DEF TakenWasMade
  <2> QED
    BY <2>1, <2>2, <2>3
<1>12. NumbersAreRecent'
  <2>1. NumbersInUseAreRecent(e, created[e] + 1)
    BY DEF SendSequenced, Add
  <2>2. \A f \in Endpoint : NumbersInUseAreRecent(f, created'[f])
    <3>1. NumbersInUseAreRecent(e, created'[e])
      BY <1>2, <2>1
    <3>2. \A f \in Endpoint \ {e} : NumbersInUseAreRecent(f, created'[f])
      BY <1>2 DEF NumbersAreRecent
    <3> QED
      BY <3>1, <3>2
  <2>3. ASSUME NEW f \in Endpoint PROVE NamesRecent(f, m, created'[f])
    <3>1. CASE f = e
      <4>1. IsRecent(created[e], created[e] + 1)
        BY <1>1, ConstantFacts DEF IsRecent
      <4> QED
        BY <1>2, <1>5, <3>1, <4>1 DEF NamesRecent
    <3>2. CASE f # e
      <4>1. e = PeerOf[f]
        BY <3>2, PeerIsOther
      <4>2. IsRecent(taken[e], created'[f])
        BY <2>2, <4>1 DEF NumbersInUseAreRecent
      <4> QED
        BY <1>5, <3>2, <4>2 DEF NamesRecent
    <3> QED
      BY <3>1, <3>2
  <2>4. \A k \in network' : k \in network \/ k = m
    BY <1>4 DEF SendSequenced, Add, Carry
  <2>5. PICK item \in QueueItem : item.message = m
            /\ sendQueue' = [sendQueue EXCEPT ![e] = Append(@, item)]
    <3>1. PICK item : item = Item(m, outcome # "refused")
      OBVIOUS
    <3>2. item \in QueueItem /\ item.message = m
      BY <1>5, <3>1 DEF Item, QueueItem
    <3> QED
      BY <1>4, <3>1, <3>2 DEF SendSequenced, Add
  <2>6. \A f \in Endpoint : \A k \in MessagesOf(sendQueue'[f]) :
            k \in MessagesOf(sendQueue[f]) \/ k = m
    <3>1. MessagesOf(Append(sendQueue[e], item))
              \subseteq MessagesOf(sendQueue[e]) \cup {m}
      BY <2>5, MessagesOfAppended DEF TypeOK
    <3>2. sendQueue'[e] = Append(sendQueue[e], item)
      BY <2>5 DEF TypeOK
    <3>3. \A f \in Endpoint \ {e} : sendQueue'[f] = sendQueue[f]
      BY <2>5 DEF TypeOK
    <3> QED
      BY <3>1, <3>2, <3>3
  <2>7. \A f \in Endpoint : taken[f] <= taken'[f]
    BY <1>3 DEF Grows
  <2>8. TypeOK
    OBVIOUS
  <2> QED
    BY <2>2, <2>3, <2>4, <2>6, <2>7, <2>8, RecentNext
<1> QED
  BY <1>7, <1>8, <1>9, <1>10, <1>11, <1>12

LEMMA SendPendingSocketDataGood ==
    ASSUME IInv, TypeOK', NEW e \in Endpoint, NEW outcome,
           SendPendingSocketData(e, outcome)
    PROVE  IInv'
<1>1. /\ SendSequenced(e, "Data", 0, outcome)
      /\ UNCHANGED <<receiveQueue, taken, pendingAcks, lastInOrder>>
  BY DEF SendPendingSocketData, receiverVars
<1> QED
  BY <1>1, SendSequencedGood

LEMMA OnMTUUpdateGood ==
    ASSUME IInv, TypeOK', NEW e \in Endpoint, NEW window \in WindowSizes,
           NEW outcome, OnMTUUpdate(e, window, outcome)
    PROVE  IInv'
<1>1. /\ SendSequenced(e, "State", window, outcome)
      /\ UNCHANGED <<receiveQueue, taken, pendingAcks, lastInOrder>>
  BY DEF OnMTUUpdate, receiverVars
<1>2. window \in Nat
  BY ConstantFacts
<1> QED
  BY <1>1, <1>2, SendSequencedGood

LEMMA ProcessGood ==
    ASSUME IInv, TypeOK', NEW e \in Endpoint, NEW i \in DOMAIN sendQueue[e],
           NEW outcome, Process(e, i, outcome)
    PROVE  IInv'
<1> USE DEF IInv
<1>1. /\ UNCHANGED <<nextSend, created, sent, pendingAcks, receiveQueue, taken,
                     lastInOrder>>
      /\ Carry(sendQueue[e][i].message, outcome)
      /\ sendQueue' = [sendQueue EXCEPT ![e][i] = TriedItem(@)]
  BY DEF Process, receiverVars
<1>2. Grows
  BY <1>1, GrowsByReceiving DEF TypeOK
<1>3. PICK queue : queue = sendQueue[e]
  OBVIOUS
<1>4. PICK Q : Q = [queue EXCEPT ![i] = TriedItem(queue[i])]
  OBVIOUS
<1>5. /\ queue \in Seq(QueueItem) /\ GoodQueue(e, queue) /\ PurgedQueue(queue)
      /\ i \in DOMAIN queue
  BY <1>3 DEF TypeOK, QueuesAreGood
<1>6. QueuesAreGood'
  <2>1. Q \in Seq(QueueItem) /\ GoodQueue(e, Q) /\ PurgedQueue(Q)
    BY <1>4, <1>5, GoodQueueTried
  <2>2. GoodQueue(e, Q)'
    BY <1>1, <1>2, <2>1, GoodQueueGrows
  <2>3. sendQueue' = [sendQueue EXCEPT ![e] = Q]
    BY <1>1, <1>3, <1>4
  <2> QED
    BY <1>1, <1>2, <2>1, <2>2, <2>3, QueueBecomes
<1>7. NetworkIsGood'
  <2>1. PICK m : m = queue[i].message
    OBVIOUS
  <2>2. m \in SequencedMessage /\ m.type # "EAck"
    <3>1. m \in SequencedMessage
      BY <1>5, <2>1, ItemMessage
    <3> QED
      BY <3>1 DEF SequencedMessage
  <2>3. GoodSequenced(m)
    BY <1>5, <2>1 DEF GoodQueue
  <2>4. GoodMessage(m)'
    BY <1>2, <2>2, <2>3, GoodSequencedGrows DEF GoodMessage
  <2>5. Carry(m, outcome)
    BY <1>1, <1>3, <2>1
  <2> QED
    BY <1>2, <2>4, <2>5, NetworkCarries
<1>8. NumbersAreRecent'
  <2>1. PICK m : m = queue[i].message
    OBVIOUS
  <2>2. m = sendQueue[e][i].message /\ i \in DOMAIN sendQueue[e]
    BY <1>3, <2>1
  <2>3. \A f \in Endpoint : NamesRecent(f, m, created[f])
    BY <2>2 DEF NumbersAreRecent, NumbersInUseAreRecent
  <2>4. \A k \in network' : k \in network \/ k = m
    BY <1>1, <2>2 DEF Carry
  <2>5. MessagesOf(Q) \subseteq MessagesOf(queue)
    BY <1>4, <1>5, MessagesOfTried
  <2>6. \A f \in Endpoint : MessagesOf(sendQueue'[f]) \subseteq MessagesOf(sendQueue[f])
    BY <1>1, <1>3, <1>4, <2>5 DEF TypeOK
  <2>7. \A f \in Endpoint : taken[f] <= taken'[f]
    BY <1>2 DEF Grows
  <2> QED
    BY <1>1, <2>3, <2>4, <2>6, <2>7, RecentStays
<1> QED
  BY <1>1, <1>2, <1>6, <1>7, <1>8, CountersStay, ReceiveQueuesStay, PendingAcksShrink

LEMMA SendPendingAcksGood ==
    ASSUME IInv, TypeOK', NEW e \in Endpoint, NEW outcome,
           SendPendingAcks(e, outcome)
    PROVE  IInv'
<1> USE DEF IInv
<1>1. PICK ack : ack = [type |-> "EAck", from |-> e, acknum |-> lastInOrder[e],
                        upTo |-> taken[e], acks |-> pendingAcks[e]]
  OBVIOUS
<1>2. /\ UNCHANGED network \/ Carry(ack, outcome)
      /\ pendingAcks' = [pendingAcks EXCEPT ![e] = {}]
      /\ UNCHANGED <<sendQueue, nextSend, created, sent, receiveQueue, taken,
                     lastInOrder>>
  BY <1>1 DEF SendPendingAcks, senderVars, receiverVars
<1>3. Grows
  BY <1>2, GrowsByReceiving DEF TypeOK
<1>4. \A f \in Endpoint : pendingAcks'[f] \subseteq pendingAcks[f]
  BY <1>2 DEF TypeOK
<1>5. GoodMessage(ack)'
  <2>1. /\ ack.type = "EAck" /\ ack.from = e /\ ack.acknum = lastInOrder[e]
        /\ ack.upTo = taken[e] /\ ack.acks = pendingAcks[e]
    BY <1>1
  <2>2. TakenNumber(e, ack.acknum, ack.upTo)
    <3>1. taken[e] \in 0..taken[e]
      BY DEF TypeOK
    <3> QED
      BY <2>1, <3>1 DEF NumbersFollowPositions, TakenNumber
  <2>3. \A s \in ack.acks : ReceivedNumber(e, s)
    BY <2>1 DEF PendingAcksAreGood
  <2>4. TakenNumber(e, ack.acknum, ack.upTo)' /\ \A s \in ack.acks : ReceivedNumber(e, s)'
    BY <1>3, <2>2, <2>3, TakenNumberGrows, ReceivedNumberGrows
  <2> QED
    BY <2>1, <2>4 DEF GoodMessage, GoodAck
<1>6. NetworkIsGood'
  BY <1>2, <1>3, <1>5, NetworkShrinks, NetworkCarries
<1>7. NumbersAreRecent'
  <2>1. /\ ack.type = "EAck" /\ ack.from = e
        /\ ack.upTo = taken[e] /\ ack.acks = pendingAcks[e]
    BY <1>1
  <2>2. ASSUME NEW f \in Endpoint PROVE NamesRecent(f, ack, created[f])
    <3>1. CASE f = e
      BY <2>1, <3>1 DEF NamesRecent
    <3>2. CASE f # e
      <4>1. e = PeerOf[f]
        BY <3>2, PeerIsOther
      <4>2. /\ IsRecent(taken[e], created[f])
            /\ \A a \in pendingAcks[e] : IsRecent(a.position, created[f])
        BY <4>1 DEF NumbersAreRecent, NumbersInUseAreRecent
      <4> QED
        BY <2>1, <3>2, <4>2 DEF NamesRecent
    <3> QED
      BY <3>1, <3>2
  <2>3. \A k \in network' : k \in network \/ k = ack
    BY <1>2 DEF Carry
  <2>4. \A f \in Endpoint : taken[f] <= taken'[f]
    BY <1>3 DEF Grows
  <2>5. \A f \in Endpoint : PeerOf[f] \in Endpoint
    BY ConstantFacts
  <2> QED
    BY <1>2, <1>4, <2>2, <2>3, <2>4, <2>5, RecentStays
<1> QED
  BY <1>2, <1>3, <1>4, <1>6, <1>7, CountersStay, QueuesStay, ReceiveQueuesStay,
     PendingAcksShrink

-----------------------------------------------------------------------------
(* What arrives.                                                           *)

\* Where a numbered message of the peer lies, and where the last one taken.
LEMMA PeerPositions ==
    ASSUME IInv, NEW e \in Endpoint, NEW m \in SequencedMessage,
           m.from = PeerOf[e], GoodSequenced(m)
    PROVE  /\ PeerOf[e] \in Endpoint
           /\ m.seqnum = SequenceAt(PeerOf[e], m.position)
           /\ created[PeerOf[e]] \in Nat /\ m.position \in Nat
           /\ m.position \in 0..created[PeerOf[e]] - 1
           /\ taken[e] \in 0..created[PeerOf[e]] - 1
           /\ IsRecent(taken[e], created[PeerOf[e]])
           /\ lastInOrder[e] = SequenceAt(PeerOf[e], taken[e])
           /\ taken[e] \in Nat
<1>1. PeerOf[e] \in Endpoint /\ PeerOf[PeerOf[e]] = e
  BY ConstantFacts
<1>2. /\ taken[e] \in Nat /\ created[PeerOf[e]] \in Nat
      /\ taken[e] < created[PeerOf[e]]
  BY <1>1 DEF IInv, TypeOK, TakenWasMade
<1>3. IsRecent(taken[e], created[PeerOf[e]])
  BY <1>1 DEF IInv, NumbersAreRecent, NumbersInUseAreRecent
<1>4. /\ m.seqnum = SequenceAt(PeerOf[e], m.position)
      /\ m.position \in 0..created[PeerOf[e]] - 1
  BY DEF GoodSequenced
<1> QED
  BY <1>1, <1>2, <1>3, <1>4 DEF IInv, NumbersFollowPositions

\* What arrives is recent, by its number and by what it acknowledges.
LEMMA ArrivedIsRecent ==
    ASSUME NumbersAreRecent, NEW e \in Endpoint, NEW m \in network,
           m.from = PeerOf[e], m.type \in {"Data", "State"}
    PROVE  IsRecent(m.position, created[PeerOf[e]]) /\ IsRecent(m.upTo, created[e])
<1>1. PeerOf[e] \in Endpoint /\ PeerOf[e] # e
  BY ConstantFacts
<1>2. NamesRecent(e, m, created[e]) /\ NamesRecent(PeerOf[e], m, created[PeerOf[e]])
  BY <1>1 DEF NumbersAreRecent, NumbersInUseAreRecent
<1> QED
  BY <1>1, <1>2 DEF NamesRecent

\* And so is what is kept.
LEMMA KeptIsRecent ==
    ASSUME IInv, NEW e \in Endpoint, NEW m \in receiveQueue[e]
    PROVE  IsRecent(m.position, created[PeerOf[e]])
<1>1. /\ m \in SequencedMessage /\ m.from = PeerOf[e] /\ GoodSequenced(m)
      /\ taken[e] < m.position
  BY DEF IInv, TypeOK, ReceiveQueuesAreGood
<1>2. /\ created[PeerOf[e]] \in Nat /\ m.position \in Nat /\ taken[e] \in Nat
      /\ IsRecent(taken[e], created[PeerOf[e]])
  BY <1>1, PeerPositions
<1> QED
  BY <1>1, <1>2, LaterIsRecent

\* Its number can be acknowledged once its position has been received.
LEMMA NumberIsReceived ==
    ASSUME IInv, NEW e \in Endpoint, NEW m \in SequencedMessage,
           m.from = PeerOf[e], GoodSequenced(m), UNCHANGED created,
           Received(e, m.position)'
    PROVE  ReceivedNumber(e, AckOf(m))'
<1>1. /\ m.seqnum = SequenceAt(PeerOf[e], m.position)
      /\ m.position \in 0..created'[PeerOf[e]] - 1
  BY PeerPositions
<1>2. PICK a : a = AckOf(m)
  OBVIOUS
<1>3. a.seqnum = m.seqnum /\ a.position = m.position
  BY <1>2 DEF AckOf
<1>4. ReceivedNumber(e, a)'
  BY <1>1, <1>3 DEF ReceivedNumber
<1> QED
  BY <1>2, <1>4

LEMMA ReceiveCurrentGood ==
    ASSUME IInv, TypeOK', NEW e \in Endpoint, NEW m \in SequencedMessage,
           m.from = PeerOf[e], m.type # "Syn", GoodSequenced(m),
           IsRecent(m.position, created[PeerOf[e]]), IsRecent(m.upTo, created[e]),
           ReceiveCurrent(e, m), UNCHANGED created
    PROVE  /\ Grows /\ QueuesAreGood' /\ ReceiveQueuesAreGood'
           /\ PendingAcksAreGood'
           /\ \A f \in Endpoint :
                  MessagesOf(sendQueue'[f]) \subseteq MessagesOf(sendQueue[f])
<1> USE DEF IInv
<1> DEFINE P == PeerOf[e]
<1>1. /\ WindowOf(m.seqnum, lastInOrder[e], receiveWindow[e]) = "Current"
      /\ InSequenceAck(e, m.acknum)
      /\ receiveQueue' = [receiveQueue EXCEPT
             ![e] = IF \E k \in @ : k.seqnum = m.seqnum THEN @ ELSE @ \cup {m}]
      /\ pendingAcks' = [pendingAcks EXCEPT ![e] = @ \cup {AckOf(m)}]
      /\ UNCHANGED <<lastInOrder, taken>>
  BY DEF ReceiveCurrent
<1>2. receiveQueue \in [Endpoint -> SUBSET SequencedMessage]
  BY DEF TypeOK
<1>3. /\ receiveQueue'[e] = IF \E k \in receiveQueue[e] : k.seqnum = m.seqnum
                            THEN receiveQueue[e] ELSE receiveQueue[e] \cup {m}
      /\ \A f \in Endpoint \ {e} : receiveQueue'[f] = receiveQueue[f]
  BY <1>1, <1>2
<1>4. Grows
  BY <1>1, <1>3, GrowsByReceiving
<1>5. /\ P \in Endpoint /\ PeerOf[P] = e
      /\ m.seqnum = SequenceAt(P, m.position)
      /\ created[P] \in Nat
      /\ m.position \in 0..created[P] - 1 /\ taken[e] \in 0..created[P] - 1
      /\ IsRecent(m.position, created[P]) /\ IsRecent(taken[e], created[P])
      /\ lastInOrder[e] = SequenceAt(P, taken[e]) /\ taken[e] \in Nat
  BY PeerPositions, ConstantFacts
<1> HIDE DEF P
<1>6. taken[e] < m.position /\ m.position <= taken[e] + MaxWindow
  <2>1. receiveWindow[e] \in WindowSizes
    BY DEF TypeOK
  <2>2. taken[e] < m.position /\ m.position <= taken[e] + receiveWindow[e]
    BY <1>1, <1>5, <2>1, WindowOfPosition
  <2>3. receiveWindow[e] \in 1..MaxWindow /\ MaxWindow \in Nat
    BY <2>1, ConstantFacts
  <2> QED
    BY <1>5, <2>2, <2>3
<1>7. ReceiveQueuesAreGood'
  <2>1. GoodSequenced(m)'
    BY <1>4, GoodSequencedGrows
  <2>2. \A f \in Endpoint : \A k \in receiveQueue[f] : GoodSequenced(k)'
    BY <1>2, <1>4, GoodSequencedGrows DEF ReceiveQueuesAreGood
  <2>3. \A f \in Endpoint : \A k \in receiveQueue'[f] :
            /\ k.from = PeerOf[f]
            /\ GoodSequenced(k)' /\ k.type # "Syn"
            /\ taken'[f] < k.position /\ k.position <= taken'[f] + MaxWindow
    BY <1>1, <1>3, <1>6, <2>1, <2>2 DEF ReceiveQueuesAreGood
  <2>4. \A f \in Endpoint : \A k, l \in receiveQueue'[f] :
            k.seqnum = l.seqnum => k = l
    BY <1>3 DEF ReceiveQueuesAreGood
  <2> QED
    BY <2>3, <2>4 DEF ReceiveQueuesAreGood
<1>8. Received(e, m.position)'
  <2>1. CASE \E k \in receiveQueue[e] : k.seqnum = m.seqnum
    <3>1. PICK k \in receiveQueue[e] : k.seqnum = m.seqnum
      BY <2>1
    <3>2. k \in SequencedMessage /\ k.from = PeerOf[e] /\ GoodSequenced(k)
      BY <1>2 DEF ReceiveQueuesAreGood
    <3>3. /\ k.position \in 0..created[P] - 1
          /\ k.seqnum = SequenceAt(P, k.position)
      BY <3>2, PeerPositions DEF P
    <3>4. IsRecent(k.position, created[P])
      BY <1>5, KeptIsRecent DEF P
    <3>5. k.position = m.position
      BY <1>5, <3>1, <3>3, <3>4, SequenceAtInjective
    <3>6. k \in receiveQueue'[e]
      BY <1>3
    <3> QED
      BY <3>5, <3>6 DEF Received
  <2>2. CASE ~ \E k \in receiveQueue[e] : k.seqnum = m.seqnum
    BY <1>3, <2>2 DEF Received
  <2> QED
    BY <2>1, <2>2
<1>9. PendingAcksAreGood'
  BY <1>1, <1>4, <1>8, NumberIsReceived, PendingAcksAdd
<1>10. QueuesAreGood'
  <2>1. PICK queue : queue = sendQueue[e]
    OBVIOUS
  <2>2. PICK Q : Q = ProcessReceivedInSequenceAck(queue, lastAckSeen[e], m.acknum)
    OBVIOUS
  <2>3. /\ queue \in Seq(QueueItem) /\ GoodQueue(e, queue) /\ PurgedQueue(queue)
    BY <2>1 DEF TypeOK, QueuesAreGood
  <2>4. TakenNumber(PeerOf[e], m.acknum, m.upTo) /\ RecentQueue(e, queue)
    BY <2>1, QueuesAreRecent DEF GoodSequenced
  <2>5. Q \in Seq(QueueItem) /\ GoodQueue(e, Q) /\ PurgedQueue(Q)
    BY <2>2, <2>3, <2>4, InSequenceAckGood, InSequenceAckType
  <2>6. GoodQueue(e, Q)'
    BY <1>4, <2>5, GoodQueueGrows
  <2>7. sendQueue' = [sendQueue EXCEPT ![e] = Q]
    BY <1>1, <2>1, <2>2 DEF InSequenceAck
  <2> QED
    BY <1>4, <2>5, <2>6, <2>7, QueueBecomes
<1>11. \A f \in Endpoint : MessagesOf(sendQueue'[f]) \subseteq MessagesOf(sendQueue[f])
  <2>1. PICK queue : queue = sendQueue[e]
    OBVIOUS
  <2>2. PICK Q : Q = ProcessReceivedInSequenceAck(queue, lastAckSeen[e], m.acknum)
    OBVIOUS
  <2>3. sendQueue' = [sendQueue EXCEPT ![e] = Q]
    BY <1>1, <2>1, <2>2 DEF InSequenceAck
  <2>4. MessagesOf(Q) \subseteq MessagesOf(queue)
    BY <2>1, <2>2, MessagesOfInSequence DEF TypeOK
  <2> QED
    BY <2>1, <2>3, <2>4 DEF TypeOK
<1> QED
  BY <1>4, <1>7, <1>9, <1>10, <1>11

LEMMA ReceivePreviousGood ==
    ASSUME IInv, TypeOK', NEW e \in Endpoint, NEW m \in SequencedMessage,
           m.from = PeerOf[e], GoodSequenced(m),
           IsRecent(m.position, created[PeerOf[e]]),
           ReceivePrevious(e, m), UNCHANGED created
    PROVE  /\ Grows /\ QueuesAreGood' /\ ReceiveQueuesAreGood'
           /\ PendingAcksAreGood'
<1> USE DEF IInv
<1>1. /\ WindowOf(m.seqnum, lastInOrder[e], receiveWindow[e]) = "Previous"
      /\ pendingAcks' = [pendingAcks EXCEPT ![e] = @ \cup {AckOf(m)}]
      /\ UNCHANGED <<sendQueue, lastInOrder, taken, receiveQueue>>
  BY DEF ReceivePrevious, receiverVars
<1>2. Grows
  BY <1>1, GrowsByReceiving
<1>3. m.position <= taken[e]
  <2>1. receiveWindow[e] \in WindowSizes
    BY DEF TypeOK
  <2>2. created[PeerOf[e]] \in Nat
    BY ConstantFacts DEF TypeOK
  <2> QED
    BY <1>1, <2>1, <2>2, PeerPositions, WindowOfPosition
<1>4. Received(e, m.position)'
  BY <1>1, <1>3 DEF Received
<1>5. PendingAcksAreGood'
  BY <1>1, <1>2, <1>4, NumberIsReceived, PendingAcksAdd
<1> QED
  BY <1>1, <1>2, <1>5, QueuesStay, ReceiveQueuesStay

LEMMA ReceiveSequencedGood ==
    ASSUME IInv, TypeOK', NEW e \in Endpoint, NEW m \in network,
           ReceiveSequenced(e, m)
    PROVE  IInv'
<1>1. /\ TypeOK /\ TakenWasMade /\ NumbersFollowPositions /\ NetworkIsGood
      /\ QueuesAreGood /\ ReceiveQueuesAreGood /\ PendingAcksAreGood
      /\ NumbersAreRecent
  BY DEF IInv
<1>2. /\ m.type \in {"Data", "State"} /\ m.from = PeerOf[e]
      /\ ReceiveCurrent(e, m) \/ ReceivePrevious(e, m) \/ ReceiveUnknown(e, m)
      /\ network' \subseteq network
      /\ UNCHANGED <<nextSend, created, sent>>
  BY DEF ReceiveSequenced, Arrive
<1>3. UNCHANGED <<taken, lastInOrder>>
  BY <1>2 DEF ReceiveCurrent, ReceivePrevious, ReceiveUnknown, receiverVars
<1>4. m \in SequencedMessage /\ m.type # "Syn" /\ m.type # "EAck"
  BY <1>1, <1>2 DEF TypeOK, AckMessage
<1>5. GoodSequenced(m)
  BY <1>1, <1>4 DEF NetworkIsGood, GoodMessage
<1>6. /\ IsRecent(m.position, created[PeerOf[e]]) /\ IsRecent(m.upTo, created[e])
  BY <1>1, <1>2, <1>4, ArrivedIsRecent
<1>7. /\ Grows /\ QueuesAreGood' /\ ReceiveQueuesAreGood' /\ PendingAcksAreGood'
      /\ \A f \in Endpoint :
             MessagesOf(sendQueue'[f]) \subseteq MessagesOf(sendQueue[f])
  <2>1. CASE ReceiveCurrent(e, m)
    BY <1>2, <1>4, <1>5, <1>6, <2>1, ReceiveCurrentGood
  <2>2. CASE ReceivePrevious(e, m)
    <3>1. UNCHANGED sendQueue
      BY <2>2 DEF ReceivePrevious
    <3> QED
      BY <1>2, <1>4, <1>5, <1>6, <2>2, <3>1, ReceivePreviousGood
  <2>3. CASE ReceiveUnknown(e, m)
    <3>1. UNCHANGED <<sendQueue, receiveQueue, taken, pendingAcks>>
      BY <2>3 DEF ReceiveUnknown, receiverVars
    <3>2. Grows
      BY <1>1, <1>2, <3>1, GrowsByReceiving
    <3> QED
      BY <1>1, <1>2, <3>1, <3>2, QueuesStay, ReceiveQueuesStay, PendingAcksShrink
  <2> QED
    BY <1>2, <2>1, <2>2, <2>3
<1>8. NumbersAreRecent'
  <2>1. \A f \in Endpoint : \A a \in pendingAcks'[f] :
            a \in pendingAcks[f] \/ (f = e /\ a = AckOf(m))
    <3>1. \/ pendingAcks' = [pendingAcks EXCEPT ![e] = @ \cup {AckOf(m)}]
          \/ UNCHANGED pendingAcks
      BY <1>2 DEF ReceiveCurrent, ReceivePrevious, ReceiveUnknown
    <3>2. pendingAcks \in [Endpoint -> SUBSET Ack]
      BY <1>1 DEF TypeOK
    <3> QED
      BY <3>1, <3>2
  <2>2. AckOf(m).position = m.position
    BY DEF AckOf
  <2>3. ASSUME NEW f \in Endpoint, NEW a \in pendingAcks'[PeerOf[f]]
        PROVE  a \in pendingAcks[PeerOf[f]] \/ IsRecent(a.position, created[f])
    <3>1. PeerOf[f] \in Endpoint /\ (PeerOf[f] = e => f = PeerOf[e])
      BY ConstantFacts
    <3> QED
      BY <1>6, <2>1, <2>2, <3>1
  <2>4. \A f \in Endpoint : taken[f] <= taken'[f]
    BY <1>7 DEF Grows
  <2> QED
    BY <1>1, <1>2, <1>7, <2>3, <2>4, RecentStays
<1> QED
  BY <1>1, <1>2, <1>3, <1>7, <1>8, NetworkShrinks, CountersStay DEF IInv

LEMMA ReceiveSynGood ==
    ASSUME IInv, TypeOK', NEW e \in Endpoint, NEW m \in network, ReceiveSyn(e, m)
    PROVE  IInv'
<1> USE DEF IInv
<1>1. /\ UNCHANGED <<sendQueue, nextSend, created, sent, lastInOrder,
                     receiveQueue, taken, pendingAcks>>
      /\ network' \subseteq network
  BY DEF ReceiveSyn, Arrive, senderVars, receiverVars
<1>2. Grows
  BY <1>1, GrowsByReceiving
<1>3. NumbersAreRecent'
  <2>1. \A f \in Endpoint : taken[f] <= taken'[f]
    BY <1>2 DEF Grows
  <2> QED
    BY <1>1, <2>1, RecentStays
<1> QED
  BY <1>1, <1>2, <1>3, CountersStay, NetworkShrinks, QueuesStay, ReceiveQueuesStay,
     PendingAcksShrink

LEMMA ReceiveEAckGood ==
    ASSUME IInv, TypeOK', NEW e \in Endpoint, NEW m \in network, ReceiveEAck(e, m)
    PROVE  IInv'
<1> USE DEF IInv
<1>1. /\ m.type = "EAck" /\ m.from = PeerOf[e]
      /\ UNCHANGED <<nextSend, created, sent, lastInOrder, receiveQueue, taken,
                     pendingAcks>>
      /\ network' \subseteq network
  BY DEF ReceiveEAck, Arrive, receiverVars
<1>2. Grows
  BY <1>1, GrowsByReceiving
<1>3. PICK queue : queue = sendQueue[e]
  OBVIOUS
<1>4. PICK R : R = ProcessReceivedInSequenceAck(queue, lastAckSeen[e], m.acknum)
  OBVIOUS
<1>5. PICK Q : Q = ProcessReceivedAcks(R, m.acks)
  OBVIOUS
<1>6. sendQueue' = [sendQueue EXCEPT ![e] = Q]
  BY <1>3, <1>4, <1>5 DEF ReceiveEAck
<1>7. GoodAck(m)
  BY <1>1 DEF NetworkIsGood, GoodMessage
<1>8. queue \in Seq(QueueItem) /\ GoodQueue(e, queue) /\ PurgedQueue(queue)
  BY <1>3 DEF TypeOK, QueuesAreGood
<1>9. /\ IsRecent(m.upTo, created[e])
      /\ \A a \in m.acks : IsRecent(a.position, created[e])
  <2>1. e # PeerOf[e]
    BY ConstantFacts
  <2> QED
    BY <1>1, <2>1 DEF NumbersAreRecent, NumbersInUseAreRecent, NamesRecent
<1>10. RecentQueue(e, queue)
  BY <1>3, QueuesAreRecent
<1>11. R \in Seq(QueueItem) /\ GoodQueue(e, R) /\ PurgedQueue(R)
  BY <1>1, <1>4, <1>7, <1>8, <1>9, <1>10, InSequenceAckGood, InSequenceAckType
     DEF GoodAck
<1>12. MessagesOf(R) \subseteq MessagesOf(queue) /\ RecentQueue(e, R)
  <2>1. MessagesOf(R) \subseteq MessagesOf(queue)
    BY <1>4, <1>8, MessagesOfInSequence
  <2> QED
    BY <1>10, <2>1 DEF RecentQueue
<1>13. Q \in Seq(QueueItem) /\ GoodQueue(e, Q) /\ PurgedQueue(Q)
  BY <1>1, <1>5, <1>7, <1>11, <1>9, <1>12, AcksGood, AcksType DEF GoodAck
<1>14. GoodQueue(e, Q)'
  BY <1>1, <1>2, <1>13, GoodQueueGrows
<1>15. QueuesAreGood'
  BY <1>1, <1>2, <1>6, <1>13, <1>14, QueueBecomes
<1>16. NumbersAreRecent'
  <2>1. MessagesOf(Q) \subseteq MessagesOf(queue)
    BY <1>5, <1>11, <1>12, MessagesOfRanges
  <2>2. \A f \in Endpoint : MessagesOf(sendQueue'[f]) \subseteq MessagesOf(sendQueue[f])
    BY <1>3, <1>6, <2>1 DEF TypeOK
  <2>3. \A f \in Endpoint : taken[f] <= taken'[f]
    BY <1>2 DEF Grows
  <2> QED
    BY <1>1, <2>2, <2>3, RecentStays
<1> QED
  BY <1>1, <1>2, <1>15, <1>16, CountersStay, NetworkShrinks, ReceiveQueuesStay,
     PendingAcksShrink

\* The next message in order is the one at the next position.
LEMMA NextInOrder ==
    ASSUME IInv, NEW e \in Endpoint, NEW m \in receiveQueue[e],
           m.seqnum = NextSequenceNumber(lastInOrder[e])
    PROVE  m.position = taken[e] + 1
<1> DEFINE P == PeerOf[e]
<1>1. /\ m \in SequencedMessage /\ m.from = PeerOf[e] /\ GoodSequenced(m)
      /\ taken[e] < m.position
  BY DEF IInv, TypeOK, ReceiveQueuesAreGood
<1>2. /\ P \in Endpoint
      /\ m.seqnum = SequenceAt(P, m.position)
      /\ created[P] \in Nat
      /\ m.position \in 0..created[P] - 1 /\ taken[e] \in 0..created[P] - 1
      /\ IsRecent(taken[e], created[P])
      /\ lastInOrder[e] = SequenceAt(P, taken[e]) /\ taken[e] \in Nat
  BY <1>1, PeerPositions
<1>3. IsRecent(m.position, created[P])
  BY KeptIsRecent
<1> HIDE DEF P
<1>4. taken[e] + 1 \in 0..created[P] - 1 /\ taken[e] + 1 \in Nat
  BY <1>1, <1>2
<1>5. IsRecent(taken[e] + 1, created[P])
  BY <1>2, <1>4, LaterIsRecent
<1>6. m.seqnum = SequenceAt(P, taken[e] + 1)
  BY <1>2, SequenceAtNext
<1> QED
  BY <1>2, <1>3, <1>4, <1>5, <1>6, SequenceAtInjective

LEMMA ReceivePendingSocketDataGood ==
    ASSUME IInv, TypeOK', NEW e \in Endpoint, ReceivePendingSocketData(e)
    PROVE  IInv'
<1> USE DEF IInv
<1> DEFINE P == PeerOf[e]
<1>1. PICK m \in receiveQueue[e] :
          /\ m.seqnum = NextSequenceNumber(lastInOrder[e])
          /\ lastInOrder' = [lastInOrder EXCEPT ![e] = m.seqnum]
          /\ receiveQueue' = [receiveQueue EXCEPT ![e] = @ \ {m}]
          /\ taken' = [taken EXCEPT ![e] = @ + 1]
          /\ UNCHANGED <<senderVars, pendingAcks, network>>
  BY DEF ReceivePendingSocketData
<1>2. /\ taken \in [Endpoint -> Nat]
      /\ lastInOrder \in [Endpoint -> SequenceNumbers]
      /\ receiveQueue \in [Endpoint -> SUBSET SequencedMessage]
  BY DEF TypeOK
<1>3. /\ taken'[e] = taken[e] + 1 /\ lastInOrder'[e] = m.seqnum
      /\ receiveQueue'[e] = receiveQueue[e] \ {m}
      /\ \A f \in Endpoint \ {e} : /\ taken'[f] = taken[f]
                                   /\ lastInOrder'[f] = lastInOrder[f]
                                   /\ receiveQueue'[f] = receiveQueue[f]
      /\ UNCHANGED <<sendQueue, nextSend, created, sent, pendingAcks, network>>
  BY <1>1, <1>2 DEF senderVars
<1>4. /\ m \in SequencedMessage /\ m.from = PeerOf[e] /\ GoodSequenced(m)
      /\ taken[e] < m.position
  BY <1>2 DEF ReceiveQueuesAreGood
<1>5. /\ P \in Endpoint
      /\ m.seqnum = SequenceAt(P, m.position)
      /\ m.position \in 0..created[P] - 1 /\ created[P] \in Nat
      /\ lastInOrder[e] = SequenceAt(P, taken[e]) /\ taken[e] \in Nat
  BY <1>4, PeerPositions DEF TypeOK
<1> HIDE DEF P
<1>6. m.position = taken[e] + 1
  BY <1>1, NextInOrder
<1>7. Grows
  <2> SUFFICES ASSUME NEW f \in Endpoint
               PROVE  /\ created'[f] \in Nat /\ created[f] <= created'[f]
                      /\ taken'[f] \in Nat /\ taken[f] <= taken'[f]
                      /\ \A p \in Nat : Received(f, p) => Received(f, p)'
    BY DEF Grows
  <2>1. created'[f] \in Nat /\ created[f] <= created'[f]
    BY <1>3 DEF TypeOK
  <2>2. taken[f] \in Nat /\ taken'[f] \in Nat /\ taken[f] <= taken'[f]
    <3>1. taken[f] \in Nat
      BY <1>2
    <3> QED
      BY <1>3, <3>1
  <2>3. ASSUME NEW p \in Nat, Received(f, p)
        PROVE  Received(f, p)'
    <3>1. CASE p <= taken[f]
      BY <2>2, <3>1 DEF Received
    <3>2. CASE \E k \in receiveQueue[f] : k.position = p
      <4>1. PICK k \in receiveQueue[f] : k.position = p
        BY <3>2
      <4>2. CASE k \in receiveQueue'[f]
        BY <4>1, <4>2 DEF Received
      <4>3. CASE k \notin receiveQueue'[f]
        <5>1. f = e /\ k = m
          BY <1>3, <4>1, <4>3
        <5>2. p = taken'[e]
          BY <1>3, <1>6, <4>1, <5>1
        <5> QED
          BY <5>1, <5>2 DEF Received
      <4> QED
        BY <4>2, <4>3
    <3> QED
      BY <2>3, <3>1, <3>2 DEF Received
  <2> QED
    BY <2>1, <2>2, <2>3
<1>8. TakenWasMade'
  <2>1. taken'[e] < created[PeerOf[e]]
    BY <1>3, <1>5, <1>6 DEF P
  <2> QED
    BY <1>3, <2>1 DEF TakenWasMade
<1>9. NumbersFollowPositions'
  <2>1. lastInOrder'[e] = SequenceAt(PeerOf[e], taken'[e])
    BY <1>3, <1>5, <1>6 DEF P
  <2> QED
    BY <1>3, <2>1 DEF NumbersFollowPositions
<1>10. ReceiveQueuesAreGood'
  <2>1. \A f \in Endpoint : \A k \in receiveQueue[f] :
            /\ k \in SequencedMessage /\ k.from = PeerOf[f] /\ k.type # "Syn"
            /\ GoodSequenced(k)
            /\ taken[f] < k.position /\ k.position <= taken[f] + MaxWindow
    BY <1>2 DEF ReceiveQueuesAreGood
  <2>2. \A f \in Endpoint : \A k \in receiveQueue'[f] :
            /\ k \in receiveQueue[f]
            /\ GoodSequenced(k)'
    BY <1>3, <1>7, <2>1, GoodSequencedGrows
  <2>3. ASSUME NEW k \in receiveQueue'[e]
        PROVE  taken'[e] < k.position /\ k.position <= taken'[e] + MaxWindow
    <3>1. k \in receiveQueue[e] /\ k # m
      BY <1>3
    <3>2. /\ k \in SequencedMessage /\ k.from = PeerOf[e] /\ GoodSequenced(k)
          /\ taken[e] < k.position /\ k.position <= taken[e] + MaxWindow
      BY <2>1, <3>1
    <3>3. k.seqnum = SequenceAt(P, k.position) /\ k.position \in Nat
      BY <3>2, PeerPositions DEF P
    <3>4. k.position # taken[e] + 1
      BY <1>5, <1>6, <3>1, <3>3 DEF ReceiveQueuesAreGood
    <3>5. k.position \in Nat /\ MaxWindow \in Nat
      BY <1>5, <3>3, ConstantFacts
    <3> QED
      BY <1>3, <1>5, <3>2, <3>4, <3>5
  <2>4. \A f \in Endpoint : \A k \in receiveQueue'[f] :
            taken'[f] < k.position /\ k.position <= taken'[f] + MaxWindow
    BY <1>3, <2>1, <2>2, <2>3
  <2>5. \A f \in Endpoint : \A k, l \in receiveQueue'[f] :
            k.seqnum = l.seqnum => k = l
    BY <2>2 DEF ReceiveQueuesAreGood
  <2> QED
    BY <2>1, <2>2, <2>4, <2>5 DEF ReceiveQueuesAreGood
<1>11. NetworkIsGood' /\ QueuesAreGood' /\ PendingAcksAreGood'
  BY <1>3, <1>7, NetworkShrinks, QueuesStay, PendingAcksShrink
<1>12. NumbersAreRecent'
  <2>1. \A f \in Endpoint : taken[f] <= taken'[f]
    BY <1>7 DEF Grows
  <2> QED
    BY <1>3, <2>1, RecentStays
<1> QED
  BY <1>8, <1>9, <1>10, <1>11, <1>12

-----------------------------------------------------------------------------
(* The invariant.                                                          *)

LEMMA SynIsGood ==
    ASSUME TypeOK, NEW e \in Endpoint, created[e] = 1, NEW m,
           m.type = "Syn", m.from = e, m.seqnum = InitialSequence[e], m.position = 0
    PROVE  GoodSequenced(m)
<1>1. SequenceAt(e, 0) = InitialSequence[e]
  BY ConstantFacts, SequenceAtStart
<1> QED
  BY <1>1 DEF GoodSequenced

LEMMA InitialInvariant == Init => IInv
<1> SUFFICES ASSUME Init PROVE IInv
  OBVIOUS
<1>1. TypeOK
  BY InitialType
<1>2. \A e \in Endpoint :
          /\ created[e] = 1 /\ taken[e] = 0 /\ sent[e] = <<>>
          /\ nextSend[e] = NextSequenceNumber(InitialSequence[e])
          /\ lastInOrder[e] = InitialSequence[PeerOf[e]]
          /\ receiveQueue[e] = {}
          /\ \A a \in pendingAcks[e] :
                 a.seqnum = InitialSequence[PeerOf[e]] /\ a.position = 0
  <2>1. \A e \in Endpoint : \A a \in pendingAcks[e] :
            a.seqnum = InitialSequence[PeerOf[e]] /\ a.position = 0
    BY TransferAssumption DEF Init, PeerOf, Endpoint
  <2> QED
    BY <2>1 DEF Init
<1>3. \A e \in Endpoint : SequenceAt(e, 0) = InitialSequence[e]
  BY ConstantFacts, SequenceAtStart
<1>4. TakenWasMade
  BY <1>2, ConstantFacts DEF TakenWasMade
<1>5. NumbersFollowPositions
  <2>1. \A e \in Endpoint : nextSend[e] = SequenceAt(e, 0 + 1)
    BY <1>2, <1>3, SequenceAtNext
  <2> QED
    BY <1>2, <1>3, <2>1, ConstantFacts DEF NumbersFollowPositions
<1>6. NetworkIsGood
  BY DEF Init, NetworkIsGood
<1>7. ASSUME NEW e \in Endpoint
      PROVE  GoodQueue(e, sendQueue[e]) /\ PurgedQueue(sendQueue[e])
  <2>1. PICK syn : syn = [type |-> "Syn", from |-> e, seqnum |-> InitialSequence[e],
                          acknum |-> IF e = Inbound THEN InitialSequence[Outbound]
                                                    ELSE 0,
                          window |-> 0, position |-> 0, upTo |-> 0]
    OBVIOUS
  <2>2. sendQueue[e] = <<>> \/ sendQueue[e] = <<Item(syn, TRUE)>>
    BY <2>1 DEF Init
  <2>3. PICK item : item = Item(syn, TRUE)
    OBVIOUS
  <2>4. item.message = syn /\ item.acked = FALSE
    BY <2>3 DEF Item
  <2>5. /\ syn.from = e /\ syn.position = 0 /\ syn.type = "Syn"
        /\ syn.seqnum = InitialSequence[e]
    BY <2>1
  <2>6. GoodSequenced(syn)
    BY <1>1, <1>2, <2>5, SynIsGood
  <2>7. Received(PeerOf[e], 0)
    BY <1>2, ConstantFacts DEF Received
  <2>8. CASE sendQueue[e] = <<>>
    <3>1. GoodQueue(e, <<>>)
      BY <1>2, <2>7 DEF GoodQueue
    <3> QED
      BY <2>8, <3>1 DEF PurgedQueue
  <2>9. CASE sendQueue[e] = <<item>>
    <3>1. Len(<<item>>) = 1 /\ <<item>>[1] = item
      OBVIOUS
    <3>2. GoodQueue(e, <<item>>)
      BY <1>2, <2>4, <2>5, <2>6, <3>1 DEF GoodQueue
    <3> QED
      BY <2>4, <2>9, <3>1, <3>2 DEF PurgedQueue
  <2> QED
    BY <2>2, <2>3, <2>8, <2>9
<1>8. QueuesAreGood
  BY <1>7 DEF QueuesAreGood
<1>9. ReceiveQueuesAreGood
  BY <1>2 DEF ReceiveQueuesAreGood
<1>10. PendingAcksAreGood
  <2> SUFFICES ASSUME NEW e \in Endpoint, NEW s \in pendingAcks[e]
               PROVE  ReceivedNumber(e, s)
    BY DEF PendingAcksAreGood
  <2>1. /\ s.seqnum = SequenceAt(PeerOf[e], 0) /\ s.position = 0
        /\ 0 \in 0..created[PeerOf[e]] - 1
    BY <1>2, <1>3, ConstantFacts
  <2>2. Received(e, 0)
    BY <1>2 DEF Received
  <2> QED
    BY <2>1, <2>2 DEF ReceivedNumber
<1>11. NumbersAreRecent
  <2>1. IsRecent(0, 1)
    BY ConstantFacts DEF IsRecent
  <2> SUFFICES ASSUME NEW e \in Endpoint
               PROVE  NumbersInUseAreRecent(e, 1)
    BY <1>2 DEF NumbersAreRecent
  <2>2. network = {}
    BY DEF Init
  <2>3. ASSUME NEW f \in Endpoint, NEW i \in DOMAIN sendQueue[f]
        PROVE  NamesRecent(e, sendQueue[f][i].message, 1)
    <3>1. PICK syn : syn = [type |-> "Syn", from |-> f, seqnum |-> InitialSequence[f],
                            acknum |-> IF f = Inbound THEN InitialSequence[Outbound]
                                                      ELSE 0,
                            window |-> 0, position |-> 0, upTo |-> 0]
      OBVIOUS
    <3>2. sendQueue[f] = <<>> \/ sendQueue[f] = <<Item(syn, TRUE)>>
      BY <3>1 DEF Init
    <3>3. sendQueue[f][i].message = syn
      BY <3>2 DEF Item
    <3>4. syn.type = "Syn" /\ syn.position = 0
      BY <3>1
    <3> QED
      BY <2>1, <3>3, <3>4 DEF NamesRecent
  <2>4. PeerOf[e] \in Endpoint
    BY ConstantFacts
  <2> QED
    BY <1>2, <2>1, <2>2, <2>3, <2>4 DEF NumbersInUseAreRecent
<1> QED
  BY <1>1, <1>4, <1>5, <1>6, <1>8, <1>9, <1>10, <1>11 DEF IInv

LEMMA NextInvariant == IInv /\ [Next]_vars => IInv'
<1> SUFFICES ASSUME IInv, [Next]_vars PROVE IInv'
  OBVIOUS
<1>1. TypeOK'
  BY NextType DEF IInv
<1>2. CASE Next
  <2>1. PICK e \in Endpoint :
            \/ \E outcome \in Outcomes :
                   \/ SendPendingSocketData(e, outcome)
                   \/ \E window \in WindowSizes : OnMTUUpdate(e, window, outcome)
            \/ \E outcome \in Outcomes \ {"refused"} :
                   \/ \E i \in DOMAIN sendQueue[e] : Process(e, i, outcome)
                   \/ SendPendingAcks(e, outcome)
            \/ \E m \in network : \/ ReceiveSequenced(e, m)
                                  \/ ReceiveSyn(e, m)
                                  \/ ReceiveEAck(e, m)
            \/ ReceivePendingSocketData(e)
    BY <1>2 DEF Next
  <2> QED
    BY <1>1, <2>1, SendPendingSocketDataGood, OnMTUUpdateGood, ProcessGood,
       SendPendingAcksGood, ReceiveSequencedGood, ReceiveSynGood,
       ReceiveEAckGood, ReceivePendingSocketDataGood
<1>3. CASE UNCHANGED vars
  <2>1. UNCHANGED <<sendQueue, nextSend, lastInOrder, receiveQueue, pendingAcks,
                    network, created, taken, sent>>
    BY <1>3 DEF vars
  <2>2. Grows
    BY <1>1, <2>1, GrowsByReceiving DEF IInv
  <2>3. NumbersAreRecent'
    <3>1. \A f \in Endpoint : taken[f] <= taken'[f]
      BY <2>2 DEF Grows
    <3> QED
      BY <1>1, <2>1, <3>1, RecentStays DEF IInv
  <2> QED
    BY <1>1, <2>1, <2>2, <2>3, CountersStay, NetworkShrinks, QueuesStay,
       ReceiveQueuesStay, PendingAcksShrink DEF IInv
<1> QED
  BY <1>2, <1>3

LEMMA InvariantHolds == Spec => []IInv
BY InitialInvariant, NextInvariant, PTL DEF Spec

-----------------------------------------------------------------------------
(* What it implies.                                                        *)

LEMMA ForgetsOnlyReceived == IInv => NoFalseAck
<1> SUFFICES ASSUME IInv, NEW e \in Endpoint, NEW p \in 1..created[e] - 1
             PROVE  Received(PeerOf[e], p)
                    \/ \E i \in DOMAIN sendQueue[e] :
                           /\ sendQueue[e][i].message.position = p
                           /\ ~sendQueue[e][i].acked
  BY DEF NoFalseAck
<1>1. PICK queue : queue = sendQueue[e]
  OBVIOUS
<1>2. queue \in Seq(QueueItem) /\ GoodQueue(e, queue) /\ created[e] \in Nat
  BY <1>1 DEF IInv, TypeOK, QueuesAreGood
<1>3. PICK n \in Nat : n = Len(queue) /\ DOMAIN queue = 1..n
  BY <1>2
<1>4. CASE p < created[e] - n
  <2>1. p \in 0..created[e] - n - 1
    BY <1>2, <1>3, <1>4
  <2> QED
    BY <1>2, <1>3, <2>1 DEF GoodQueue
<1>5. CASE ~(p < created[e] - n)
  <2>1. PICK i \in 1..n : p = created[e] - n + i - 1
    <3>1. p - (created[e] - n) + 1 \in 1..n
      BY <1>2, <1>3, <1>5
    <3>2. p = created[e] - n + (p - (created[e] - n) + 1) - 1
      BY <1>2, <1>3
    <3> QED
      BY <3>1, <3>2
  <2>2. /\ queue[i].message.position = p
        /\ queue[i].acked => Received(PeerOf[e], queue[i].message.position)
    BY <1>2, <1>3, <2>1 DEF GoodQueue
  <2> QED
    BY <1>1, <1>3, <2>2
<1> QED
  BY <1>4, <1>5

LEMMA KeepsOnlyNew == IInv => ReceiveQueueIsAhead
<1> SUFFICES ASSUME IInv, NEW e \in Endpoint, NEW m \in receiveQueue[e]
             PROVE  /\ m.from = PeerOf[e]
                    /\ m.position \in taken[e] + 1 .. taken[e] + MaxWindow
                    /\ m.seqnum = SequenceAt(m.from, m.position)
  BY DEF ReceiveQueueIsAhead
<1>1. /\ m \in SequencedMessage /\ m.from = PeerOf[e] /\ GoodSequenced(m)
      /\ taken[e] < m.position /\ m.position <= taken[e] + MaxWindow
      /\ taken[e] \in Nat
  BY DEF IInv, TypeOK, ReceiveQueuesAreGood
<1>2. m.position \in Nat /\ MaxWindow \in Nat
  BY <1>1, ConstantFacts DEF SequencedMessage
<1> QED
  BY <1>1, <1>2 DEF GoodSequenced

LEMMA HasNoGap == IInv => SendQueueIsSuffix
<1> SUFFICES ASSUME IInv, NEW e \in Endpoint
             PROVE  /\ \A i \in DOMAIN sendQueue[e] :
                           sendQueue[e][i].message.position =
                               (created[e] - Len(sendQueue[e])) + i - 1
                    /\ nextSend[e] = SequenceAt(e, created[e])
                    /\ sendQueue[e] # <<>> => ~Head(sendQueue[e]).acked
  BY DEF SendQueueIsSuffix
<1>1. /\ sendQueue[e] \in Seq(QueueItem)
      /\ GoodQueue(e, sendQueue[e]) /\ PurgedQueue(sendQueue[e])
      /\ nextSend[e] = SequenceAt(e, created[e])
  BY DEF IInv, TypeOK, QueuesAreGood, NumbersFollowPositions
<1>2. DOMAIN sendQueue[e] = 1..Len(sendQueue[e])
  BY <1>1
<1>3. sendQueue[e] # <<>> => Head(sendQueue[e]) = sendQueue[e][1]
  BY <1>1
<1> QED
  BY <1>1, <1>2, <1>3 DEF GoodQueue, PurgedQueue

(* A sender forgets a message, or marks it acknowledged, only when its     *)
(* peer has it: no acknowledgement is taken for that of another message,   *)
(* whatever is lost, repeated or reordered and however often the numbers   *)
(* have wrapped around, as long as a number is not used again while an old *)
(* one of a round before is still in use.                                  *)
THEOREM Acknowledged == Spec => []NoFalseAck
BY InvariantHolds, ForgetsOnlyReceived, PTL

(* What waits to be taken in order is what its number says, is not taken   *)
(* yet, and lies within the largest window: no old duplicate is taken for  *)
(* a new message with its number, in any round of the numbers and while    *)
(* the windows change.                                                     *)
THEOREM ReceivedInWindow == Spec => []ReceiveQueueIsAhead
BY InvariantHolds, KeepsOnlyNew, PTL

(* The send queue is the end of what was made, in order and without a gap, *)
(* and starts with a message that is still to be acknowledged.             *)
THEOREM QueuedInOrder == Spec => []SendQueueIsSuffix
BY InvariantHolds, HasNoGap, PTL

-----------------------------------------------------------------------------
(* The connection implements the reliable channel.                         *)

\* Position p of e carries a payload.
CarriesPayload(e, p) == \E n \in 1..Len(sent[e]) : sent[e][n] = p

\* The payloads of an end are at growing positions it has come to.
SentIsOrdered ==
    \A e \in Endpoint :
        /\ \A n \in 1..Len(sent[e]) : sent[e][n] \in 1..created[e] - 1
        /\ \A n, k \in 1..Len(sent[e]) : n < k => sent[e][n] < sent[e][k]

\* A message is Data exactly when its position carries a payload.
Faithful(m) == m.type = "Data" <=> CarriesPayload(m.from, m.position)

MessagesAreFaithful ==
    /\ \A m \in network : m.type # "EAck" => Faithful(m)
    /\ \A e \in Endpoint : \A m \in receiveQueue[e] : Faithful(m)
    /\ \A e \in Endpoint : \A m \in MessagesOf(sendQueue[e]) : Faithful(m)

\* Of the payloads the peer sent, those at positions taken are delivered.
DeliveredIsTaken ==
    \A e \in Endpoint :
        /\ Len(delivered[e]) <= Len(sent[PeerOf[e]])
        /\ \A n \in 1..Len(sent[PeerOf[e]]) :
               n <= Len(delivered[e]) <=> sent[PeerOf[e]][n] <= taken[e]

PayloadsFollow == SentIsOrdered /\ MessagesAreFaithful /\ DeliveredIsTaken

RInv == IInv /\ PayloadsFollow

-----------------------------------------------------------------------------
(* Steps that neither write nor deliver.                                   *)

\* All messages there are keep their meaning when nothing is written.
LEMMA MessagesStayFaithful ==
    ASSUME MessagesAreFaithful, UNCHANGED sent,
           \A m \in network' : m \in network \/ m.type = "EAck" \/ Faithful(m),
           \A f \in Endpoint : \A m \in receiveQueue'[f] :
               m \in receiveQueue[f] \/ Faithful(m),
           \A f \in Endpoint : \A m \in MessagesOf(sendQueue'[f]) :
               m \in MessagesOf(sendQueue[f]) \/ Faithful(m)
    PROVE  MessagesAreFaithful'
<1>1. \A m : Faithful(m) => Faithful(m)'
  BY DEF Faithful, CarriesPayload
<1>2. \A m \in network' : m.type # "EAck" => Faithful(m)'
  BY <1>1 DEF MessagesAreFaithful
<1>3. \A f \in Endpoint : \A m \in receiveQueue'[f] : Faithful(m)'
  BY <1>1 DEF MessagesAreFaithful
<1>4. \A f \in Endpoint : \A m \in MessagesOf(sendQueue'[f]) : Faithful(m)'
  BY <1>1 DEF MessagesAreFaithful
<1> QED
  BY <1>2, <1>3, <1>4 DEF MessagesAreFaithful, MessagesOf

LEMMA QuietStep ==
    ASSUME RInv, TypeOK', UNCHANGED <<sent, delivered, taken>>,
           \A f \in Endpoint : created[f] <= created'[f],
           MessagesAreFaithful'
    PROVE  PayloadsFollow' /\ UNCHANGED Channel!vars
<1>1. SentIsOrdered'
  <2> SUFFICES ASSUME NEW f \in Endpoint
               PROVE  /\ \A n \in 1..Len(sent[f]) : sent[f][n] \in 1..created'[f] - 1
                      /\ \A n, k \in 1..Len(sent[f]) :
                             n < k => sent[f][n] < sent[f][k]
    BY DEF SentIsOrdered
  <2>1. created[f] \in Nat /\ created'[f] \in Nat
    BY DEF RInv, IInv, TypeOK
  <2>2. \A n \in 1..Len(sent[f]) : sent[f][n] \in 1..created[f] - 1
    BY DEF RInv, PayloadsFollow, SentIsOrdered
  <2>3. \A n \in 1..Len(sent[f]) : sent[f][n] \in 1..created'[f] - 1
    BY <2>1, <2>2
  <2> QED
    BY <2>3 DEF RInv, PayloadsFollow, SentIsOrdered
<1>2. DeliveredIsTaken'
  BY DEF RInv, PayloadsFollow, DeliveredIsTaken
<1> QED
  BY <1>1, <1>2 DEF PayloadsFollow, Channel!vars

\* The step adds no message and touches one send queue at most.
LEMMA QueueStep ==
    ASSUME RInv, TypeOK', UNCHANGED <<sent, delivered, taken, created>>,
           \A m \in network' : m \in network \/ m.type = "EAck" \/ Faithful(m),
           \A f \in Endpoint : \A m \in receiveQueue'[f] :
               m \in receiveQueue[f] \/ Faithful(m),
           NEW e \in Endpoint, NEW queue,
           MessagesOf(queue) \subseteq MessagesOf(sendQueue[e]),
           sendQueue' = [sendQueue EXCEPT ![e] = queue]
    PROVE  PayloadsFollow' /\ UNCHANGED Channel!vars
<1>1. sendQueue \in [Endpoint -> Seq(QueueItem)] /\ MessagesAreFaithful
  BY DEF RInv, IInv, TypeOK, PayloadsFollow
<1>2. \A f \in Endpoint : MessagesOf(sendQueue'[f]) \subseteq MessagesOf(sendQueue[f])
  BY <1>1
<1>3. MessagesAreFaithful'
  BY <1>1, <1>2, MessagesStayFaithful
<1>4. \A f \in Endpoint : created[f] <= created'[f]
  BY DEF RInv, IInv, TypeOK
<1> QED
  BY <1>3, <1>4, QuietStep

LEMMA OnMTUUpdateQuiet ==
    ASSUME RInv, TypeOK', NEW e \in Endpoint, NEW window \in WindowSizes,
           NEW outcome, OnMTUUpdate(e, window, outcome)
    PROVE  PayloadsFollow' /\ UNCHANGED Channel!vars
<1> USE DEF RInv, IInv, PayloadsFollow
<1>1. /\ SendSequenced(e, "State", window, outcome)
      /\ UNCHANGED <<sent, delivered, taken, receiveQueue>>
  BY DEF OnMTUUpdate, receiverVars
<1>2. PICK m : m = Sequenced(e, "State", window)
  OBVIOUS
<1>3. PICK item : item = Item(m, outcome # "refused")
  OBVIOUS
<1>4. /\ m \in SequencedMessage /\ m.from = e /\ m.type = "State"
      /\ m.position = created[e]
  <2>1. window \in Nat
    BY ConstantFacts
  <2> QED
    BY <1>2, <2>1, SequencedType DEF Sequenced
<1>5. item \in QueueItem /\ item.message = m
  BY <1>3, <1>4 DEF Item, QueueItem
<1>6. Faithful(m)
  <2>1. created[e] \in Nat
    BY DEF TypeOK
  <2>2. \A n \in 1..Len(sent[e]) : sent[e][n] # created[e]
    BY <2>1 DEF SentIsOrdered
  <2> QED
    BY <1>4, <2>2 DEF Faithful, CarriesPayload
<1>7. /\ Carry(m, outcome)
      /\ sendQueue' = [sendQueue EXCEPT ![e] = Append(@, item)]
      /\ created' = [created EXCEPT ![e] = @ + 1]
  BY <1>1, <1>2, <1>3 DEF SendSequenced, Add
<1>8. \A k \in network' : k \in network \/ k.type = "EAck" \/ Faithful(k)
  BY <1>6, <1>7 DEF Carry
<1>9. \A f \in Endpoint : \A k \in MessagesOf(sendQueue'[f]) :
          k \in MessagesOf(sendQueue[f]) \/ Faithful(k)
  <2>1. MessagesOf(Append(sendQueue[e], item)) \subseteq MessagesOf(sendQueue[e]) \cup {m}
    BY <1>5, MessagesOfAppended DEF TypeOK
  <2>2. sendQueue \in [Endpoint -> Seq(QueueItem)]
    BY DEF TypeOK
  <2> QED
    BY <1>6, <1>7, <2>1, <2>2
<1>10. MessagesAreFaithful'
  BY <1>1, <1>8, <1>9, MessagesStayFaithful
<1>11. \A f \in Endpoint : created[f] <= created'[f]
  <2>1. created \in [Endpoint -> Nat]
    BY DEF TypeOK
  <2> QED
    BY <1>7, <2>1
<1> QED
  BY <1>1, <1>10, <1>11, QuietStep

LEMMA ProcessQuiet ==
    ASSUME RInv, TypeOK', NEW e \in Endpoint, NEW i \in DOMAIN sendQueue[e],
           NEW outcome, Process(e, i, outcome)
    PROVE  PayloadsFollow' /\ UNCHANGED Channel!vars
<1>1. PICK queue : queue = [sendQueue[e] EXCEPT ![i] = TriedItem(sendQueue[e][i])]
  OBVIOUS
<1>2. /\ UNCHANGED <<created, sent, delivered, taken, receiveQueue>>
      /\ Carry(sendQueue[e][i].message, outcome)
      /\ sendQueue' = [sendQueue EXCEPT ![e] = queue]
  BY <1>1 DEF Process, receiverVars
<1>3. sendQueue[e] \in Seq(QueueItem) /\ MessagesAreFaithful
  BY DEF RInv, IInv, TypeOK, PayloadsFollow
<1>4. MessagesOf(queue) \subseteq MessagesOf(sendQueue[e])
  BY <1>1, <1>3, MessagesOfTried
<1>5. sendQueue[e][i].message \in MessagesOf(sendQueue[e])
  BY <1>3 DEF MessagesOf
<1>6. \A m \in network' : m \in network \/ m.type = "EAck" \/ Faithful(m)
  BY <1>2, <1>3, <1>5 DEF Carry, MessagesAreFaithful
<1> QED
  BY <1>2, <1>4, <1>6, QueueStep

LEMMA SendPendingAcksQuiet ==
    ASSUME RInv, TypeOK', NEW e \in Endpoint, NEW outcome,
           SendPendingAcks(e, outcome)
    PROVE  PayloadsFollow' /\ UNCHANGED Channel!vars
<1>1. UNCHANGED <<sendQueue, created, sent, delivered, taken, receiveQueue>>
  BY DEF SendPendingAcks, senderVars, receiverVars
<1>2. \A m \in network' : m \in network \/ m.type = "EAck"
  BY DEF SendPendingAcks, Carry
<1>3. sendQueue' = [sendQueue EXCEPT ![e] = sendQueue[e]]
  BY <1>1 DEF RInv, IInv, TypeOK
<1> QED
  BY <1>1, <1>2, <1>3, QueueStep

LEMMA ReceiveSequencedQuiet ==
    ASSUME RInv, TypeOK', NEW e \in Endpoint, NEW m \in network,
           ReceiveSequenced(e, m)
    PROVE  PayloadsFollow' /\ UNCHANGED Channel!vars
<1>1. /\ m.type \in {"Data", "State"}
      /\ ReceiveCurrent(e, m) \/ ReceivePrevious(e, m) \/ ReceiveUnknown(e, m)
      /\ network' \subseteq network
      /\ UNCHANGED <<created, sent>>
  BY DEF ReceiveSequenced, Arrive
<1>2. UNCHANGED <<taken, delivered>>
  BY <1>1 DEF ReceiveCurrent, ReceivePrevious, ReceiveUnknown, receiverVars
<1>3. Faithful(m)
  BY <1>1 DEF RInv, PayloadsFollow, MessagesAreFaithful
<1>4. /\ sendQueue \in [Endpoint -> Seq(QueueItem)]
      /\ receiveQueue \in [Endpoint -> SUBSET SequencedMessage]
  BY DEF RInv, IInv, TypeOK
<1>5. CASE ReceiveCurrent(e, m)
  <2>1. PICK queue : queue = ProcessReceivedInSequenceAck(sendQueue[e],
                                                          lastAckSeen[e], m.acknum)
    OBVIOUS
  <2>2. sendQueue' = [sendQueue EXCEPT ![e] = queue]
    BY <1>5, <2>1 DEF ReceiveCurrent, InSequenceAck
  <2>3. MessagesOf(queue) \subseteq MessagesOf(sendQueue[e])
    BY <1>4, <2>1, MessagesOfInSequence
  <2>4. \A f \in Endpoint : \A k \in receiveQueue'[f] :
            k \in receiveQueue[f] \/ Faithful(k)
    BY <1>3, <1>4, <1>5 DEF ReceiveCurrent
  <2> QED
    BY <1>1, <1>2, <2>2, <2>3, <2>4, QueueStep
<1>6. CASE ReceivePrevious(e, m) \/ ReceiveUnknown(e, m)
  <2>1. UNCHANGED <<sendQueue, receiveQueue>>
    BY <1>6 DEF ReceivePrevious, ReceiveUnknown, receiverVars
  <2>2. sendQueue' = [sendQueue EXCEPT ![e] = sendQueue[e]]
    BY <1>4, <2>1
  <2> QED
    BY <1>1, <1>2, <2>1, <2>2, QueueStep
<1> QED
  BY <1>1, <1>5, <1>6

LEMMA ReceiveSynQuiet ==
    ASSUME RInv, TypeOK', NEW e \in Endpoint, NEW m \in network, ReceiveSyn(e, m)
    PROVE  PayloadsFollow' /\ UNCHANGED Channel!vars
<1>1. /\ UNCHANGED <<sendQueue, created, sent, delivered, taken, receiveQueue>>
      /\ network' \subseteq network
  BY DEF ReceiveSyn, Arrive, senderVars, receiverVars
<1>2. sendQueue' = [sendQueue EXCEPT ![e] = sendQueue[e]]
  BY <1>1 DEF RInv, IInv, TypeOK
<1> QED
  BY <1>1, <1>2, QueueStep

LEMMA ReceiveEAckQuiet ==
    ASSUME RInv, TypeOK', NEW e \in Endpoint, NEW m \in network, ReceiveEAck(e, m)
    PROVE  PayloadsFollow' /\ UNCHANGED Channel!vars
<1>1. PICK first : first = ProcessReceivedInSequenceAck(sendQueue[e],
                                                        lastAckSeen[e], m.acknum)
  OBVIOUS
<1>2. PICK queue : queue = ProcessReceivedAcks(first, m.acks)
  OBVIOUS
<1>3. /\ UNCHANGED <<created, sent, delivered, taken, receiveQueue>>
      /\ network' \subseteq network
      /\ sendQueue' = [sendQueue EXCEPT ![e] = queue]
  BY <1>1, <1>2 DEF ReceiveEAck, Arrive, receiverVars
<1>4. sendQueue[e] \in Seq(QueueItem)
  BY DEF RInv, IInv, TypeOK
<1>5. first \in Seq(QueueItem) /\ MessagesOf(first) \subseteq MessagesOf(sendQueue[e])
  BY <1>1, <1>4, InSequenceAckType, MessagesOfInSequence
<1>6. MessagesOf(queue) \subseteq MessagesOf(sendQueue[e])
  BY <1>2, <1>5, MessagesOfRanges
<1> QED
  BY <1>3, <1>6, QueueStep

-----------------------------------------------------------------------------
(* A payload is written.                                                   *)

\* What was made before the new payload is at another position.
LEMMA OlderStayFaithful ==
    ASSUME TypeOK, NEW e \in Endpoint,
           sent' = [sent EXCEPT ![e] = Append(@, created[e])],
           NEW m, m.from \in Endpoint, m.position \in 0..created[m.from] - 1,
           Faithful(m)
    PROVE  Faithful(m)'
<1>1. sent \in [Endpoint -> Seq(Nat)] /\ created[e] \in Nat
  BY DEF TypeOK
<1>2. CASE m.from # e
  <2>1. sent'[m.from] = sent[m.from]
    BY <1>1, <1>2
  <2> QED
    BY <2>1 DEF Faithful, CarriesPayload
<1>3. CASE m.from = e
  <2>1. /\ sent'[e] = Append(sent[e], created[e]) /\ sent[e] \in Seq(Nat)
        /\ Len(sent[e]) \in Nat
    BY <1>1
  <2>2. /\ Len(sent'[e]) = Len(sent[e]) + 1
        /\ \A n \in 1..Len(sent[e]) : sent'[e][n] = sent[e][n]
        /\ sent'[e][Len(sent[e]) + 1] = created[e]
    BY <1>1, <2>1, AppendProperties
  <2>3. m.position # created[e]
    BY <1>1, <1>3
  <2>4. \A n \in 1..Len(sent'[e]) : n \in 1..Len(sent[e]) \/ n = Len(sent[e]) + 1
    BY <2>1, <2>2
  <2>5. \A n \in 1..Len(sent[e]) : n \in 1..Len(sent'[e])
    BY <2>1, <2>2
  <2>6. CarriesPayload(e, m.position) <=> CarriesPayload(e, m.position)'
    BY <2>2, <2>3, <2>4, <2>5 DEF CarriesPayload
  <2> QED
    BY <1>3, <2>6 DEF Faithful
<1> QED
  BY <1>2, <1>3

LEMMA SendPendingSocketDataWrites ==
    ASSUME RInv, TypeOK', NEW e \in Endpoint, NEW outcome,
           SendPendingSocketData(e, outcome)
    PROVE  PayloadsFollow' /\ Channel!Write(e)
<1> USE DEF RInv, PayloadsFollow
<1>1. /\ TypeOK /\ TakenWasMade /\ NetworkIsGood /\ QueuesAreGood
      /\ ReceiveQueuesAreGood /\ IInv
  BY DEF IInv
<1>2. /\ Len(sent[e]) < MaxPayloads[e]
      /\ SendSequenced(e, "Data", 0, outcome)
      /\ sent' = [sent EXCEPT ![e] = Append(@, created[e])]
      /\ UNCHANGED <<delivered, taken, receiveQueue>>
  BY DEF SendPendingSocketData, receiverVars
<1>3. PICK m : m = Sequenced(e, "Data", 0)
  OBVIOUS
<1>4. PICK item : item = Item(m, outcome # "refused")
  OBVIOUS
<1>5. /\ m \in SequencedMessage /\ m.from = e /\ m.type = "Data"
      /\ m.position = created[e]
  BY <1>1, <1>3, SequencedType DEF Sequenced
<1>6. item \in QueueItem /\ item.message = m
  BY <1>4, <1>5 DEF Item, QueueItem
<1>7. /\ Carry(m, outcome)
      /\ sendQueue' = [sendQueue EXCEPT ![e] = Append(@, item)]
      /\ created' = [created EXCEPT ![e] = @ + 1]
  BY <1>2, <1>3, <1>4 DEF SendSequenced, Add
<1>8. /\ created \in [Endpoint -> Nat] /\ taken \in [Endpoint -> Nat]
      /\ sent \in [Endpoint -> Seq(Nat)] /\ delivered \in [Endpoint -> Seq(Nat)]
      /\ sendQueue \in [Endpoint -> Seq(QueueItem)]
      /\ receiveQueue \in [Endpoint -> SUBSET SequencedMessage]
      /\ network \subseteq SequencedMessage \cup AckMessage
      /\ created[e] \in Nat /\ Len(sent[e]) \in Nat
  <2>1. TypeOK
    BY <1>1
  <2>2. Len(sent[e]) \in Nat
    BY <2>1 DEF TypeOK
  <2> QED
    BY <2>1, <2>2 DEF TypeOK
<1>9. /\ sent'[e] = Append(sent[e], created[e])
      /\ Len(sent'[e]) = Len(sent[e]) + 1
      /\ \A n \in 1..Len(sent[e]) : sent'[e][n] = sent[e][n]
      /\ sent'[e][Len(sent[e]) + 1] = created[e]
      /\ \A n \in 1..Len(sent'[e]) : n \in 1..Len(sent[e]) \/ n = Len(sent[e]) + 1
  <2>1. sent'[e] = Append(sent[e], created[e]) /\ sent[e] \in Seq(Nat)
    BY <1>2, <1>8
  <2>2. /\ Len(sent'[e]) = Len(sent[e]) + 1
        /\ \A n \in 1..Len(sent[e]) : sent'[e][n] = sent[e][n]
        /\ sent'[e][Len(sent[e]) + 1] = created[e]
    BY <1>8, <2>1, AppendProperties
  <2> QED
    BY <1>8, <2>1, <2>2
<1>10. \A f \in Endpoint \ {e} : sent'[f] = sent[f] /\ created'[f] = created[f]
  BY <1>2, <1>7, <1>8
<1>11. created'[e] = created[e] + 1 /\ created[e] >= 1
  BY <1>1, <1>7, <1>8 DEF TakenWasMade
<1>12. SentIsOrdered'
  <2>1. \A n \in 1..Len(sent[e]) : sent[e][n] \in 1..created[e] - 1
    BY DEF SentIsOrdered
  <2>2. ASSUME NEW n \in 1..Len(sent'[e])
        PROVE  sent'[e][n] \in 1..created'[e] - 1
    <3>1. CASE n \in 1..Len(sent[e])
      <4>1. sent'[e][n] = sent[e][n] /\ sent[e][n] \in 1..created[e] - 1
        BY <1>9, <2>1, <3>1
      <4> QED
        BY <1>8, <1>11, <4>1
    <3>2. CASE n = Len(sent[e]) + 1
      <4>1. sent'[e][n] = created[e]
        BY <1>9, <3>2
      <4> QED
        BY <1>8, <1>11, <4>1
    <3> QED
      BY <1>9, <3>1, <3>2
  <2>3. ASSUME NEW n \in 1..Len(sent'[e]), NEW k \in 1..Len(sent'[e]), n < k
        PROVE  sent'[e][n] < sent'[e][k]
    <3>1. n \in 1..Len(sent[e])
      BY <1>8, <1>9, <2>3
    <3>2. CASE k \in 1..Len(sent[e])
      BY <1>9, <2>3, <3>1, <3>2 DEF SentIsOrdered
    <3>3. CASE k = Len(sent[e]) + 1
      BY <1>8, <1>9, <2>1, <3>1, <3>3
    <3> QED
      BY <1>9, <3>2, <3>3
  <2> QED
    BY <1>10, <2>2, <2>3 DEF SentIsOrdered
<1>13. Faithful(m)'
  <2>1. Len(sent[e]) + 1 \in 1..Len(sent'[e])
    BY <1>8, <1>9
  <2> QED
    BY <1>5, <1>9, <2>1 DEF Faithful, CarriesPayload
<1>14. MessagesAreFaithful'
  <2>1. \A k \in network : k.type # "EAck" => Faithful(k)'
    <3> SUFFICES ASSUME NEW k \in network, k.type # "EAck" PROVE Faithful(k)'
      OBVIOUS
    <3>1. k.from \in Endpoint
      BY <1>8 DEF SequencedMessage, AckMessage
    <3>2. k.position \in 0..created[k.from] - 1
      BY <1>1 DEF NetworkIsGood, GoodMessage, GoodSequenced
    <3>3. Faithful(k)
      BY DEF MessagesAreFaithful
    <3> QED
      BY <1>1, <1>2, <3>1, <3>2, <3>3, OlderStayFaithful
  <2>2. \A f \in Endpoint : \A k \in receiveQueue[f] : Faithful(k)'
    <3> SUFFICES ASSUME NEW f \in Endpoint, NEW k \in receiveQueue[f]
                 PROVE  Faithful(k)'
      OBVIOUS
    <3>1. k.from \in Endpoint
      BY <1>8 DEF SequencedMessage
    <3>2. k.position \in 0..created[k.from] - 1
      BY <1>1 DEF ReceiveQueuesAreGood, GoodSequenced
    <3>3. Faithful(k)
      BY DEF MessagesAreFaithful
    <3> QED
      BY <1>1, <1>2, <3>1, <3>2, <3>3, OlderStayFaithful
  <2>3. \A f \in Endpoint : \A k \in MessagesOf(sendQueue[f]) : Faithful(k)'
    <3> SUFFICES ASSUME NEW f \in Endpoint, NEW k \in MessagesOf(sendQueue[f])
                 PROVE  Faithful(k)'
      OBVIOUS
    <3>1. PICK i \in 1..Len(sendQueue[f]) : k = sendQueue[f][i].message
      BY DEF MessagesOf
    <3>2. k.from = f /\ k.position \in 0..created[k.from] - 1
      BY <1>1, <3>1 DEF QueuesAreGood, GoodQueue, GoodSequenced
    <3>3. Faithful(k)
      BY DEF MessagesAreFaithful
    <3> QED
      BY <1>1, <1>2, <3>2, <3>3, OlderStayFaithful
  <2>4. \A k \in network' : k.type # "EAck" => Faithful(k)'
    BY <1>7, <1>13, <2>1 DEF Carry
  <2>5. \A f \in Endpoint : \A k \in receiveQueue'[f] : Faithful(k)'
    BY <1>2, <2>2
  <2>6. \A f \in Endpoint : \A k \in MessagesOf(sendQueue'[f]) : Faithful(k)'
    <3>1. MessagesOf(Append(sendQueue[e], item))
              \subseteq MessagesOf(sendQueue[e]) \cup {m}
      BY <1>6, <1>8, MessagesOfAppended
    <3>2. \A f \in Endpoint \ {e} : sendQueue'[f] = sendQueue[f]
      BY <1>7, <1>8
    <3>3. sendQueue'[e] = Append(sendQueue[e], item)
      BY <1>7, <1>8
    <3>4. \A k \in MessagesOf(sendQueue'[e]) : Faithful(k)'
      BY <1>13, <2>3, <3>1, <3>3
    <3> QED
      BY <2>3, <3>2, <3>4
  <2> QED
    BY <2>4, <2>5, <2>6 DEF MessagesAreFaithful, MessagesOf
<1>15. DeliveredIsTaken'
  <2> SUFFICES ASSUME NEW f \in Endpoint
               PROVE  /\ Len(delivered[f]) <= Len(sent'[PeerOf[f]])
                      /\ \A n \in 1..Len(sent'[PeerOf[f]]) :
                             n <= Len(delivered[f])
                                 <=> sent'[PeerOf[f]][n] <= taken[f]
    BY <1>2 DEF DeliveredIsTaken
  <2>1. /\ Len(delivered[f]) <= Len(sent[PeerOf[f]])
        /\ \A n \in 1..Len(sent[PeerOf[f]]) :
               n <= Len(delivered[f]) <=> sent[PeerOf[f]][n] <= taken[f]
    BY DEF DeliveredIsTaken
  <2>2. CASE PeerOf[f] # e
    <3>1. sent'[PeerOf[f]] = sent[PeerOf[f]]
      BY <1>10, <2>2, ConstantFacts
    <3> QED
      BY <2>1, <3>1
  <2>3. CASE PeerOf[f] = e
    <3>1. taken[f] < created[e] /\ taken[f] \in Nat
      BY <1>1, <1>8, <2>3 DEF TakenWasMade
    <3>2. Len(delivered[f]) \in Nat
      BY <1>8
    <3>3. ASSUME NEW n \in 1..Len(sent'[e])
          PROVE  n <= Len(delivered[f]) <=> sent'[e][n] <= taken[f]
      <4>1. CASE n \in 1..Len(sent[e])
        BY <1>9, <2>1, <2>3, <4>1
      <4>2. CASE n = Len(sent[e]) + 1
        BY <1>8, <1>9, <2>1, <2>3, <3>1, <3>2, <4>2
      <4> QED
        BY <1>9, <4>1, <4>2
    <3>4. Len(delivered[f]) <= Len(sent'[e])
      BY <1>8, <1>9, <2>1, <2>3, <3>2
    <3> QED
      BY <2>3, <3>3, <3>4
  <2> QED
    BY <2>2, <2>3
<1>16. Channel!Write(e)
  <2>1. /\ sent'[e] # <<>> /\ sent'[e][Len(sent'[e])] = created[e]
    <3>1. sent'[e] = Append(sent[e], created[e]) /\ sent[e] \in Seq(Nat)
      BY <1>8, <1>9
    <3>2. Append(sent[e], created[e]) # <<>>
      <4>1. PICK payloads \in Seq(Nat), next \in Nat :
                payloads = sent[e] /\ next = created[e]
        BY <1>8, <3>1
      <4>2. Append(payloads, next) # <<>>
        OBVIOUS
      <4> QED
        BY <4>1, <4>2
    <3>3. sent'[e][Len(sent'[e])] = created[e]
      BY <1>9
    <3> QED
      BY <3>1, <3>2, <3>3
  <2>2. sent' = [sent EXCEPT ![e] = Append(@, sent'[e][Len(sent'[e])])]
    BY <1>2, <2>1
  <2> QED
    BY <1>2, <1>8, <2>1, <2>2 DEF Channel!Write
<1> QED
  BY <1>12, <1>14, <1>15, <1>16

-----------------------------------------------------------------------------
(* The next message in order leaves.                                       *)

LEMMA ReceivePendingSocketDataReceives ==
    ASSUME RInv, TypeOK', NEW e \in Endpoint, ReceivePendingSocketData(e)
    PROVE  /\ PayloadsFollow'
           /\ Channel!Receive(e) \/ UNCHANGED Channel!vars
<1> USE DEF RInv, PayloadsFollow
<1> DEFINE P == PeerOf[e]
<1>1. PICK m \in receiveQueue[e] :
          /\ m.seqnum = NextSequenceNumber(lastInOrder[e])
          /\ m.type = "Data" =>
                 delivered' = [delivered EXCEPT ![e] = Append(@, m.position)]
          /\ m.type # "Data" => UNCHANGED delivered
          /\ receiveQueue' = [receiveQueue EXCEPT ![e] = @ \ {m}]
          /\ taken' = [taken EXCEPT ![e] = @ + 1]
          /\ UNCHANGED <<sendQueue, created, sent, network>>
  BY DEF ReceivePendingSocketData, senderVars
<1>2. IInv /\ TypeOK
  BY DEF IInv
<1>3. /\ taken \in [Endpoint -> Nat] /\ sent \in [Endpoint -> Seq(Nat)]
      /\ delivered \in [Endpoint -> Seq(Nat)]
      /\ receiveQueue \in [Endpoint -> SUBSET SequencedMessage]
      /\ P \in Endpoint
  BY <1>2, ConstantFacts DEF TypeOK
<1>4. m.position = taken[e] + 1
  BY <1>1, <1>2, NextInOrder
<1>5. m.from = P
  BY <1>2 DEF IInv, ReceiveQueuesAreGood
<1>6. m.type = "Data" <=> \E n \in 1..Len(sent[P]) : sent[P][n] = taken[e] + 1
  BY <1>4, <1>5 DEF MessagesAreFaithful, Faithful, CarriesPayload
<1> HIDE DEF P
<1>7. /\ taken[e] \in Nat /\ taken'[e] = taken[e] + 1
      /\ \A f \in Endpoint \ {e} : taken'[f] = taken[f]
  BY <1>1, <1>3
<1>8. /\ sent[P] \in Seq(Nat) /\ delivered[e] \in Seq(Nat)
      /\ Len(sent[P]) \in Nat /\ Len(delivered[e]) \in Nat
      /\ \A n \in 1..Len(sent[P]) : sent[P][n] \in Nat
  BY <1>3, ElementOfSeq
<1>9. /\ Len(delivered[e]) <= Len(sent[P])
      /\ \A n \in 1..Len(sent[P]) :
             n <= Len(delivered[e]) <=> sent[P][n] <= taken[e]
  BY DEF DeliveredIsTaken, P
<1>10. \A n, k \in 1..Len(sent[P]) : n < k => sent[P][n] < sent[P][k]
  BY <1>3 DEF SentIsOrdered
<1>11. SentIsOrdered'
  BY <1>1 DEF SentIsOrdered
<1>12. MessagesAreFaithful'
  <2>1. \A f \in Endpoint : receiveQueue'[f] \subseteq receiveQueue[f]
    BY <1>1, <1>3
  <2> QED
    BY <1>1, <2>1, MessagesStayFaithful
<1>13. CASE m.type = "Data"
  <2>1. PICK n \in 1..Len(sent[P]) : sent[P][n] = taken[e] + 1
    BY <1>6, <1>13
  <2> DEFINE next == Len(delivered[e]) + 1
  <2>2. ~(n <= Len(delivered[e]))
    BY <1>7, <1>9, <2>1
  <2>3. next \in 1..Len(sent[P]) /\ next <= n
    BY <1>8, <2>1, <2>2
  <2>4. ~(sent[P][next] <= taken[e])
    BY <1>8, <1>9, <2>3
  <2> HIDE DEF next
  <2>5. n = next
    <3>1. sent[P][next] \in Nat
      BY <1>8, <2>3
    <3>2. ~(sent[P][next] < sent[P][n])
      BY <1>7, <2>1, <2>4, <3>1
    <3>3. ~(next < n)
      BY <1>10, <2>3, <3>2
    <3>4. next \in Nat /\ n \in Nat
      BY <1>8, <2>3
    <3> QED
      BY <2>3, <3>3, <3>4
  <2>6. /\ delivered'[e] = Append(delivered[e], m.position)
        /\ \A f \in Endpoint \ {e} : delivered'[f] = delivered[f]
    BY <1>1, <1>3, <1>13
  <2>7. Len(delivered'[e]) = next
    <3>1. m.position \in Nat
      BY <1>4, <1>7
    <3> QED
      BY <1>8, <2>6, <3>1, AppendProperties DEF next
  <2>8. ASSUME NEW k \in 1..Len(sent[P])
        PROVE  k <= next <=> sent[P][k] <= taken[e] + 1
    <3>1. sent[P][k] \in Nat /\ k \in Nat /\ next \in Nat
      BY <1>8, <2>3
    <3>2. CASE k < next
      <4>1. sent[P][k] < sent[P][next]
        BY <1>10, <2>3, <3>2
      <4> QED
        BY <1>7, <2>1, <2>5, <3>1, <3>2, <4>1
    <3>3. CASE k = next
      BY <1>7, <2>1, <2>5, <3>1, <3>3
    <3>4. CASE k > next
      <4>1. sent[P][next] < sent[P][k]
        BY <1>10, <2>3, <3>1, <3>4
      <4> QED
        BY <1>7, <2>1, <2>5, <3>1, <3>4, <4>1
    <3> QED
      BY <3>1, <3>2, <3>3, <3>4
  <2>9. DeliveredIsTaken'
    <3>1. next <= Len(sent[P])
      BY <1>8, <2>3
    <3>2. /\ Len(delivered'[e]) <= Len(sent[PeerOf[e]])
          /\ \A k \in 1..Len(sent[PeerOf[e]]) :
                 k <= Len(delivered'[e]) <=> sent[PeerOf[e]][k] <= taken'[e]
      BY <1>7, <2>7, <2>8, <3>1 DEF P
    <3> QED
      BY <1>1, <1>7, <2>6, <3>2 DEF DeliveredIsTaken
  <2>10. Channel!Receive(e)
    <3>1. Len(delivered[e]) < Len(sent[P])
      BY <1>8, <2>3 DEF next
    <3>2. m.position = sent[P][Len(delivered[e]) + 1]
      BY <1>4, <2>1, <2>5 DEF next
    <3>3. delivered' = [delivered EXCEPT
                           ![e] = Append(@, sent[P][Len(@) + 1])]
      BY <1>1, <1>13, <3>2
    <3> QED
      BY <1>1, <3>1, <3>3 DEF Channel!Receive, P
  <2> QED
    BY <1>11, <1>12, <2>9, <2>10
<1>14. CASE m.type # "Data"
  <2>1. ASSUME NEW n \in 1..Len(sent[P])
        PROVE  sent[P][n] <= taken[e] + 1 <=> sent[P][n] <= taken[e]
    <3>1. sent[P][n] # taken[e] + 1 /\ sent[P][n] \in Nat
      BY <1>6, <1>8, <1>14
    <3> QED
      BY <1>7, <3>1
  <2>2. DeliveredIsTaken'
    <3>1. \A n \in 1..Len(sent[PeerOf[e]]) :
              n <= Len(delivered[e]) <=> sent[PeerOf[e]][n] <= taken'[e]
      BY <1>7, <1>9, <2>1 DEF P
    <3> QED
      BY <1>1, <1>7, <1>14, <3>1 DEF DeliveredIsTaken
  <2> QED
    BY <1>1, <1>11, <1>12, <1>14, <2>2 DEF Channel!vars
<1> QED
  BY <1>13, <1>14

-----------------------------------------------------------------------------
(* The refinement.                                                         *)

LEMMA InitialRefinement == Init => RInv /\ Channel!Init
<1> SUFFICES ASSUME Init PROVE RInv /\ Channel!Init
  OBVIOUS
<1>1. IInv
  BY InitialInvariant
<1>2. \A e \in Endpoint : sent[e] = <<>> /\ delivered[e] = <<>> /\ receiveQueue[e] = {}
  BY DEF Init
<1>3. Len(<<>>) = 0
  OBVIOUS
<1>4. SentIsOrdered /\ DeliveredIsTaken
  BY <1>2, <1>3, ConstantFacts DEF SentIsOrdered, DeliveredIsTaken
<1>5. ASSUME NEW e \in Endpoint, NEW m \in MessagesOf(sendQueue[e])
      PROVE  Faithful(m)
  <2>1. PICK syn : syn = [type |-> "Syn", from |-> e, seqnum |-> InitialSequence[e],
                          acknum |-> IF e = Inbound THEN InitialSequence[Outbound]
                                                    ELSE 0,
                          window |-> 0, position |-> 0, upTo |-> 0]
    OBVIOUS
  <2>2. PICK item : item = Item(syn, TRUE)
    OBVIOUS
  <2>3. sendQueue[e] = <<>> \/ sendQueue[e] = <<item>>
    BY <2>1, <2>2 DEF Init
  <2>4. item.message = syn
    BY <2>2 DEF Item
  <2>5. m = syn
    BY <2>3, <2>4 DEF MessagesOf
  <2> QED
    BY <1>2, <1>3, <2>1, <2>5 DEF Faithful, CarriesPayload
<1>6. MessagesAreFaithful
  <2>1. network = {}
    BY DEF Init
  <2> QED
    BY <1>2, <1>5, <2>1 DEF MessagesAreFaithful
<1>7. Channel!Init
  BY DEF Init, Channel!Init
<1> QED
  BY <1>1, <1>4, <1>6, <1>7 DEF RInv, PayloadsFollow

LEMMA StepRefinement ==
    RInv /\ [Next]_vars => RInv' /\ [Channel!Next]_(Channel!vars)
<1> SUFFICES ASSUME RInv, [Next]_vars
             PROVE  RInv' /\ [Channel!Next]_(Channel!vars)
  OBVIOUS
<1>1. IInv'
  BY NextInvariant DEF RInv
<1>2. TypeOK'
  BY <1>1 DEF IInv
<1>3. CASE Next
  <2>1. PICK e \in Endpoint :
            \/ \E outcome \in Outcomes :
                   \/ SendPendingSocketData(e, outcome)
                   \/ \E window \in WindowSizes : OnMTUUpdate(e, window, outcome)
            \/ \E outcome \in Outcomes \ {"refused"} :
                   \/ \E i \in DOMAIN sendQueue[e] : Process(e, i, outcome)
                   \/ SendPendingAcks(e, outcome)
            \/ \E m \in network : \/ ReceiveSequenced(e, m)
                                  \/ ReceiveSyn(e, m)
                                  \/ ReceiveEAck(e, m)
            \/ ReceivePendingSocketData(e)
    BY <1>3 DEF Next
  <2>2. /\ PayloadsFollow'
        /\ Channel!Write(e) \/ Channel!Receive(e) \/ UNCHANGED Channel!vars
    BY <1>2, <2>1, SendPendingSocketDataWrites, OnMTUUpdateQuiet, ProcessQuiet,
       SendPendingAcksQuiet, ReceiveSequencedQuiet, ReceiveSynQuiet,
       ReceiveEAckQuiet, ReceivePendingSocketDataReceives
  <2> QED
    BY <1>1, <2>2 DEF RInv, Channel!Next
<1>4. CASE UNCHANGED vars
  <2>1. UNCHANGED <<sendQueue, receiveQueue, network, created, taken, sent, delivered>>
    BY <1>4 DEF vars
  <2>2. PayloadsFollow'
    <3>1. \A f \in Endpoint : created[f] <= created'[f]
      BY <2>1 DEF RInv, IInv, TypeOK
    <3>2. MessagesAreFaithful'
      BY <2>1, MessagesStayFaithful DEF RInv, PayloadsFollow
    <3> QED
      BY <1>2, <2>1, <3>1, <3>2, QuietStep
  <2> QED
    BY <1>1, <2>1, <2>2 DEF RInv, Channel!vars
<1> QED
  BY <1>3, <1>4

(* Each user gets the payloads of the other one, once each and in the      *)
(* order of writing, for every choice of the constants and any number of   *)
(* payloads.                                                               *)
THEOREM Reliable == Spec => ImplementsChannel
<1>1. Spec => Channel!Spec
  BY InitialRefinement, StepRefinement, PTL DEF Spec, Channel!Spec
<1> QED
  BY <1>1 DEF ImplementsChannel
=============================================================================
