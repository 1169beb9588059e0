---------------------------- MODULE MTUDiscovery ----------------------------
(***************************************************************************)
(* The discovery of the largest message that a path carries, by the end of *)
(* a UDP connection: Core/UDP/UDPConnectionMTUD.cpp, with what the         *)
(* connection does about it and the messages that wait to be acknowledged  *)
(* meanwhile (UDPConnection.cpp, UDPConnectionSendQueue.cpp).              *)
(*                                                                         *)
(* The sizes that are tried are 1 .. Last.  A size of bytes is twice such  *)
(* a size if it is exactly that, and the odd number below it if it is      *)
(* between the size and the one before.                                    *)
(***************************************************************************)
EXTENDS Integers, FiniteSets, FiniteSetsExt

CONSTANTS
    Last,           \* the number of sizes in UDPMessageSizes::All
    MaxNumRetries,
    MaxChanges      \* bound of this model: how often the network changes

\* There are at least two sizes, and a probe is tried again.
ASSUME DiscoveryAssumption ==
    /\ Last \in Nat /\ Last >= 2
    /\ MaxNumRetries \in Nat /\ MaxNumRetries >= 1

VARIABLES
    mtudStatus,     \* m_MTUDiscovery: "none" if there is none, or its m_Status
    index,          \* m_CurrentMessageSizeIndex
    proven,         \* m_MaximumMessageSize
    msg,            \* m_MTUDMessageData
    fragments,      \* whether the socket lets messages be fragmented
    mtu,            \* the send queue's maximum message size
    sendQueue,      \* the sizes of messages in the send queue
    closed,         \* whether the connection was closed for a failed send
    interface, path,    \* what the local interface and the way to the peer carry
    noticed,        \* whether the connection knows of the last change of these
    answers,        \* sequence numbers of probes whose acknowledgement is under way
    number,         \* history: the sequence number of the last probe
    intact,         \* history: since the last change nothing was lost or came late
    changes

discoveryVars == <<mtudStatus, index, proven, msg, fragments, mtu, sendQueue, closed,
                   interface, path, noticed, answers, number, intact, changes>>
networkVars == <<interface, path, noticed, changes>>

Least == 1
Bytes == 2 .. 2 * Last
Exactly(k) == 2 * k
Between(k) == {2 * k - 1, 2 * k}    \* more than size k - 1, at most size k

Carried == IF interface < path THEN interface ELSE path

NoMessage == [low |-> Least, size |-> Exactly(Least), final |-> FALSE, number |-> 0,
              tries |-> 0, acked |-> FALSE]

\* Open, Accept: ResetMTU.
DiscoveryInit ==
    /\ mtudStatus = "start" /\ index = Least /\ proven = Least /\ msg = NoMessage
    /\ fragments = TRUE
    /\ mtu = Least /\ sendQueue = {} /\ closed = FALSE
    /\ interface \in Bytes /\ path \in Bytes /\ noticed = TRUE
    /\ answers = {} /\ number = 0 /\ intact = TRUE /\ changes = 0

-----------------------------------------------------------------------------
(* Probes.                                                                 *)

\* CreateNewMessage: the size is random between what is proven and what is tried, and
\* exact if the message is the final one.  `n` is its sequence number.
Probe(k, size, n) ==
    [low |-> k - 1, size |-> size, final |-> FALSE, number |-> n, tries |-> 0, acked |-> FALSE]

FinalProbe(k, n) ==
    [low |-> k, size |-> Exactly(k), final |-> TRUE, number |-> n, tries |-> 0, acked |-> FALSE]

\* Fragmentation is off while there are probes.
TooLarge(size) == size > interface

\* Finished or Failed: the socket may fragment again, and OnMTUUpdate tells the queue.
Finish ==
    /\ mtudStatus' = "none"
    /\ fragments' = TRUE
    /\ mtu' = proven
    /\ UNCHANGED <<msg, answers, intact>>

\* TransmitMessage: the probe goes out and is answered, or is lost, on its way or back,
\* as it is if the path does not carry it; or the buffer has no room for it now; or it fails.
Transmit(m) ==
    \/ /\ msg' = [m EXCEPT !.tries = @ + 1]
       /\ mtudStatus' = "discovery"
       /\ \/ m.size <= path /\ answers' = answers \cup {m.number} /\ UNCHANGED intact
          \/ UNCHANGED answers /\ intact' = (intact /\ m.size > path)
       /\ fragments' = FALSE
       /\ UNCHANGED mtu
    \/ /\ m.tries = 0
       /\ msg' = m /\ mtudStatus' = "discovery" /\ fragments' = FALSE
       /\ UNCHANGED <<mtu, answers, intact>>
    \/ /\ mtudStatus' = "none" /\ fragments' = TRUE /\ mtu' = proven
       /\ intact' = FALSE
       /\ UNCHANGED <<msg, answers>>

\* ProcessTransmitResult: when a probe for size `k` is too large, the size before it is the
\* last to be tried.
SendProbe(m, k) ==
    IF ~TooLarge(m.size) THEN Transmit(m)
    ELSE IF m.final \/ TooLarge(Exactly(k - 1)) THEN Finish
    ELSE Transmit(FinalProbe(k - 1, m.number + 1))

NewProbe(k) == \E size \in Between(k) : SendProbe(Probe(k, size, number + 1), k)

NewFinalProbe(k) == SendProbe(FinalProbe(k, number + 1), k)

-----------------------------------------------------------------------------
(* Process.                                                                *)

NoteNumber == number' = IF msg'.number > number THEN msg'.number ELSE number

\* The first probe, once the random delay has passed.  Setting the socket's option may fail.
Start ==
    /\ mtudStatus = "start"
    /\ index' = Least + 1
    /\ \/ NewProbe(Least + 1)
       \/ /\ mtudStatus' = "none" /\ fragments' \in {fragments, TRUE} /\ mtu' = proven
          /\ intact' = FALSE
          /\ UNCHANGED <<msg, answers>>
    /\ NoteNumber
    /\ UNCHANGED <<proven, sendQueue, closed>> /\ UNCHANGED networkVars

\* While the network is intact no answer comes after its time.
NoAnswerInTime ==
    /\ mtudStatus = "discovery" /\ ~msg.acked
    /\ intact => msg.number \notin answers

Retry ==
    /\ NoAnswerInTime
    /\ msg.tries < MaxNumRetries
    /\ SendProbe(msg, index)
    /\ NoteNumber
    /\ UNCHANGED <<index, proven, sendQueue, closed>> /\ UNCHANGED networkVars

\* A mutant: the final probe is not given up.
GiveUpButFinal ==
    /\ NoAnswerInTime
    /\ msg.tries >= MaxNumRetries
    /\ ~msg.final
    /\ NewFinalProbe(index - 1)
    /\ NoteNumber
    /\ UNCHANGED <<index, proven, sendQueue, closed>> /\ UNCHANGED networkVars

\* After MaxNumRetries the size before is the last to be tried.
GiveUp ==
    /\ NoAnswerInTime
    /\ msg.tries >= MaxNumRetries
    /\ IF msg.final THEN Finish ELSE NewFinalProbe(index - 1)
    /\ NoteNumber
    /\ UNCHANGED <<index, proven, sendQueue, closed>> /\ UNCHANGED networkVars

\* A probe was answered: a bigger one, or at the largest size an exact one.
Continue ==
    /\ mtudStatus = "discovery" /\ msg.acked
    /\ IF msg.final THEN Finish /\ UNCHANGED index
       ELSE IF index = Last THEN NewFinalProbe(Last) /\ UNCHANGED index
       ELSE NewProbe(index + 1) /\ index' = index + 1
    /\ NoteNumber
    /\ UNCHANGED <<proven, sendQueue, closed>> /\ UNCHANGED networkVars

\* A mutant: the sequence number is not compared.
ExpectedAny(n) == mtudStatus = "discovery"

Expected(n) == mtudStatus = "discovery" /\ msg.number = n

\* ProcessReceivedAck.
ReceiveAck(n) ==
    /\ n \in answers
    /\ answers' = answers \ {n}
    /\ IF Expected(n)
       THEN msg' = [msg EXCEPT !.acked = TRUE] /\ proven' = msg.low
       ELSE UNCHANGED <<msg, proven>>
    /\ UNCHANGED <<mtudStatus, index, fragments, mtu, sendQueue, closed, number, intact>>
    /\ UNCHANGED networkVars

-----------------------------------------------------------------------------
(* The connection and the network.                                         *)

\* A message of the user's is as large as the queue lets it be.
AddMessage ==
    /\ ~closed
    /\ sendQueue' = sendQueue \cup {Exactly(mtu)}
    /\ UNCHANGED <<mtudStatus, index, proven, msg, fragments, mtu, closed, answers, number, intact>>
    /\ UNCHANGED networkVars

\* SendQueue::Process: a message is sent again as it is, and acknowledged if it gets there;
\* a failure to send closes the connection.
ProcessSendQueue ==
    /\ \E size \in sendQueue :
         IF ~fragments /\ TooLarge(size) THEN closed' = TRUE /\ UNCHANGED sendQueue
         ELSE /\ size <= path \/ fragments
              /\ sendQueue' = sendQueue \ {size} /\ UNCHANGED closed
    /\ UNCHANGED <<mtudStatus, index, proven, msg, fragments, mtu, answers, number, intact>>
    /\ UNCHANGED networkVars

\* Another interface, or another way to the peer.
NetworkChanges ==
    /\ changes < MaxChanges /\ noticed
    /\ changes' = changes + 1
    /\ interface' \in Bytes /\ path' \in Bytes
    /\ noticed' = FALSE /\ intact' = FALSE
    /\ UNCHANGED <<mtudStatus, index, proven, msg, fragments, mtu, sendQueue, closed, answers,
                   number>>

\* OnLocalIPInterfaceChanged, CheckEndpointChange: ResetMTU.  The socket's option stays.
NoticeChange ==
    /\ ~noticed
    /\ noticed' = TRUE
    /\ mtudStatus' = "start" /\ index' = Least /\ proven' = Least /\ msg' = NoMessage
    /\ mtu' = Least
    /\ intact' = TRUE
    /\ UNCHANGED <<fragments, sendQueue, closed, interface, path, answers, number, changes>>

\* Answers may be late from now on.
NetworkIsSlow ==
    /\ intact
    /\ intact' = FALSE
    /\ UNCHANGED <<mtudStatus, index, proven, msg, fragments, mtu, sendQueue, closed, answers,
                   number>>
    /\ UNCHANGED networkVars

Process == Start \/ Retry \/ GiveUp \/ Continue

DiscoveryNext ==
    \/ ~closed /\ (Process \/ AddMessage \/ ProcessSendQueue \/ NoticeChange)
    \/ \E n \in answers : ReceiveAck(n)
    \/ NetworkChanges \/ NetworkIsSlow

DiscoverySpec == DiscoveryInit /\ [][DiscoveryNext]_discoveryVars

\* The connection's thread runs and in the end its socket has room for a probe (a step that
\* sends nothing changes nothing); it notices changes, and answers under way arrive.
DiscoveryFairness ==
    /\ WF_discoveryVars(~closed /\ Process) /\ WF_discoveryVars(~closed /\ NoticeChange)
    /\ WF_discoveryVars(\E n \in answers : ReceiveAck(n))

DiscoveryFairSpec == DiscoverySpec /\ DiscoveryFairness

-----------------------------------------------------------------------------
(* Properties.                                                             *)

\* Once discovery is over, the messages that are made from then on fit through the network it
\* was done for: no answer from before a change counts after it.
MessagesFit == mtudStatus = "none" /\ noticed => Exactly(mtu) <= Carried

\* Where nothing is lost or late, discovery finds the largest size that fits, although
\* probes have random sizes and only prove the size before their own.
LargestIsFound ==
    mtudStatus = "none" /\ noticed /\ intact =>
        mtu = Max({k \in 1 .. Last : Exactly(k) <= Carried})

\* Discovery is right about the network it was done for.
MTUIsRight == MessagesFit /\ LargestIsFound

\* Discovery ends, whatever is lost; so messages may be fragmented again and the peer hears of
\* a receive window (ProcessMTUDiscovery, OnMTUUpdate).
DiscoveryEnds == mtudStatus # "none" ~> mtudStatus = "none" \/ closed

\* A change of the network does not cost the connection: messages larger than it carries "will
\* get dropped", and what cannot be sent is tried again.
ChangeIsSurvived == ~closed

=============================================================================
