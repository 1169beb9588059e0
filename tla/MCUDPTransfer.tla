--------------------------- MODULE MCUDPTransfer ---------------------------
(* UDPTransfer for TLC.  A behaviour belongs to one of Scenarios, which set *)
(* what is sent and what the network does to it:                            *)
(*   "one way"    two payloads against each other's delays and repeats,     *)
(*                the window opened by an announcement on the way back, and *)
(*                another one once it has been changed with messages under  *)
(*                way;                                                      *)
(*   "around"     more payloads than there are numbers, so that the first   *)
(*                numbers are used again;                                   *)
(*   "both ways"  payloads each way through the first window, every fault   *)
(*                of the network;                                           *)
(*   "fair"       the losses that retransmission makes good, under the      *)
(*                fairness of UDPTransfer, whose constants are those of     *)
(*                this scenario.                                            *)
EXTENDS UDPTransfer

CONSTANTS Scenarios,
          SynOfOutbound, SynOfInbound       \* sequence numbers of the two Syns

VARIABLE scenario

PerEnd(outbound, inbound) == [e \in Endpoint |-> IF e = Outbound THEN outbound ELSE inbound]

MCInitialSequence == PerEnd(SynOfOutbound, SynOfInbound)
MCMaxPayloads == PerEnd(1, 0)
MCMaxStateUpdates == PerEnd(1, 1)

OneWay == INSTANCE UDPTransfer WITH
    MaxPayloads <- PerEnd(2, 0), MaxStateUpdates <- PerEnd(0, 1),
    WindowSizes <- {1, 2},
    MaxInFlight <- 2, Outcomes <- {"carried"}, DatagramsRepeat <- TRUE

Around == INSTANCE UDPTransfer WITH
    MaxPayloads <- PerEnd(6, 0), MaxStateUpdates <- PerEnd(0, 1),
    MaxInFlight <- 1, Outcomes <- {"carried"}, DatagramsRepeat <- TRUE

BothWays == INSTANCE UDPTransfer WITH
    MaxPayloads <- PerEnd(2, 1), MaxStateUpdates <- PerEnd(0, 0),
    WindowSizes <- {1, 2},
    MaxInFlight <- 2, Outcomes <- {"carried", "lost", "refused"}, DatagramsRepeat <- TRUE

MCInit ==
    /\ scenario \in Scenarios
    /\ CASE scenario = "one way" -> OneWay!Init
         [] scenario = "around" -> Around!Init
         [] scenario = "both ways" -> BothWays!Init
         [] scenario = "fair" -> Init

MoveOneWay == scenario = "one way" /\ OneWay!Next /\ UNCHANGED scenario
MoveAround == scenario = "around" /\ Around!Next /\ UNCHANGED scenario
MoveBothWays == scenario = "both ways" /\ BothWays!Next /\ UNCHANGED scenario
MoveFairly == scenario = "fair" /\ Next /\ UNCHANGED scenario

MCNext == MoveOneWay \/ MoveAround \/ MoveBothWays \/ MoveFairly

Fair == scenario = "fair"

\* The fairness of UDPTransfer, of the steps of its scenario.
ScenarioIsFair ==
    \A e \in Endpoint :
        /\ WF_vars(Fair /\ ReceivePendingSocketData(e))
        /\ WF_vars(/\ Fair /\ created[e] = 1 + Len(sent[e])
                   /\ \E window \in WindowSizes, outcome \in Outcomes :
                          OnMTUUpdate(e, window, outcome))
        /\ SF_vars(Fair /\ SendPendingAcks(e, "carried"))
        /\ \A p \in 0..MaxPayloads[e] + MaxStateUpdates[e] :
               SF_vars(/\ Fair
                       /\ \E i \in DOMAIN sendQueue[e] :
                              /\ sendQueue[e][i].message.position = p
                              /\ Process(e, i, "carried"))
        /\ \A p \in 1..MaxPayloads[PeerOf[e]] + MaxStateUpdates[PeerOf[e]] :
               WF_vars(/\ Fair
                       /\ \E m \in network :
                              /\ m.type # "EAck"
                              /\ m.position = p
                              /\ ReceiveSequenced(e, m))
        /\ WF_vars(Fair /\ \E m \in network : ReceiveSyn(e, m) \/ ReceiveEAck(e, m))
        /\ WF_vars(/\ Fair
                   /\ \E m \in network : ReceiveEAck(e, m) /\ sendQueue' # sendQueue)

MCSpec == MCInit /\ [][MCNext]_<<scenario, vars>> /\ ScenarioIsFair

\* Every payload that enters the send queue reaches the peer's user (UDPTransfer).
SentIsDelivered == Fair => EverySentIsDelivered

\* Every item is acknowledged in the end (UDPTransfer).
QueuesDrain == Fair => SendQueueDrains
=============================================================================
