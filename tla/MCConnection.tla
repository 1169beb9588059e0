---------------------------- MODULE MCConnection ----------------------------
(* A UDP connection outside of its transfer of data, for TLC: how it is      *)
(* established, and how it finds the size of its messages.  In a behaviour   *)
(* one of Parts moves and the others stay in an initial state:               *)
(*   "uncrowded"  no other handshakes, so no cookie is asked for; every      *)
(*                failure of UDPHandshake and repeated datagrams; the Syn is *)
(*                numbered 0 or not, while in the other parts a first Syn is *)
(*                numbered 0 and one with a cookie is not;                   *)
(*   "crowded"    handshakes with others are in progress, cookies expire,    *)
(*                and addresses change;                                      *)
(*   "fair"       nothing fails, under the fairness of UDPHandshake, whose   *)
(*                constants are those of this part;                          *)
(*   "discovery"  MTUDiscovery, under its fairness;                          *)
(*   "silence"    UDPSuspension, under its fairness.                         *)
EXTENDS UDPHandshake, MTUDiscovery, UDPSuspension

CONSTANT Parts

VARIABLE part

Uncrowded == INSTANCE UDPHandshake WITH
    OtherHandshakes <- {0}, CookiesExpire <- FALSE, Failures <- {"timeout", "close", "grace"},
    DatagramsRepeat <- TRUE, MaxSyns <- 1, MaxKeepAlives <- 0

Crowded == INSTANCE UDPHandshake WITH
    OtherHandshakes <- {2}, CookiesExpire <- TRUE, Failures <- {},
    DatagramsRepeat <- FALSE, MaxSyns <- 2, MaxKeepAlives <- 1

-----------------------------------------------------------------------------
MCInit ==
    /\ part \in Parts
    /\ Init
    /\ part # "uncrowded" => zeroPosition = 0
    /\ DiscoveryInit
    /\ part # "discovery" => interface = 2 /\ path = 2
    /\ SuspensionInit
    /\ part # "silence" => \A e \in Ends : end[e].keepalive = 1

MoveUncrowded == part = "uncrowded" /\ Uncrowded!Next /\ UNCHANGED <<part, discoveryVars, suspensionVars>>
MoveCrowded == part = "crowded" /\ Crowded!Next /\ UNCHANGED <<part, discoveryVars, suspensionVars>>
MoveFairly == part = "fair" /\ Next /\ UNCHANGED <<part, discoveryVars, suspensionVars>>
Discover == part = "discovery" /\ DiscoveryNext /\ UNCHANGED <<part, vars, suspensionVars>>
BeSilent == part = "silence" /\ SuspensionNext /\ UNCHANGED <<part, vars, discoveryVars>>

MCNext == MoveUncrowded \/ MoveCrowded \/ MoveFairly \/ Discover \/ BeSilent

Fair == part = "fair"

\* The fairness of UDPHandshake, MTUDiscovery and UDPSuspension, of the steps of each part.
MCFairness ==
    /\ WF_vars(Fair /\ SendDelayedItem)
    /\ WF_vars(Fair /\ Retransmit)
    /\ WF_vars(Fair /\ SendKeepAlive)
    /\ WF_vars(Fair /\ Accept)
    /\ SF_vars(Fair /\ AcceptConnection)
    /\ SF_vars(Fair /\ OutboundReceive)
    /\ \A i \in Incarnation : /\ WF_vars(Fair /\ SendInboundSyn(i))
                              /\ WF_vars(Fair /\ TransmitInboundSyn(i))
                              /\ SF_vars(Fair /\ InboundReceive(i))
    /\ WF_discoveryVars(part = "discovery" /\ ~closed /\ Process)
    /\ WF_discoveryVars(part = "discovery" /\ ~closed /\ NoticeChange)
    /\ WF_discoveryVars(part = "discovery" /\ \E n \in answers : ReceiveAck(n))
    /\ SF_suspensionVars(part = "silence" /\ Tick(TRUE))
    /\ \A e \in Ends : /\ WF_suspensionVars(part = "silence" /\ Idle(e))
                            /\ WF_suspensionVars(part = "silence" /\ Receive(e))

MCSpec == MCInit /\ [][MCNext]_<<part, vars, discoveryVars, suspensionVars>> /\ MCFairness

-----------------------------------------------------------------------------
(* Properties.  MTUIsRight, SuspensionIsSound and ChangeIsSurvived are invariants of       *)
(* their modules, and hold where their part does not move as they do initially.             *)

\* UDPHandshake: without failures the handshake ends, for both ends.
BothConnect == part = "fair" => HandshakeCompletes

\* MTUDiscovery and UDPSuspension: discovery ends whatever is lost, and in the end both
\* ends are connected, or neither.
UpkeepSettles ==
    /\ part = "discovery" => DiscoveryEnds
    /\ part = "silence" => ConnectionSettles
=============================================================================
