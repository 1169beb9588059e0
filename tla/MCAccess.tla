------------------------------ MODULE MCAccess ------------------------------
(* What a node decides by addresses, for TLC: the cookies that show that a   *)
(* sender has its address, the reputation of an address, the peers that are  *)
(* there with the limits of their subnets, the addresses of the node itself  *)
(* that peers report, and those it listens on.  In a behaviour one of Parts  *)
(* moves and the others stay in an initial state, so that one run checks     *)
(* each alone.                                                               *)
EXTENDS UDPCookies, AddressReputation, Listeners, PublicEndpoints, PeerDirectory, TLC

CONSTANT Parts

VARIABLE part

-----------------------------------------------------------------------------
(* Scenarios of PeerDirectory: threads that add peers, addresses, the subnet *)
(* limits, how often rules change, starts fail and application asks.         *)

Directory ==
    [threads |-> {"listener", "app"}, addresses |-> {1}, filtered |-> {},
     limits |-> << >>, initial |-> << >>, updates |-> 0, failures |-> 0, requests |-> 0,
     recover |-> FALSE, stop |-> FALSE]

\* Limits, by the bits of their masks, of which no two share a masked address, and
\* two that do.
Apart == (1 :> {0, 1}) @@ (3 :> {1})
Shared == (1 :> {1}) @@ (2 :> {2})

\* Requests, failures and a shutdown; filters; limits.
MCScenarios == {
    [Directory EXCEPT !.failures = 1, !.requests = 1, !.stop = TRUE],
    [Directory EXCEPT !.updates = 2, !.filtered = {1}, !.recover = TRUE, !.stop = TRUE],
    [Directory EXCEPT !.updates = 2, !.limits = Apart, !.initial = (3 :> 1), !.addresses = {1, 3},
                      !.threads = {"listener"}]}

SharedScenarios == {[Directory EXCEPT !.updates = 2, !.limits = Shared]}
LimitedScenarios == {[Directory EXCEPT !.updates = 1, !.limits = Apart]}

\* Networks that report public addresses: of an untrusted and of a trusted peer.
MCReporters == {<<1, FALSE>>, <<2, TRUE>>}

-----------------------------------------------------------------------------
MCInit ==
    /\ part \in Parts
    /\ Init /\ ReputationInit /\ DirectoryInit /\ EndpointsInit /\ ListenersInit
    /\ part # "listeners" => /\ manager = "UDP"
                             /\ interfaces = {} /\ allowed = {}
    /\ part # "directory" => scenario = CHOOSE s \in Scenarios : TRUE

CookiesMove ==
    /\ part = "cookies" /\ Next
    /\ UNCHANGED <<part, reputationVars, directoryVars, endpointsVars, listenersVars>>
ReputationMoves ==
    /\ part = "reputation" /\ ReputationNext
    /\ UNCHANGED <<part, vars, directoryVars, endpointsVars, listenersVars>>
DirectoryMoves ==
    /\ part = "directory" /\ DirectoryNext
    /\ UNCHANGED <<part, vars, reputationVars, endpointsVars, listenersVars>>
EndpointsMove ==
    /\ part = "endpoints" /\ EndpointsNext
    /\ UNCHANGED <<part, vars, reputationVars, directoryVars, listenersVars>>
ListenersMove ==
    /\ part = "listeners" /\ ListenersNext
    /\ UNCHANGED <<part, vars, reputationVars, directoryVars, endpointsVars>>

MCNext == CookiesMove \/ ReputationMoves \/ DirectoryMoves \/ EndpointsMove \/ ListenersMove

MCSpec ==
    /\ MCInit
    /\ [][MCNext]_<<part, vars, reputationVars, directoryVars, endpointsVars, listenersVars>>

-----------------------------------------------------------------------------
(* The fairness of each part as its module states it, of the part's own steps. *)

DirectoryIsFair ==
    /\ \A t \in {"app", "listener"} :
        WF_directoryVars(/\ part = "directory" /\ t \in DOMAIN adding /\ GoOnAdding(t))
    /\ \A k \in Pools : WF_directoryVars(part = "directory" /\ RunTask(k))
    /\ \A k \in Pools, p \in PeerIds :
        WF_directoryVars(part = "directory" /\ p \in members[k] /\ Progress(k, p))

EndpointsAreFair ==
    \A k \in {"data", "hop"} :
        WF_endpointsVars(part = "endpoints" /\ (Take(k) \/ Record(k) \/ End(k)))

MCFairSpec == MCSpec /\ DirectoryIsFair /\ EndpointsAreFair

-----------------------------------------------------------------------------
(* Properties: those of the parts, where its part moves.                       *)

\* PeerDirectory: peers that a change of the rules refuses leave, and whoever waits for a
\* connection is answered, as long as no failed addition is stuck.
DirectoryServes ==
    DirectoryIsFair => (part = "directory" => RefusedPeersLeave /\ ConnectIsAnswered)

\* PublicEndpoints: each verification ends.
EveryVerificationEnds == EndpointsAreFair => (part = "endpoints" => VerificationsEnd)
=============================================================================
