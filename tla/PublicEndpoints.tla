--------------------------- MODULE PublicEndpoints ---------------------------
(***************************************************************************)
(* The public addresses that peers report to this node, and what is done   *)
(* to believe them: Core/PublicEndpoints.cpp, with the cache of trusted    *)
(* and verified addresses that LocalEnvironment.cpp keeps of them.  A      *)
(* report is handled under the lock of the local environment; two worker   *)
(* threads, one per kind of verification, work beside it.                  *)
(*                                                                         *)
(* An address counts as verified when a datagram sent to it came back, it  *)
(* is at most a few hops away and peers of NeededNetworks networks have    *)
(* reported it.  Ports are left out; the time is the number of reports.    *)
(***************************************************************************)
EXTENDS Naturals, FiniteSets, Sequences, SequencesExt

CONSTANTS
    PublicAddresses, Ours,        \* the public addresses peers may report; those of this node
    Bluetooth,              \* those of them that are Bluetooth addresses
    Reporters,              \* the networks of the peers that report, with whether such a
                            \* peer is trusted
    MaxEndpoints, MaxReportingPeerNetworks,
    NeededNetworks,         \* 3 in the code
    NoAddress,                   \* no address
    MaxReports, MaxTries, MaxRestarts   \* bounds of this model

ASSUME EndpointsAssumption ==
    /\ NoAddress \notin PublicAddresses
    /\ {MaxEndpoints, MaxReportingPeerNetworks, NeededNetworks} \subseteq Nat \ {0}
    /\ \A r \in Reporters : r[2] \in BOOLEAN

VARIABLES
    endpoints,      \* m_Endpoints: what is known of each address in it
    reporting,      \* m_ReportingNetworks, the one that was added first first
    set, queue,     \* of each kind of verification: m_...Verification.Set and .Queue
    held,           \* of each kind: the worker's local copy of what it works on
    cached,         \* LocalEnvironment's m_CachedAddresses
    additions,       \* history: how often a network was added to reporting
    vouched,        \* history: networks and addresses reported by a trusted peer
    reports, restarts

Networks == {r[1] : r \in Reporters}

endpointsVars == <<endpoints, reporting, set, queue, held, cached, additions, vouched,
          reports, restarts>>

Kinds == {"data", "hop"}
Idle == [ip |-> NoAddress, tries |-> 0, outcome |-> "none"]

NewEndpoint == [trusted |-> FALSE, data |-> FALSE, hop |-> FALSE, networks |-> {},
                updated |-> 0] \* LastUpdateSteadyTime

EndpointsTypeOK ==
    /\ DOMAIN endpoints \subseteq PublicAddresses /\ IsFiniteSet(DOMAIN endpoints)
    /\ endpoints \in [DOMAIN endpoints ->
                        [trusted : BOOLEAN, data : BOOLEAN, hop : BOOLEAN,
                         networks : SUBSET Networks, updated : Nat]]
    /\ reporting \in Seq(Networks)
    /\ set \in [Kinds -> SUBSET PublicAddresses]
    /\ queue \in [Kinds -> Seq([ip : PublicAddresses, tries : Nat, outcome : {"none"}])]
    /\ held \in [Kinds -> {Idle} \cup
                    [ip : PublicAddresses, tries : Nat,
                     outcome : {"verifying", "succeeded", "failed", "recorded"}]]
    /\ additions \in [Networks -> Nat]
    /\ reports \in Nat /\ restarts \in Nat

IsVerified(ep) == ep.data /\ ep.hop /\ Cardinality(ep.networks) >= NeededNetworks

EndpointsInit ==
    /\ endpoints = [a \in {} |-> NewEndpoint]
    /\ reporting = <<>>
    /\ set = [k \in Kinds |-> {}] /\ queue = [k \in Kinds |-> <<>>]
    /\ held = [k \in Kinds |-> Idle]
    /\ cached = {}
    /\ additions = [n \in Networks |-> 0] /\ vouched = {}
    /\ reports = 0 /\ restarts = 0

-----------------------------------------------------------------------------
(* Reports.                                                                *)

\* AddReportingNetwork: an untrusted peer is heard once per network; making room forgets
\* the networks heard first.
IsNewReportingNetwork(n) == n \notin ToSet(reporting)

AddReportingNetwork(n) ==
    IF IsNewReportingNetwork(n)
    THEN Append(LET spare == Len(reporting) - (MaxReportingPeerNetworks - 1)
                IN  IF spare > 0 THEN SubSeq(reporting, spare + 1, Len(reporting))
                    ELSE reporting, n)
    ELSE reporting

\* A mutant: the oldest goes, whoever vouches for it.
LessRelevantByAge(a, b) == endpoints[a].updated < endpoints[b].updated

\* The order in which endpoints are given up: untrusted before trusted, unverified
\* before verified, then the one updated longest ago.
LessRelevant(a, b) ==
    LET x == endpoints[a]
        y == endpoints[b]
    IN  IF x.trusted # y.trusted THEN y.trusted
        ELSE IF IsVerified(x) # IsVerified(y) THEN IsVerified(y)
        ELSE x.updated < y.updated

LeastRelevant ==
    CHOOSE a \in DOMAIN endpoints : \A b \in DOMAIN endpoints \ {a} : LessRelevant(a, b)

\* GetEndpointDetails: the endpoints among which `a` then is.
WithDetails(a) ==
    LET kept == IF a \notin DOMAIN endpoints /\ Cardinality(DOMAIN endpoints) >= MaxEndpoints
                THEN DOMAIN endpoints \ {LeastRelevant}
                ELSE DOMAIN endpoints
    IN  [b \in kept \cup {a} |-> IF b \in kept THEN endpoints[b] ELSE NewEndpoint]

\* AddIPAddress...Verification: the set says whether the address is being worked on.
NeedsVerification(ep, a, k) ==
    /\ a \notin Bluetooth
    /\ IF k = "data" THEN ~ep.data ELSE ~ep.hop

AddVerifications(ep, a) ==
    LET new == {k \in Kinds : NeedsVerification(ep, a, k) /\ a \notin set[k]}
    IN  /\ set' = [k \in Kinds |-> IF k \in new THEN set[k] \cup {a} ELSE set[k]]
        /\ queue' = [k \in Kinds |-> IF k \in new
                        THEN Append(queue[k], [Idle EXCEPT !.ip = a]) ELSE queue[k]]

TrustedAndVerified(eps) == {a \in DOMAIN eps : eps[a].trusted \/ IsVerified(eps[a])}

\* A mutant: a network is heard again and again.
HeardAlways(n, trusted) == TRUE

\* Whether a report of network `n` is heard.
Heard(n, trusted) == IsNewReportingNetwork(n) \/ trusted

\* AddPublicEndpoint, AddEndpoint: the cache is only renewed for an address that is new.
AddEndpoint(n, a, trusted) ==
    /\ reports < MaxReports
    /\ reports' = reports + 1
    /\ Heard(n, trusted)
    /\ LET eps == WithDetails(a)
           ep == [eps[a] EXCEPT
                    !.trusted = @ \/ trusted,
                    !.networks = IF Cardinality(@) < MaxReportingPeerNetworks
                                 THEN @ \cup {n} ELSE @,
                    !.updated = reports + 1]
           after == [eps EXCEPT ![a] = ep]
       IN  /\ endpoints' = after
           /\ AddVerifications(ep, a)
           /\ cached' = IF a \notin DOMAIN endpoints THEN TrustedAndVerified(after) ELSE cached
    /\ reporting' = AddReportingNetwork(n)
    /\ additions' = IF IsNewReportingNetwork(n) THEN [additions EXCEPT ![n] = @ + 1] ELSE additions
    /\ vouched' = IF trusted THEN vouched \cup {<<n, a>>} ELSE vouched
    /\ UNCHANGED <<held, restarts>>

\* UpdateEnvironmentInformation after a change of the interfaces.
InterfacesChange ==
    /\ cached' = TrustedAndVerified(endpoints)
    /\ UNCHANGED <<endpoints, reporting, set, queue, held, additions, vouched,
                   reports, restarts>>

-----------------------------------------------------------------------------
(* The worker threads.                                                     *)

\* What comes of an attempt to verify an address: the datagram comes back if the address
\* is ours and nothing blocks it, after a while if at all; something else may
\* come instead; a ping answers at once or never, and a host near us may have another's
\* address.
Arriving(ip) == {"other", "none"} \cup (IF ip \in Ours THEN {"same"} ELSE {})

\* ReceiveVerification: data and sender must match.
Accepts(arriving) == arriving = "same"

DataOutcomes(item) ==
    LET received == {IF Accepts(m) THEN "succeeded" ELSE "verifying" : m \in Arriving(item.ip)}
    IN  {"failed"} \cup (IF item.tries < MaxTries THEN received
                         ELSE received \ {"verifying"})

HopOutcomes == {"succeeded", "failed"}

\* PopFrontIf and Verify: the worker's own business until it has an outcome.
Take(k) ==
    /\ held[k] = Idle
    /\ queue[k] # <<>>
    /\ \E outcome \in IF k = "data" THEN DataOutcomes(Head(queue[k])) ELSE HopOutcomes :
         held' = [held EXCEPT ![k] = [Head(queue[k]) EXCEPT !.outcome = outcome]]
    /\ queue' = [queue EXCEPT ![k] = Tail(@)]
    /\ UNCHANGED <<endpoints, reporting, set, cached, additions, vouched, reports,
                   restarts>>

\* The result is written down if the endpoint is still there ("We should never get here").
Record(k) ==
    /\ held[k].outcome = "succeeded"
    /\ held' = [held EXCEPT ![k].outcome = "recorded"]
    /\ endpoints' =
         IF held[k].ip \notin DOMAIN endpoints THEN endpoints
         ELSE IF k = "data" THEN [endpoints EXCEPT ![held[k].ip].data = TRUE]
         ELSE [endpoints EXCEPT ![held[k].ip].hop = TRUE]
    /\ UNCHANGED <<reporting, set, queue, cached, additions, vouched, reports,
                   restarts>>

\* Back into the queue, or out of the set so that the next report may try again.
PutBack(k) ==
    /\ held[k].outcome = "verifying"
    /\ queue' = [queue EXCEPT ![k] =
                    Append(@, [held[k] EXCEPT !.tries = @ + 1, !.outcome = "none"])]
    /\ UNCHANGED set

\* A mutant: a failed verification is not taken out of the set.
FinishSucceeded(k) ==
    /\ held[k].outcome \in {"recorded", "failed"}
    /\ set' = IF held[k].outcome = "recorded" THEN [set EXCEPT ![k] = @ \ {held[k].ip}] ELSE set
    /\ UNCHANGED queue

Finish(k) ==
    /\ held[k].outcome \in {"recorded", "failed"}
    /\ set' = [set EXCEPT ![k] = @ \ {held[k].ip}]
    /\ UNCHANGED queue

End(k) ==
    /\ PutBack(k) \/ Finish(k)
    /\ held' = [held EXCEPT ![k] = Idle]
    /\ UNCHANGED <<endpoints, reporting, cached, additions, vouched, reports,
                   restarts>>

\* Deinitialize joins the workers, and with Initialize starts again from nothing.
Restart ==
    /\ restarts < MaxRestarts
    /\ restarts' = restarts + 1
    /\ \A k \in Kinds : held[k] = Idle
    /\ endpoints' = [a \in {} |-> NewEndpoint]
    /\ reporting' = <<>>
    /\ set' = [k \in Kinds |-> {}] /\ queue' = [k \in Kinds |-> <<>>]
    /\ cached' = {}
    /\ additions' = [n \in Networks |-> 0] /\ vouched' = {}
    /\ UNCHANGED <<held, reports>>

EndpointsNext ==
    \/ \E r \in Reporters, a \in PublicAddresses : AddEndpoint(r[1], a, r[2])
    \/ InterfacesChange
    \/ \E k \in Kinds : Take(k) \/ Record(k) \/ End(k)
    \/ Restart

EndpointsSpec == EndpointsInit /\ [][EndpointsNext]_endpointsVars

\* The workers run.
EndpointsFairness == \A k \in Kinds : WF_endpointsVars(Take(k) \/ Record(k) \/ End(k))

EndpointsFairSpec == EndpointsSpec /\ EndpointsFairness

-----------------------------------------------------------------------------
(* Properties.                                                             *)

Queued(k) == {queue[k][i].ip : i \in DOMAIN queue[k]}

\* An address is in a set exactly while it waits once in the queue or is being worked on:
\* were it left behind in the set, it would never be verified again (the comments of
\* AddIPAddressDataVerification and of the worker threads).
WorkIsKnown ==
    \A k \in Kinds :
        /\ set[k] = Queued(k) \cup ({held[k].ip} \ {NoAddress})
        /\ Cardinality(set[k]) = Len(queue[k]) + (IF held[k].ip = NoAddress THEN 0 ELSE 1)

\* Only addresses of this node are ever verified, however often their record was given up
\* and made anew while a verification was under way.
VerifiedIsOurs == \A a \in DOMAIN endpoints : IsVerified(endpoints[a]) => a \in Ours

\* What untrusted peers of one network say counts for one address each time the
\* network is heard anew.
VotesAreCounted ==
    \A n \in Networks :
        Cardinality({a \in DOMAIN endpoints :
                        n \in endpoints[a].networks /\ <<n, a>> \notin vouched}) <= additions[n]

\* Both maps keep to their limits.
MapsAreBounded ==
    /\ Cardinality(DOMAIN endpoints) <= MaxEndpoints
    /\ Len(reporting) <= MaxReportingPeerNetworks

\* The four together: what keeps an address of this node, and no other, believed.
EndpointsAreSound == WorkIsKnown /\ VerifiedIsOurs /\ VotesAreCounted /\ MapsAreBounded

\* A trusted endpoint only has to go when all the others are trusted too, and a verified one
\* when the others are trusted or verified (RemoveLeastRelevantEndpoints).
RelevantStaysNow ==
    \A a \in DOMAIN endpoints \ DOMAIN endpoints', b \in DOMAIN endpoints :
        \/ restarts' # restarts
        \/ /\ endpoints[a].trusted => endpoints[b].trusted
           /\ IsVerified(endpoints[a]) /\ ~endpoints[a].trusted
                => endpoints[b].trusted \/ IsVerified(endpoints[b])
RelevantStay == [][RelevantStaysNow]_endpointsVars

\* Each verification comes to an end: the sockets that wait share one thread by taking
\* turns at the back of the queue (DataVerificationWorkerThread).
VerificationsEnd ==
    \A k \in Kinds : \A a \in PublicAddresses : a \in set[k] ~> a \notin set[k]

\* The cache has the trusted and the verified addresses (GetTrustedAndVerifiedAddresses,
\* "Add any trusted/verified public addresses if we have them").
CacheIsCurrent == cached = TrustedAndVerified(endpoints)

=============================================================================
