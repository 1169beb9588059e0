--------------------------- MODULE PeerDirectory ---------------------------
(***************************************************************************)
(* Which peers there are, and which may be: the peer manager's maps        *)
(* (Core/Peer/PeerManager.cpp, PeerLookupMaps.cpp) with the access manager *)
(* that it asks (Core/Access).  Listeners accept peers and the application *)
(* connects to them, each on its own thread; every pool has a primary      *)
(* thread that visits the pool's peers and a worker that runs its tasks;   *)
(* rules on access change at any time.                                     *)
(*                                                                         *)
(* A rule that does not concern limits - a filter, a bad reputation, a     *)
(* UUID - is an address in "blocked".  A peer is locked while it is added. *)
(* The threads of a pool hold the pool's map (shared) while they visit its *)
(* peers; each visit is a step of its own, and one who has to wait for a   *)
(* peer's lock keeps the map meanwhile (mapHolders), so that nobody adds   *)
(* to it or removes from it.  Those who hold m_AllPeers the same way (the  *)
(* broadcasts) are left out.                                               *)
(***************************************************************************)
EXTENDS IPSubnetLimits, SequencesExt

CONSTANTS
    PeerIds,        \* LUIDs, numbers
    Pools,          \* thread pools, numbers; the key 0 of a new peer is the first
    Scenarios       \* threads, addresses, limits, and bounds of what happens

\* Limits and their maxima are numbers; at first a scenario has those of "initial", later
\* rules add those of "limits".
ASSUME DirectoryAssumption ==
    /\ PeerIds \subseteq Nat /\ IsFiniteSet(PeerIds)
    /\ Pools \subseteq Nat /\ IsFiniteSet(Pools) /\ Pools # {}
    /\ \A s \in Scenarios :
          /\ IsFiniteSet(s.addresses) /\ s.addresses \subseteq Nat
          /\ IsFiniteSet(DOMAIN s.initial) /\ DOMAIN s.initial \subseteq 0 .. Width
          /\ IsFiniteSet(DOMAIN s.limits) /\ DOMAIN s.limits \subseteq 0 .. Width
          /\ \A bits \in DOMAIN s.initial : s.initial[bits] \in Nat
          /\ \A bits \in DOMAIN s.limits : s.limits[bits] \subseteq Nat

VARIABLES
    access,         \* IPSubnetLimits
    blocked,        \* addresses that filters and reputations refuse
    peers,          \* a Peer for each LUID
    allPeers,       \* m_AllPeers
    members,        \* PeerMap of each pool
    lookup,         \* m_LookupMaps
    tasks,          \* TaskQueue of each pool
    leaving,        \* remove_list of each pool's primary thread
    adding,         \* what each thread that adds a peer is doing: at, peer
    mapHolders,     \* threads of pools that wait for a peer with their pool's map in hand
    waiting,        \* peers whose connection somebody waits for
    stopped,        \* pools whose threads are stopped; all of them: the manager
    leaked,         \* connections counted for peers that were not added
    faults, scenario, spent

directoryVars ==
    <<access, blocked, peers, allPeers, members, lookup, tasks, leaving, adding, mapHolders,
      waiting, stopped, leaked, faults, scenario, spent>>

Unused == [addr |-> 0, status |-> "unused", condition |-> FALSE, check |-> FALSE,
           onConnect |-> FALSE, onDisconnect |-> FALSE]
Nothing == [at |-> "idle", peer |-> 0]
FirstPool == CHOOSE k \in Pools : \A j \in Pools : k <= j
Running == stopped = {}
Spend(what) == spent[what] < scenario[what] /\ spent' = [spent EXCEPT ![what] = @ + 1]
Task(kind, p) == [kind |-> kind, peer |-> p]

\* Whoever adds a peer holds the lock on it.
Locked(p) == \E t \in DOMAIN adding : adding[t].at # "idle" /\ adding[t].peer = p
MapIsFree(k) == \A w \in mapHolders : w.pool # k
IsAwake(k, thread) ==
    /\ k \notin stopped
    /\ \A w \in mapHolders : ~(w.pool = k /\ w.thread = thread)

DirectoryInit ==
    /\ scenario \in Scenarios
    /\ access = [NoLimits EXCEPT !.limits = scenario.initial] /\ blocked = {}
    /\ peers = [p \in PeerIds |-> Unused]
    /\ allPeers = {} /\ lookup = {}
    /\ members = [k \in Pools |-> {}] /\ tasks = [k \in Pools |-> <<>>]
    /\ leaving = [k \in Pools |-> {}]
    /\ adding = [t \in scenario.threads |-> Nothing] /\ mapHolders = {} /\ waiting = {}
    /\ stopped = {} /\ leaked = [a \in scenario.addresses |-> 0] /\ faults = {}
    /\ spent = [updates |-> 0, failures |-> 0, requests |-> 0]

-----------------------------------------------------------------------------
(* Closing a peer.  Callbacks are tasks of the peer's pool.                *)

\* Mutant: only a peer that was ready tells those who wait for it.
AnswersOfReady(peer, p) ==
    IF peer.onDisconnect THEN <<Task("disconnect", p)>> ELSE <<>>

\* Peer::OnStatusChange to Disconnected: one kind of callback is called, not both.
AnswersOf(peer, p) ==
    IF peer.onConnect /\ peer.status # "ready" THEN <<Task("connect", p)>>
    ELSE IF peer.onDisconnect THEN <<Task("disconnect", p)>>
    ELSE <<>>

Shut(peer) == [peer EXCEPT !.status = "closed", !.onConnect = FALSE, !.onDisconnect = FALSE,
                           !.check = FALSE]

\* Mutant: a peer that was never ready is closed without the books.
DisconnectUncounted(p, k) ==
    /\ access' = IF peers[p].status = "ready"
                 THEN RemoveConnection(access, peers[p].addr).state ELSE access
    /\ peers' = [peers EXCEPT ![p] = [Shut(@) EXCEPT !.condition = TRUE]]
    /\ lookup' = lookup \ {p}
    /\ tasks' = [tasks EXCEPT ![k] = @ \o AnswersOf(peers[p], p)]

\* Manager::Disconnect, with OnPeerEvent for a peer that was ready.
Disconnect(p, k) ==
    /\ access' = RemoveConnection(access, peers[p].addr).state
    /\ peers' = [peers EXCEPT ![p] = [Shut(@) EXCEPT !.condition = TRUE]]
    /\ lookup' = lookup \ {p}
    /\ tasks' = [tasks EXCEPT ![k] = @ \o AnswersOf(peers[p], p)]

-----------------------------------------------------------------------------
(* Adding a peer.                                                          *)

ConnectionAllowed(a) == a \notin blocked /\ LimitsAcceptConnection(access, a)

\* A listener accepts; or ConnectTo finds no connection that is ready and makes one.
Begin(t, a) ==
    LET fresh == {p \in PeerIds : peers[p].status = "unused"}
    IN /\ adding[t].at = "idle" /\ Running /\ fresh # {}
       /\ ConnectionAllowed(a)
       /\ t = "app" => \A p \in lookup : peers[p].addr # a
       /\ LET p == CHOOSE p \in fresh : \A q \in fresh : p <= q
          IN /\ peers' = [peers EXCEPT ![p] = [Unused EXCEPT !.addr = a, !.status = "connecting",
                                                             !.onConnect = (t = "app")]]
             /\ adding' = [adding EXCEPT ![t] = [at |-> "count", peer |-> p]]
       /\ UNCHANGED <<access, blocked, allPeers, members, lookup, tasks, leaving, mapHolders,
                      waiting, stopped, leaked, faults, scenario, spent>>

\* ConnectTo reuses a connection, unless it has failed in the meantime.
Reuse(a) ==
    \E p \in lookup :
        /\ Running /\ ConnectionAllowed(a) /\ "app" \in scenario.threads
        /\ adding["app"].at = "idle" /\ peers[p].addr = a /\ ~Locked(p)
        /\ Spend("requests")
        /\ peers' = [peers EXCEPT ![p].condition = TRUE]
        /\ UNCHANGED <<access, blocked, allPeers, members, lookup, tasks, leaving, adding,
                       mapHolders, waiting, stopped, leaked, faults, scenario>>

\* The connection failed to be added; the one who adds it closes it and returns.
Refuse(t, p) ==
    /\ peers' = [peers EXCEPT ![p] = Shut(@)]
    /\ tasks' = [tasks EXCEPT ![FirstPool] = @ \o AnswersOf(peers[p], p)]
    /\ adding' = [adding EXCEPT ![t] = Nothing]

Count(t) ==
    LET p == adding[t].peer
        added == AddConnection(access, peers[p].addr)
    IN /\ adding[t].at = "count"
       /\ access' = added.state
       /\ IF added.ok THEN adding' = [adding EXCEPT ![t].at = "insert"] /\ UNCHANGED <<peers, tasks>>
          ELSE Refuse(t, p)
       /\ UNCHANGED <<blocked, allPeers, members, lookup, leaving, mapHolders, waiting, stopped,
                      leaked, faults, scenario, spent>>

Insert(t) ==
    /\ adding[t].at = "insert"
    /\ allPeers' = allPeers \cup {adding[t].peer}
    /\ adding' = [adding EXCEPT ![t].at = "pool"]
    /\ UNCHANGED <<access, blocked, peers, members, lookup, tasks, leaving, mapHolders, waiting,
                   stopped, leaked, faults, scenario, spent>>

LeastBusy(k) == \A j \in Pools : Cardinality(members[k]) <= Cardinality(members[j])

Join(t) ==
    /\ adding[t].at = "pool"
    /\ \E k \in Pools :
        /\ LeastBusy(k) /\ MapIsFree(k)
        /\ members' = [members EXCEPT ![k] = @ \cup {adding[t].peer}]
    /\ adding' = [adding EXCEPT ![t].at = "event"]
    /\ UNCHANGED <<access, blocked, peers, allPeers, lookup, tasks, leaving, mapHolders,
                   waiting, stopped, leaked, faults, scenario, spent>>

\* The lock on the peer is given back, and those who wait for it go on.
GiveBack(t) ==
    /\ adding' = [adding EXCEPT ![t] = Nothing]
    /\ mapHolders' = {w \in mapHolders : w.peer # adding[t].peer}

\* AddWorkEvent succeeds.
Watch(t) ==
    /\ adding[t].at = "event"
    /\ GiveBack(t)
    /\ waiting' = IF t = "app" THEN waiting \cup {adding[t].peer} ELSE waiting
    /\ UNCHANGED <<access, blocked, peers, allPeers, members, lookup, tasks, leaving, stopped,
                   leaked, faults, scenario, spent>>

WatchFails(t) ==
    /\ adding[t].at = "event" /\ Spend("failures")
    /\ adding' = [adding EXCEPT ![t].at = "undo"]
    /\ UNCHANGED <<access, blocked, peers, allPeers, members, lookup, tasks, leaving,
                   mapHolders, waiting, stopped, leaked, faults, scenario>>

\* The scope guards of Add: with the peer still locked, the map of its pool is needed
\* for oneself.  Then the maps are as before, and the connection stays counted.
Undo(t) ==
    \E k \in Pools :
        LET p == adding[t].peer
        IN /\ adding[t].at = "undo" /\ p \in members[k] /\ MapIsFree(k)
           /\ members' = [members EXCEPT ![k] = @ \ {p}]
           /\ allPeers' = allPeers \ {p}
           /\ leaked' = [leaked EXCEPT ![peers[p].addr] = @ + 1]
           /\ peers' = [peers EXCEPT ![p] = Shut(@)]
           /\ tasks' = [tasks EXCEPT ![k] = @ \o AnswersOf(peers[p], p)]
           /\ GiveBack(t)
           /\ UNCHANGED <<access, blocked, lookup, leaving, waiting, stopped, faults, scenario,
                          spent>>

-----------------------------------------------------------------------------
(* The threads of a pool.                                                  *)

IsRefused(p) == peers[p].addr \in blocked \/ HasConnectionOverflow(access, peers[p].addr)

\* A peer whose socket is closed is disconnected for an error.
MustGo(p) == peers[p].condition \/ (peers[p].check /\ IsRefused(p))

CanVisit(k, p) == IsAwake(k, "primary") /\ p \in members[k] \ leaving[k] /\ ~Locked(p)

\* A visit, or a check of all peers, comes to a peer that is being added.
WaitForPeer(k, thread, p) ==
    /\ IsAwake(k, thread) /\ p \in members[k] /\ Locked(p)
    /\ thread = "worker" => tasks[k] # <<>> /\ Head(tasks[k]).kind = "check"
    /\ mapHolders' = mapHolders \cup {[pool |-> k, thread |-> thread, peer |-> p]}
    /\ UNCHANGED <<access, blocked, peers, allPeers, members, lookup, tasks, leaving, adding,
                   waiting, stopped, leaked, faults, scenario, spent>>

Checked(p) == [peers EXCEPT ![p].check = FALSE]

\* PrimaryThreadProcessor with a peer that is to leave, or that fails now.
VisitLeaver(k, p) ==
    /\ CanVisit(k, p)
    /\ Disconnect(p, k)
    /\ leaving' = [leaving EXCEPT ![k] = @ \cup {p}]
    /\ UNCHANGED <<blocked, allPeers, members, adding, mapHolders, waiting, stopped, leaked,
                   faults, scenario, spent>>

\* The handshake completes.
VisitReady(k, p) ==
    /\ CanVisit(k, p) /\ ~MustGo(p) /\ peers[p].status = "connecting"
    /\ peers' = [Checked(p) EXCEPT ![p].status = "ready", ![p].onConnect = FALSE]
    /\ lookup' = lookup \cup {p}
    /\ tasks' = [tasks EXCEPT ![k] = IF peers[p].onConnect THEN Append(@, Task("connect", p)) ELSE @]
    /\ UNCHANGED <<access, blocked, allPeers, members, leaving, adding, mapHolders, waiting,
                   stopped, leaked, faults, scenario, spent>>

VisitChecked(k, p) ==
    /\ CanVisit(k, p) /\ ~MustGo(p) /\ peers[p].check
    /\ peers' = Checked(p)
    /\ UNCHANGED <<access, blocked, allPeers, members, lookup, tasks, leaving, adding,
                   mapHolders, waiting, stopped, leaked, faults, scenario, spent>>

\* Manager::Remove, after the visits.
RemovePeer(k, p) ==
    /\ p \in leaving[k] /\ MapIsFree(k)
    /\ leaving' = [leaving EXCEPT ![k] = @ \ {p}]
    /\ allPeers' = allPeers \ {p}
    /\ members' = [members EXCEPT ![k] = @ \ {p}]
    /\ UNCHANGED <<access, blocked, peers, lookup, tasks, adding, mapHolders, waiting, stopped,
                   leaked, faults, scenario, spent>>

\* Mutant: peers in the handshake are not checked again.
FlaggedReady(k) == [p \in PeerIds |->
    IF p \in members[k] /\ peers[p].status = "ready" THEN [peers[p] EXCEPT !.check = TRUE]
    ELSE peers[p]]

Flagged(k) == [p \in PeerIds |->
    IF p \in members[k] THEN [peers[p] EXCEPT !.check = TRUE] ELSE peers[p]]

\* WorkerThreadProcessor.  A callback of ConnectTo writes into the frame of the one
\* who waits for it.
RunTask(k) ==
    /\ IsAwake(k, "worker") /\ tasks[k] # <<>>
    /\ Head(tasks[k]).kind = "check" => \A p \in members[k] : ~Locked(p)
    /\ tasks' = [tasks EXCEPT ![k] = Tail(@)]
    /\ LET task == Head(tasks[k])
           called == task.kind = "connect"
           expected == task.peer \in waiting \/ Locked(task.peer)
       IN /\ peers' = IF task.kind = "check" THEN Flagged(k) ELSE peers
          /\ waiting' = IF called THEN waiting \ {task.peer} ELSE waiting
          /\ faults' = IF called /\ ~expected THEN faults \cup {"late answer"} ELSE faults
    /\ UNCHANGED <<access, blocked, allPeers, members, lookup, leaving, adding, mapHolders,
                   stopped, leaked, scenario, spent>>

-----------------------------------------------------------------------------
(* Requests and rules.                                                     *)

DisconnectFrom(p) ==
    /\ Running /\ p \in allPeers /\ ~Locked(p) /\ peers[p].status # "closed"
    /\ Spend("requests")
    /\ peers' = [peers EXCEPT ![p].condition = TRUE, ![p].onDisconnect = TRUE]
    /\ UNCHANGED <<access, blocked, allPeers, members, lookup, tasks, leaving, adding,
                   mapHolders, waiting, stopped, leaked, faults, scenario>>

\* OnAccessUpdate.
Announce == tasks' = [k \in Pools |-> Append(tasks[k], Task("check", 0))]

ChangeRules ==
    /\ Running /\ Spend("updates") /\ Announce
    /\ \/ \E a \in scenario.filtered :
            /\ blocked' = IF a \in blocked THEN blocked \ {a} ELSE blocked \cup {a}
            /\ UNCHANGED access
       \/ \E bits \in DOMAIN scenario.limits \ DOMAIN access.limits :
            \E max \in scenario.limits[bits] :
                access' = AddLimit(access, bits, max) /\ UNCHANGED blocked
       \/ \E bits \in DOMAIN access.limits :
            access' = RemoveLimit(access, bits) /\ UNCHANGED blocked
    /\ UNCHANGED <<peers, allPeers, members, lookup, leaving, adding, mapHolders, waiting,
                   stopped, leaked, faults, scenario>>

\* A reputation recovers, which nobody is told.
Recover ==
    /\ blocked # {} /\ scenario.recover
    /\ \E a \in blocked : blocked' = blocked \ {a}
    /\ UNCHANGED <<access, peers, allPeers, members, lookup, tasks, leaving, adding, mapHolders,
                   waiting, stopped, leaked, faults, scenario, spent>>

-----------------------------------------------------------------------------
(* Shutdown: the pools one after the other, then the peers that are left.  *)

NobodyAdds == \A t \in DOMAIN adding : adding[t].at = "idle"

StopPool(k) ==
    /\ scenario.stop /\ k \notin stopped /\ leaving[k] = {} /\ NobodyAdds
    /\ \A j \in Pools : j < k => j \in stopped
    /\ IF stopped \cup {k} = Pools
       THEN \* DisconnectAndRemoveAll and ResetState; no callback is called any more
            /\ access' = FoldSet(LAMBDA p, state : RemoveConnection(state, peers[p].addr).state,
                                access, allPeers)
            /\ peers' = [p \in PeerIds |-> IF p \in allPeers THEN Shut(peers[p]) ELSE peers[p]]
            /\ lookup' = lookup \ allPeers /\ allPeers' = {}
            /\ members' = [j \in Pools |-> {}] /\ tasks' = [j \in Pools |-> <<>>]
       ELSE /\ tasks' = [tasks EXCEPT ![k] = <<>>]
            /\ UNCHANGED <<access, peers, lookup, allPeers, members>>
    /\ stopped' = stopped \cup {k}
    /\ UNCHANGED <<blocked, leaving, adding, mapHolders, waiting, leaked, faults, scenario,
                   spent>>

DirectoryNext ==
    \/ \E t \in scenario.threads :
        Count(t) \/ Insert(t) \/ Join(t) \/ Watch(t) \/ WatchFails(t) \/ Undo(t)
    \/ \E t \in scenario.threads, a \in scenario.addresses : Begin(t, a)
    \/ \E a \in scenario.addresses : Reuse(a)
    \/ \E k \in Pools, p \in PeerIds :
        \/ VisitLeaver(k, p) \/ VisitReady(k, p) \/ VisitChecked(k, p) \/ RemovePeer(k, p)
        \/ \E thread \in {"primary", "worker"} : WaitForPeer(k, thread, p)
    \/ \E k \in Pools : RunTask(k) \/ StopPool(k)
    \/ \E p \in PeerIds : DisconnectFrom(p)
    \/ ChangeRules \/ Recover

DirectorySpec == DirectoryInit /\ [][DirectoryNext]_directoryVars

\* What a visit must do at last, and what follows it.
Progress(k, p) ==
    \/ (MustGo(p) \/ peers[p].status = "connecting") /\ VisitLeaver(k, p)
    \/ VisitChecked(k, p)
    \/ RemovePeer(k, p)

GoOnAdding(t) == Count(t) \/ Insert(t) \/ Join(t) \/ Watch(t) \/ Undo(t)

\* Threads go on; a peer is ready or given up within MaxHandshakeDuration, and one
\* that is to leave does.
DirectoryFairness ==
    /\ \A t \in {"app", "listener"} :
        WF_directoryVars(t \in DOMAIN adding /\ GoOnAdding(t))
    /\ \A k \in Pools : WF_directoryVars(RunTask(k))
    /\ \A k \in Pools, p \in PeerIds : WF_directoryVars(p \in members[k] /\ Progress(k, p))

\* The undo of a failed addition waits for a map whose holder waits for the peer.
Stuck ==
    \E t \in DOMAIN adding, w \in mapHolders :
        adding[t].at = "undo" /\ adding[t].peer = w.peer

DirectoryFairSpec == DirectorySpec /\ DirectoryFairness

-----------------------------------------------------------------------------
(* Properties.                                                             *)

\* Peers the access manager counts: added or about to be, and not disconnected.
Counted(p) ==
    \/ \E t \in DOMAIN adding : adding[t].peer = p /\ adding[t].at \in {"insert", "pool"}
    \/ \E k \in Pools : p \in members[k] \ leaving[k]

\* The books agree whatever was refused, failed or left: the pools share out all
\* peers but the one about to join, the lookup maps hold those that are ready, the
\* access manager counts the connections there are (and the leaked ones), and after
\* a shutdown nothing is left ("if our bookkeeping was done right").
BooksAgree ==
    /\ UNION {members[k] : k \in Pools} =
        allPeers \ {adding[t].peer : t \in {u \in DOMAIN adding : adding[u].at = "pool"}}
    /\ \A j, k \in Pools : j # k => members[j] \cap members[k] = {}
    /\ lookup = {p \in PeerIds : peers[p].status = "ready"}
    /\ \A a \in scenario.addresses :
        Cardinality({p \in PeerIds : Counted(p) /\ peers[p].addr = a}) + leaked[a] =
            IF a \in DOMAIN access.connections THEN access.connections[a] ELSE 0
    /\ stopped = Pools => allPeers = {} /\ lookup = {}

\* No two limits have a masked address in common.
AreApart(limits) ==
    \A i, j \in limits : i # j =>
        \A a, b \in scenario.addresses : SubnetOf(a, i) # SubnetOf(b, j)

\* Each limit counts the connections of its subnets, however limits and connections
\* come and go, as long as no two limits share a count.
LimitsAreExact ==
    AreApart(DOMAIN scenario.initial \cup DOMAIN scenario.limits) =>
        CountsAreExact(access, scenario.addresses)

\* Maps, counts and limits agree with the peers that are there.
DirectoryIsExact == BooksAgree /\ LimitsAreExact

\* Rules that change reach the peers that are there: one that is refused when its
\* pool is told leaves, unless it is allowed again or a failed addition cannot be undone.
IsToBeChecked(k, p) ==
    /\ p \in members[k] /\ peers[p].addr \in blocked
    /\ peers[p].check \/ Contains(tasks[k], Task("check", 0))
RefusedPeersLeave ==
    \A p \in PeerIds :
        (\E k \in Pools : IsToBeChecked(k, p))
            ~> \/ p \notin UNION {members[k] : k \in Pools} \/ peers[p].addr \notin blocked
               \/ ~Running \/ Stuck

\* Whoever waits for a connection is answered, unless the manager stops or a failed
\* addition cannot be undone.
ConnectIsAnswered ==
    \A p \in PeerIds : p \in waiting ~> (p \notin waiting \/ ~Running \/ Stuck)

\* "connections above the maximum allowed number will be removed later"
\* (IPSubnetLimits.cpp:66).
OverflowIsRemoved ==
    \A a \in {1, 3} :
        HasConnectionOverflow(access, a) ~> (~HasConnectionOverflow(access, a) \/ ~Running)

\* A completion callback finds the caller who waits for it (Local.cpp:1093).
AnswerIsExpected == "late answer" \notin faults

\* A failed addition is undone: nobody who waits for its peer holds the map that this
\* needs (PeerManager.cpp:634).
AdditionIsUndone == ~Stuck

\* "undo the limit connections that were added" (IPSubnetLimits.cpp:307).
UndoIsPossible == ~access.dangling
=============================================================================
