---------------------------- MODULE MCPeerSession ----------------------------
(* The session between two peers, for TLC, and what the threads that work on   *)
(* peers rely on: the mutex of a Peer (PeerTypes.h:12) and the event group in  *)
(* which a pool waits for its peers' sockets (PeerManager.h:47).  In a         *)
(* behaviour one of Parts moves and the others stay in an initial state, so    *)
(* that one run checks each of them alone.                                     *)
EXTENDS PeerSession, RecursiveSharedMutex

CONSTANT Parts

VARIABLES
    part,
    evgSignalled, evgCreated, evgInUse, evgMainSet, evgBarrier, evgAlive, evgMain,
    evgMembers, evgUpdate, evgShutdown, evgPlace, evgLong, evgCall, evgWait, evgWatched,
    evgAdded

-----------------------------------------------------------------------------
Scenario(secret, mute, updates, messages, changes, noise, suspensions, timeouts) ==
    [secret |-> secret, mute |-> mute, updates |-> updates, messages |-> messages,
     changes |-> changes, noise |-> noise, suspensions |-> suspensions, timeouts |-> timeouts,
     without |-> {}]

\* The extender stops with the first change of a list, and starts again with the second.
Stopping(s) == [s EXCEPT !.without = {2}]

(* The cases are kept apart, so that each is small: messages beyond the receive *)
(* rate during an update; a suspension during an update, with a message or a    *)
(* change of the extender list; an extender that stops and starts while one     *)
(* sends; updates until the oldest keys are dropped; noise; a timeout.          *)
MCScenarios == {
    Scenario(FALSE, FALSE, 1, 2, 0, 0, 0, 0),
    Scenario(FALSE, FALSE, 1, 1, 0, 0, 1, 0),
    Scenario(FALSE, FALSE, 1, 0, 1, 0, 1, 0),
    Stopping(Scenario(FALSE, FALSE, 0, 1, 2, 0, 0, 0)),
    Scenario(TRUE,  FALSE, 3, 0, 0, 0, 0, 0),
    Scenario(TRUE,  TRUE,  1, 1, 0, 1, 0, 0),
    Scenario(FALSE, TRUE,  1, 0, 1, 0, 0, 1)}

(* A suspension while a message waits for room in the receive rate. *)
Backlog == {Scenario(FALSE, FALSE, 1, 2, 0, 0, 1, 0)}

(* An extender stops while a message of its own waits. *)
Leaving == {Stopping(Scenario(FALSE, FALSE, 0, 1, 1, 0, 0, 0))}

(* The backlog while the extender list changes. *)
ListBehindBacklog == {Scenario(FALSE, FALSE, 0, 2, 1, 0, 1, 0)}

-----------------------------------------------------------------------------
Group == INSTANCE EventGroup WITH
    Events <- {"e1", "e2"}, Subgroups <- {1, 2}, Mains <- {1, 2}, Room <- 1, NoEvent <- None,
    NoGroup <- 0, signalled <- evgSignalled, created <- evgCreated, inUse <- evgInUse,
    mainSet <- evgMainSet, barrier <- evgBarrier, alive <- evgAlive, main <- evgMain,
    members <- evgMembers, update <- evgUpdate, shutdown <- evgShutdown, place <- evgPlace,
    long <- evgLong, call <- evgCall, wait <- evgWait, watched <- evgWatched,
    added <- evgAdded

groupVars == <<
    evgSignalled, evgCreated, evgInUse, evgMainSet, evgBarrier, evgAlive, evgMain,
    evgMembers, evgUpdate, evgShutdown, evgPlace, evgLong, evgCall, evgWait, evgWatched,
    evgAdded>>

MCInit ==
    /\ part \in Parts
    /\ Init /\ MutexInit /\ Group!Init
    /\ part # "session" =>
        /\ scenario = CHOOSE s \in Scenarios : TRUE
        /\ \A p \in Peers : peer[p].accepts

SessionMoves == part = "session" /\ Next /\ UNCHANGED <<part, mutexVars, groupVars>>
MutexMoves == part = "mutex" /\ MutexNext /\ UNCHANGED <<part, vars, groupVars>>
GroupMoves == part = "group" /\ Group!Next /\ UNCHANGED <<part, vars, mutexVars>>

MCNext == SessionMoves \/ MutexMoves \/ GroupMoves

MCSpec == MCInit /\ [][MCNext]_<<part, vars, mutexVars, groupVars>>

-----------------------------------------------------------------------------
(* The fairness of each part as its module states it, of the part's own steps. *)

SessionIsFair == \A p \in Peers : WF_vars(part = "session" /\ Handling(p))

MutexIsFair ==
    \A t \in Threads :
        /\ WF_mutexVars(part = "mutex" /\ Proceed(t))
        /\ SF_mutexVars(part = "mutex" /\ Release(t))

GroupIsFair ==
    /\ WF_groupVars(part = "group" /\ Group!Call)
    /\ \A g \in {1, 2} :
        /\ SF_groupVars(part = "group" /\ Group!PassBarrier(g))
        /\ WF_groupVars(part = "group" /\ Group!Wake(g))
    /\ WF_groupVars(part = "group" /\ Group!BeginWait)
    /\ WF_groupVars(part = "group" /\ Group!EndWait)
    /\ SF_groupVars(part = "group" /\ Group!EndWait /\ evgWait' = "event")

-----------------------------------------------------------------------------
(* Properties: those of the parts, where its part moves.                       *)

\* PeerSession: handshakes and key updates end.
SessionExchangesEnd == SessionIsFair => (part = "session" => ExchangesEnd)

\* RecursiveSharedMutex: whoever waits for the mutex gets it (the threads are alike, one is
\* looked at).
MutexIsGot == MutexIsFair => (part = "mutex" => GetsIn(CHOOSE t \in Threads : TRUE))

\* EventGroup: calls return and events are reported (the events are alike, one is looked at).
GroupWorks == GroupIsFair =>
    (part = "group" => Group!CallsReturn /\ Group!IsReported("e1"))
=============================================================================
