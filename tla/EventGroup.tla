----------------------------- MODULE EventGroup -----------------------------
(***************************************************************************)
(* More events than Windows can wait for at once: Concurrency/EventGroup.h.*)
(* Each subgroup of events has a thread that waits for them and sets the   *)
(* subgroup's main event; a worker thread waits for the main events.  Other*)
(* threads add and remove events, one at a time (m_Data's lock).           *)
(*                                                                         *)
(* The events are those of sockets: set from outside, and reset when the   *)
(* worker has dealt with the socket.                                       *)
(***************************************************************************)
EXTENDS Naturals, FiniteSets

CONSTANTS
    Events,
    Subgroups,      \* places for subgroups, numbers from 1
    Mains,          \* main events that can be created, numbers from 1
    Room,           \* MaxNumEvents - NumBaseEvents: events in one subgroup
    NoEvent, NoGroup

VARIABLES
    signalled,      \* the events that are set
    created,        \* m_Data.MainEvents: those that exist,
    inUse,          \* with InUse,
    mainSet,        \* and those that are set
    barrier,        \* whether EventSubgroupBarrier is set
    alive,          \* m_Data.EventSubgroups
    main,           \* of each subgroup: m_MainEvent
    members,        \* m_SubEvents, without the base events
    update, shutdown,   \* whether these base events are set
    place, long,    \* where its thread is, and whether it waits for long
    call,           \* the call of AddEvent or RemoveEvent under way
    wait, watched,  \* the worker's call of Wait: "none", "waiting" or what it returned,
                    \* and the main events it waits for
    added           \* the events whose AddEvent has returned and RemoveEvent was not called

groupVars == <<alive, main, members, update, shutdown, place, long>>
vars == <<signalled, created, inUse, mainSet, barrier, groupVars, call, wait, watched, added>>

NoCall == [op |-> "none", event |-> NoEvent, group |-> NoGroup, step |-> "none"]

Init ==
    /\ signalled = {} /\ created = {} /\ inUse = {} /\ mainSet = {} /\ barrier = FALSE
    /\ alive = {}
    /\ main = [g \in Subgroups |-> 0] /\ members = [g \in Subgroups |-> {}]
    /\ update = {} /\ shutdown = {}
    /\ place = [g \in Subgroups |-> "none"] /\ long = [g \in Subgroups |-> FALSE]
    /\ call = NoCall
    /\ wait = "none" /\ watched = {}
    /\ added = {}

-----------------------------------------------------------------------------
(* AddEvent and RemoveEvent.                                               *)

Least(S) == CHOOSE x \in S : \A y \in S : x <= y

\* AddMainEvent: a handle that is not in use is taken as it is, and stays so.
FreeMain ==
    IF created \ inUse # {} THEN {Least(created \ inUse)}
    ELSE IF Mains \ created # {} THEN {Least(Mains \ created)}
    ELSE {}

\* UpdateMainEvent.
MainSetFor(g, events) ==
    IF events \cap signalled # {} THEN mainSet \cup {main[g]} ELSE mainSet \ {main[g]}

\* GetSubgroup, then AddEvent of the subgroup up to its lock.  The update event gets its
\* thread to release the lock.
BeginAdd(e) ==
    /\ call = NoCall
    /\ \A g \in alive : e \notin members[g]
    /\ LET open == {g \in alive : Cardinality(members[g]) < Room}
       IN  \/ /\ open # {}
              /\ call' = [op |-> "add", event |-> e, group |-> Least(open), step |-> "lock"]
              /\ update' = update \cup {Least(open)}
              /\ UNCHANGED <<alive, main, members, shutdown, place, long, created, inUse>>
           \/ /\ open = {} /\ Subgroups \ alive # {}
              /\ \E m \in FreeMain, g \in {Least(Subgroups \ alive)} :
                   /\ alive' = alive \cup {g}
                   /\ main' = [main EXCEPT ![g] = m]
                   /\ created' = created \cup {m}
                   /\ inUse' = IF m \in created THEN inUse ELSE inUse \cup {m}
                   /\ call' = [op |-> "add", event |-> e, group |-> g, step |-> "lock"]
                   /\ update' = update \cup {g}
              /\ UNCHANGED <<members, shutdown, place, long>>
    /\ UNCHANGED <<signalled, mainSet, barrier, wait, watched, added>>

\* The thread of a subgroup holds the lock while it waits for its events.
Unlocked(g) == place[g] # "holding"

FinishAdd ==
    /\ call.op = "add" /\ call.step = "lock"
    /\ LET g == call.group
           events == members[g] \cup {call.event}
       IN  /\ Unlocked(g)
           /\ members' = [members EXCEPT ![g] = events]
           /\ mainSet' = MainSetFor(g, events)
           /\ update' = update \ {g}
           /\ IF place[g] = "none"
              THEN place' = [place EXCEPT ![g] = "barrier"] /\ shutdown' = shutdown \ {g}
              ELSE UNCHANGED <<place, shutdown>>
           /\ added' = added \cup {call.event}
    /\ call' = NoCall
    /\ UNCHANGED <<signalled, created, inUse, barrier, alive, main, long, wait, watched>>

BeginRemove(e) ==
    /\ call = NoCall
    /\ \E g \in alive :
         /\ e \in members[g]
         /\ call' = [op |-> "remove", event |-> e, group |-> g, step |-> "lock"]
         /\ update' = update \cup {g}
    /\ added' = added \ {e}
    /\ UNCHANGED <<signalled, created, inUse, mainSet, barrier, alive, main, members, shutdown,
                   place, long, wait, watched>>

\* The last event gone, the subgroup's thread is told to stop.
ContinueRemove ==
    /\ call.op = "remove" /\ call.step = "lock"
    /\ LET g == call.group
           events == members[g] \ {call.event}
       IN  /\ Unlocked(g)
           /\ members' = [members EXCEPT ![g] = events]
           /\ update' = update \ {g}
           /\ IF events # {}
              THEN /\ mainSet' = MainSetFor(g, events)
                   /\ call' = NoCall
                   /\ UNCHANGED shutdown
              ELSE /\ shutdown' = shutdown \cup {g}
                   /\ call' = [call EXCEPT !.step = "join"]
                   /\ UNCHANGED mainSet
    /\ UNCHANGED <<signalled, created, inUse, barrier, alive, main, place, long, wait, watched,
                   added>>

\* The thread joined, its main event is reset and not in use any more.
FinishRemove ==
    /\ call.step = "join"
    /\ LET g == call.group
       IN  /\ place[g] = "exited"
           /\ place' = [place EXCEPT ![g] = "none"]
           /\ mainSet' = mainSet \ {main[g]}
           /\ inUse' = inUse \ {main[g]}
           /\ alive' = alive \ {g}
    /\ call' = NoCall
    /\ UNCHANGED <<signalled, created, barrier, main, members, update, shutdown, long, wait,
                   watched, added>>

-----------------------------------------------------------------------------
(* ThreadProc.                                                             *)

\* Before each wait for its events a thread waits until the worker waits.
PassBarrier(g) ==
    /\ place[g] = "barrier"
    /\ g \in shutdown \/ barrier
    /\ place' = [place EXCEPT ![g] = IF g \in shutdown THEN "exited" ELSE "holding"]
    /\ long' = [long EXCEPT ![g] = main[g] \notin mainSet]
    /\ UNCHANGED <<signalled, created, inUse, mainSet, barrier, alive, main, members, update,
                   shutdown, call, wait, watched, added>>

\* A mutant: the update event is not among the handles.
WakesForEvents(g) == g \in shutdown \/ members[g] \cap signalled # {} \/ ~long[g]

\* What a thread that holds the lock wakes up for: the base events come first.
Wakes(g) == g \in shutdown \/ g \in update \/ members[g] \cap signalled # {} \/ ~long[g]

Wake(g) ==
    /\ place[g] = "holding"
    /\ Wakes(g)
    /\ place' = [place EXCEPT ![g] = IF g \in shutdown THEN "exited" ELSE "barrier"]
    /\ IF g \in shutdown \/ g \in update THEN UNCHANGED <<mainSet, barrier>>
       ELSE IF members[g] \cap signalled # {}
       THEN mainSet' = mainSet \cup {main[g]} /\ barrier' = FALSE
       ELSE mainSet' = mainSet \ {main[g]} /\ UNCHANGED barrier
    /\ UNCHANGED <<signalled, created, inUse, alive, main, members, update, shutdown, long,
                   call, wait, watched, added>>

-----------------------------------------------------------------------------
(* The worker and the sockets.                                             *)

BeginWait ==
    /\ wait # "waiting"
    /\ call = NoCall
    /\ created # {}
    /\ watched' = created
    /\ barrier' = TRUE
    /\ wait' = "waiting"
    /\ UNCHANGED <<signalled, created, inUse, mainSet, groupVars, call, added>>

EndWait ==
    /\ wait = "waiting"
    /\ wait' = IF watched \cap mainSet # {} THEN "event" ELSE "timeout"
    /\ barrier' = FALSE
    /\ UNCHANGED <<signalled, created, inUse, mainSet, groupVars, call, watched, added>>

SignalEvent(e) ==
    /\ e \notin signalled
    /\ signalled' = signalled \cup {e}
    /\ UNCHANGED <<created, inUse, mainSet, barrier, groupVars, call, wait, watched, added>>

ResetEvent(e) ==
    /\ e \in signalled
    /\ signalled' = signalled \ {e}
    /\ UNCHANGED <<created, inUse, mainSet, barrier, groupVars, call, wait, watched, added>>

Next ==
    \/ \E e \in Events : BeginAdd(e) \/ BeginRemove(e) \/ SignalEvent(e) \/ ResetEvent(e)
    \/ FinishAdd \/ ContinueRemove \/ FinishRemove
    \/ \E g \in Subgroups : PassBarrier(g) \/ Wake(g)
    \/ BeginWait \/ EndWait

Spec == Init /\ [][Next]_vars

Call == FinishAdd \/ ContinueRemove \/ FinishRemove

\* Threads run.  A lock that is released again and again is got in the end, and a timed wait
\* is in the end long enough for a thread that is ready to run, and for the worker to see
\* what that thread has set.
Fairness ==
    /\ WF_vars(Call)
    /\ \A g \in Subgroups : SF_vars(PassBarrier(g)) /\ WF_vars(Wake(g))
    /\ WF_vars(BeginWait) /\ WF_vars(EndWait)
    /\ SF_vars(EndWait /\ wait' = "event")

FairSpec == Spec /\ Fairness

-----------------------------------------------------------------------------
(* Properties.                                                             *)

\* AddEvent and RemoveEvent return: a subgroup's thread that waits without limit while it holds
\* the lock is woken by the update event, one at the barrier by the shutdown event.
CallsReturn == call # NoCall ~> call = NoCall

\* An event that stays set is reported by Wait again and again once calls cease, even if its main event is shared
\* with a subgroup whose thread resets it (AddMainEvent does not mark a handle it takes).
IsReported(e) ==
    <>[](e \in signalled /\ e \in added /\ call = NoCall) => []<>(wait = "event")
EventsAreReported == \A e \in Events : IsReported(e)

\* What the worker threads rely on.
GroupWorks == CallsReturn /\ EventsAreReported

\* Every subgroup has a main event of its own.
MainEventsAreTheirOwn ==
    \A g, h \in alive : g # h => main[g] # main[h]

=============================================================================
