---------------------------- MODULE KeyGeneration ----------------------------
(***************************************************************************)
(* The key generation manager: for each algorithm a queue of key pairs     *)
(* made in advance, a primary thread that schedules the generation of      *)
(* those missing, worker threads that generate them, and the callers that  *)
(* take them.  The threads belong to a ThreadPool and wait for work in a   *)
(* ConditionEvent (the primary one) and in a concurrent Queue (the         *)
(* workers); how they wait and how they are stopped is part of the model.  *)
(*                                                                         *)
(* Whatever the code does under one lock is one action.                    *)
(***************************************************************************)
EXTENDS Integers, Sequences, FiniteSets

CONSTANTS
    Algorithms,       \* the asymmetric algorithms supported
    None,             \* no algorithm
    NumWorkers,       \* threads of the pool besides the primary one
    NumPreGenerated,  \* NumPreGeneratedKeysPerAlgorithm
    MayFail,          \* the algorithms whose key generation may fail
    MaxTaken,         \* bound: key pairs handed out
    MaxStartups       \* bound: startups of the manager

ASSUME KeyGenerationAssumption ==
    /\ None \notin Algorithms
    /\ NumWorkers \in Nat \ {0}
    /\ NumPreGenerated \in Nat \ {0}
    /\ MayFail \subseteq Algorithms
    /\ MaxTaken \in Nat /\ MaxStartups \in Nat

\* The threads in the order of the pool's list.
Primary == 0
Workers == 1..NumWorkers
Thread == {Primary} \cup Workers

VARIABLES
    phase,       \* of the manager; m_Running when it is "running"
    queues,      \* m_KeyQueues: the algorithms that have a key queue
    keys,        \* KeyQueue::Queue, its size
    pending,     \* KeyQueue::NumPendingEvents
    active,      \* KeyQueue::Active
    events,      \* KeyGenEventQueue, an event by its algorithm
    flag,        \* PrimaryThreadEvent is set
    at,          \* where each thread is
    event,       \* the event that each worker holds, or None
    todo,        \* key queues the primary thread has still to look at
    numkeys,     \* events it has still to schedule for the queue it is at
    hasInactive, \* it has met a queue that is not active
    shutdown,    \* ThreadCtrl::ShutdownEvent of each thread
    stopping,    \* the thread that Shutdown is stopping
    interrupted, \* Shutdown has woken that thread and waits for it to exit
    taken, startups \* bounds

queueVars == <<queues, keys, pending, active>>
primaryVars == <<todo, numkeys, hasInactive>>
poolVars == <<phase, shutdown, stopping, interrupted, startups>>
vars == <<queueVars, primaryVars, poolVars, events, flag, at, event, taken>>

Go(t, place) == at' = [at EXCEPT ![t] = place]

-----------------------------------------------------------------------------
Init ==
    /\ phase = "stopped" /\ startups = 0 /\ taken = 0
    /\ queues = {} /\ events = <<>> /\ flag = FALSE
    /\ keys = [a \in Algorithms |-> 0]
    /\ pending = [a \in Algorithms |-> 0]
    /\ active = [a \in Algorithms |-> TRUE]
    /\ at = [t \in Thread |-> "exited"]
    /\ event = [w \in Workers |-> None]
    /\ todo = {} /\ numkeys = [a \in Algorithms |-> 0] /\ hasInactive = FALSE
    /\ shutdown = [t \in Thread |-> FALSE]
    /\ stopping = 0 /\ interrupted = FALSE

-----------------------------------------------------------------------------
(* Waiting.  A thread evaluates the condition it waits for inside a        *)
(* critical section, which it leaves only when it sleeps ("drowsy" is in   *)
(* between) or when the condition holds.                                   *)

\* Those that wait on the condition variable on which t waits.
SameCondition(t) == IF t = Primary THEN {Primary} ELSE Workers

\* No thread is inside its critical section.
Free(t) == \A s \in SameCondition(t) : at[s] # "drowsy"

HasWork(t) == IF t = Primary THEN flag ELSE events # <<>>

CheckCondition(t) ==
    /\ at[t] = "waiting"
    /\ Free(t)
    /\ Go(t, IF HasWork(t) \/ shutdown[t] THEN "awake" ELSE "drowsy")
    /\ UNCHANGED <<queueVars, primaryVars, poolVars, events, flag, event, taken>>

\* It sleeps, and leaves the critical section; or it wakes for no reason.
Sleep(t) ==
    /\ at[t] = "drowsy"
    /\ Go(t, "asleep")
    /\ UNCHANGED <<queueVars, primaryVars, poolVars, events, flag, event, taken>>

WakeSpuriously(t) ==
    /\ at[t] = "asleep"
    /\ Go(t, "waiting")
    /\ UNCHANGED <<queueVars, primaryVars, poolVars, events, flag, event, taken>>

\* at, with some sleeping threads woken.
Woken(threads) ==
    [t \in Thread |-> IF t \in threads /\ at[t] = "asleep" THEN "waiting"
                                                           ELSE at[t]]

\* ConditionEvent::Set
SetPrimaryThreadEvent ==
    /\ Free(Primary)
    /\ flag' = TRUE
    /\ at' = Woken({Primary})

\* After the wait: the thread exits when it is to, and otherwise works.
Exit(t) ==
    /\ at[t] = "awake"
    /\ shutdown[t]
    /\ Go(t, "exited")
    /\ UNCHANGED <<queueVars, primaryVars, poolVars, events, flag, event, taken>>

-----------------------------------------------------------------------------
(* The primary thread.                                                     *)

BeginCheck ==
    /\ at[Primary] = "awake" /\ ~shutdown[Primary]
    /\ flag' = FALSE
    /\ todo' = queues
    /\ hasInactive' = FALSE
    /\ Go(Primary, "checking")
    /\ UNCHANGED <<queueVars, poolVars, numkeys, events, event, taken>>

\* Mutant: events under way are not counted.
Missing_NoPending(a) ==
    IF keys[a] < NumPreGenerated THEN NumPreGenerated - keys[a] ELSE 0

\* How many keys a queue lacks, those under way counted.
Missing(a) ==
    IF keys[a] + pending[a] < NumPreGenerated
    THEN NumPreGenerated - (keys[a] + pending[a]) ELSE 0

\* It looks at one queue.
CheckQueue(a) ==
    /\ at[Primary] = "checking" /\ ~shutdown[Primary]
    /\ \A b \in Algorithms : numkeys[b] = 0
    /\ a \in todo
    /\ todo' = todo \ {a}
    /\ IF active[a]
       THEN numkeys' = [numkeys EXCEPT ![a] = Missing(a)] /\ UNCHANGED hasInactive
       ELSE hasInactive' = TRUE /\ UNCHANGED numkeys
    /\ UNCHANGED <<queueVars, poolVars, events, flag, at, event, taken>>

\* Mutant: a worker is not woken.
Schedule_NoNotify(a) ==
    /\ numkeys[a] > 0
    /\ \A w \in Workers : at[w] # "drowsy"
    /\ numkeys' = [numkeys EXCEPT ![a] = @ - 1]
    /\ pending' = [pending EXCEPT ![a] = @ + 1]
    /\ events' = Append(events, a)
    /\ UNCHANGED <<queues, keys, active, poolVars, todo, hasInactive, flag, event,
                   taken, at>>

\* Queue::Push, which wakes one worker if any sleeps.
Schedule(a) ==
    /\ numkeys[a] > 0
    /\ \A w \in Workers : at[w] # "drowsy"
    /\ numkeys' = [numkeys EXCEPT ![a] = @ - 1]
    /\ pending' = [pending EXCEPT ![a] = @ + 1]
    /\ events' = Append(events, a)
    /\ \/ \E w \in Workers : at[w] = "asleep" /\ at' = Woken({w})
       \/ (\A w \in Workers : at[w] # "asleep") /\ UNCHANGED at
    /\ UNCHANGED <<queues, keys, active, poolVars, todo, hasInactive, flag, event,
                   taken>>

\* Mutant: a queue is removed although an event refers to it.
Removable_Inactive(a) == ~active[a]

Removable(a) == ~active[a] /\ pending[a] = 0

\* At the end, queues that are not active are removed; a shutdown ends the
\* check of the queues at any of them, and the removal likewise.
EndCheck ==
    /\ at[Primary] = "checking"
    /\ \A b \in Algorithms : numkeys[b] = 0
    /\ todo = {} \/ shutdown[Primary]
    /\ todo' = {}
    /\ \E removed \in SUBSET {a \in queues : hasInactive /\ Removable(a)} :
           /\ ~shutdown[Primary] =>
                  removed = {a \in queues : hasInactive /\ Removable(a)}
           /\ queues' = queues \ removed
    /\ Go(Primary, "waiting")
    /\ UNCHANGED <<keys, pending, active, poolVars, numkeys, hasInactive, events,
                   flag, event, taken>>

-----------------------------------------------------------------------------
(* A worker.                                                               *)

\* Mutant: an event that is moved still counts when it is destroyed.
TakeEvent_Copied(w) ==
    /\ at[w] = "awake" /\ ~shutdown[w]
    /\ Free(w)
    /\ events # <<>>
    /\ event' = [event EXCEPT ![w] = Head(events)]
    /\ events' = Tail(events)
    /\ pending' = [pending EXCEPT ![Head(events)] = @ - 1]
    /\ Go(w, "working")
    /\ UNCHANGED <<queues, keys, active, primaryVars, poolVars, flag, taken>>

\* Queue::PopFrontIf; another worker may have been faster.
TakeEvent(w) ==
    /\ at[w] = "awake" /\ ~shutdown[w]
    /\ Free(w)
    /\ IF events = <<>>
       THEN Go(w, "waiting") /\ UNCHANGED <<events, event>>
       ELSE /\ event' = [event EXCEPT ![w] = Head(events)]
            /\ events' = Tail(events)
            /\ Go(w, "working")
    /\ UNCHANGED <<queueVars, primaryVars, poolVars, flag, taken>>

BeginKey(w) ==
    /\ at[w] = "working"
    /\ Go(w, IF active[event[w]] THEN "generating" ELSE "done")
    /\ UNCHANGED <<queueVars, primaryVars, poolVars, events, flag, event, taken>>

GenerateKey(w) ==
    /\ at[w] = "generating"
    /\ keys' = [keys EXCEPT ![event[w]] = @ + 1]
    /\ Go(w, "done")
    /\ UNCHANGED <<queues, pending, active, primaryVars, poolVars, events, flag,
                   event, taken>>

FailToGenerateKey(w) ==
    /\ at[w] = "generating"
    /\ event[w] \in MayFail
    /\ active' = [active EXCEPT ![event[w]] = FALSE]
    /\ Go(w, "done")
    /\ UNCHANGED <<queues, keys, pending, primaryVars, poolVars, events, flag,
                   event, taken>>

\* The event is destroyed at the end.
DestroyEvent(w) ==
    /\ at[w] = "done"
    /\ pending' = [pending EXCEPT ![event[w]] = @ - 1]
    /\ event' = [event EXCEPT ![w] = None]
    /\ Go(w, "waiting")
    /\ UNCHANGED <<queues, keys, active, primaryVars, poolVars, events, flag, taken>>

-----------------------------------------------------------------------------
\* A caller takes a key pair; there is no effect when there is none.  It has
\* seen that the manager runs, which may have changed since.
GetAsymmetricKeys(a) ==
    /\ taken < MaxTaken
    /\ a \in queues /\ keys[a] > 0
    /\ taken' = taken + 1
    /\ keys' = [keys EXCEPT ![a] = @ - 1]
    /\ SetPrimaryThreadEvent
    /\ UNCHANGED <<queues, pending, active, primaryVars, poolVars, events, event>>

-----------------------------------------------------------------------------
(* Startup and shutdown.                                                   *)

Startup ==
    /\ phase = "stopped"
    /\ startups < MaxStartups
    /\ startups' = startups + 1
    /\ phase' = "starting"
    /\ queues' = Algorithms
    /\ at' = [t \in Thread |-> "waiting"]
    /\ shutdown' = [t \in Thread |-> FALSE]
    /\ UNCHANGED <<keys, pending, active, primaryVars, stopping, interrupted,
                   events, flag, event, taken>>

\* The threads run; the initial keys are to be generated.
StartupEnds ==
    /\ phase = "starting"
    /\ phase' = "running"
    /\ SetPrimaryThreadEvent
    /\ UNCHANGED <<queueVars, primaryVars, shutdown, stopping, interrupted,
                   startups, events, event, taken>>

Shutdown ==
    /\ phase = "running"
    /\ phase' = "stopping"
    /\ shutdown' = [t \in Thread |-> TRUE]
    /\ stopping' = Primary
    /\ UNCHANGED <<queueVars, primaryVars, interrupted, startups, events, flag, at,
                   event, taken>>

\* InterruptWait wakes the threads that sleep, in no critical section.
InterruptWait ==
    /\ phase = "stopping" /\ stopping \in Thread /\ ~interrupted
    /\ interrupted' = TRUE
    /\ at' = Woken(SameCondition(stopping))
    /\ UNCHANGED <<queueVars, primaryVars, phase, shutdown, stopping, startups,
                   events, flag, event, taken>>

Join ==
    /\ phase = "stopping" /\ interrupted
    /\ at[stopping] = "exited"
    /\ interrupted' = FALSE
    /\ stopping' = stopping + 1
    /\ UNCHANGED <<queueVars, primaryVars, phase, shutdown, startups, events, flag,
                   at, event, taken>>

\* With all threads gone, first the events are cleared, then the queues.
ResetState ==
    /\ phase = "stopping" /\ stopping \notin Thread
    /\ phase' = "stopped"
    /\ events' = <<>>
    /\ queues' = {}
    /\ keys' = [a \in Algorithms |-> 0]
    /\ pending' = [a \in Algorithms |-> 0]
    /\ active' = [a \in Algorithms |-> TRUE]
    /\ UNCHANGED <<primaryVars, shutdown, stopping, interrupted, startups, flag, at,
                   event, taken>>

-----------------------------------------------------------------------------
PrimaryStep ==
    \/ BeginCheck \/ EndCheck
    \/ \E a \in Algorithms : CheckQueue(a) \/ Schedule(a)

WorkerStep(w) ==
    \/ TakeEvent(w) \/ BeginKey(w)
    \/ GenerateKey(w) \/ FailToGenerateKey(w) \/ DestroyEvent(w)

WaitStep(t) == CheckCondition(t) \/ Sleep(t) \/ Exit(t)

ManagerStep == StartupEnds \/ InterruptWait \/ Join \/ ResetState

Next ==
    \/ PrimaryStep \/ ManagerStep \/ Startup \/ Shutdown
    \/ \E w \in Workers : WorkerStep(w)
    \/ \E t \in Thread : WaitStep(t) \/ WakeSpuriously(t)
    \/ \E a \in Algorithms : GetAsymmetricKeys(a)

Spec == Init /\ [][Next]_vars

\* Every thread runs when it can; nothing wakes a sleeping thread for no
\* reason, no caller has to come, and the manager need not be stopped.
Fairness ==
    /\ WF_vars(PrimaryStep)
    /\ WF_vars(ManagerStep)
    /\ \A w \in Workers : WF_vars(WorkerStep(w))
    /\ \A t \in Thread : SF_vars(CheckCondition(t)) /\ WF_vars(Sleep(t) \/ Exit(t))

FairSpec == Spec /\ Fairness

-----------------------------------------------------------------------------
(* Properties.                                                             *)

TypeOK ==
    /\ phase \in {"stopped", "starting", "running", "stopping"}
    /\ queues \subseteq Algorithms
    /\ keys \in [Algorithms -> Nat]
    /\ pending \in [Algorithms -> Nat]
    /\ active \in [Algorithms -> BOOLEAN]
    /\ events \in Seq(Algorithms)
    /\ flag \in BOOLEAN
    /\ at \in [Thread -> {"waiting", "drowsy", "asleep", "awake", "checking",
                          "working", "generating", "done", "exited"}]
    /\ event \in [Workers -> Algorithms \cup {None}]
    /\ todo \subseteq Algorithms
    /\ numkeys \in [Algorithms -> Nat]
    /\ hasInactive \in BOOLEAN
    /\ shutdown \in [Thread -> BOOLEAN]
    /\ stopping \in 0..NumWorkers + 1
    /\ interrupted \in BOOLEAN
    /\ taken \in Nat /\ startups \in Nat

\* An event is a pointer to the queue of its algorithm: the queue is there as
\* long as any event for it is scheduled or in the hands of a worker, also
\* while the primary thread removes queues and when the manager stops.
NoEventForErasedQueue ==
    /\ \A i \in DOMAIN events : events[i] \in queues
    /\ \A w \in Workers : event[w] # None => event[w] \in queues

\* The events of an algorithm whose key is not generated yet.
Unfinished(a) ==
    Cardinality({i \in DOMAIN events : events[i] = a})
    + Cardinality({w \in Workers : event[w] = a
                                   /\ at[w] \in {"working", "generating"}})

\* No more keys than configured are there or will be, however callers, the
\* primary thread and the workers interleave: each key taken is replaced once.
PoolIsBounded ==
    \A a \in Algorithms :
        keys[a] + Unfinished(a) + numkeys[a] <= NumPreGenerated

\* Scheduled work is done: no wake-up is lost between a worker that finds the
\* queue empty and the primary thread that fills it.
EventsAreProcessed ==
    events # <<>> ~> (events = <<>> \/ phase # "running")

\* "Set event to generate more keys and fill the queue again": a queue from
\* which a key was taken is full again in the end.
QueueIsFilledAgain ==
    \A a \in Algorithms :
        phase = "running" /\ keys[a] < NumPreGenerated
            ~> keys[a] = NumPreGenerated \/ ~active[a] \/ phase # "running"

\* "Wait for thread to exit": stopping comes to an end.
ShutdownEnds == phase = "stopping" ~> phase = "stopped"
=============================================================================
