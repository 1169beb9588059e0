---------------------------- MODULE LocalInstance ----------------------------
(***************************************************************************)
(* The local instance: Core/Local.cpp and the notification of changes by   *)
(* Core/LocalEnvironment.cpp.  Threads of the application start, stop and  *)
(* change the instance under m_Mutex; threads of its extenders connect to  *)
(* peers and wait for the outcome; the instance's own worker thread        *)
(* handles changes of the network and exceptions of extenders.             *)
(*                                                                         *)
(* A part of the instance is a name in the set "up" while it runs; what it *)
(* does is the subject of other modules.  Starting and stopping take a     *)
(* step for each part, because the other threads look at what is running   *)
(* in between: most functions ask IsRunning before they take m_Mutex.      *)
(***************************************************************************)
EXTENDS Naturals, FiniteSets, SequencesExt

CONSTANTS
    Nobody,         \* nobody, nothing
    Callers,        \* threads of the application
    ExtenderThreads,\* threads of an extender
    Scenarios       \* settings, and bounds of what the environment does

Listeners == {"TCP", "UDP", "BTH"}
Switched == Listeners \cup {"relays", "extenders"}
Optional == Switched \cup {"keys"}

ASSUME InstanceAssumption ==
    /\ Nobody \notin Callers \cup {"worker"}
    /\ "worker" \notin Callers
    /\ \A s \in Scenarios : IsFiniteSet(s.callers) /\ s.params \subseteq SUBSET Optional

VARIABLES
    up,         \* the parts that run; "running" is m_Running
    holder,     \* of m_Mutex
    call,       \* what each thread is doing: op, arg, at and i, its step
    last,       \* result of the last Startup or Shutdown
    callbacks,  \* threads whose callback the peer manager has
    extender,   \* does the extender run
    eventQueue, \* ThreadPoolData::EventQueue
    worker,     \* the worker thread: at, and the event it handles
    network, info, updateRequired,  \* the version of the network, the one that the
                \* environment holds, and m_UpdateRequired
    faults,     \* assertions that have failed
    scenario, used

envVars == <<network, info, updateRequired>>
localVars == <<up, holder, call, last, callbacks, extender, eventQueue, worker, envVars, faults,
          scenario, used>>

Required == {"env", "pool", "udp", "peers", "running"}

StartOrder == <<"env", "pool", "keys", "udp", "peers", "relays", "TCP", "UDP", "BTH",
                "running", "extenders">>

\* Mutant: relays are given up before the connections that use them.
StopOrderPeersFirst == <<"running", "TCP", "UDP", "BTH", "peers", "extenders", "relays", "udp",
                         "keys", "env", "pool">>

StopOrder == <<"running", "TCP", "UDP", "BTH", "extenders", "relays", "peers", "udp",
               "keys", "env", "pool">>

Running == "running" \in up
Idle == [op |-> "none", arg |-> {}, at |-> "idle", i |-> 0]
Spend(what) == used' = [used EXCEPT ![what] = @ + 1]
Left(what) == used[what] < scenario[what]

InstanceInit ==
    /\ scenario \in Scenarios
    /\ used = [calls |-> 0, connects |-> 0, failures |-> 0, changes |-> 0, exceptions |-> 0]
    /\ up = {} /\ holder = Nobody /\ last = "stopped"
    /\ call = [t \in Callers \cup ExtenderThreads |-> Idle]
    /\ callbacks = {} /\ extender = FALSE
    /\ eventQueue = <<>> /\ worker = [at |-> "gone", event |-> Nobody]
    /\ network = 0 /\ info = 0 /\ updateRequired = FALSE
    /\ faults = {}

-----------------------------------------------------------------------------
(* Calls.  The first half asks IsRunning; the second half holds m_Mutex.   *)

Begin(t, op, arg, place) ==
    call' = [call EXCEPT ![t] = [op |-> op, arg |-> arg, at |-> place, i |-> 1]]

CallStartup(t) == ~Running /\ \E params \in scenario.params : Begin(t, "Startup", params, "lock")
CallShutdown(t) == Running /\ Begin(t, "Shutdown", {}, "lock")
CallSwitch(t) == /\ Running /\ scenario.switches
                 /\ \E part \in Switched, op \in {"Enable", "Disable"} : Begin(t, op, {part}, "lock")

Call(t) ==
    /\ t \in scenario.callers /\ call[t].at = "idle" /\ Left("calls")
    /\ CallStartup(t) \/ CallShutdown(t) \/ CallSwitch(t)
    /\ Spend("calls")
    /\ UNCHANGED <<up, holder, last, callbacks, extender, eventQueue, worker, envVars, faults, scenario>>

Lock(t) ==
    /\ call[t].at = "lock" /\ holder = Nobody
    /\ holder' = t
    /\ call' = [call EXCEPT ![t].at = "locked"]
    /\ UNCHANGED <<up, last, callbacks, extender, eventQueue, worker, envVars, faults, scenario, used>>

Return(t) == call' = [call EXCEPT ![t] = Idle] /\ holder' = Nobody

\* ConnectTo and DisconnectFrom hold no lock while they wait for their callback,
\* which a thread of the peer manager calls.
Connect(t) ==
    /\ t \in ExtenderThreads => extender
    /\ t \in scenario.callers \cup ExtenderThreads
    /\ call[t].at = "idle" /\ Running /\ Left("connects")
    /\ IF "peers" \in up
       THEN Begin(t, "Connect", {}, "wait") /\ callbacks' = callbacks \cup {t}
       ELSE UNCHANGED <<call, callbacks>>
    /\ Spend("connects")
    /\ UNCHANGED <<up, holder, last, extender, eventQueue, worker, envVars, faults, scenario>>

PeerCallback(t) ==
    /\ t \in callbacks /\ "peers" \in up
    /\ callbacks' = callbacks \ {t}
    /\ call' = [call EXCEPT ![t] = Idle]
    /\ UNCHANGED <<up, holder, last, extender, eventQueue, worker, envVars, faults, scenario, used>>

-----------------------------------------------------------------------------
(* Starting and stopping one part.                                         *)

EnvironmentIsFree == worker.at # "updating"     \* m_LocalEnvironment

\* InitializeLocalEnvironment reads the network; the pool has one worker.
Begun(part) ==
    /\ part = "env" => EnvironmentIsFree
    /\ up' = up \cup {part}
    /\ info' = IF part = "env" /\ ("env" \notin up \/ updateRequired) THEN network ELSE info
    /\ updateRequired' = IF part = "env" THEN FALSE ELSE updateRequired
    /\ worker' = IF part = "pool" THEN [at |-> "idle", event |-> Nobody] ELSE worker
    /\ extender' = IF part = "extenders" THEN TRUE ELSE extender
    /\ UNCHANGED <<network, callbacks, eventQueue>>

\* The extenders' threads are joined, and the worker of the pool.  The threads of
\* the peer manager are stopped before the peers are disconnected: the callbacks
\* that this schedules are never called.
Ended(part) ==
    /\ part = "extenders" => \A t \in ExtenderThreads : call[t].at = "idle"
    /\ part = "env" => EnvironmentIsFree
    /\ part = "pool" => worker.at = "gone"
    /\ up' = up \ {part}
    /\ callbacks' = IF part = "peers" THEN {} ELSE callbacks
    /\ extender' = IF part = "extenders" THEN FALSE ELSE extender
    /\ eventQueue' = IF part = "pool" THEN <<>> ELSE eventQueue
    /\ updateRequired' = IF part = "env" THEN FALSE ELSE updateRequired
    /\ UNCHANGED <<network, info, worker>>

KeepParts == UNCHANGED <<up, callbacks, extender, eventQueue, worker, envVars>>

-----------------------------------------------------------------------------
(* Startup and Shutdown.                                                   *)

At(t, op, place) == call[t].op = op /\ call[t].at = place
Step(t, place, i) == call' = [call EXCEPT ![t].at = place, ![t].i = i] /\ UNCHANGED holder

StartPart(t) ==
    /\ At(t, "Startup", "locked") /\ call[t].i <= Len(StartOrder)
    /\ LET part == StartOrder[call[t].i] IN
       IF part \in Optional \ call[t].arg THEN KeepParts ELSE Begun(part)
    /\ Step(t, "locked", call[t].i + 1)
    /\ UNCHANGED <<last, faults, scenario, used>>

\* Nothing is undone yet when the environment cannot be read; afterwards the
\* scope guards undo what was done, from the last to the first.
StartPartFails(t) ==
    /\ At(t, "Startup", "locked") /\ call[t].i <= Len(StartOrder) /\ Left("failures")
    /\ StartOrder[call[t].i] \notin ({"pool", "running"} \cup (Optional \ call[t].arg))
    /\ Step(t, "undo", call[t].i - 1)
    /\ Spend("failures") /\ KeepParts
    /\ UNCHANGED <<last, faults, scenario>>

\* Mutant: the relays have no scope guard.
UndoPartNotRelays(t) ==
    /\ At(t, "Startup", "undo") /\ call[t].i > 1
    /\ LET part == StartOrder[call[t].i] IN
       IF part = "relays" THEN KeepParts ELSE Ended(part)
    /\ Step(t, "undo", call[t].i - 1)
    /\ UNCHANGED <<last, faults, scenario, used>>

\* The environment stays initialized; the managers ignore a second Shutdown.
UndoPart(t) ==
    /\ At(t, "Startup", "undo") /\ call[t].i > 1
    /\ Ended(StartOrder[call[t].i])
    /\ Step(t, "undo", call[t].i - 1)
    /\ UNCHANGED <<last, faults, scenario, used>>

EndStartup(t) ==
    /\ \/ At(t, "Startup", "locked") /\ call[t].i > Len(StartOrder) /\ last' = "started"
       \/ At(t, "Startup", "undo") /\ call[t].i <= 1 /\ last' = "failed"
    /\ Return(t) /\ KeepParts
    /\ UNCHANGED <<faults, scenario, used>>

\* The thread pool and the environment assert that they have been started.
StopPart(t) ==
    /\ At(t, "Shutdown", "locked") /\ call[t].i <= Len(StopOrder)
    /\ LET part == StopOrder[call[t].i] IN
       /\ Ended(part)
       /\ faults' = IF part \in {"env", "pool"} \ up THEN faults \cup {<<part, "is not running">>}
                    ELSE faults
    /\ Step(t, "locked", call[t].i + 1)
    /\ UNCHANGED <<last, scenario, used>>

EndShutdown(t) ==
    /\ At(t, "Shutdown", "locked") /\ call[t].i > Len(StopOrder)
    /\ last' = "stopped"
    /\ Return(t) /\ KeepParts
    /\ UNCHANGED <<faults, scenario, used>>

\* EnableListeners, EnableRelays and EnableExtenders, which may fail and change
\* nothing, and their opposites.
Switch(t) ==
    /\ call[t].op \in {"Enable", "Disable"} /\ call[t].at = "locked"
    /\ \E part \in call[t].arg :
          \/ call[t].op = "Enable" /\ (Begun(part) \/ KeepParts)
          \/ call[t].op = "Disable" /\ Ended(part)
    /\ Return(t)
    /\ UNCHANGED <<last, faults, scenario, used>>

-----------------------------------------------------------------------------
(* Local::GetEnvironment, outside m_Mutex: it may be the first to need it. *)

GetEnvironment(t) ==
    /\ t \in scenario.callers /\ call[t].at = "idle" /\ Left("calls") /\ scenario.changes > 0
    /\ Begun("env")
    /\ Spend("calls")
    /\ UNCHANGED <<holder, call, last, faults, scenario>>

-----------------------------------------------------------------------------
(* What the environment reports, and the worker thread.                    *)

\* IPInterfaceChangeNotificationCallback and OnLocalEnvironmentChanged.
NetworkChanges ==
    /\ Left("changes")
    /\ network' = network + 1
    /\ updateRequired' = ("env" \in up \/ updateRequired)
    /\ eventQueue' = IF "env" \in up /\ Running THEN Append(eventQueue, "change") ELSE eventQueue
    /\ Spend("changes")
    /\ UNCHANGED <<up, holder, call, last, callbacks, extender, worker, info, faults, scenario>>

OnUnhandledExtenderException ==
    /\ extender /\ Left("exceptions")
    /\ eventQueue' = Append(eventQueue, "exception")
    /\ Spend("exceptions")
    /\ UNCHANGED <<up, holder, call, last, callbacks, extender, worker, envVars, faults, scenario>>

\* A thread that is joining the worker has told it to stop.
Stopping == \E t \in Callers : \/ At(t, "Shutdown", "locked") /\ StopOrder[call[t].i] = "pool"
                               \/ At(t, "Startup", "undo") /\ StartOrder[call[t].i] = "pool"

WorkerTo(place, what) == worker' = [at |-> place, event |-> what]
KeepCalls == UNCHANGED <<up, call, last, callbacks, network, scenario, used>>

Take ==
    /\ worker.at = "idle" /\ ~Stopping /\ eventQueue # <<>>
    /\ WorkerTo(IF Head(eventQueue) = "change" THEN "update" ELSE "check", Head(eventQueue))
    /\ eventQueue' = Tail(eventQueue)
    /\ UNCHANGED <<holder, extender, info, updateRequired, faults>> /\ KeepCalls

WorkerExits ==
    /\ worker.at = "idle" /\ Stopping
    /\ WorkerTo("gone", Nobody)
    /\ UNCHANGED <<holder, extender, eventQueue, info, updateRequired, faults>> /\ KeepCalls

\* LocalEnvironment::Update asserts IsInitialized, and reads the network if an
\* update is required, ...
BeginUpdate ==
    /\ worker.at = "update"
    /\ faults' = IF "env" \in up THEN faults ELSE faults \cup {<<"env", "is not initialized">>}
    /\ IF updateRequired THEN info' = network /\ WorkerTo("updating", "change")
       ELSE WorkerTo("check", "change") /\ UNCHANGED info
    /\ UNCHANGED <<holder, extender, eventQueue, updateRequired>> /\ KeepCalls

\* ... after which none is.
EndUpdate ==
    /\ worker.at = "updating"
    /\ updateRequired' = FALSE
    /\ WorkerTo("check", "change")
    /\ UNCHANGED <<holder, extender, eventQueue, info, faults>> /\ KeepCalls

CheckRunning ==
    /\ worker.at = "check"
    /\ IF Running /\ (worker.event = "change" => up \cap Listeners # {})
       THEN WorkerTo("lock", worker.event) ELSE WorkerTo("idle", Nobody)
    /\ UNCHANGED <<holder, extender, eventQueue, info, updateRequired, faults>> /\ KeepCalls

WorkerLock ==
    /\ worker.at = "lock" /\ holder = Nobody
    /\ holder' = "worker"
    /\ WorkerTo("locked", worker.event)
    /\ UNCHANGED <<extender, eventQueue, info, updateRequired, faults>> /\ KeepCalls

\* UpdateListeners, or ShutdownExtender, which joins the threads of the extender.
WorkerActs ==
    /\ worker.at = "locked"
    /\ worker.event = "exception" => \A t \in ExtenderThreads : call[t].at = "idle"
    /\ extender' = (extender /\ worker.event = "change")
    /\ holder' = Nobody
    /\ WorkerTo("idle", Nobody)
    /\ UNCHANGED <<eventQueue, info, updateRequired, faults>> /\ KeepCalls

-----------------------------------------------------------------------------
CallerStep(t) == \/ Lock(t) \/ StartPart(t) \/ StartPartFails(t) \/ UndoPart(t) \/ EndStartup(t)
                 \/ StopPart(t) \/ EndShutdown(t) \/ Switch(t)

PoolWorkerStep == \/ Take \/ WorkerExits \/ BeginUpdate \/ EndUpdate \/ CheckRunning \/ WorkerLock
              \/ WorkerActs

InstanceNext == \/ \E t \in Callers : Call(t) \/ GetEnvironment(t) \/ CallerStep(t)
        \/ \E t \in Callers \cup ExtenderThreads : Connect(t) \/ PeerCallback(t)
        \/ NetworkChanges \/ OnUnhandledExtenderException \/ PoolWorkerStep

InstanceSpec == InstanceInit /\ [][InstanceNext]_localVars

\* The threads run; m_Mutex is given to those who wait; an attempt to connect
\* ends in time (settings.Local.ConnectTimeout), and its callback is called.
InstanceFairness ==
    /\ WF_localVars(PoolWorkerStep)
    /\ \A t \in Callers : WF_localVars(CallerStep(t))
    /\ \A t \in Callers \cup ExtenderThreads : WF_localVars(PeerCallback(t))

InstanceFairSpec == InstanceSpec /\ InstanceFairness

-----------------------------------------------------------------------------
InstanceTypeOK ==
    /\ up \subseteq Required \cup Optional
    /\ holder \in Callers \cup {Nobody, "worker"}
    /\ callbacks \subseteq Callers \cup ExtenderThreads
    /\ info <= network
    /\ worker.at \in {"gone", "idle", "update", "updating", "check", "lock", "locked"}
    /\ \A t \in Callers : call[t].at = "locked" /\ call[t].op = "Startup" => holder = t

OneCaller == Cardinality(scenario.callers) = 1

(* As long as one thread at a time starts, stops and changes the instance: when *)
(* Startup has succeeded, everything it was asked for runs, when it has failed, *)
(* at whichever part, nothing does but the environment, and nothing at all when *)
(* Shutdown is done.                                                            *)
AllOrNothing ==
    (OneCaller /\ holder = Nobody) =>
        /\ last = "started" => Required \subseteq up
        /\ last = "failed" => up = {"env"} \/ up = {}
        /\ last = "stopped" => up \subseteq {"env"}

(* As long as one thread at a time does so, nothing that brings connections or  *)
(* uses them runs, at any step of a start, a failed start or a stop, without    *)
(* the peer manager, nor that without the UDP connections below it.             *)
LayersRest ==
    OneCaller =>
        /\ up \cap Switched # {} => "peers" \in up
        /\ "peers" \in up => {"udp", "pool"} \subseteq up
        /\ Running => {"env", "peers"} \subseteq up

(* A call returns: Startup, Shutdown and the switches, although they wait for   *)
(* threads of extenders that wait for a connection.  With network changes or    *)
(* exceptions (the worker waits for m_Mutex while it is joined), or with a      *)
(* second thread that connects (its callback is forgotten), this is not so.     *)
CallsReturn ==
    \A t \in Callers \cup ExtenderThreads :
        (OneCaller /\ scenario.changes + scenario.exceptions = 0 /\ call[t].at # "idle")
            ~> (call[t].at = "idle")

\* The parts of an instance run together or not at all, each only on top of those it needs.
InstanceIsWhole == AllOrNothing /\ LayersRest

(* The assertion at LocalEnvironment.cpp:56: the environment is initialized     *)
(* when the worker updates it.                                                  *)
EnvironmentIsInitialized == <<"env", "is not initialized">> \notin faults
=============================================================================
