------------------------------- MODULE MCNode -------------------------------
(* Parts of a node that are started and stopped with it and have threads of  *)
(* their own, for TLC: the key generation, the extenders and the local       *)
(* instance itself.  In a behaviour one of Parts moves and the others stay   *)
(* in an initial state, so that one run checks each of them alone.           *)
EXTENDS KeyGeneration, Extenders, LocalInstance

CONSTANT Parts

VARIABLE part

-----------------------------------------------------------------------------
(* Scenarios of the extenders.                                             *)

ExtenderSetting(runs, updates, count, suspends, stops, all, fails, pool) ==
    [starts |-> runs, changes |-> updates, messages |-> count, suspend |-> suspends,
     stop |-> stops, bulk |-> all, fail |-> fails, workers |-> pool]

OnePool == {<<1, 1>>, <<1, 2>>}
TwoPools == {<<1, 1>>, <<2, 1>>}

\* Traffic, with a start that may fail; one extender stopped and removed; all of
\* them stopped and started; a peer that suspends.
ExtenderSettings == {
    ExtenderSetting(1, 2, 2, FALSE, FALSE, FALSE, TRUE, OnePool),
    ExtenderSetting(1, 1, 1, FALSE, TRUE, FALSE, FALSE, TwoPools),
    ExtenderSetting(2, 1, 0, FALSE, TRUE, TRUE, FALSE, OnePool),
    ExtenderSetting(1, 2, 1, TRUE, FALSE, FALSE, FALSE, OnePool)}

ExtenderMessages == <<"first", "second">>

-----------------------------------------------------------------------------
(* Scenarios of the local instance.                                        *)

Everything == {"TCP", "UDP", "BTH", "relays", "extenders", "keys"}

LocalScenario(callers, params, switches, calls, connects, failures, changes, exceptions) ==
    [callers |-> callers, params |-> params, switches |-> switches, calls |-> calls,
     connects |-> connects, failures |-> failures, changes |-> changes,
     exceptions |-> exceptions]

\* Everything and as little as possible, with starts that fail; switches; changes
\* and exceptions; two callers.
LocalScenarios == {
    LocalScenario({"app"}, {Everything, {}, {"relays", "UDP"}}, FALSE, 4, 2, 1, 0, 0),
    LocalScenario({"app"}, {{}, Everything}, TRUE, 4, 1, 0, 0, 0),
    LocalScenario({"app"}, {Everything}, FALSE, 3, 1, 1, 2, 1),
    LocalScenario({"app", "app2"}, {Everything}, FALSE, 3, 1, 0, 0, 0)}

-----------------------------------------------------------------------------
MCInit ==
    /\ part \in Parts
    /\ Init /\ ExtendersInit /\ InstanceInit
    /\ part # "extenders" => setting = CHOOSE s \in ExtenderSettings : TRUE
    /\ part # "local" => scenario = CHOOSE s \in LocalScenarios : TRUE

KeysMove == part = "keys" /\ Next /\ UNCHANGED <<part, extVars, localVars>>
ExtendersMove == part = "extenders" /\ ExtendersNext /\ UNCHANGED <<part, vars, localVars>>
LocalMoves == part = "local" /\ InstanceNext /\ UNCHANGED <<part, vars, extVars>>

MCNext == KeysMove \/ ExtendersMove \/ LocalMoves

MCSpec == MCInit /\ [][MCNext]_<<part, vars, extVars, localVars>>

-----------------------------------------------------------------------------
(* The fairness of each part as its module states it, of the part's own steps. *)

KeysAreFair ==
    /\ WF_vars(part = "keys" /\ PrimaryStep) /\ WF_vars(part = "keys" /\ ManagerStep)
    /\ \A w \in Workers : WF_vars(part = "keys" /\ WorkerStep(w))
    /\ \A t \in Thread :
        /\ SF_vars(part = "keys" /\ CheckCondition(t))
        /\ WF_vars(part = "keys" /\ (Sleep(t) \/ Exit(t)))

ExtendersAreFair ==
    /\ WF_extVars(part = "extenders" /\ ManagerNext)
    /\ \A p \in Peers : WF_extVars(part = "extenders" /\ HandOver(p))
    /\ \A w \in OnePool \cup TwoPools :
        WF_extVars(part = "extenders" /\ w \in Threads /\ ThreadStep(w))

InstanceIsFair ==
    /\ WF_localVars(part = "local" /\ PoolWorkerStep)
    /\ \A t \in Callers : WF_localVars(part = "local" /\ CallerStep(t))
    /\ \A t \in Callers \cup ExtenderThreads : WF_localVars(part = "local" /\ PeerCallback(t))

-----------------------------------------------------------------------------
(* The temporal properties of the parts, each under the fairness of its part;  *)
(* the invariants are those of the parts, which hold of a part that does not   *)
(* move as they do initially.                                                  *)

\* KeyGeneration: scheduled keys are generated.
KeysAreGenerated == KeysAreFair => (part = "keys" => EventsAreProcessed)

\* Extenders: stopping an extender ends, and what is queued for it is passed on.
ExtendersKeepUp ==
    ExtendersAreFair => (part = "extenders" => StopEnds /\ QueuedIsHeard)

\* LocalInstance: whoever calls the instance returns.
EveryCallReturns == InstanceIsFair => (part = "local" => CallsReturn)
=============================================================================
