---------------------------- MODULE NodeProofs ----------------------------
(* Parts of a node that have threads of their own: the key generation and   *)
(* the local instance.  A key queue outlives the events that point to it,   *)
(* and no more keys are generated than configured, for any algorithms and   *)
(* any number of workers; the parts of the instance run together or not at  *)
(* all, for any threads, settings and failures.                             *)
EXTENDS KeyGeneration, LocalInstance, FiniteSetTheorems, FunctionTheorems, SequenceTheorems, TLAPS

Waiting == {"waiting", "drowsy", "asleep", "awake"}
Busy == {"working", "generating", "done"}
Place == Waiting \cup Busy \cup {"checking", "exited"}

EventsOf(a, s) == {i \in DOMAIN s : s[i] = a}
HoldersOf(a, ev) == {w \in Workers : ev[w] = a}

\* A queue counts every event that points to it.
PendingIsCount ==
    \A a \in Algorithms :
        pending[a] = Cardinality(EventsOf(a, events)) + Cardinality(HoldersOf(a, event))

\* The manager goes through the threads in their order, and is stopped when
\* all are gone.
ThreadsFollowPhase ==
    /\ phase = "stopped" => \A t \in Thread : at[t] = "exited"
    /\ phase = "stopping" => \A t \in Thread : t < stopping => at[t] = "exited"
    /\ interrupted => phase = "stopping" /\ stopping \in Thread

\* A worker holds an event exactly while it works on it.
HolderIsBusy == \A w \in Workers : event[w] # None <=> at[w] \in Busy

\* The primary thread schedules only while it checks, for queues that exist.
PrimaryIsChecking ==
    /\ at[Primary] = "checking" => todo \subseteq queues
    /\ \A a \in Algorithms :
           numkeys[a] > 0 => at[Primary] = "checking" /\ a \in queues

IInv ==
    /\ TypeOK
    /\ PendingIsCount
    /\ ThreadsFollowPhase
    /\ HolderIsBusy
    /\ PrimaryIsChecking
    /\ NoEventForErasedQueue

-----------------------------------------------------------------------------
(* Counting.                                                               *)

LEMMA ThreadFacts ==
    /\ NumWorkers \in Nat \ {0}
    /\ Workers \subseteq Thread /\ Primary \in Thread /\ Primary \notin Workers
    /\ \A t \in Thread : t \in Nat /\ t < NumWorkers + 1
    /\ Workers \subseteq Nat
    /\ None \notin Algorithms
BY KeyGenerationAssumption DEF Thread, Workers, Primary

LEMMA SomeWorkersAreFinite ==
    ASSUME NEW S \in SUBSET Workers
    PROVE  IsFiniteSet(S) /\ Cardinality(S) \in Nat
<1>1. IsFiniteSet(Workers)
  BY KeyGenerationAssumption, FS_Interval DEF Workers
<1> QED
  BY <1>1, FS_Subset, FS_CardinalityType

LEMMA EventsAreFinite ==
    ASSUME NEW s \in Seq(Algorithms), NEW a
    PROVE  IsFiniteSet(EventsOf(a, s)) /\ Cardinality(EventsOf(a, s)) \in Nat
<1>1. IsFiniteSet(1..Len(s))
  BY FS_Interval, LenProperties
<1>2. EventsOf(a, s) \in SUBSET (1..Len(s))
  BY DEF EventsOf
<1> QED
  BY <1>1, <1>2, FS_Subset, FS_CardinalityType

LEMMA AppendCounts ==
    ASSUME NEW s \in Seq(Algorithms), NEW a, NEW b \in Algorithms
    PROVE  Cardinality(EventsOf(a, Append(s, b))) =
               IF a = b THEN Cardinality(EventsOf(a, s)) + 1
                        ELSE Cardinality(EventsOf(a, s))
<1>1. /\ Len(s) \in Nat
      /\ DOMAIN s = 1..Len(s)
      /\ DOMAIN Append(s, b) = 1..Len(s) + 1
      /\ \A i \in 1..Len(s) : Append(s, b)[i] = s[i]
      /\ Append(s, b)[Len(s) + 1] = b
  BY AppendProperties, LenProperties
<1>2. Len(s) + 1 \notin EventsOf(a, s)
  BY <1>1 DEF EventsOf
<1>3. CASE a = b
  <2>1. EventsOf(a, Append(s, b)) = EventsOf(a, s) \cup {Len(s) + 1}
    BY <1>1, <1>3 DEF EventsOf
  <2> QED
    BY <1>2, <1>3, <2>1, EventsAreFinite, FS_AddElement
<1>4. CASE a # b
  <2>1. EventsOf(a, Append(s, b)) = EventsOf(a, s)
    BY <1>1, <1>4 DEF EventsOf
  <2> QED
    BY <1>4, <2>1
<1> QED
  BY <1>3, <1>4

LEMMA TailCounts ==
    ASSUME NEW s \in Seq(Algorithms), s # <<>>, NEW a
    PROVE  Cardinality(EventsOf(a, Tail(s))) =
               IF a = Head(s) THEN Cardinality(EventsOf(a, s)) - 1
                              ELSE Cardinality(EventsOf(a, s))
<1> DEFINE T == EventsOf(a, Tail(s))
           S == EventsOf(a, s)
           f == [i \in T |-> i + 1]
<1>1. /\ Len(s) \in Nat \ {0}
      /\ DOMAIN s = 1..Len(s)
      /\ Tail(s) \in Seq(Algorithms)
      /\ DOMAIN Tail(s) = 1..Len(s) - 1
      /\ \A i \in 1..Len(s) - 1 : Tail(s)[i] = s[i + 1]
      /\ Head(s) = s[1]
  BY HeadTailProperties, LenProperties, EmptySeq
<1>2. T \in SUBSET (1..Len(s) - 1) /\ \A i \in 1..Len(s) - 1 : i \in T <=> s[i + 1] = a
  BY <1>1 DEF EventsOf
<1>3. S \in SUBSET (1..Len(s)) /\ \A i \in 1..Len(s) : i \in S <=> s[i] = a
  BY <1>1 DEF EventsOf
<1> HIDE DEF T, S
<1>4. f \in [T -> S \ {1}]
  BY <1>1, <1>2, <1>3
<1>5. \A i, j \in T : f[i] = f[j] => i = j
  BY <1>1, <1>2
<1>6. \A j \in S \ {1} : \E i \in T : f[i] = j
  <2> SUFFICES ASSUME NEW j \in S \ {1} PROVE j - 1 \in T /\ f[j - 1] = j
    OBVIOUS
  <2>1. j \in 1..Len(s) /\ j # 1 /\ s[j] = a
    BY <1>3
  <2>2. j - 1 \in 1..Len(s) - 1 /\ (j - 1) + 1 = j
    BY <1>1, <2>1
  <2>3. j - 1 \in T
    BY <1>2, <2>1, <2>2
  <2> QED
    BY <2>2, <2>3
<1>7. f \in Bijection(T, S \ {1})
  BY <1>4, <1>5, <1>6, Fun_IsBij
<1>8. ExistsBijection(T, S \ {1})
  BY <1>7 DEF ExistsBijection
<1>9. IsFiniteSet(T) /\ IsFiniteSet(S)
  BY <1>1, EventsAreFinite DEF T, S
<1>10. Cardinality(T) = Cardinality(S \ {1})
  BY <1>8, <1>9, FS_Bijection
<1>11. 1 \in S <=> a = Head(s)
  BY <1>1, <1>3
<1> QED
  BY <1>9, <1>10, <1>11, FS_RemoveElement DEF T, S

LEMMA DropCounts ==
    ASSUME NEW ev \in [Workers -> Algorithms \cup {None}], NEW w \in Workers,
           ev[w] # None, NEW a \in Algorithms
    PROVE  Cardinality(HoldersOf(a, [ev EXCEPT ![w] = None])) =
               IF a = ev[w] THEN Cardinality(HoldersOf(a, ev)) - 1
                            ELSE Cardinality(HoldersOf(a, ev))
<1>1. HoldersOf(a, [ev EXCEPT ![w] = None]) = HoldersOf(a, ev) \ {w}
  BY KeyGenerationAssumption DEF HoldersOf
<1>2. w \in HoldersOf(a, ev) <=> a = ev[w]
  BY DEF HoldersOf
<1>3. IsFiniteSet(HoldersOf(a, ev))
  BY SomeWorkersAreFinite DEF HoldersOf
<1> QED
  BY <1>1, <1>2, <1>3, FS_RemoveElement

-----------------------------------------------------------------------------
(* The parts of the invariant, action by action.                           *)

\* A thread that does not begin or end any work: at most it goes on waiting.
IdleStep ==
    /\ at' \in [Thread -> Place]
    /\ \A t \in Thread : at'[t] # at[t] => at[t] \in Waiting /\ at'[t] \in Waiting

LEMMA WokenIsIdleStep ==
    ASSUME TypeOK, NEW threads, at' = Woken(threads)
    PROVE  IdleStep
BY DEF TypeOK, IdleStep, Woken, Waiting, Busy, Place

\* Nothing that only wakes or puts to sleep disturbs what does not mention it.
LEMMA IdleKeepsThreads ==
    ASSUME TypeOK, IdleStep
    PROVE  /\ \A t \in Thread : at[t] = "exited" <=> at'[t] = "exited"
           /\ \A t \in Thread : at[t] \in Busy <=> at'[t] \in Busy
           /\ at[Primary] = "checking" <=> at'[Primary] = "checking"
BY ThreadFacts DEF TypeOK, IdleStep, Waiting, Busy, Place

LEMMA InitialInvariant == Init => IInv
<1> SUFFICES ASSUME Init PROVE IInv
  OBVIOUS
<1>0. <<>> \in Seq(Algorithms) /\ 0 \in 0..NumWorkers + 1
  BY ThreadFacts
<1>1. TypeOK
  BY <1>0 DEF Init, TypeOK
<1>2. \A a \in Algorithms : EventsOf(a, events) = {} /\ HoldersOf(a, event) = {}
  BY ThreadFacts DEF Init, EventsOf, HoldersOf
<1>3. PendingIsCount
  <2>1. \A a \in Algorithms : pending[a] = 0
    BY DEF Init
  <2>2. Cardinality({}) = 0
    BY FS_EmptySet
  <2> QED
    BY <1>2, <2>1, <2>2 DEF PendingIsCount
<1>4. ThreadsFollowPhase /\ HolderIsBusy /\ PrimaryIsChecking
      /\ NoEventForErasedQueue
  BY ThreadFacts DEF Init, ThreadsFollowPhase, HolderIsBusy, Busy, PrimaryIsChecking,
                     NoEventForErasedQueue
<1> QED
  BY <1>1, <1>3, <1>4 DEF IInv

LEMMA IdleInvariant ==
    ASSUME IInv, IdleStep,
           UNCHANGED <<phase, queues, pending, events, event, todo, numkeys>>,
           interrupted' => phase = "stopping" /\ stopping \in Thread,
           stopping' = stopping, TypeOK'
    PROVE  IInv'
<1>1. /\ \A t \in Thread : at[t] = "exited" <=> at'[t] = "exited"
      /\ \A t \in Thread : at[t] \in Busy <=> at'[t] \in Busy
      /\ at[Primary] = "checking" <=> at'[Primary] = "checking"
  BY IdleKeepsThreads DEF IInv
<1>2. PendingIsCount' /\ NoEventForErasedQueue' /\ PrimaryIsChecking'
  BY <1>1 DEF IInv, PendingIsCount, NoEventForErasedQueue, PrimaryIsChecking
<1>3. ThreadsFollowPhase' /\ HolderIsBusy'
  BY <1>1, ThreadFacts DEF IInv, ThreadsFollowPhase, HolderIsBusy
<1> QED
  BY <1>2, <1>3 DEF IInv

LEMMA WaitInvariant ==
    ASSUME IInv, NEW t \in Thread,
           CheckCondition(t) \/ Sleep(t) \/ WakeSpuriously(t)
    PROVE  IInv'
<1>1. /\ at[t] \in Waiting
      /\ \E place \in Waiting : at' = [at EXCEPT ![t] = place]
      /\ UNCHANGED <<queueVars, primaryVars, poolVars, events, flag, event, taken>>
  BY DEF CheckCondition, Sleep, WakeSpuriously, Go, Waiting
<1>2. IdleStep
  BY <1>1 DEF IInv, TypeOK, IdleStep, Waiting, Busy, Place
<1>3. TypeOK'
  BY <1>1, <1>2 DEF IInv, TypeOK, IdleStep, Waiting, Busy, Place, queueVars,
                    primaryVars, poolVars
<1> QED
  BY <1>1, <1>2, <1>3, IdleInvariant
  DEF IInv, ThreadsFollowPhase, queueVars, primaryVars, poolVars

LEMMA ExitInvariant ==
    ASSUME IInv, NEW t \in Thread, Exit(t)
    PROVE  IInv'
<1>1. TypeOK'
  BY DEF IInv, TypeOK, Exit, Go, queueVars, primaryVars, poolVars
<1>2. /\ at \in [Thread -> Place] /\ at[t] = "awake"
      /\ at' = [at EXCEPT ![t] = "exited"]
      /\ UNCHANGED <<queueVars, primaryVars, poolVars, events, flag, event, taken>>
  BY DEF IInv, TypeOK, Exit, Go, Waiting, Busy, Place
<1>3. PendingIsCount' /\ NoEventForErasedQueue'
  BY <1>2 DEF IInv, PendingIsCount, NoEventForErasedQueue, queueVars
<1>4. ThreadsFollowPhase'
  BY <1>2 DEF IInv, ThreadsFollowPhase, poolVars
<1>5. HolderIsBusy' /\ PrimaryIsChecking'
  BY <1>2, ThreadFacts DEF IInv, HolderIsBusy, PrimaryIsChecking, Busy, queueVars,
                           primaryVars
<1> QED
  BY <1>1, <1>3, <1>4, <1>5 DEF IInv

LEMMA BeginCheckInvariant ==
    ASSUME IInv, BeginCheck
    PROVE  IInv'
<1>1. TypeOK'
  BY ThreadFacts DEF IInv, TypeOK, BeginCheck, Go, queueVars, poolVars
<1>2. /\ at \in [Thread -> Place] /\ at[Primary] = "awake"
      /\ at' = [at EXCEPT ![Primary] = "checking"]
      /\ todo' = queues
      /\ UNCHANGED <<queueVars, poolVars, numkeys, events, event, taken>>
  BY DEF IInv, TypeOK, BeginCheck, Go, Waiting, Busy, Place
<1>3. PendingIsCount' /\ NoEventForErasedQueue'
  BY <1>2 DEF IInv, PendingIsCount, NoEventForErasedQueue, queueVars
<1>4. ThreadsFollowPhase'
  BY <1>2 DEF IInv, ThreadsFollowPhase, poolVars
<1>5. HolderIsBusy' /\ PrimaryIsChecking'
  BY <1>2, ThreadFacts DEF IInv, HolderIsBusy, PrimaryIsChecking, Busy, queueVars
<1> QED
  BY <1>1, <1>3, <1>4, <1>5 DEF IInv

LEMMA CheckQueueInvariant ==
    ASSUME IInv, NEW a \in Algorithms, CheckQueue(a)
    PROVE  IInv'
<1> USE DEF queueVars, poolVars
<1>1. Missing(a) \in Nat
  BY KeyGenerationAssumption DEF IInv, TypeOK, Missing
<1>2. /\ TypeOK /\ at[Primary] = "checking" /\ a \in todo /\ todo' = todo \ {a}
      /\ \/ numkeys' = [numkeys EXCEPT ![a] = Missing(a)] /\ UNCHANGED hasInactive
         \/ hasInactive' = TRUE /\ UNCHANGED numkeys
      /\ UNCHANGED <<queueVars, poolVars, events, flag, at, event, taken>>
  BY DEF CheckQueue, IInv
<1>3. TypeOK'
  BY <1>1, <1>2 DEF TypeOK
<1>4. PendingIsCount' /\ NoEventForErasedQueue' /\ ThreadsFollowPhase' /\ HolderIsBusy'
  BY <1>2 DEF IInv, PendingIsCount, NoEventForErasedQueue, ThreadsFollowPhase,
              HolderIsBusy
<1>5. PrimaryIsChecking'
  BY <1>2 DEF IInv, PrimaryIsChecking, TypeOK
<1> QED
  BY <1>3, <1>4, <1>5 DEF IInv

LEMMA ScheduleInvariant ==
    ASSUME IInv, NEW a \in Algorithms, Schedule(a)
    PROVE  IInv'
<1> USE DEF poolVars
<1>1. /\ TypeOK /\ numkeys[a] \in Nat /\ numkeys[a] > 0
      /\ numkeys' = [numkeys EXCEPT ![a] = numkeys[a] - 1]
      /\ pending' = [pending EXCEPT ![a] = pending[a] + 1]
      /\ events' = Append(events, a)
      /\ UNCHANGED <<queues, keys, active, poolVars, todo, hasInactive, flag, event,
                     taken>>
  BY DEF Schedule, IInv, TypeOK
<1>2. IdleStep
  <2>1. CASE UNCHANGED at
    BY <2>1 DEF IInv, TypeOK, IdleStep, Waiting, Busy, Place
  <2>2. ASSUME NEW w \in Workers, at' = Woken({w}) PROVE IdleStep
    BY <1>1, <2>2, WokenIsIdleStep
  <2> QED
    BY <2>1, <2>2 DEF Schedule
<1>3. /\ \A t \in Thread : at[t] = "exited" <=> at'[t] = "exited"
      /\ \A t \in Thread : at[t] \in Busy <=> at'[t] \in Busy
      /\ at[Primary] = "checking" <=> at'[Primary] = "checking"
  BY <1>1, <1>2, IdleKeepsThreads
<1>4. events' \in Seq(Algorithms)
  BY <1>1, AppendProperties DEF TypeOK
<1>5. TypeOK'
  BY <1>1, <1>2, <1>4 DEF TypeOK, IdleStep, Waiting, Busy, Place
<1>6. PendingIsCount'
  <2> SUFFICES ASSUME NEW b \in Algorithms
               PROVE  pending'[b] = Cardinality(EventsOf(b, events'))
                                    + Cardinality(HoldersOf(b, event'))
    BY DEF PendingIsCount
  <2> DEFINE E == Cardinality(EventsOf(b, events))
             H == Cardinality(HoldersOf(b, event))
  <2>1. pending[b] = E + H /\ E \in Nat /\ H \in Nat
    BY <1>1, EventsAreFinite, SomeWorkersAreFinite
    DEF IInv, PendingIsCount, HoldersOf, TypeOK
  <2>2. Cardinality(EventsOf(b, events')) = IF b = a THEN E + 1 ELSE E
    BY <1>1, AppendCounts DEF TypeOK
  <2>3. HoldersOf(b, event') = HoldersOf(b, event)
    BY <1>1
  <2> HIDE DEF E, H
  <2>4. pending'[b] = IF b = a THEN pending[b] + 1 ELSE pending[b]
    BY <1>1 DEF TypeOK
  <2>5. Cardinality(HoldersOf(b, event')) = H
    BY <2>3 DEF H
  <2> QED
    BY <2>1, <2>2, <2>4, <2>5
<1>7. a \in queues
  BY <1>1 DEF IInv, PrimaryIsChecking
<1>8. NoEventForErasedQueue'
  <2>1. \A i \in DOMAIN events' : events'[i] \in queues
    <3>1. /\ DOMAIN events = 1..Len(events) /\ Len(events) \in Nat
          /\ DOMAIN Append(events, a) = 1..Len(events) + 1
          /\ \A i \in 1..Len(events) : Append(events, a)[i] = events[i]
          /\ Append(events, a)[Len(events) + 1] = a
      BY <1>1, AppendProperties, LenProperties DEF TypeOK
    <3>2. \A i \in DOMAIN events : events[i] \in queues
      BY DEF IInv, NoEventForErasedQueue
    <3> QED
      BY <1>1, <1>7, <3>1, <3>2
  <2> QED
    BY <1>1, <2>1 DEF IInv, NoEventForErasedQueue
<1>9. ThreadsFollowPhase' /\ HolderIsBusy'
  BY <1>1, <1>3, ThreadFacts DEF IInv, ThreadsFollowPhase, HolderIsBusy
<1>10. PrimaryIsChecking'
  BY <1>1, <1>3 DEF IInv, PrimaryIsChecking, TypeOK
<1> QED
  BY <1>5, <1>6, <1>8, <1>9, <1>10 DEF IInv

\* A queue without pending events may go: nothing points to it.
LEMMA EndCheckInvariant ==
    ASSUME IInv, EndCheck
    PROVE  IInv'
<1> USE DEF poolVars
<1>1. PICK removed \in SUBSET {a \in queues : hasInactive /\ Removable(a)} :
          queues' = queues \ removed
  BY DEF EndCheck
<1>2. /\ TypeOK /\ at[Primary] = "checking"
      /\ \A b \in Algorithms : numkeys[b] = 0
      /\ todo' = {} /\ at' = [at EXCEPT ![Primary] = "waiting"]
      /\ UNCHANGED <<keys, pending, active, poolVars, numkeys, hasInactive, events,
                     flag, event, taken>>
  BY DEF EndCheck, IInv, Go
<1>3. TypeOK'
  BY <1>1, <1>2, ThreadFacts DEF TypeOK
<1>4. \A a \in removed : EventsOf(a, events) = {} /\ HoldersOf(a, event) = {}
  <2> SUFFICES ASSUME NEW a \in removed
               PROVE  EventsOf(a, events) = {} /\ HoldersOf(a, event) = {}
    OBVIOUS
  <2>1. a \in Algorithms /\ pending[a] = 0
    BY <1>1, <1>2 DEF Removable, TypeOK
  <2>2. IsFiniteSet(EventsOf(a, events)) /\ IsFiniteSet(HoldersOf(a, event))
    BY <1>2, EventsAreFinite, SomeWorkersAreFinite DEF TypeOK, HoldersOf
  <2>3. /\ Cardinality(EventsOf(a, events)) \in Nat
        /\ Cardinality(HoldersOf(a, event)) \in Nat
    BY <2>2, FS_CardinalityType
  <2>4. Cardinality(EventsOf(a, events)) = 0 /\ Cardinality(HoldersOf(a, event)) = 0
    BY <2>1, <2>3 DEF IInv, PendingIsCount
  <2> QED
    BY <2>2, <2>4, FS_EmptySet
<1>5. NoEventForErasedQueue'
  BY <1>1, <1>2, <1>4 DEF IInv, NoEventForErasedQueue, EventsOf, HoldersOf
<1>6. PendingIsCount' /\ ThreadsFollowPhase' /\ HolderIsBusy' /\ PrimaryIsChecking'
  BY <1>2, ThreadFacts DEF IInv, PendingIsCount, ThreadsFollowPhase, HolderIsBusy, Busy,
                     PrimaryIsChecking, TypeOK
<1> QED
  BY <1>3, <1>5, <1>6 DEF IInv

LEMMA TakeEventInvariant ==
    ASSUME IInv, NEW w \in Workers, TakeEvent(w)
    PROVE  IInv'
<1> USE DEF queueVars, primaryVars, poolVars
<1>0. TypeOK /\ w \in Thread /\ at[w] = "awake" /\ event[w] = None
  BY ThreadFacts DEF IInv, TypeOK, TakeEvent, HolderIsBusy, Busy
<1>1. CASE events = <<>>
  <2>1. /\ at' = [at EXCEPT ![w] = "waiting"]
        /\ UNCHANGED <<queueVars, primaryVars, poolVars, events, flag, event, taken>>
    BY <1>1 DEF TakeEvent, Go
  <2>2. IdleStep
    BY <1>0, <2>1 DEF TypeOK, IdleStep, Waiting, Busy, Place
  <2>3. TypeOK'
    BY <1>0, <2>1, <2>2 DEF TypeOK
  <2> QED
    BY <2>1, <2>2, <2>3, IdleInvariant DEF IInv, ThreadsFollowPhase
<1>2. CASE events # <<>>
  <2>1. /\ at' = [at EXCEPT ![w] = "working"]
        /\ event' = [event EXCEPT ![w] = Head(events)]
        /\ events' = Tail(events)
        /\ UNCHANGED <<queueVars, primaryVars, poolVars, flag, taken>>
    BY <1>2 DEF TakeEvent, Go
  <2>2. Head(events) \in Algorithms /\ Tail(events) \in Seq(Algorithms)
    BY <1>0, <1>2, HeadTailProperties DEF TypeOK
  <2>3. TypeOK'
    BY <1>0, <2>1, <2>2 DEF TypeOK
  <2>4. PendingIsCount'
    <3> SUFFICES ASSUME NEW b \in Algorithms
                 PROVE  pending[b] = Cardinality(EventsOf(b, events'))
                                     + Cardinality(HoldersOf(b, event'))
      BY <2>1 DEF PendingIsCount
    <3> DEFINE E == Cardinality(EventsOf(b, events))
               H == Cardinality(HoldersOf(b, event))
    <3>1. pending[b] = E + H /\ E \in Nat /\ H \in Nat
      BY <1>0, EventsAreFinite, SomeWorkersAreFinite
      DEF IInv, PendingIsCount, HoldersOf, TypeOK
    <3>2. Cardinality(EventsOf(b, events')) = IF b = Head(events) THEN E - 1 ELSE E
      BY <1>0, <1>2, <2>1, TailCounts DEF TypeOK
    <3>3. Cardinality(HoldersOf(b, event')) = IF b = Head(events) THEN H + 1 ELSE H
      <4>1. event \in [Workers -> Algorithms \cup {None}] /\ event[w] = None
        BY <1>0 DEF TypeOK
      <4>2. \A v \in Workers : event'[v] = IF v = w THEN Head(events) ELSE event[v]
        BY <2>1, <4>1
      <4>3. CASE b = Head(events)
        <5>1. HoldersOf(b, event') = HoldersOf(b, event) \cup {w}
          BY <4>2, <4>3 DEF HoldersOf
        <5>2. w \notin HoldersOf(b, event)
          BY <4>1, KeyGenerationAssumption DEF HoldersOf
        <5>3. IsFiniteSet(HoldersOf(b, event))
          BY SomeWorkersAreFinite DEF HoldersOf
        <5>4. Cardinality(HoldersOf(b, event')) = H + 1
          BY <5>1, <5>2, <5>3, FS_AddElement
        <5> QED
          BY <4>3, <5>4
      <4>4. CASE b # Head(events)
        <5>1. HoldersOf(b, event') = HoldersOf(b, event)
          BY <4>1, <4>2, <4>4, KeyGenerationAssumption DEF HoldersOf
        <5> QED
          BY <4>4, <5>1
      <4> QED
        BY <4>3, <4>4
    <3> HIDE DEF E, H
    <3> QED
      BY <3>1, <3>2, <3>3
  <2>5. NoEventForErasedQueue'
    <3>1. /\ \A i \in 1..Len(events) : events[i] \in queues
          /\ \A i \in 1..Len(Tail(events)) :
                 i + 1 \in 1..Len(events) /\ Tail(events)[i] = events[i + 1]
          /\ 1 \in 1..Len(events) /\ Head(events) = events[1]
      BY <1>0, <1>2, HeadTailProperties, LenProperties, EmptySeq
      DEF IInv, NoEventForErasedQueue, TypeOK
    <3>2. \A i \in DOMAIN Tail(events) : Tail(events)[i] \in queues
      BY <2>2, <3>1
    <3>3. \A v \in Workers : event'[v] # None => event'[v] \in queues
      BY <1>0, <2>1, <3>1 DEF IInv, NoEventForErasedQueue, TypeOK
    <3> QED
      BY <2>1, <3>2, <3>3 DEF NoEventForErasedQueue
  <2>6. ThreadsFollowPhase' /\ PrimaryIsChecking'
    BY <1>0, <2>1, ThreadFacts DEF IInv, ThreadsFollowPhase, PrimaryIsChecking, TypeOK
  <2>7. HolderIsBusy'
    BY <1>0, <2>1, <2>2, ThreadFacts DEF IInv, HolderIsBusy, Busy, TypeOK
  <2> QED
    BY <2>3, <2>4, <2>5, <2>6, <2>7 DEF IInv
<1> QED
  BY <1>1, <1>2

LEMMA WorkInvariant ==
    ASSUME IInv, NEW w \in Workers,
           BeginKey(w) \/ GenerateKey(w) \/ FailToGenerateKey(w)
    PROVE  IInv'
<1> USE DEF primaryVars, poolVars
<1>1. /\ TypeOK /\ w \in Thread /\ at[w] \in {"working", "generating"}
      /\ event[w] \in Algorithms
  BY ThreadFacts DEF IInv, TypeOK, HolderIsBusy, Busy, BeginKey, GenerateKey,
                     FailToGenerateKey
<1>2. /\ \E place \in Busy : at' = [at EXCEPT ![w] = place]
      /\ UNCHANGED <<queues, pending, primaryVars, poolVars, events, flag, event, taken>>
  BY DEF BeginKey, GenerateKey, FailToGenerateKey, Go, Busy, queueVars
<1>3. keys' \in [Algorithms -> Nat] /\ active' \in [Algorithms -> BOOLEAN]
  <2>1. CASE BeginKey(w)
    BY <1>1, <2>1 DEF BeginKey, TypeOK, queueVars
  <2>2. CASE GenerateKey(w)
    <3>1. keys[event[w]] + 1 \in Nat
      BY <1>1 DEF TypeOK
    <3>2. keys' = [keys EXCEPT ![event[w]] = keys[event[w]] + 1] /\ UNCHANGED active
      BY <2>2 DEF GenerateKey
    <3> QED
      BY <1>1, <3>1, <3>2 DEF TypeOK
  <2>3. CASE FailToGenerateKey(w)
    BY <1>1, <2>3 DEF FailToGenerateKey, TypeOK
  <2> QED
    BY <2>1, <2>2, <2>3
<1>4. TypeOK'
  BY <1>1, <1>2, <1>3 DEF TypeOK, Busy
<1>5. PendingIsCount' /\ NoEventForErasedQueue'
  BY <1>2 DEF IInv, PendingIsCount, NoEventForErasedQueue
<1>6. ThreadsFollowPhase' /\ HolderIsBusy' /\ PrimaryIsChecking'
  BY <1>1, <1>2, ThreadFacts DEF IInv, ThreadsFollowPhase, HolderIsBusy,
                                 PrimaryIsChecking, Busy, TypeOK
<1> QED
  BY <1>4, <1>5, <1>6 DEF IInv

LEMMA DestroyEventInvariant ==
    ASSUME IInv, NEW w \in Workers, DestroyEvent(w)
    PROVE  IInv'
<1> USE DEF primaryVars, poolVars
<1>1. /\ TypeOK /\ w \in Thread /\ at[w] = "done"
      /\ event[w] \in Algorithms /\ event[w] # None
  BY ThreadFacts DEF IInv, TypeOK, HolderIsBusy, Busy, DestroyEvent
<1>2. /\ pending' = [pending EXCEPT ![event[w]] = pending[event[w]] - 1]
      /\ event' = [event EXCEPT ![w] = None]
      /\ at' = [at EXCEPT ![w] = "waiting"]
      /\ UNCHANGED <<queues, keys, active, primaryVars, poolVars, events, flag, taken>>
  BY DEF DestroyEvent, Go
<1>3. ASSUME NEW b \in Algorithms
      PROVE  /\ pending'[b] = Cardinality(EventsOf(b, events'))
                              + Cardinality(HoldersOf(b, event'))
             /\ pending'[b] \in Nat
  <2> DEFINE E == Cardinality(EventsOf(b, events))
             H == Cardinality(HoldersOf(b, event))
             K == Cardinality(HoldersOf(b, event'))
  <2>1. pending[b] = E + H /\ E \in Nat /\ H \in Nat /\ K \in Nat
    BY <1>1, EventsAreFinite, SomeWorkersAreFinite
    DEF IInv, PendingIsCount, HoldersOf, TypeOK
  <2>2. K = IF b = event[w] THEN H - 1 ELSE H
    BY <1>1, <1>2, DropCounts DEF TypeOK
  <2>3. pending'[b] = IF b = event[w] THEN pending[b] - 1 ELSE pending[b]
    BY <1>1, <1>2 DEF TypeOK
  <2>4. Cardinality(EventsOf(b, events')) = E
    BY <1>2
  <2> HIDE DEF E, H, K
  <2>5. pending'[b] = E + K /\ pending'[b] \in Nat
    BY <2>1, <2>2, <2>3
  <2> QED
    BY <2>4, <2>5 DEF K
<1>4. TypeOK'
  <2>1. pending' \in [Algorithms -> Nat]
    BY <1>1, <1>2, <1>3 DEF TypeOK
  <2> QED
    BY <1>1, <1>2, <2>1 DEF TypeOK
<1>5. PendingIsCount'
  BY <1>3 DEF PendingIsCount
<1>6. NoEventForErasedQueue' /\ ThreadsFollowPhase' /\ HolderIsBusy' /\ PrimaryIsChecking'
  BY <1>1, <1>2, ThreadFacts DEF IInv, NoEventForErasedQueue, ThreadsFollowPhase,
                                 HolderIsBusy, PrimaryIsChecking, Busy, TypeOK
<1> QED
  BY <1>4, <1>5, <1>6 DEF IInv

LEMMA CallInvariant ==
    ASSUME IInv, (\E a \in Algorithms : GetAsymmetricKeys(a)) \/ StartupEnds
    PROVE  IInv'
<1> USE DEF primaryVars
<1>1. /\ TypeOK /\ at' = Woken({Primary}) /\ flag' = TRUE
      /\ phase' = phase \/ (phase = "starting" /\ phase' = "running")
      /\ keys' \in [Algorithms -> Nat] /\ taken' \in Nat
      /\ UNCHANGED <<queues, pending, active, primaryVars, shutdown, stopping,
                     interrupted, startups, events, event>>
  <2>1. CASE StartupEnds
    BY <2>1 DEF IInv, TypeOK, StartupEnds, SetPrimaryThreadEvent, queueVars
  <2>2. ASSUME NEW a \in Algorithms, GetAsymmetricKeys(a)
        PROVE  <1>1!:
    <3>1. keys[a] \in Nat /\ keys[a] > 0 /\ TypeOK
      BY <2>2 DEF IInv, TypeOK, GetAsymmetricKeys
    <3>2. keys[a] - 1 \in Nat
      BY <3>1
    <3>3. keys' = [keys EXCEPT ![a] = keys[a] - 1] /\ taken' = taken + 1
      BY <2>2 DEF GetAsymmetricKeys
    <3>4. keys' \in [Algorithms -> Nat] /\ taken' \in Nat
      BY <3>1, <3>2, <3>3 DEF TypeOK
    <3> QED
      BY <2>2, <3>1, <3>4 DEF GetAsymmetricKeys, SetPrimaryThreadEvent, poolVars
  <2> QED
    BY <2>1, <2>2
<1>2. IdleStep
  BY <1>1, WokenIsIdleStep
<1>3. TypeOK'
  BY <1>1, <1>2 DEF TypeOK, IdleStep, Place, Waiting, Busy
<1>4. /\ \A t \in Thread : at[t] = "exited" <=> at'[t] = "exited"
      /\ \A t \in Thread : at[t] \in Busy <=> at'[t] \in Busy
      /\ at[Primary] = "checking" <=> at'[Primary] = "checking"
  BY <1>1, <1>2, IdleKeepsThreads
<1>5. PendingIsCount' /\ NoEventForErasedQueue' /\ PrimaryIsChecking' /\ HolderIsBusy'
  BY <1>1, <1>4, ThreadFacts DEF IInv, PendingIsCount, NoEventForErasedQueue,
                                 PrimaryIsChecking, HolderIsBusy
<1>6. ThreadsFollowPhase'
  <2>1. ThreadsFollowPhase /\ phase \in {"stopped", "starting", "running", "stopping"}
    BY DEF IInv, TypeOK
  <2>2. CASE phase' = phase
    BY <1>1, <1>4, <2>1, <2>2 DEF ThreadsFollowPhase
  <2>3. CASE phase = "starting" /\ phase' = "running"
    BY <1>1, <2>1, <2>3 DEF ThreadsFollowPhase
  <2> QED
    BY <1>1, <2>2, <2>3
<1> QED
  BY <1>3, <1>5, <1>6 DEF IInv

LEMMA StartupInvariant ==
    ASSUME IInv, Startup
    PROVE  IInv'
<1> USE DEF primaryVars
<1>1. /\ TypeOK /\ phase = "stopped" /\ phase' = "starting"
      /\ \A t \in Thread : at[t] = "exited"
      /\ queues' = Algorithms
      /\ at' = [t \in Thread |-> "waiting"]
      /\ shutdown' = [t \in Thread |-> FALSE]
      /\ startups' = startups + 1
      /\ UNCHANGED <<keys, pending, active, primaryVars, stopping, interrupted,
                     events, flag, event, taken>>
  BY DEF IInv, ThreadsFollowPhase, Startup
<1>2. TypeOK'
  BY <1>1 DEF TypeOK
<1>3. PendingIsCount' /\ ThreadsFollowPhase'
  BY <1>1 DEF IInv, PendingIsCount, ThreadsFollowPhase
<1>4. HolderIsBusy' /\ PrimaryIsChecking'
  BY <1>1, ThreadFacts DEF IInv, HolderIsBusy, PrimaryIsChecking, Busy
<1>5. NoEventForErasedQueue'
  BY <1>1 DEF TypeOK, NoEventForErasedQueue
<1> QED
  BY <1>2, <1>3, <1>4, <1>5 DEF IInv

LEMMA ShutdownInvariant ==
    ASSUME IInv, Shutdown
    PROVE  IInv'
<1> USE DEF primaryVars, queueVars
<1>1. TypeOK'
  BY ThreadFacts DEF IInv, TypeOK, Shutdown, Primary
<1>2. PendingIsCount' /\ HolderIsBusy' /\ PrimaryIsChecking' /\ NoEventForErasedQueue'
  BY DEF Shutdown, IInv, PendingIsCount, HolderIsBusy, PrimaryIsChecking,
         NoEventForErasedQueue
<1>3. ThreadsFollowPhase'
  BY ThreadFacts DEF Shutdown, IInv, ThreadsFollowPhase, Primary
<1> QED
  BY <1>1, <1>2, <1>3 DEF IInv

LEMMA InterruptInvariant ==
    ASSUME IInv, InterruptWait
    PROVE  IInv'
<1> USE DEF primaryVars, queueVars
<1>1. /\ TypeOK /\ at' = Woken(SameCondition(stopping))
      /\ phase = "stopping" /\ stopping \in Thread /\ interrupted' = TRUE
      /\ UNCHANGED <<queueVars, primaryVars, phase, shutdown, stopping, startups,
                     events, flag, event, taken>>
  BY DEF InterruptWait, IInv
<1>2. IdleStep
  BY <1>1, WokenIsIdleStep
<1>3. TypeOK'
  BY <1>1, <1>2 DEF TypeOK, IdleStep, Place, Waiting, Busy
<1> QED
  BY <1>1, <1>2, <1>3, IdleInvariant

LEMMA JoinInvariant ==
    ASSUME IInv, Join
    PROVE  IInv'
<1> USE DEF primaryVars, queueVars
<1>1. /\ TypeOK /\ stopping \in Thread /\ at[stopping] = "exited"
      /\ phase = "stopping" /\ interrupted' = FALSE /\ stopping' = stopping + 1
      /\ UNCHANGED <<queueVars, primaryVars, phase, shutdown, startups, events, flag,
                     at, event, taken>>
  BY DEF Join, IInv, ThreadsFollowPhase
<1>2. stopping + 1 \in 0..NumWorkers + 1
  BY <1>1, ThreadFacts
<1>3. TypeOK'
  BY <1>1, <1>2 DEF TypeOK
<1>4. \A t \in Thread : t < stopping + 1 => t < stopping \/ t = stopping
  BY <1>1, ThreadFacts
<1>5. ThreadsFollowPhase'
  BY <1>1, <1>4 DEF IInv, ThreadsFollowPhase
<1>6. PendingIsCount' /\ HolderIsBusy' /\ PrimaryIsChecking' /\ NoEventForErasedQueue'
  BY <1>1 DEF IInv, PendingIsCount, HolderIsBusy, PrimaryIsChecking,
              NoEventForErasedQueue
<1> QED
  BY <1>3, <1>5, <1>6 DEF IInv

\* When all threads are gone none of them holds an event.
LEMMA ResetStateInvariant ==
    ASSUME IInv, ResetState
    PROVE  IInv'
<1> USE DEF primaryVars
<1>1. /\ TypeOK /\ phase = "stopping" /\ stopping \notin Thread /\ phase' = "stopped"
      /\ events' = <<>> /\ queues' = {}
      /\ keys' = [a \in Algorithms |-> 0]
      /\ pending' = [a \in Algorithms |-> 0]
      /\ active' = [a \in Algorithms |-> TRUE]
      /\ UNCHANGED <<primaryVars, shutdown, stopping, interrupted, startups, flag, at,
                     event, taken>>
  BY DEF ResetState, IInv
<1>2. \A t \in Thread : t < stopping
  <2>1. stopping = NumWorkers + 1
    BY <1>1, ThreadFacts DEF TypeOK, Thread, Primary, Workers
  <2> QED
    BY <2>1, ThreadFacts
<1>3. \A t \in Thread : at[t] = "exited"
  BY <1>1, <1>2 DEF IInv, ThreadsFollowPhase
<1>4. \A w \in Workers : event[w] = None
  BY <1>3, ThreadFacts DEF IInv, HolderIsBusy, Busy
<1>5. TypeOK'
  <2>1. <<>> \in Seq(Algorithms)
    OBVIOUS
  <2> QED
    BY <1>1, <2>1 DEF TypeOK
<1>6. PendingIsCount'
  <2>1. \A a \in Algorithms : EventsOf(a, events') = {} /\ HoldersOf(a, event') = {}
    <3>1. events' = <<>> /\ event' = event
      BY <1>1
    <3>2. \A a \in Algorithms : EventsOf(a, <<>>) = {}
      BY DEF EventsOf
    <3>3. \A a \in Algorithms : HoldersOf(a, event) = {}
      BY <1>4, ThreadFacts DEF HoldersOf
    <3> QED
      BY <3>1, <3>2, <3>3
  <2>2. Cardinality({}) = 0 /\ \A a \in Algorithms : pending'[a] = 0
    BY <1>1, FS_EmptySet
  <2> QED
    BY <2>1, <2>2 DEF PendingIsCount
<1>7. ThreadsFollowPhase'
  BY <1>1, <1>3 DEF IInv, ThreadsFollowPhase
<1>8. HolderIsBusy' /\ PrimaryIsChecking' /\ NoEventForErasedQueue'
  BY <1>1, <1>3, <1>4, ThreadFacts DEF IInv, HolderIsBusy, PrimaryIsChecking,
                                       NoEventForErasedQueue
<1> QED
  BY <1>5, <1>6, <1>7, <1>8 DEF IInv

LEMMA StutterInvariant ==
    ASSUME IInv, UNCHANGED vars
    PROVE  IInv'
BY DEF IInv, vars, queueVars, primaryVars, poolVars, TypeOK, PendingIsCount,
       ThreadsFollowPhase, HolderIsBusy, PrimaryIsChecking, NoEventForErasedQueue

LEMMA Inductive == IInv /\ [Next]_vars => IInv'
<1> SUFFICES ASSUME IInv, [Next]_vars PROVE IInv'
  OBVIOUS
<1>1. CASE PrimaryStep
  BY <1>1, BeginCheckInvariant, EndCheckInvariant, CheckQueueInvariant,
     ScheduleInvariant DEF PrimaryStep
<1>2. CASE ManagerStep
  BY <1>2, CallInvariant, InterruptInvariant, JoinInvariant, ResetStateInvariant
  DEF ManagerStep
<1>3. CASE Startup
  BY <1>3, StartupInvariant
<1>4. CASE Shutdown
  BY <1>4, ShutdownInvariant
<1>5. CASE \E w \in Workers : WorkerStep(w)
  BY <1>5, TakeEventInvariant, WorkInvariant, DestroyEventInvariant DEF WorkerStep
<1>6. CASE \E t \in Thread : WaitStep(t) \/ WakeSpuriously(t)
  BY <1>6, WaitInvariant, ExitInvariant DEF WaitStep
<1>7. CASE \E a \in Algorithms : GetAsymmetricKeys(a)
  BY <1>7, CallInvariant
<1>8. CASE UNCHANGED vars
  BY <1>8, StutterInvariant
<1> QED
  BY <1>1, <1>2, <1>3, <1>4, <1>5, <1>6, <1>7, <1>8 DEF Next

\* Every variable keeps its type; in particular, no counter of pending events
\* is ever decremented below zero.
THEOREM TypeCorrect == Spec => []TypeOK
<1>1. IInv => TypeOK
  BY DEF IInv
<1> QED
  BY <1>1, InitialInvariant, Inductive, PTL DEF Spec

\* The removal of a queue and the reset at the end of a shutdown never leave an
\* event behind that points to an erased queue.
THEOREM NoDanglingEvent == Spec => []NoEventForErasedQueue
<1>1. IInv => NoEventForErasedQueue
  BY DEF IInv
<1> QED
  BY <1>1, InitialInvariant, Inductive, PTL DEF Spec

-----------------------------------------------------------------------------
(* As many keys as configured.  What a step adds to one of the places where *)
(* a key is, or will be, it takes from another.                             *)

Working == {"working", "generating"}
WorkingOn(a, place, ev) == {w \in Workers : ev[w] = a /\ place[w] \in Working}

LEMMA UnfinishedIsSum ==
    ASSUME NEW a
    PROVE  Unfinished(a) = Cardinality(EventsOf(a, events))
                           + Cardinality(WorkingOn(a, at, event))
BY DEF Unfinished, EventsOf, WorkingOn, Working

\* The numbers that PoolIsBounded adds up.
LEMMA NumbersAreNatural ==
    ASSUME TypeOK, NEW a \in Algorithms
    PROVE  /\ keys[a] \in Nat /\ numkeys[a] \in Nat
           /\ Cardinality(EventsOf(a, events)) \in Nat
           /\ Cardinality(WorkingOn(a, at, event)) \in Nat
BY EventsAreFinite, SomeWorkersAreFinite DEF TypeOK, WorkingOn

\* Keys and events may only become fewer here.
LEMMA NothingAdded ==
    ASSUME IInv, PoolIsBounded, TypeOK', numkeys' = numkeys,
           events' = events,
           \A a \in Algorithms : keys'[a] <= keys[a],
           \A a \in Algorithms :
               WorkingOn(a, at', event') \subseteq WorkingOn(a, at, event)
    PROVE  PoolIsBounded'
<1> SUFFICES ASSUME NEW a \in Algorithms
             PROVE  keys'[a] + Unfinished(a)' + numkeys'[a] <= NumPreGenerated
  BY DEF PoolIsBounded
<1> DEFINE E == Cardinality(EventsOf(a, events))
           W == Cardinality(WorkingOn(a, at, event))
           V == Cardinality(WorkingOn(a, at', event'))
<1>1. keys[a] \in Nat /\ numkeys[a] \in Nat /\ E \in Nat /\ W \in Nat
  BY NumbersAreNatural DEF IInv
<1>2. V \in Nat /\ V <= W
  BY SomeWorkersAreFinite, FS_Subset DEF WorkingOn
<1>3. keys[a] + (E + W) + numkeys[a] <= NumPreGenerated
  BY UnfinishedIsSum DEF PoolIsBounded
<1>4. Unfinished(a)' = E + V
  BY DEF Unfinished, EventsOf, WorkingOn, Working
<1>5. keys'[a] <= keys[a] /\ keys'[a] \in Nat
  BY DEF TypeOK
<1> HIDE DEF E, W, V
<1> QED
  BY <1>1, <1>2, <1>3, <1>4, <1>5, KeyGenerationAssumption

LEMMA IdleWork ==
    ASSUME TypeOK, IdleStep, NEW a
    PROVE  WorkingOn(a, at', event) = WorkingOn(a, at, event)
BY ThreadFacts DEF IdleStep, WorkingOn, Working, Waiting

LEMMA WaitPool ==
    ASSUME IInv, PoolIsBounded, TypeOK', NEW t \in Thread,
           WaitStep(t) \/ WakeSpuriously(t)
    PROVE  PoolIsBounded'
<1>1. /\ at[t] \in Waiting
      /\ \E place \in Waiting \cup {"exited"} : at' = [at EXCEPT ![t] = place]
      /\ UNCHANGED <<queueVars, primaryVars, poolVars, events, flag, event, taken>>
  BY DEF WaitStep, CheckCondition, Sleep, Exit, WakeSpuriously, Go, Waiting
<1>2. \A a \in Algorithms : WorkingOn(a, at', event') = WorkingOn(a, at, event)
  BY <1>1, ThreadFacts DEF IInv, TypeOK, WorkingOn, Working, Waiting
<1>3. \A a \in Algorithms : keys'[a] <= keys[a]
  BY <1>1 DEF IInv, TypeOK, queueVars
<1> QED
  BY <1>1, <1>2, <1>3, NothingAdded DEF primaryVars

LEMMA CheckPool ==
    ASSUME IInv, PoolIsBounded, TypeOK', BeginCheck \/ EndCheck
    PROVE  PoolIsBounded'
<1>1. /\ \E place \in {"checking", "waiting"} : at' = [at EXCEPT ![Primary] = place]
      /\ UNCHANGED <<keys, numkeys, events, event>>
  BY DEF BeginCheck, EndCheck, Go, queueVars
<1>2. \A a \in Algorithms : WorkingOn(a, at', event') = WorkingOn(a, at, event)
  BY <1>1, ThreadFacts DEF IInv, TypeOK, WorkingOn, Working
<1>3. \A a \in Algorithms : keys'[a] <= keys[a]
  BY <1>1 DEF IInv, TypeOK
<1> QED
  BY <1>1, <1>2, <1>3, NothingAdded

\* The workers that work on a key are among those that hold an event.
LEMMA CheckQueuePool ==
    ASSUME IInv, PoolIsBounded, NEW b \in Algorithms, CheckQueue(b)
    PROVE  PoolIsBounded'
<1> SUFFICES ASSUME NEW a \in Algorithms
             PROVE  keys'[a] + Unfinished(a)' + numkeys'[a] <= NumPreGenerated
  BY DEF PoolIsBounded
<1> DEFINE E == Cardinality(EventsOf(a, events))
           W == Cardinality(WorkingOn(a, at, event))
           H == Cardinality(HoldersOf(a, event))
<1>1. keys[a] \in Nat /\ numkeys[a] \in Nat /\ E \in Nat /\ W \in Nat
  BY NumbersAreNatural DEF IInv
<1>2. H \in Nat /\ W <= H
  BY SomeWorkersAreFinite, FS_Subset DEF WorkingOn, HoldersOf
<1>3. keys[a] + (E + W) + numkeys[a] <= NumPreGenerated
  BY UnfinishedIsSum DEF PoolIsBounded
<1>4. Unfinished(a)' = E + W /\ keys' = keys
  BY DEF CheckQueue, queueVars, Unfinished, EventsOf, WorkingOn, Working
<1>5. pending[a] = E + H
  BY DEF IInv, PendingIsCount
<1>6. numkeys[a] = 0
  BY DEF CheckQueue
<1>7. numkeys'[a] \in {0, Missing(a)}
  BY <1>6 DEF CheckQueue, IInv, TypeOK
<1> HIDE DEF E, W, H
<1>8. Missing(a) = 0 \/ Missing(a) = NumPreGenerated - (keys[a] + (E + H))
  BY <1>5 DEF Missing
<1>9. NumPreGenerated \in Nat
  BY KeyGenerationAssumption
<1>10. CASE numkeys'[a] = 0
  BY <1>1, <1>3, <1>4, <1>6, <1>9, <1>10
<1>11. CASE numkeys'[a] = NumPreGenerated - (keys[a] + (E + H))
  BY <1>1, <1>2, <1>4, <1>9, <1>11
<1> QED
  BY <1>7, <1>8, <1>10, <1>11

LEMMA SchedulePool ==
    ASSUME IInv, PoolIsBounded, NEW b \in Algorithms, Schedule(b)
    PROVE  PoolIsBounded'
<1> SUFFICES ASSUME NEW a \in Algorithms
             PROVE  keys'[a] + Unfinished(a)' + numkeys'[a] <= NumPreGenerated
  BY DEF PoolIsBounded
<1> DEFINE E == Cardinality(EventsOf(a, events))
           W == Cardinality(WorkingOn(a, at, event))
<1>1. keys[a] \in Nat /\ numkeys[a] \in Nat /\ E \in Nat /\ W \in Nat
  BY NumbersAreNatural DEF IInv
<1>2. keys[a] + (E + W) + numkeys[a] <= NumPreGenerated
  BY UnfinishedIsSum DEF PoolIsBounded
<1>3. /\ events' = Append(events, b) /\ numkeys' = [numkeys EXCEPT ![b] = numkeys[b] - 1]
      /\ keys' = keys /\ event' = event
  BY DEF Schedule
<1>4. Cardinality(EventsOf(a, events')) = IF a = b THEN E + 1 ELSE E
  BY <1>3, AppendCounts DEF IInv, TypeOK
<1>5. IdleStep
  <2>1. CASE UNCHANGED at
    BY <2>1 DEF IInv, TypeOK, IdleStep, Waiting, Busy, Place
  <2>2. ASSUME NEW w \in Workers, at' = Woken({w}) PROVE IdleStep
    BY <2>2, WokenIsIdleStep DEF IInv
  <2> QED
    BY <2>1, <2>2 DEF Schedule
<1>6. WorkingOn(a, at', event') = WorkingOn(a, at, event)
  BY <1>3, <1>5, IdleWork DEF IInv
<1>7. Unfinished(a)' = Cardinality(EventsOf(a, events')) + W
  BY <1>6 DEF Unfinished, EventsOf, WorkingOn, Working
<1>8. numkeys'[a] = IF a = b THEN numkeys[a] - 1 ELSE numkeys[a]
  BY <1>3 DEF IInv, TypeOK
<1> HIDE DEF E, W
<1> QED
  BY <1>1, <1>2, <1>3, <1>4, <1>7, <1>8, KeyGenerationAssumption

LEMMA TakeEventPool ==
    ASSUME IInv, PoolIsBounded, TypeOK', NEW w \in Workers, TakeEvent(w)
    PROVE  PoolIsBounded'
<1>0. TypeOK /\ w \in Thread /\ at[w] = "awake" /\ event[w] = None
  BY ThreadFacts DEF IInv, TypeOK, TakeEvent, HolderIsBusy, Busy
<1>1. CASE events = <<>>
  <2>1. at' = [at EXCEPT ![w] = "waiting"] /\ UNCHANGED <<keys, numkeys, events, event>>
    BY <1>1 DEF TakeEvent, Go, queueVars, primaryVars
  <2>2. \A a \in Algorithms : WorkingOn(a, at', event') = WorkingOn(a, at, event)
    BY <1>0, <2>1, ThreadFacts DEF TypeOK, WorkingOn, Working
  <2>3. \A a \in Algorithms : keys'[a] <= keys[a]
    BY <1>0, <2>1 DEF TypeOK
  <2> QED
    BY <2>1, <2>2, <2>3, NothingAdded
<1>2. CASE events # <<>>
  <2> SUFFICES ASSUME NEW a \in Algorithms
               PROVE  keys'[a] + Unfinished(a)' + numkeys'[a] <= NumPreGenerated
    BY DEF PoolIsBounded
  <2> DEFINE E == Cardinality(EventsOf(a, events))
             W == Cardinality(WorkingOn(a, at, event))
             V == Cardinality(WorkingOn(a, at', event'))
  <2>1. keys[a] \in Nat /\ numkeys[a] \in Nat /\ E \in Nat /\ W \in Nat
    BY NumbersAreNatural DEF IInv
  <2>2. keys[a] + (E + W) + numkeys[a] <= NumPreGenerated
    BY UnfinishedIsSum DEF PoolIsBounded
  <2>3. /\ events' = Tail(events) /\ keys' = keys /\ numkeys' = numkeys
        /\ event' = [event EXCEPT ![w] = Head(events)]
        /\ at' = [at EXCEPT ![w] = "working"]
    BY <1>2 DEF TakeEvent, Go, queueVars, primaryVars
  <2>4. Cardinality(EventsOf(a, events')) = IF a = Head(events) THEN E - 1 ELSE E
    BY <1>0, <1>2, <2>3, TailCounts DEF TypeOK
  <2>5. V = IF a = Head(events) THEN W + 1 ELSE W
    <3>1. w \notin WorkingOn(a, at, event)
      BY <1>0 DEF WorkingOn, Working
    <3>2. WorkingOn(a, at', event') = IF a = Head(events)
                                      THEN WorkingOn(a, at, event) \cup {w}
                                      ELSE WorkingOn(a, at, event)
      <4>1. \A v \in Workers :
                /\ event'[v] = IF v = w THEN Head(events) ELSE event[v]
                /\ at'[v] = IF v = w THEN "working" ELSE at[v]
        BY <1>0, <2>3, ThreadFacts DEF TypeOK
      <4>2. CASE a = Head(events)
        BY <4>1, <4>2 DEF WorkingOn, Working
      <4>3. CASE a # Head(events)
        BY <3>1, <4>1, <4>3 DEF WorkingOn, Working
      <4> QED
        BY <4>2, <4>3
    <3>3. IsFiniteSet(WorkingOn(a, at, event))
      BY SomeWorkersAreFinite DEF WorkingOn
    <3> QED
      BY <3>1, <3>2, <3>3, FS_AddElement
  <2>6. Unfinished(a)' = Cardinality(EventsOf(a, events')) + V
    BY DEF Unfinished, EventsOf, WorkingOn, Working
  <2> HIDE DEF E, W, V
  <2> QED
    BY <2>1, <2>2, <2>3, <2>4, <2>5, <2>6, KeyGenerationAssumption
<1> QED
  BY <1>1, <1>2

\* The key is in its queue when the worker no longer works on it.
LEMMA GenerateKeyPool ==
    ASSUME IInv, PoolIsBounded, NEW w \in Workers, GenerateKey(w)
    PROVE  PoolIsBounded'
<1> SUFFICES ASSUME NEW a \in Algorithms
             PROVE  keys'[a] + Unfinished(a)' + numkeys'[a] <= NumPreGenerated
  BY DEF PoolIsBounded
<1> DEFINE E == Cardinality(EventsOf(a, events))
           W == Cardinality(WorkingOn(a, at, event))
           V == Cardinality(WorkingOn(a, at', event'))
<1>1. keys[a] \in Nat /\ numkeys[a] \in Nat /\ E \in Nat /\ W \in Nat
  BY NumbersAreNatural DEF IInv
<1>2. keys[a] + (E + W) + numkeys[a] <= NumPreGenerated
  BY UnfinishedIsSum DEF PoolIsBounded
<1>3. /\ TypeOK /\ w \in Thread /\ at[w] = "generating"
      /\ keys' = [keys EXCEPT ![event[w]] = keys[event[w]] + 1]
      /\ at' = [at EXCEPT ![w] = "done"]
      /\ UNCHANGED <<events, numkeys, event>>
  BY ThreadFacts DEF GenerateKey, Go, primaryVars, IInv
<1>4. V = IF a = event[w] THEN W - 1 ELSE W
  <2>1. w \in WorkingOn(a, at, event) <=> a = event[w]
    BY <1>3 DEF WorkingOn, Working
  <2>2. WorkingOn(a, at', event') = WorkingOn(a, at, event) \ {w}
    BY <1>3, ThreadFacts DEF TypeOK, WorkingOn, Working
  <2>3. IsFiniteSet(WorkingOn(a, at, event))
    BY SomeWorkersAreFinite DEF WorkingOn
  <2> QED
    BY <2>1, <2>2, <2>3, FS_RemoveElement
<1>5. Unfinished(a)' = E + V
  BY <1>3 DEF Unfinished, EventsOf, WorkingOn, Working
<1>6. keys'[a] = IF a = event[w] THEN keys[a] + 1 ELSE keys[a]
  BY <1>3 DEF TypeOK
<1> HIDE DEF E, W, V
<1> QED
  BY <1>1, <1>2, <1>3, <1>4, <1>5, <1>6, KeyGenerationAssumption

LEMMA OtherWorkPool ==
    ASSUME IInv, PoolIsBounded, TypeOK', NEW w \in Workers,
           BeginKey(w) \/ FailToGenerateKey(w) \/ DestroyEvent(w)
    PROVE  PoolIsBounded'
<1>0. PICK place \in Place :
          at' = [at EXCEPT ![w] = place] /\ (place \in Working => at[w] \in Working)
  BY DEF BeginKey, FailToGenerateKey, DestroyEvent, Go, Working, Place, Busy, Waiting
<1>1. /\ event' = event \/ event' = [event EXCEPT ![w] = None]
      /\ UNCHANGED <<keys, numkeys, events>>
  BY DEF BeginKey, FailToGenerateKey, DestroyEvent, queueVars, primaryVars
<1>2. \A a \in Algorithms : WorkingOn(a, at', event') \subseteq WorkingOn(a, at, event)
  <2> SUFFICES ASSUME NEW a \in Algorithms, NEW v \in Workers,
                      event'[v] = a, at'[v] \in Working
               PROVE  event[v] = a /\ at[v] \in Working
    BY DEF WorkingOn
  <2>1. w \in Thread /\ v \in Thread /\ TypeOK /\ a # None
    BY ThreadFacts DEF IInv
  <2>2. event[v] = a
    BY <1>1, <2>1 DEF TypeOK
  <2>3. at[v] \in Working
    <3>1. at'[v] = IF v = w THEN place ELSE at[v]
      BY <1>0, <2>1 DEF TypeOK
    <3> QED
      BY <1>0, <3>1
  <2> QED
    BY <2>2, <2>3
<1>3. \A a \in Algorithms : keys'[a] <= keys[a]
  BY <1>1 DEF IInv, TypeOK
<1> QED
  BY <1>1, <1>2, <1>3, NothingAdded

LEMMA CallPool ==
    ASSUME IInv, PoolIsBounded, TypeOK',
           (\E a \in Algorithms : GetAsymmetricKeys(a)) \/ StartupEnds \/ InterruptWait
    PROVE  PoolIsBounded'
<1>1. /\ (\E threads : at' = Woken(threads))
      /\ UNCHANGED <<numkeys, events, event>>
  BY DEF GetAsymmetricKeys, StartupEnds, InterruptWait, SetPrimaryThreadEvent,
         primaryVars
<1>2. IdleStep
  BY <1>1, WokenIsIdleStep DEF IInv
<1>3. \A a \in Algorithms : WorkingOn(a, at', event') = WorkingOn(a, at, event)
  BY <1>1, <1>2, IdleWork DEF IInv
<1>4. \A a \in Algorithms : keys'[a] <= keys[a]
  <2>1. \A a \in Algorithms : keys[a] \in Nat
    BY DEF IInv, TypeOK
  <2>2. CASE UNCHANGED keys
    BY <2>1, <2>2
  <2>3. ASSUME NEW b \in Algorithms, keys' = [keys EXCEPT ![b] = keys[b] - 1]
        PROVE  \A a \in Algorithms : keys'[a] <= keys[a]
    <3>1. \A a \in Algorithms : keys'[a] = IF a = b THEN keys[a] - 1 ELSE keys[a]
      BY <2>3 DEF IInv, TypeOK
    <3> QED
      BY <2>1, <3>1
  <2> QED
    BY <2>2, <2>3 DEF GetAsymmetricKeys, StartupEnds, InterruptWait, queueVars
<1> QED
  BY <1>1, <1>3, <1>4, NothingAdded

\* The state of the manager alone.
LEMMA ManagerPool ==
    ASSUME IInv, PoolIsBounded, TypeOK', Startup \/ Shutdown \/ Join \/ UNCHANGED vars
    PROVE  PoolIsBounded'
<1>1. UNCHANGED <<keys, numkeys, events, event>>
  BY DEF Startup, Shutdown, Join, vars, queueVars, primaryVars
<1>2. \A a \in Algorithms : keys'[a] <= keys[a]
  BY <1>1 DEF IInv, TypeOK
<1>3. CASE UNCHANGED at
  BY <1>1, <1>2, <1>3, NothingAdded DEF WorkingOn
<1>4. CASE Startup
  <2>1. \A a : WorkingOn(a, at', event') = {}
    BY <1>4, ThreadFacts DEF Startup, WorkingOn, Working
  <2> QED
    BY <1>1, <1>2, <2>1, NothingAdded
<1> QED
  BY <1>3, <1>4 DEF Shutdown, Join, vars

LEMMA ResetStatePool ==
    ASSUME IInv, PoolIsBounded, IInv', ResetState
    PROVE  PoolIsBounded'
<1> SUFFICES ASSUME NEW a \in Algorithms
             PROVE  keys'[a] + Unfinished(a)' + numkeys'[a] <= NumPreGenerated
  BY DEF PoolIsBounded
<1>1. keys'[a] = 0 /\ pending'[a] = 0 /\ phase' = "stopped" /\ numkeys' = numkeys
      /\ events' = <<>>
  BY DEF ResetState, primaryVars
<1>2. \A t \in Thread : at'[t] = "exited"
  BY <1>1 DEF IInv, ThreadsFollowPhase
<1>3. numkeys'[a] = 0
  BY <1>2, ThreadFacts DEF IInv, PrimaryIsChecking, TypeOK
<1>4. EventsOf(a, events') = {} /\ WorkingOn(a, at', event') = {}
  <2>1. EventsOf(a, <<>>) = {}
    BY DEF EventsOf
  <2>2. WorkingOn(a, at', event') = {}
    BY <1>2, ThreadFacts DEF WorkingOn, Working
  <2> QED
    BY <1>1, <2>1, <2>2
<1>5. Unfinished(a)' = Cardinality(EventsOf(a, events'))
                       + Cardinality(WorkingOn(a, at', event'))
  BY DEF Unfinished, EventsOf, WorkingOn, Working
<1> QED
  BY <1>1, <1>3, <1>4, <1>5, FS_EmptySet, KeyGenerationAssumption

LEMMA InitialPool == Init => PoolIsBounded
<1> SUFFICES ASSUME Init, NEW a \in Algorithms
             PROVE  keys[a] + Unfinished(a) + numkeys[a] <= NumPreGenerated
  BY DEF PoolIsBounded
<1>1. EventsOf(a, events) = {} /\ WorkingOn(a, at, event) = {}
  BY ThreadFacts DEF Init, EventsOf, WorkingOn, Working
<1>2. Unfinished(a) = 0
  BY <1>1, UnfinishedIsSum, FS_EmptySet
<1>3. keys[a] = 0 /\ numkeys[a] = 0
  BY DEF Init
<1> QED
  BY <1>2, <1>3, KeyGenerationAssumption

LEMMA InductivePool ==
    IInv /\ PoolIsBounded /\ [Next]_vars => PoolIsBounded'
<1> SUFFICES ASSUME IInv, PoolIsBounded, [Next]_vars PROVE PoolIsBounded'
  OBVIOUS
<1>0. IInv' /\ TypeOK'
  BY Inductive DEF IInv
<1>1. CASE PrimaryStep
  BY <1>0, <1>1, CheckPool, CheckQueuePool, SchedulePool DEF PrimaryStep
<1>2. CASE ManagerStep
  BY <1>0, <1>2, CallPool, ManagerPool, ResetStatePool DEF ManagerStep
<1>3. CASE Startup \/ Shutdown \/ UNCHANGED vars
  BY <1>0, <1>3, ManagerPool
<1>4. CASE \E w \in Workers : WorkerStep(w)
  BY <1>0, <1>4, TakeEventPool, GenerateKeyPool, OtherWorkPool DEF WorkerStep
<1>5. CASE \E t \in Thread : WaitStep(t) \/ WakeSpuriously(t)
  BY <1>0, <1>5, WaitPool
<1>6. CASE \E a \in Algorithms : GetAsymmetricKeys(a)
  BY <1>0, <1>6, CallPool
<1> QED
  BY <1>1, <1>2, <1>3, <1>4, <1>5, <1>6 DEF Next

\* Callers that take keys, the primary thread that counts and the workers that
\* generate never make more keys than configured, for any number of workers.
THEOREM BoundedPool == Spec => []PoolIsBounded
BY InitialInvariant, Inductive, InitialPool, InductivePool, PTL DEF Spec

-----------------------------------------------------------------------------
(* The local instance, for any threads of the application and of extenders,  *)
(* any settings and any number of failures, changes and exceptions.          *)

AllThreads == Callers \cup ExtenderThreads

CallPlaces == {"idle", "lock", "locked", "undo", "wait"}
CallType == [op : {"none", "Startup", "Shutdown", "Enable", "Disable", "Connect"},
             arg : SUBSET Optional, at : CallPlaces, i : Int]
WorkerPlaces == {"gone", "idle", "update", "updating", "check", "lock", "locked"}

CallsAreTyped ==
    /\ scenario \in Scenarios
    /\ up \subseteq Required \cup Optional
    /\ call \in [AllThreads -> CallType]
    /\ \A t \in AllThreads : call[t].at \in {"lock", "locked"} => call[t].i >= 1
    /\ last \in {"started", "failed", "stopped"}
    /\ callbacks \subseteq AllThreads
    /\ holder \in Callers \cup {Nobody, "worker"}
    /\ worker.at \in WorkerPlaces
    /\ network \in Nat /\ info \in Nat /\ info <= network

\* Only callers of the scenario do anything but wait for a connection, and the peer manager
\* only knows of threads that wait.
OnlyCallersCall ==
    /\ \A t \in AllThreads :
           call[t].at \notin {"idle", "wait"} => t \in scenario.callers \cap Callers
    /\ \A t \in callbacks : call[t].at = "wait"

Inside(t) == call[t].at \in {"locked", "undo"}

\* m_Mutex excludes.
MutexIsHeld ==
    /\ \A t \in AllThreads : Inside(t) => holder = t
    /\ worker.at = "locked" => holder = "worker"

InstanceInv == CallsAreTyped /\ OnlyCallersCall /\ MutexIsHeld

\* The parts before a place in an order, and those from it on.
Before(order, i) == {order[j] : j \in {n \in 1 .. 11 : n < i}}
From(order, i) == {order[j] : j \in {n \in 1 .. 11 : n >= i}}

\* How far a thread has got under m_Mutex: what it has started runs and nothing else does,
\* or what it has stopped does not run and everything else does.
StartedSoFar(i) ==
    /\ i \in 1 .. 12
    /\ up \subseteq {"env"} \cup Before(StartOrder, i)
    /\ Required \cap Before(StartOrder, i) \subseteq up
StoppedSoFar(i) ==
    /\ i \in 1 .. 12
    /\ up \subseteq {"env"} \cup From(StopOrder, i)
    /\ Required \cap From(StopOrder, i) \subseteq up

LockedCall(t) ==
    \/ call[t].op = "Startup" /\ StartedSoFar(call[t].i)
    \/ call[t].op = "Shutdown" /\ StoppedSoFar(call[t].i)
    \/ /\ call[t].op \in {"Enable", "Disable"} /\ call[t].arg \subseteq Switched
       /\ Required \subseteq up /\ last = "started"

UndoneCall(t) == call[t].op = "Startup" /\ StartedSoFar(call[t].i + 1)

\* A call that has found the instance stopped, or running, waits for m_Mutex.
LockingCall(t) ==
    /\ call[t].i = 1
    /\ \/ call[t].op = "Startup" /\ last # "started"
       \/ call[t].op = "Shutdown" /\ last = "started"
       \/ call[t].op \in {"Enable", "Disable"} /\ call[t].arg \subseteq Switched /\ last = "started"

\* What runs while nobody is starting or stopping parts.
AtRest ==
    /\ last = "started" => Required \subseteq up
    /\ last # "started" => up \subseteq {"env"}

CallInOrder(t) ==
    /\ call[t].at = "lock" => LockingCall(t)
    /\ call[t].at = "locked" => LockedCall(t)
    /\ call[t].at = "undo" => UndoneCall(t)

CallsInOrder ==
    /\ \A t \in AllThreads : CallInOrder(t)
    /\ (\A t \in AllThreads : ~Inside(t)) => AtRest

OneCallerInv == OneCaller => CallsInOrder

-----------------------------------------------------------------------------
LEMMA StartPlaces ==
    /\ Len(StartOrder) = 11
    /\ \A j \in 1 .. 11 : /\ StartOrder[j] \in Switched => j > 5
                          /\ StartOrder[j] = "peers" => j = 5
                          /\ StartOrder[j] = "running" => j = 10
                          /\ StartOrder[j] \in Required \cup Optional
                          /\ StartOrder[j] \notin Optional => StartOrder[j] \in Required
    /\ StartOrder[1] = "env" /\ StartOrder[2] = "pool" /\ StartOrder[4] = "udp"
    /\ StartOrder[5] = "peers" /\ StartOrder[10] = "running"
BY DEF StartOrder, Switched, Listeners, Required, Optional

LEMMA StopPlaces ==
    /\ Len(StopOrder) = 11
    /\ \A j \in 1 .. 11 : /\ StopOrder[j] \in Switched => j < 7
                          /\ StopOrder[j] = "peers" => j = 7
                          /\ StopOrder[j] = "running" => j = 1
    /\ StopOrder[7] = "peers" /\ StopOrder[8] = "udp" /\ StopOrder[10] = "env"
    /\ StopOrder[11] = "pool"
    /\ \A part \in Required \cup Optional : \E j \in 1 .. 11 : StopOrder[j] = part
<1>1. /\ Len(StopOrder) = 11
      /\ \A j \in 1 .. 11 : /\ StopOrder[j] \in Switched => j < 7
                            /\ StopOrder[j] = "peers" => j = 7
                            /\ StopOrder[j] = "running" => j = 1
      /\ StopOrder[7] = "peers" /\ StopOrder[8] = "udp" /\ StopOrder[10] = "env"
      /\ StopOrder[11] = "pool"
  BY DEF StopOrder, Switched, Listeners
<1>2. /\ StopOrder[1] = "running" /\ StopOrder[2] = "TCP" /\ StopOrder[3] = "UDP"
      /\ StopOrder[4] = "BTH" /\ StopOrder[5] = "extenders" /\ StopOrder[6] = "relays"
      /\ StopOrder[9] = "keys"
  BY DEF StopOrder
<1>3. \A part \in Required \cup Optional : \E j \in 1 .. 11 : StopOrder[j] = part
  BY <1>1, <1>2 DEF Required, Optional, Switched, Listeners
<1> QED BY <1>1, <1>3

\* No part has two places.
LEMMA OnePlaceEach ==
    /\ \A i, j \in 1 .. 11 : StartOrder[i] = StartOrder[j] => i = j
    /\ \A i, j \in 1 .. 11 : StopOrder[i] = StopOrder[j] => i = j
<1> DEFINE start == [p \in {"env", "pool", "keys", "udp", "peers", "relays", "TCP", "UDP", "BTH",
                           "running", "extenders"} |->
                IF p = "env" THEN 1 ELSE IF p = "pool" THEN 2 ELSE IF p = "keys" THEN 3
                ELSE IF p = "udp" THEN 4 ELSE IF p = "peers" THEN 5 ELSE IF p = "relays" THEN 6
                ELSE IF p = "TCP" THEN 7 ELSE IF p = "UDP" THEN 8 ELSE IF p = "BTH" THEN 9
                ELSE IF p = "running" THEN 10 ELSE 11]
           stop == [p \in {"env", "pool", "keys", "udp", "peers", "relays", "TCP", "UDP", "BTH",
                           "running", "extenders"} |->
                IF p = "running" THEN 1 ELSE IF p = "TCP" THEN 2 ELSE IF p = "UDP" THEN 3
                ELSE IF p = "BTH" THEN 4 ELSE IF p = "extenders" THEN 5
                ELSE IF p = "relays" THEN 6 ELSE IF p = "peers" THEN 7 ELSE IF p = "udp" THEN 8
                ELSE IF p = "keys" THEN 9 ELSE IF p = "env" THEN 10 ELSE 11]
<1>1. \A i \in 1 .. 11 : start[StartOrder[i]] = i
  BY DEF StartOrder
<1>2. \A i \in 1 .. 11 : stop[StopOrder[i]] = i
  BY DEF StopOrder
<1> HIDE DEF start, stop
<1> QED BY <1>1, <1>2

LEMMA NextBefore ==
    ASSUME NEW order, NEW i \in 1 .. 11
    PROVE  Before(order, i + 1) = Before(order, i) \cup {order[i]}
BY DEF Before

LEMMA NextFrom ==
    ASSUME NEW order, NEW i \in 1 .. 11
    PROVE  From(order, i) = From(order, i + 1) \cup {order[i]}
BY DEF From

\* What started so far, at the beginning and the end.
LEMMA Ends ==
    /\ Before(StartOrder, 1) = {}
    /\ Required \subseteq Before(StartOrder, 12)
    /\ Required \cup Optional \subseteq From(StopOrder, 1)
    /\ From(StopOrder, 12) = {}
<1>1. Before(StartOrder, 1) = {} /\ From(StopOrder, 12) = {}
  BY DEF Before, From
<1>2. \A j \in 1 .. 11 : StartOrder[j] \in Before(StartOrder, 12)
  BY DEF Before
<1>3. Required \subseteq Before(StartOrder, 12)
  BY <1>2, StartPlaces DEF Required
<1>4. \A j \in 1 .. 11 : StopOrder[j] \in From(StopOrder, 1)
  BY DEF From
<1>5. Required \cup Optional \subseteq From(StopOrder, 1)
  BY <1>4, StopPlaces
<1> QED BY <1>1, <1>3, <1>5

-----------------------------------------------------------------------------
(* Steps of a call.                                                        *)

LEMMA Stepped ==
    ASSUME CallsAreTyped, NEW t \in AllThreads, NEW p \in CallPlaces, NEW n \in Int, Step(t, p, n)
    PROVE  /\ call' \in [AllThreads -> CallType]
           /\ call'[t].op = call[t].op /\ call'[t].arg = call[t].arg
           /\ call'[t].at = p /\ call'[t].i = n
           /\ \A u \in AllThreads \ {t} : call'[u] = call[u]
           /\ holder' = holder
<1> DEFINE x == [call[t] EXCEPT !.at = p, !.i = n]
<1>1. call[t] \in CallType /\ call \in [AllThreads -> CallType]
  BY DEF CallsAreTyped
<1>2. x \in CallType /\ x.op = call[t].op /\ x.arg = call[t].arg /\ x.at = p /\ x.i = n
  <2> DEFINE y == [call[t] EXCEPT !.at = p]
  <2>1. y \in CallType /\ y.op = call[t].op /\ y.arg = call[t].arg /\ y.at = p
    BY <1>1 DEF CallType
  <2>2. x = [y EXCEPT !.i = n]
    BY <1>1 DEF CallType
  <2> HIDE DEF x, y
  <2> QED BY <2>1, <2>2 DEF CallType
<1>3. call' = [call EXCEPT ![t] = x] /\ holder' = holder
  BY DEF Step
<1> HIDE DEF x
<1> QED BY <1>1, <1>2, <1>3

LEMMA IdleType == Idle \in CallType /\ Idle.at = "idle"
BY DEF Idle, CallType, CallPlaces

LEMMA Replaced ==
    ASSUME CallsAreTyped, NEW t \in AllThreads, NEW x \in CallType, call' = [call EXCEPT ![t] = x]
    PROVE  /\ call' \in [AllThreads -> CallType]
           /\ call'[t] = x
           /\ \A u \in AllThreads \ {t} : call'[u] = call[u]
BY DEF CallsAreTyped

LEMMA PartsBegun ==
    ASSUME CallsAreTyped, NEW part \in Required \cup Optional, Begun(part)
    PROVE  /\ up' = up \cup {part} /\ up' \subseteq Required \cup Optional
           /\ worker'.at \in WorkerPlaces /\ (worker'.at = "locked" => worker.at = "locked")
           /\ network' = network /\ info' \in Nat /\ info' <= network'
           /\ callbacks' = callbacks
BY DEF Begun, CallsAreTyped, WorkerPlaces

LEMMA PartsEnded ==
    ASSUME CallsAreTyped, NEW part, Ended(part)
    PROVE  /\ up' = up \ {part} /\ up' \subseteq Required \cup Optional
           /\ UNCHANGED <<worker, network, info>>
           /\ callbacks' \subseteq callbacks
BY DEF Ended, CallsAreTyped

\* What a step under m_Mutex leaves of the parts that any number of callers have to do with.
LEMMA LockedStep ==
    ASSUME InstanceInv, NEW t \in Callers, call[t].at \notin {"idle", "wait"},
           call' \in [AllThreads -> CallType],
           \A u \in AllThreads \ {t} : call'[u] = call[u],
           call'[t].at # "wait", call'[t].at \in {"lock", "locked"} => call'[t].i >= 1,
           \/ Inside(t) /\ holder' = holder
           \/ Inside(t) /\ holder' = Nobody /\ call'[t].at = "idle"
           \/ holder = Nobody /\ holder' = t,
           up' \subseteq Required \cup Optional, last' \in {"started", "failed", "stopped"},
           worker'.at \in WorkerPlaces, worker'.at = "locked" => worker.at = "locked",
           network' = network, info' \in Nat, info' <= network',
           callbacks' \subseteq callbacks, scenario' = scenario
    PROVE  InstanceInv'
<1>0. t \in AllThreads /\ t # "worker" /\ t # Nobody /\ Nobody # "worker"
  BY InstanceAssumption DEF AllThreads
<1>1. CallsAreTyped'
  BY <1>0 DEF InstanceInv, CallsAreTyped
<1>2. t \in scenario.callers \cap Callers
  BY <1>0 DEF InstanceInv, OnlyCallersCall
<1>3. OnlyCallersCall'
  <2>1. \A u \in callbacks' : call[u].at = "wait" /\ u # t /\ u \in AllThreads
    BY DEF InstanceInv, OnlyCallersCall, CallsAreTyped
  <2> QED BY <1>2, <2>1 DEF InstanceInv, OnlyCallersCall
<1>4. ASSUME NEW u \in AllThreads, call'[u].at \in {"locked", "undo"} PROVE holder' = u
  <2>1. CASE u = t
    BY <1>4, <2>1 DEF InstanceInv, MutexIsHeld, Inside
  <2>2. CASE u # t
    <3>1. Inside(u) /\ holder = u /\ u \in Callers
      BY <1>4, <2>2 DEF InstanceInv, MutexIsHeld, OnlyCallersCall, Inside
    <3>2. ~Inside(t)
      BY <1>0, <2>2, <3>1 DEF InstanceInv, MutexIsHeld
    <3>3. holder # Nobody
      BY <3>1, InstanceAssumption
    <3> QED BY <3>2, <3>3
  <2> QED BY <2>1, <2>2
<1>5. ASSUME worker'.at = "locked" PROVE holder' = "worker"
  <2>1. holder = "worker"
    BY <1>5 DEF InstanceInv, MutexIsHeld
  <2>2. ~Inside(t)
    BY <1>0, <2>1 DEF InstanceInv, MutexIsHeld
  <2> QED BY <1>0, <2>1, <2>2
<1>6. MutexIsHeld'
  BY <1>4, <1>5 DEF MutexIsHeld, Inside
<1> QED BY <1>1, <1>3, <1>6 DEF InstanceInv

\* While one caller is at it, the others are not.
LEMMA OthersRest ==
    ASSUME InstanceInv, OneCaller, NEW t \in AllThreads,
           t \in scenario.callers \/ call[t].at \notin {"idle", "wait"}
    PROVE  \A u \in AllThreads \ {t} : call[u].at \in {"idle", "wait"}
<1>1. IsFiniteSet(scenario.callers) /\ Cardinality(scenario.callers) = 1
  BY InstanceAssumption DEF InstanceInv, CallsAreTyped, OneCaller
<1>2. PICK c : scenario.callers = {c}
  BY <1>1, FS_Singleton
<1> QED BY <1>2 DEF InstanceInv, OnlyCallersCall

\* It is enough to look at the one that moves.
LEMMA OneMoves ==
    ASSUME NEW t \in AllThreads,
           \A u \in AllThreads \ {t} : call'[u] = call[u] /\ call[u].at \in {"idle", "wait"},
           CallInOrder(t)',
           ~Inside(t)' => AtRest'
    PROVE  CallsInOrder'
<1>1. \A u \in AllThreads \ {t} : CallInOrder(u)'
  BY DEF CallInOrder
<1> QED BY <1>1 DEF CallsInOrder

\* Nothing changes that the order of calls depends on.
LEMMA NothingMoves ==
    ASSUME CallsInOrder, up' = up, last' = last,
           \A u \in AllThreads : \/ call'[u] = call[u]
                                 \/ {call'[u].at, call[u].at} \subseteq {"idle", "wait"}
    PROVE  CallsInOrder'
<1>1. ASSUME NEW u \in AllThreads PROVE CallInOrder(u)' /\ (Inside(u)' <=> Inside(u))
  <2>1. CASE call'[u] = call[u]
    BY <2>1 DEF CallsInOrder, CallInOrder, LockingCall, LockedCall, UndoneCall, StartedSoFar,
                StoppedSoFar, Inside
  <2>2. CASE {call'[u].at, call[u].at} \subseteq {"idle", "wait"}
    BY <2>2 DEF CallInOrder, Inside
  <2> QED BY <2>1, <2>2
<1> QED BY <1>1 DEF CallsInOrder, AtRest

LEMMA CallInv ==
    ASSUME InstanceInv, OneCallerInv, NEW t \in Callers, Call(t)
    PROVE  InstanceInv' /\ OneCallerInv'
<1>0. /\ t \in AllThreads /\ call[t].at = "idle" /\ t \in scenario.callers
      /\ UNCHANGED <<up, holder, last, callbacks, worker, network, info, scenario>>
  BY DEF Call, AllThreads, envVars
<1>1. \/ ~Running /\ \E params \in scenario.params : Begin(t, "Startup", params, "lock")
      \/ Running /\ Begin(t, "Shutdown", {}, "lock")
      \/ /\ Running
         /\ \E part \in Switched, op \in {"Enable", "Disable"} : Begin(t, op, {part}, "lock")
  BY DEF Call, CallStartup, CallShutdown, CallSwitch
<1>2. PICK op, arg : /\ Begin(t, op, arg, "lock")
                     /\ \/ ~Running /\ op = "Startup" /\ arg \in scenario.params
                        \/ Running /\ op = "Shutdown" /\ arg = {}
                        \/ /\ Running /\ op \in {"Enable", "Disable"}
                           /\ \E part \in Switched : arg = {part}
  BY <1>1
<1> DEFINE x == [op |-> op, arg |-> arg, at |-> "lock", i |-> 1]
<1>3. x \in CallType
  <2>1. scenario \in Scenarios
    BY DEF InstanceInv, CallsAreTyped
  <2>2. arg \in SUBSET Optional
    BY <1>2, <2>1, InstanceAssumption DEF Optional
  <2> QED BY <1>2, <2>2 DEF CallType, CallPlaces
<1>4. call' = [call EXCEPT ![t] = x] /\ x.at = "lock"
  BY <1>2 DEF Begin
<1>5. /\ call' \in [AllThreads -> CallType] /\ call'[t] = x
      /\ \A u \in AllThreads \ {t} : call'[u] = call[u]
  BY <1>0, <1>3, <1>4, Replaced DEF InstanceInv
<1>6. InstanceInv'
  <2>1. CallsAreTyped'
    BY <1>0, <1>5 DEF InstanceInv, CallsAreTyped
  <2>2. OnlyCallersCall'
    BY <1>0, <1>5 DEF InstanceInv, OnlyCallersCall, CallsAreTyped
  <2>3. \A u \in AllThreads : Inside(u)' => Inside(u)
    BY <1>4, <1>5 DEF Inside
  <2>4. MutexIsHeld'
    BY <1>0, <2>3 DEF InstanceInv, MutexIsHeld
  <2> QED BY <2>1, <2>2, <2>4 DEF InstanceInv
<1>7. ASSUME OneCaller' PROVE CallsInOrder'
  <2>0. OneCaller /\ CallsInOrder
    BY <1>0, <1>7 DEF OneCaller, OneCallerInv
  <2>1. \A u \in AllThreads \ {t} : call[u].at \in {"idle", "wait"}
    BY <1>0, <2>0, OthersRest
  <2>2. AtRest
    BY <1>0, <2>0, <2>1 DEF CallsInOrder, Inside
  <2>3. Running <=> last = "started"
    BY <2>2 DEF AtRest, Running, Required
  <2>4. LockingCall(t)'
    BY <1>0, <1>2, <1>5, <2>3 DEF LockingCall
  <2>5. CallInOrder(t)' /\ AtRest'
    BY <1>0, <1>5, <2>2, <2>4 DEF CallInOrder, AtRest
  <2> QED BY <1>0, <1>5, <2>1, <2>5, OneMoves
<1> QED BY <1>6, <1>7 DEF OneCallerInv

LEMMA LockInv ==
    ASSUME InstanceInv, OneCallerInv, NEW t \in Callers, Lock(t)
    PROVE  InstanceInv' /\ OneCallerInv'
<1>0. /\ t \in AllThreads /\ call[t].at = "lock" /\ holder = Nobody /\ holder' = t
      /\ call' = [call EXCEPT ![t].at = "locked"]
      /\ UNCHANGED <<up, last, callbacks, worker, network, info, scenario>>
  BY DEF Lock, AllThreads, envVars
<1> DEFINE x == [call[t] EXCEPT !.at = "locked"]
<1>1. x \in CallType /\ x.op = call[t].op /\ x.arg = call[t].arg /\ x.i = call[t].i
      /\ x.at = "locked"
  BY <1>0 DEF InstanceInv, CallsAreTyped, CallType, CallPlaces
<1>2. call' = [call EXCEPT ![t] = x]
  BY <1>0
<1> HIDE DEF x
<1>3. /\ call' \in [AllThreads -> CallType] /\ call'[t] = x
      /\ \A u \in AllThreads \ {t} : call'[u] = call[u]
  BY <1>0, <1>1, <1>2, Replaced DEF InstanceInv
<1>4. InstanceInv'
  <2>1. /\ call'[t].at # "wait" /\ call[t].at \notin {"idle", "wait"}
        /\ call'[t].at \in {"lock", "locked"} => call'[t].i >= 1
    BY <1>0, <1>1, <1>3 DEF InstanceInv, CallsAreTyped
  <2>2. /\ up' \subseteq Required \cup Optional /\ last' \in {"started", "failed", "stopped"}
        /\ worker'.at \in WorkerPlaces /\ (worker'.at = "locked" => worker.at = "locked")
        /\ network' = network /\ info' \in Nat /\ info' <= network'
    BY <1>0 DEF InstanceInv, CallsAreTyped
  <2> QED BY <1>0, <1>3, <2>1, <2>2, LockedStep
<1>5. ASSUME OneCaller' PROVE CallsInOrder'
  <2>0. OneCaller /\ CallsInOrder
    BY <1>0, <1>5 DEF OneCaller, OneCallerInv
  <2>1. \A u \in AllThreads \ {t} : call[u].at \in {"idle", "wait"}
    BY <1>0, <2>0, OthersRest
  <2>2. AtRest
    BY <1>0, <2>0, <2>1 DEF CallsInOrder, Inside
  <2>3. LockingCall(t)
    BY <1>0, <2>0 DEF CallsInOrder, CallInOrder
  <2>4. up \subseteq Required \cup Optional
    BY DEF InstanceInv, CallsAreTyped
  <2>5. LockedCall(t)'
    <3>1. CASE call[t].op = "Startup"
      <4>1. StartedSoFar(1)'
        BY <1>0, <2>2, <2>3, <3>1, Ends DEF LockingCall, StartedSoFar, AtRest
      <4> QED BY <1>1, <1>3, <2>3, <3>1, <4>1 DEF LockedCall, LockingCall
    <3>2. CASE call[t].op = "Shutdown"
      <4>1. StoppedSoFar(1)'
        BY <1>0, <2>2, <2>3, <2>4, <3>2, Ends DEF LockingCall, StoppedSoFar, AtRest
      <4> QED BY <1>1, <1>3, <2>3, <3>2, <4>1 DEF LockedCall, LockingCall
    <3>3. CASE call[t].op \in {"Enable", "Disable"}
      BY <1>0, <1>1, <1>3, <2>2, <2>3, <3>3 DEF LockedCall, LockingCall, AtRest
    <3> QED BY <2>3, <3>1, <3>2, <3>3 DEF LockingCall
  <2>6. CallInOrder(t)' /\ Inside(t)'
    BY <1>1, <1>3, <2>5 DEF CallInOrder, Inside
  <2> QED BY <1>0, <1>3, <2>1, <2>6, OneMoves
<1> QED BY <1>4, <1>5 DEF OneCallerInv

\* A thread that works under m_Mutex takes a step: it is enough to look at it.
LEMMA BusyStep ==
    ASSUME InstanceInv, OneCallerInv, NEW t \in Callers, Inside(t),
           call' \in [AllThreads -> CallType],
           \A u \in AllThreads \ {t} : call'[u] = call[u],
           \/ holder' = holder /\ call'[t].at # "wait"
           \/ holder' = Nobody /\ call'[t].at = "idle",
           call'[t].at \in {"lock", "locked"} => call'[t].i >= 1,
           up' \subseteq Required \cup Optional, last' \in {"started", "failed", "stopped"},
           worker'.at \in WorkerPlaces, worker'.at = "locked" => worker.at = "locked",
           network' = network, info' \in Nat, info' <= network',
           callbacks' \subseteq callbacks, scenario' = scenario,
           CallsInOrder /\ CallInOrder(t) => CallInOrder(t)' /\ (~Inside(t)' => AtRest')
    PROVE  InstanceInv' /\ OneCallerInv'
<1>0. t \in AllThreads /\ call[t].at \notin {"idle", "wait"}
  BY DEF AllThreads, Inside
<1>1. InstanceInv'
  <2>1. /\ call'[t].at # "wait"
        /\ \/ Inside(t) /\ holder' = holder
           \/ Inside(t) /\ holder' = Nobody /\ call'[t].at = "idle"
    OBVIOUS
  <2> QED BY <1>0, <2>1, LockedStep
<1>2. ASSUME OneCaller' PROVE CallsInOrder'
  <2>0. OneCaller /\ CallsInOrder
    BY <1>2 DEF OneCaller, OneCallerInv
  <2>1. \A u \in AllThreads \ {t} : call[u].at \in {"idle", "wait"}
    BY <1>0, <2>0, OthersRest
  <2>2. CallInOrder(t)
    BY <1>0, <2>0 DEF CallsInOrder
  <2> QED BY <1>0, <2>0, <2>1, <2>2, OneMoves
<1> QED BY <1>1, <1>2 DEF OneCallerInv

LEMMA StartPartInv ==
    ASSUME InstanceInv, OneCallerInv, NEW t \in Callers, StartPart(t)
    PROVE  InstanceInv' /\ OneCallerInv'
<1> PICK i : i = call[t].i
  OBVIOUS
<1> PICK part : part = StartOrder[i]
  OBVIOUS
<1>0. /\ t \in AllThreads /\ call[t].op = "Startup" /\ call[t].at = "locked" /\ i <= 11 /\ i \in Int
      /\ IF part \in Optional \ call[t].arg THEN KeepParts ELSE Begun(part)
      /\ Step(t, "locked", i + 1)
      /\ UNCHANGED <<last, scenario>>
  BY StartPlaces DEF StartPart, At, AllThreads, InstanceInv, CallsAreTyped, CallType
<1>1. Inside(t)
  BY <1>0 DEF Inside
<1>2. /\ call' \in [AllThreads -> CallType]
      /\ call'[t].op = "Startup" /\ call'[t].at = "locked" /\ call'[t].i = i + 1
      /\ \A u \in AllThreads \ {t} : call'[u] = call[u]
      /\ holder' = holder
  <2>1. "locked" \in CallPlaces /\ i + 1 \in Int
    BY <1>0 DEF CallPlaces
  <2> QED BY <1>0, <2>1, Stepped DEF InstanceInv
<1>3. /\ up' = up \/ up' = up \cup {part}
      /\ part \notin Optional => up' = up \cup {part}
      /\ i \in 1 .. 11 => /\ up' \subseteq Required \cup Optional
                          /\ worker'.at \in WorkerPlaces
                          /\ worker'.at = "locked" => worker.at = "locked"
                          /\ network' = network /\ info' \in Nat /\ info' <= network'
                          /\ callbacks' \subseteq callbacks
  <2>1. CASE part \in Optional \ call[t].arg
    BY <1>0, <2>1 DEF KeepParts, envVars, InstanceInv, CallsAreTyped
  <2>2. CASE part \notin Optional \ call[t].arg
    <3>1. Begun(part)
      BY <1>0, <2>2
    <3>2. up' = up \cup {part}
      BY <3>1 DEF Begun
    <3>3. i \in 1 .. 11 => part \in Required \cup Optional
      BY StartPlaces
    <3> QED BY <3>1, <3>2, <3>3, PartsBegun DEF InstanceInv
  <2> QED BY <2>1, <2>2
<1>4. i \in 1 .. 11 /\ call'[t].i >= 1
  <2>1. i >= 1
    BY <1>0 DEF InstanceInv, CallsAreTyped
  <2> QED BY <1>0, <1>2, <2>1
<1>5. ASSUME CallInOrder(t) PROVE CallInOrder(t)'
  <2>1. StartedSoFar(i)
    BY <1>0, <1>5 DEF CallInOrder, LockedCall
  <2>2. Before(StartOrder, i + 1) = Before(StartOrder, i) \cup {part}
    BY <1>4, NextBefore
  <2>3. part \in Required => part \notin Optional
    BY DEF Required, Optional, Switched, Listeners
  <2>4. i + 1 \in 1 .. 12
    BY <1>4
  <2>5. StartedSoFar(i + 1)'
    BY <1>3, <2>1, <2>2, <2>3, <2>4 DEF StartedSoFar
  <2>6. LockedCall(t)'
    BY <1>2, <2>5 DEF LockedCall
  <2> QED BY <1>2, <2>6 DEF CallInOrder
<1>6. Inside(t)' /\ call'[t].at # "wait" /\ last' \in {"started", "failed", "stopped"}
  BY <1>0, <1>2 DEF Inside, InstanceInv, CallsAreTyped
<1>7. scenario' = scenario
  BY <1>0
<1> QED BY <1>1, <1>2, <1>3, <1>4, <1>5, <1>6, <1>7, BusyStep

LEMMA StartPartFailsInv ==
    ASSUME InstanceInv, OneCallerInv, NEW t \in Callers, StartPartFails(t)
    PROVE  InstanceInv' /\ OneCallerInv'
<1> PICK i : i = call[t].i
  OBVIOUS
<1>0. /\ t \in AllThreads /\ call[t].op = "Startup" /\ call[t].at = "locked" /\ i \in Int
      /\ Step(t, "undo", i - 1)
      /\ UNCHANGED <<up, last, worker, network, info, callbacks, scenario>>
  BY DEF StartPartFails, At, AllThreads, KeepParts, envVars, InstanceInv, CallsAreTyped, CallType
<1>1. Inside(t)
  BY <1>0 DEF Inside
<1>2. /\ call' \in [AllThreads -> CallType]
      /\ call'[t].op = "Startup" /\ call'[t].at = "undo" /\ call'[t].i = i - 1
      /\ \A u \in AllThreads \ {t} : call'[u] = call[u]
      /\ holder' = holder
  <2>1. "undo" \in CallPlaces /\ i - 1 \in Int
    BY <1>0 DEF CallPlaces
  <2> QED BY <1>0, <2>1, Stepped DEF InstanceInv
<1>3. ASSUME CallInOrder(t) PROVE CallInOrder(t)'
  <2>1. StartedSoFar(i)
    BY <1>0, <1>3 DEF CallInOrder, LockedCall
  <2>2. call'[t].i + 1 = i
    BY <1>0, <1>2
  <2>3. up' = up
    BY <1>0
  <2>4. StartedSoFar(i)'
    BY <2>1, <2>3 DEF StartedSoFar
  <2>5. UndoneCall(t)'
    BY <1>2, <2>2, <2>4 DEF UndoneCall
  <2> QED BY <1>2, <2>5 DEF CallInOrder
<1>4. /\ up' \subseteq Required \cup Optional /\ last' \in {"started", "failed", "stopped"}
      /\ worker'.at \in WorkerPlaces /\ (worker'.at = "locked" => worker.at = "locked")
      /\ network' = network /\ info' \in Nat /\ info' <= network'
      /\ callbacks' \subseteq callbacks /\ scenario' = scenario
  BY <1>0 DEF InstanceInv, CallsAreTyped
<1>5. Inside(t)' /\ call'[t].at # "wait" /\ (call'[t].at \in {"lock", "locked"} => call'[t].i >= 1)
  BY <1>2 DEF Inside
<1> QED BY <1>1, <1>2, <1>3, <1>4, <1>5, BusyStep

LEMMA UndoPartInv ==
    ASSUME InstanceInv, OneCallerInv, NEW t \in Callers, UndoPart(t)
    PROVE  InstanceInv' /\ OneCallerInv'
<1> PICK i : i = call[t].i
  OBVIOUS
<1> PICK part : part = StartOrder[i]
  OBVIOUS
<1>0. /\ t \in AllThreads /\ call[t].op = "Startup" /\ call[t].at = "undo" /\ i \in Int /\ i > 1
      /\ Ended(part)
      /\ Step(t, "undo", i - 1)
      /\ UNCHANGED <<last, scenario>>
  BY DEF UndoPart, At, AllThreads, InstanceInv, CallsAreTyped, CallType
<1>1. Inside(t)
  BY <1>0 DEF Inside
<1>2. /\ call' \in [AllThreads -> CallType]
      /\ call'[t].op = "Startup" /\ call'[t].at = "undo" /\ call'[t].i = i - 1
      /\ \A u \in AllThreads \ {t} : call'[u] = call[u]
      /\ holder' = holder
  <2>1. "undo" \in CallPlaces /\ i - 1 \in Int
    BY <1>0 DEF CallPlaces
  <2> QED BY <1>0, <2>1, Stepped DEF InstanceInv
<1>3. ASSUME CallInOrder(t) PROVE CallInOrder(t)'
  <2>1. StartedSoFar(i + 1)
    BY <1>0, <1>3 DEF CallInOrder, UndoneCall
  <2>2. i \in 1 .. 11
    BY <1>0, <2>1 DEF StartedSoFar
  <2>3. Before(StartOrder, i + 1) = Before(StartOrder, i) \cup {part}
    BY <2>2, NextBefore
  <2>4. part \notin Before(StartOrder, i)
    BY <2>2, OnePlaceEach DEF Before
  <2>5. up' = up \ {part}
    BY <1>0 DEF Ended
  <2>6. StartedSoFar(i)'
    <3>1. /\ up \subseteq {"env"} \cup Before(StartOrder, i + 1)
          /\ Required \cap Before(StartOrder, i + 1) \subseteq up
      BY <2>1 DEF StartedSoFar
    <3>2. up' \subseteq {"env"} \cup Before(StartOrder, i)
      BY <3>1, <2>3, <2>5
    <3>3. Required \cap Before(StartOrder, i) \subseteq up'
      BY <3>1, <2>3, <2>4, <2>5
    <3>4. i \in 1 .. 12
      BY <2>2
    <3> QED BY <3>2, <3>3, <3>4 DEF StartedSoFar
  <2>7. call'[t].i + 1 = i
    BY <1>0, <1>2
  <2>8. UndoneCall(t)'
    BY <1>2, <2>6, <2>7 DEF UndoneCall
  <2> QED BY <1>2, <2>8 DEF CallInOrder
<1>4. /\ up' \subseteq Required \cup Optional
      /\ UNCHANGED <<worker, network, info>> /\ callbacks' \subseteq callbacks
  BY <1>0, PartsEnded DEF InstanceInv
<1>5. /\ last' \in {"started", "failed", "stopped"}
      /\ worker'.at \in WorkerPlaces /\ (worker'.at = "locked" => worker.at = "locked")
      /\ network' = network /\ info' \in Nat /\ info' <= network' /\ scenario' = scenario
  BY <1>0, <1>4 DEF InstanceInv, CallsAreTyped
<1>6. Inside(t)' /\ call'[t].at # "wait" /\ (call'[t].at \in {"lock", "locked"} => call'[t].i >= 1)
  BY <1>2 DEF Inside
<1> QED BY <1>1, <1>2, <1>3, <1>4, <1>5, <1>6, BusyStep

LEMMA StopPartInv ==
    ASSUME InstanceInv, OneCallerInv, NEW t \in Callers, StopPart(t)
    PROVE  InstanceInv' /\ OneCallerInv'
<1> PICK i : i = call[t].i
  OBVIOUS
<1> PICK part : part = StopOrder[i]
  OBVIOUS
<1>0. /\ t \in AllThreads /\ call[t].op = "Shutdown" /\ call[t].at = "locked" /\ i \in 1 .. 11
      /\ Ended(part)
      /\ Step(t, "locked", i + 1)
      /\ UNCHANGED <<last, scenario>>
  <2>1. t \in AllThreads
    BY DEF AllThreads
  <2>2. At(t, "Shutdown", "locked") /\ i <= 11
    BY StopPlaces DEF StopPart
  <2>3. i \in Int
    BY <2>1 DEF InstanceInv, CallsAreTyped, CallType
  <2>4. call[t].op = "Shutdown" /\ call[t].at = "locked"
    BY <2>2 DEF At
  <2>5. i >= 1
    BY <2>1, <2>4 DEF InstanceInv, CallsAreTyped
  <2>6. Ended(part) /\ Step(t, "locked", i + 1) /\ UNCHANGED <<last, scenario>>
    BY DEF StopPart
  <2>7. i \in 1 .. 11
    BY <2>2, <2>3, <2>5
  <2> QED BY <2>1, <2>4, <2>6, <2>7
<1>1. Inside(t)
  BY <1>0 DEF Inside
<1>2. /\ call' \in [AllThreads -> CallType]
      /\ call'[t].op = "Shutdown" /\ call'[t].at = "locked" /\ call'[t].i = i + 1
      /\ \A u \in AllThreads \ {t} : call'[u] = call[u]
      /\ holder' = holder
  <2>1. "locked" \in CallPlaces /\ i + 1 \in Int
    BY <1>0 DEF CallPlaces
  <2> QED BY <1>0, <2>1, Stepped DEF InstanceInv
<1>3. ASSUME CallInOrder(t) PROVE CallInOrder(t)'
  <2>1. StoppedSoFar(i)
    BY <1>0, <1>3 DEF CallInOrder, LockedCall
  <2>2. From(StopOrder, i) = From(StopOrder, i + 1) \cup {part}
    BY <1>0, NextFrom
  <2>3. part \notin From(StopOrder, i + 1)
    BY <1>0, OnePlaceEach DEF From
  <2>4. up' = up \ {part}
    BY <1>0 DEF Ended
  <2>5. i + 1 \in 1 .. 12
    BY <1>0
  <2>6. StoppedSoFar(i + 1)'
    BY <2>1, <2>2, <2>3, <2>4, <2>5 DEF StoppedSoFar
  <2>7. LockedCall(t)'
    BY <1>2, <2>6 DEF LockedCall
  <2> QED BY <1>2, <2>7 DEF CallInOrder
<1>4. /\ up' \subseteq Required \cup Optional
      /\ UNCHANGED <<worker, network, info>> /\ callbacks' \subseteq callbacks
  BY <1>0, PartsEnded DEF InstanceInv
<1>5. /\ last' \in {"started", "failed", "stopped"}
      /\ worker'.at \in WorkerPlaces /\ (worker'.at = "locked" => worker.at = "locked")
      /\ network' = network /\ info' \in Nat /\ info' <= network' /\ scenario' = scenario
  BY <1>0, <1>4 DEF InstanceInv, CallsAreTyped
<1>6. Inside(t)' /\ call'[t].at # "wait" /\ (call'[t].at \in {"lock", "locked"} => call'[t].i >= 1)
  BY <1>0, <1>2 DEF Inside
<1> QED BY <1>1, <1>2, <1>3, <1>4, <1>5, <1>6, BusyStep

LEMMA EndInv ==
    ASSUME InstanceInv, OneCallerInv, NEW t \in Callers, EndStartup(t) \/ EndShutdown(t)
    PROVE  InstanceInv' /\ OneCallerInv'
<1> PICK i : i = call[t].i
  OBVIOUS
<1>0. /\ t \in AllThreads /\ i \in Int
      /\ \/ call[t].op = "Startup" /\ call[t].at = "locked" /\ i > 11 /\ last' = "started"
         \/ call[t].op = "Startup" /\ call[t].at = "undo" /\ i <= 1 /\ last' = "failed"
         \/ call[t].op = "Shutdown" /\ call[t].at = "locked" /\ i > 11 /\ last' = "stopped"
      /\ call' = [call EXCEPT ![t] = Idle] /\ holder' = Nobody
      /\ UNCHANGED <<up, worker, network, info, callbacks, scenario>>
  BY StartPlaces, StopPlaces
  DEF EndStartup, EndShutdown, Return, At, AllThreads, KeepParts, envVars, InstanceInv,
      CallsAreTyped, CallType
<1>1. Inside(t)
  BY <1>0 DEF Inside
<1>2. /\ call' \in [AllThreads -> CallType] /\ call'[t].at = "idle"
      /\ \A u \in AllThreads \ {t} : call'[u] = call[u]
  BY <1>0, IdleType, Replaced DEF InstanceInv
<1>3. ASSUME CallInOrder(t) PROVE CallInOrder(t)' /\ AtRest'
  <2>1. CASE call[t].op = "Startup" /\ call[t].at = "locked" /\ i > 11 /\ last' = "started"
    <3>1. StartedSoFar(i)
      BY <1>3, <2>1 DEF CallInOrder, LockedCall
    <3>2. i = 12
      BY <1>0, <2>1, <3>1 DEF StartedSoFar
    <3>3. Required \subseteq up
      BY <3>1, <3>2, Ends DEF StartedSoFar
    <3> QED BY <1>0, <1>2, <2>1, <3>3 DEF AtRest, CallInOrder
  <2>2. CASE call[t].op = "Startup" /\ call[t].at = "undo" /\ i <= 1 /\ last' = "failed"
    <3>1. StartedSoFar(i + 1)
      BY <1>3, <2>2 DEF CallInOrder, UndoneCall
    <3>2. i + 1 \in {1, 2}
      BY <1>0, <2>2, <3>1 DEF StartedSoFar
    <3>3. Before(StartOrder, 2) = {"env"}
      BY NextBefore, Ends, StartPlaces
    <3>4. up \subseteq {"env"}
      BY <3>1, <3>2, <3>3, Ends DEF StartedSoFar
    <3> QED BY <1>0, <1>2, <2>2, <3>4 DEF AtRest, CallInOrder
  <2>3. CASE call[t].op = "Shutdown" /\ call[t].at = "locked" /\ i > 11 /\ last' = "stopped"
    <3>1. StoppedSoFar(i)
      BY <1>3, <2>3 DEF CallInOrder, LockedCall
    <3>2. i = 12
      BY <1>0, <2>3, <3>1 DEF StoppedSoFar
    <3>3. up \subseteq {"env"}
      BY <3>1, <3>2, Ends DEF StoppedSoFar
    <3> QED BY <1>0, <1>2, <2>3, <3>3 DEF AtRest, CallInOrder
  <2> QED BY <1>0, <2>1, <2>2, <2>3
<1>4. /\ up' \subseteq Required \cup Optional /\ last' \in {"started", "failed", "stopped"}
      /\ worker'.at \in WorkerPlaces /\ (worker'.at = "locked" => worker.at = "locked")
      /\ network' = network /\ info' \in Nat /\ info' <= network'
      /\ callbacks' \subseteq callbacks /\ scenario' = scenario
  BY <1>0 DEF InstanceInv, CallsAreTyped
<1>5. call'[t].at \in {"lock", "locked"} => call'[t].i >= 1
  BY <1>2
<1> QED BY <1>0, <1>1, <1>2, <1>3, <1>4, <1>5, BusyStep

LEMMA SwitchInv ==
    ASSUME InstanceInv, OneCallerInv, NEW t \in Callers, Switch(t)
    PROVE  InstanceInv' /\ OneCallerInv'
<1>0. /\ t \in AllThreads /\ call[t].op \in {"Enable", "Disable"} /\ call[t].at = "locked"
      /\ call[t].arg \subseteq Optional
      /\ call' = [call EXCEPT ![t] = Idle] /\ holder' = Nobody
      /\ UNCHANGED <<last, scenario>>
  BY DEF Switch, Return, AllThreads, InstanceInv, CallsAreTyped, CallType
<1>1. PICK part \in call[t].arg : Begun(part) \/ KeepParts \/ Ended(part)
  BY DEF Switch
<1>2. Inside(t)
  BY <1>0 DEF Inside
<1>3. /\ call' \in [AllThreads -> CallType] /\ call'[t].at = "idle"
      /\ \A u \in AllThreads \ {t} : call'[u] = call[u]
  BY <1>0, IdleType, Replaced DEF InstanceInv
<1>4. /\ up' \in {up, up \cup {part}, up \ {part}}
      /\ up' \subseteq Required \cup Optional
      /\ worker'.at \in WorkerPlaces /\ (worker'.at = "locked" => worker.at = "locked")
      /\ network' = network /\ info' \in Nat /\ info' <= network'
      /\ callbacks' \subseteq callbacks
  <2>1. CASE Begun(part)
    BY <1>0, <2>1, PartsBegun DEF InstanceInv
  <2>2. CASE KeepParts
    BY <2>2 DEF KeepParts, envVars, InstanceInv, CallsAreTyped
  <2>3. CASE Ended(part)
    BY <2>3, PartsEnded DEF InstanceInv, CallsAreTyped
  <2> QED BY <1>1, <2>1, <2>2, <2>3
<1>5. ASSUME CallInOrder(t) PROVE CallInOrder(t)' /\ AtRest'
  <2>1. call[t].arg \subseteq Switched /\ Required \subseteq up /\ last = "started"
    BY <1>0, <1>5 DEF CallInOrder, LockedCall
  <2>2. part \notin Required
    BY <2>1 DEF Switched, Listeners, Required
  <2>3. Required \subseteq up'
    BY <1>4, <2>1, <2>2
  <2> QED BY <1>0, <1>3, <2>1, <2>3 DEF AtRest, CallInOrder
<1>6. last' \in {"started", "failed", "stopped"}
      /\ (call'[t].at \in {"lock", "locked"} => call'[t].i >= 1) /\ scenario' = scenario
  BY <1>0, <1>3 DEF InstanceInv, CallsAreTyped
<1> QED BY <1>0, <1>2, <1>3, <1>4, <1>5, <1>6, BusyStep

-----------------------------------------------------------------------------
(* Steps beside m_Mutex: of callers that wait, of the environment and of the *)
(* worker.                                                                   *)

\* One thread at most leaves or reaches a wait; nothing else of the calls changes.
LEMMA WaitingStep ==
    ASSUME InstanceInv, OneCallerInv,
           call' \in [AllThreads -> CallType],
           \A u \in AllThreads : \/ call'[u] = call[u]
                                 \/ {call'[u].at, call[u].at} \subseteq {"idle", "wait"},
           UNCHANGED <<up, holder, last, worker, scenario>>,
           \A u \in callbacks' : u \in AllThreads /\ call'[u].at = "wait",
           network' \in Nat, info' \in Nat, info' <= network'
    PROVE  InstanceInv' /\ OneCallerInv'
<1>1. CallsAreTyped'
  BY DEF InstanceInv, CallsAreTyped
<1>2. \A u \in AllThreads : /\ Inside(u)' => Inside(u)
                            /\ call'[u].at \notin {"idle", "wait"} => call'[u] = call[u]
  BY DEF Inside
<1>3. OnlyCallersCall'
  BY <1>2 DEF InstanceInv, OnlyCallersCall
<1>4. MutexIsHeld'
  BY <1>2 DEF InstanceInv, MutexIsHeld
<1>5. ASSUME OneCaller' PROVE CallsInOrder'
  <2>1. OneCaller /\ CallsInOrder
    BY <1>5 DEF OneCaller, OneCallerInv
  <2> QED BY <2>1, NothingMoves
<1> QED BY <1>1, <1>3, <1>4, <1>5 DEF InstanceInv, OneCallerInv

LEMMA ConnectInv ==
    ASSUME InstanceInv, OneCallerInv, NEW t \in AllThreads, Connect(t)
    PROVE  InstanceInv' /\ OneCallerInv'
<1>0. /\ call[t].at = "idle"
      /\ \/ Begin(t, "Connect", {}, "wait") /\ callbacks' = callbacks \cup {t}
         \/ UNCHANGED <<call, callbacks>>
      /\ UNCHANGED <<up, holder, last, worker, network, info, scenario>>
  BY DEF Connect, envVars
<1>1. /\ call \in [AllThreads -> CallType]
      /\ \A u \in callbacks : u \in AllThreads /\ call[u].at = "wait"
      /\ network \in Nat /\ info \in Nat /\ info <= network
  BY DEF InstanceInv, CallsAreTyped, OnlyCallersCall
<1>2. CASE UNCHANGED <<call, callbacks>>
  BY <1>0, <1>1, <1>2, WaitingStep
<1>3. CASE Begin(t, "Connect", {}, "wait") /\ callbacks' = callbacks \cup {t}
  <2> DEFINE x == [op |-> "Connect", arg |-> {}, at |-> "wait", i |-> 1]
  <2>1. x \in CallType /\ x.at = "wait"
    BY DEF CallType, CallPlaces
  <2>2. call' = [call EXCEPT ![t] = x]
    BY <1>3 DEF Begin
  <2> HIDE DEF x
  <2>3. /\ call' \in [AllThreads -> CallType] /\ call'[t] = x
        /\ \A u \in AllThreads \ {t} : call'[u] = call[u]
    BY <2>1, <2>2, Replaced DEF InstanceInv
  <2> QED BY <1>0, <1>1, <1>3, <2>1, <2>3, WaitingStep
<1> QED BY <1>0, <1>2, <1>3

LEMMA PeerCallbackInv ==
    ASSUME InstanceInv, OneCallerInv, NEW t \in AllThreads, PeerCallback(t)
    PROVE  InstanceInv' /\ OneCallerInv'
<1>0. /\ t \in callbacks /\ callbacks' = callbacks \ {t}
      /\ call' = [call EXCEPT ![t] = Idle]
      /\ UNCHANGED <<up, holder, last, worker, network, info, scenario>>
  BY DEF PeerCallback, envVars
<1>1. /\ \A u \in callbacks : u \in AllThreads /\ call[u].at = "wait"
      /\ network \in Nat /\ info \in Nat /\ info <= network
  BY DEF InstanceInv, CallsAreTyped, OnlyCallersCall
<1>2. /\ call' \in [AllThreads -> CallType] /\ call'[t].at = "idle"
      /\ \A u \in AllThreads \ {t} : call'[u] = call[u]
  BY <1>0, IdleType, Replaced DEF InstanceInv
<1> QED BY <1>0, <1>1, <1>2, WaitingStep

LEMMA EnvironmentInv ==
    ASSUME InstanceInv, OneCallerInv, NetworkChanges \/ OnUnhandledExtenderException
    PROVE  InstanceInv' /\ OneCallerInv'
<1>0. UNCHANGED <<up, holder, call, last, callbacks, worker, scenario, info>>
  BY DEF NetworkChanges, OnUnhandledExtenderException, envVars
<1>1. /\ call \in [AllThreads -> CallType]
      /\ \A u \in callbacks : u \in AllThreads /\ call[u].at = "wait"
      /\ network \in Nat /\ info \in Nat /\ info <= network
  BY DEF InstanceInv, CallsAreTyped, OnlyCallersCall
<1>2. network' \in {network, network + 1}
  BY DEF NetworkChanges, OnUnhandledExtenderException, envVars
<1>3. network' \in Nat /\ info <= network'
  BY <1>1, <1>2
<1> QED BY <1>0, <1>1, <1>3, WaitingStep

\* The worker's step keeps the calls, and takes m_Mutex only when nobody has it.
LEMMA WorkerMoves ==
    ASSUME InstanceInv, OneCallerInv,
           UNCHANGED <<up, call, last, callbacks, network, scenario>>,
           worker'.at \in WorkerPlaces, info' \in {info, network},
           \/ holder' = holder /\ (worker'.at = "locked" => worker.at = "locked")
           \/ holder = Nobody /\ holder' = "worker"
           \/ worker.at = "locked" /\ holder' = Nobody /\ worker'.at # "locked"
    PROVE  InstanceInv' /\ OneCallerInv'
<1>1. CallsAreTyped'
  BY DEF InstanceInv, CallsAreTyped
<1>2. OnlyCallersCall'
  BY DEF InstanceInv, OnlyCallersCall
<1>3. MutexIsHeld'
  <2>1. CASE holder' = holder /\ (worker'.at = "locked" => worker.at = "locked")
    BY <2>1 DEF InstanceInv, MutexIsHeld, Inside
  <2>2. ASSUME holder \notin Callers PROVE \A u \in AllThreads : ~Inside(u)
    BY <2>2 DEF InstanceInv, MutexIsHeld, OnlyCallersCall, Inside
  <2>3. CASE holder = Nobody /\ holder' = "worker"
    BY <2>2, <2>3, InstanceAssumption DEF MutexIsHeld, Inside
  <2>4. CASE worker.at = "locked" /\ holder' = Nobody /\ worker'.at # "locked"
    <3>1. holder = "worker" /\ holder \notin Callers
      BY <2>4, InstanceAssumption DEF InstanceInv, MutexIsHeld
    <3> QED BY <2>2, <2>4, <3>1 DEF MutexIsHeld, Inside
  <2> QED BY <2>1, <2>3, <2>4
<1>4. ASSUME OneCaller' PROVE CallsInOrder'
  <2>1. OneCaller /\ CallsInOrder
    BY <1>4 DEF OneCaller, OneCallerInv
  <2>2. \A u \in AllThreads : call'[u] = call[u]
    OBVIOUS
  <2> QED BY <2>1, <2>2, NothingMoves
<1> QED BY <1>1, <1>2, <1>3, <1>4 DEF InstanceInv, OneCallerInv

\* The worker leaves m_Mutex alone in its other steps.
LEMMA WorkerElsewhere ==
    ASSUME Take \/ WorkerExits \/ BeginUpdate \/ EndUpdate \/ CheckRunning
    PROVE  /\ worker'.at \in {"gone", "idle", "update", "updating", "check", "lock"}
           /\ holder' = holder /\ info' \in {info, network}
<1>1. ASSUME NEW place, NEW what, WorkerTo(place, what) PROVE worker'.at = place
  BY <1>1 DEF WorkerTo
<1>2. CASE Take
  BY <1>1, <1>2 DEF Take
<1>3. CASE WorkerExits
  BY <1>1, <1>3 DEF WorkerExits
<1>4. CASE BeginUpdate
  BY <1>1, <1>4 DEF BeginUpdate
<1>5. CASE EndUpdate
  BY <1>1, <1>5 DEF EndUpdate
<1>6. CASE CheckRunning
  BY <1>1, <1>6 DEF CheckRunning
<1> QED BY <1>2, <1>3, <1>4, <1>5, <1>6

LEMMA PoolWorkerInv ==
    ASSUME InstanceInv, OneCallerInv, PoolWorkerStep
    PROVE  InstanceInv' /\ OneCallerInv'
<1>0. UNCHANGED <<up, call, last, callbacks, network, scenario>>
  BY DEF PoolWorkerStep, KeepCalls, Take, WorkerExits, BeginUpdate, EndUpdate, CheckRunning,
         WorkerLock, WorkerActs
<1>1. CASE Take \/ WorkerExits \/ BeginUpdate \/ EndUpdate \/ CheckRunning
  <2>1. /\ worker'.at \in WorkerPlaces /\ worker'.at # "locked"
        /\ holder' = holder /\ info' \in {info, network}
    BY <1>1, WorkerElsewhere DEF WorkerPlaces
  <2> QED BY <1>0, <2>1, WorkerMoves
<1>2. CASE WorkerLock
  <2>1. holder = Nobody /\ holder' = "worker" /\ worker'.at = "locked" /\ info' = info
    BY <1>2 DEF WorkerLock, WorkerTo
  <2> QED BY <1>0, <2>1, WorkerMoves DEF WorkerPlaces
<1>3. CASE WorkerActs
  <2>1. worker.at = "locked" /\ holder' = Nobody /\ worker'.at = "idle" /\ info' = info
    BY <1>3 DEF WorkerActs, WorkerTo
  <2> QED BY <1>0, <2>1, WorkerMoves DEF WorkerPlaces
<1> QED BY <1>1, <1>2, <1>3 DEF PoolWorkerStep

LEMMA GetEnvironmentInv ==
    ASSUME InstanceInv, OneCallerInv, NEW t \in Callers, GetEnvironment(t)
    PROVE  InstanceInv' /\ OneCallerInv'
<1>0. /\ t \in AllThreads /\ t \in scenario.callers /\ call[t].at = "idle" /\ Begun("env")
      /\ UNCHANGED <<holder, call, last, scenario>>
  BY DEF GetEnvironment, AllThreads
<1>1. /\ up' = up \cup {"env"} /\ up' \subseteq Required \cup Optional
      /\ worker'.at \in WorkerPlaces /\ (worker'.at = "locked" => worker.at = "locked")
      /\ network' = network /\ info' \in Nat /\ info' <= network' /\ callbacks' = callbacks
  BY <1>0, PartsBegun DEF InstanceInv, Required
<1>2. CallsAreTyped'
  BY <1>0, <1>1 DEF InstanceInv, CallsAreTyped
<1>3. OnlyCallersCall'
  BY <1>0, <1>1 DEF InstanceInv, OnlyCallersCall
<1>4. MutexIsHeld'
  BY <1>0, <1>1 DEF InstanceInv, MutexIsHeld, Inside
<1>5. ASSUME OneCaller' PROVE CallsInOrder'
  <2>0. OneCaller /\ CallsInOrder
    BY <1>0, <1>5 DEF OneCaller, OneCallerInv
  <2>1. \A u \in AllThreads \ {t} : call[u].at \in {"idle", "wait"}
    BY <1>0, <2>0, OthersRest
  <2>2. AtRest
    BY <1>0, <2>0, <2>1 DEF CallsInOrder, Inside
  <2>3. CallInOrder(t)' /\ AtRest'
    BY <1>0, <1>1, <2>2 DEF CallInOrder, AtRest
  <2> QED BY <1>0, <2>1, <2>3, OneMoves
<1> QED BY <1>2, <1>3, <1>4, <1>5 DEF InstanceInv, OneCallerInv

LEMMA InstanceStarts == InstanceInit => InstanceInv /\ OneCallerInv
<1> SUFFICES ASSUME InstanceInit PROVE InstanceInv /\ OneCallerInv
  OBVIOUS
<1>1. call = [t \in AllThreads |-> Idle] /\ \A t \in AllThreads : call[t].at = "idle"
  BY IdleType DEF InstanceInit, AllThreads
<1>2. CallsAreTyped
  BY <1>1, IdleType DEF InstanceInit, CallsAreTyped, WorkerPlaces
<1>3. OnlyCallersCall /\ MutexIsHeld
  BY <1>1 DEF InstanceInit, OnlyCallersCall, MutexIsHeld, Inside
<1>4. CallsInOrder
  BY <1>1 DEF InstanceInit, CallsInOrder, CallInOrder, AtRest
<1> QED BY <1>2, <1>3, <1>4 DEF InstanceInv, OneCallerInv

LEMMA InstanceStep ==
    ASSUME InstanceInv, OneCallerInv, [InstanceNext]_localVars
    PROVE  InstanceInv' /\ OneCallerInv'
<1>1. CASE UNCHANGED localVars
  <2>1. /\ call \in [AllThreads -> CallType]
        /\ \A u \in callbacks : u \in AllThreads /\ call[u].at = "wait"
        /\ network \in Nat /\ info \in Nat /\ info <= network
    BY DEF InstanceInv, CallsAreTyped, OnlyCallersCall
  <2> QED BY <1>1, <2>1, WaitingStep DEF localVars, envVars
<1>2. ASSUME NEW t \in Callers, Call(t) \/ GetEnvironment(t) \/ CallerStep(t)
      PROVE  InstanceInv' /\ OneCallerInv'
  BY <1>2, CallInv, GetEnvironmentInv, LockInv, StartPartInv, StartPartFailsInv, UndoPartInv,
     EndInv, StopPartInv, SwitchInv DEF CallerStep
<1>3. ASSUME NEW t \in AllThreads, Connect(t) \/ PeerCallback(t)
      PROVE  InstanceInv' /\ OneCallerInv'
  BY <1>3, ConnectInv, PeerCallbackInv
<1> QED BY <1>1, <1>2, <1>3, EnvironmentInv, PoolWorkerInv DEF InstanceNext, AllThreads

\* In every state at most one thread is inside m_Mutex, only threads that may call do, and
\* whoever starts, undoes or stops the parts in Local::Startup and Local::Shutdown has come
\* as far as its step says; when nobody does, all that is required runs or nothing does.
THEOREM InstanceInvariant == InstanceSpec => [](InstanceInv /\ OneCallerInv)
<1>1. InstanceInit => InstanceInv /\ OneCallerInv
  BY InstanceStarts
<1>2. (InstanceInv /\ OneCallerInv) /\ [InstanceNext]_localVars => (InstanceInv /\ OneCallerInv)'
  BY InstanceStep
<1> QED BY <1>1, <1>2, PTL DEF InstanceSpec

\* The parts, the threads' places and the versions of the network that LocalInstance has stay
\* in their types, and a thread that starts parts holds m_Mutex.
THEOREM InstanceTypeCorrect == InstanceSpec => []InstanceTypeOK
<1>1. InstanceInv => InstanceTypeOK
  BY DEF InstanceInv, CallsAreTyped, MutexIsHeld, Inside, InstanceTypeOK, AllThreads, WorkerPlaces
<1> QED BY <1>1, InstanceInvariant, PTL

LEMMA RestedParts ==
    ASSUME AtRest, up \subseteq Required \cup Optional
    PROVE  /\ up \cap Switched # {} => "peers" \in up
           /\ "peers" \in up => {"udp", "pool"} \subseteq up
           /\ Running => {"env", "peers"} \subseteq up
BY DEF AtRest, Switched, Listeners, Required, Running

LEMMA StartedParts ==
    ASSUME NEW i, StartedSoFar(i)
    PROVE  /\ up \cap Switched # {} => "peers" \in up
           /\ "peers" \in up => {"udp", "pool"} \subseteq up
           /\ Running => {"env", "peers"} \subseteq up
<1>0. i \in 1 .. 12
  BY DEF StartedSoFar
<1>1. \A part \in up \ {"env"} : \E j \in 1 .. 11 : j < i /\ part = StartOrder[j]
  BY DEF StartedSoFar, Before
<1>2. \A j \in 1 .. 11 : j < i /\ StartOrder[j] \in Required => StartOrder[j] \in up
  BY DEF StartedSoFar, Before
<1>3. {"env", "pool", "udp", "peers"} \subseteq Required /\ "env" \notin Switched
  BY DEF Required, Switched, Listeners
<1>4. ASSUME i > 5 PROVE {"env", "pool", "udp", "peers"} \subseteq up
  BY <1>0, <1>2, <1>3, <1>4, StartPlaces
<1>5. up \cap Switched # {} => i > 5
  BY <1>0, <1>1, <1>3, StartPlaces
<1>6. "peers" \in up \/ Running => i > 5
  BY <1>0, <1>1, StartPlaces DEF Running
<1> QED BY <1>4, <1>5, <1>6

LEMMA StoppedParts ==
    ASSUME NEW i, StoppedSoFar(i), up \subseteq Required \cup Optional
    PROVE  /\ up \cap Switched # {} => "peers" \in up
           /\ "peers" \in up => {"udp", "pool"} \subseteq up
           /\ Running => {"env", "peers"} \subseteq up
<1>0. i \in 1 .. 12
  BY DEF StoppedSoFar
<1>1. \A part \in up \ {"env"} : \E j \in 1 .. 11 : j >= i /\ part = StopOrder[j]
  BY DEF StoppedSoFar, From
<1>2. \A j \in 1 .. 11 : j >= i /\ StopOrder[j] \in Required => StopOrder[j] \in up
  BY DEF StoppedSoFar, From
<1>3. {"env", "pool", "udp", "peers"} \subseteq Required /\ "env" \notin Switched
  BY DEF Required, Switched, Listeners
<1>4. ASSUME i <= 7 PROVE {"env", "pool", "udp", "peers"} \subseteq up
  BY <1>0, <1>2, <1>3, <1>4, StopPlaces
<1>5. up \cap Switched # {} => i <= 7
  BY <1>0, <1>1, <1>3, StopPlaces
<1>6. "peers" \in up \/ Running => i <= 7
  BY <1>0, <1>1, StopPlaces DEF Running
<1> QED BY <1>4, <1>5, <1>6

LEMMA WholeByOrder ==
    ASSUME InstanceInv, OneCallerInv
    PROVE  InstanceIsWhole
<1>1. ASSUME OneCaller, holder = Nobody PROVE AtRest
  <2>1. \A t \in AllThreads : ~Inside(t)
    BY <1>1, InstanceAssumption DEF InstanceInv, MutexIsHeld, OnlyCallersCall, Inside
  <2> QED BY <1>1, <2>1 DEF OneCallerInv, CallsInOrder
<1>2. AllOrNothing
  BY <1>1 DEF AllOrNothing, AtRest
<1>3. ASSUME OneCaller
      PROVE  /\ up \cap Switched # {} => "peers" \in up
             /\ "peers" \in up => {"udp", "pool"} \subseteq up
             /\ Running => {"env", "peers"} \subseteq up
  <2>0. CallsInOrder /\ up \subseteq Required \cup Optional
    BY <1>3 DEF OneCallerInv, InstanceInv, CallsAreTyped
  <2>1. CASE AtRest
    BY <2>0, <2>1, RestedParts
  <2>2. CASE ~AtRest
    <3>1. PICK t \in AllThreads : Inside(t) /\ CallInOrder(t)
      BY <2>0, <2>2 DEF CallsInOrder
    <3>2. CASE \E i : StartedSoFar(i)
      BY <3>2, StartedParts
    <3>3. CASE \E i : StoppedSoFar(i)
      BY <2>0, <3>3, StoppedParts
    <3>4. CASE Required \subseteq up
      BY <3>4 DEF Required, Running
    <3> QED BY <3>1, <3>2, <3>3, <3>4 DEF CallInOrder, Inside, LockedCall, UndoneCall
  <2> QED BY <2>1, <2>2
<1>4. LayersRest
  BY <1>3 DEF LayersRest
<1> QED BY <1>2, <1>4 DEF InstanceIsWhole

\* As long as one thread at a time calls Startup, Shutdown and the switches, the parts of an
\* instance run together or not at all, however a start fails, and at each step on the way
\* connections only on top of the peer manager and it only on top of the UDP connections.
THEOREM InstanceWhole == InstanceSpec => []InstanceIsWhole
BY InstanceInvariant, WholeByOrder, PTL

=============================================================================
