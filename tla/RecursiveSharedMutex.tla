------------------------ MODULE RecursiveSharedMutex ------------------------
(***************************************************************************)
(* The lock on every peer: Concurrency/RecursiveSharedMutex.cpp.  A step   *)
(* is what a thread does while it is in m_CriticalSection; a notification  *)
(* comes after it has left.  A thread that waits on a condition sleeps     *)
(* until it is notified, and then looks again.                             *)
(***************************************************************************)
EXTENDS Integers, FiniteSets

CONSTANTS
    Threads, NoThread,
    MaxNumLocks,    \* of one kind at a time
    MaxRequests     \* bound of this model: requests of a thread

ASSUME MutexAssumption ==
    /\ NoThread \notin Threads
    /\ MaxNumLocks \in Nat \ {0}

VARIABLES
    exclusiveThread,    \* m_ExclusiveThreadID
    exclusiveCount,     \* m_ExclusiveLockCount
    sharedCount,        \* m_SharedLockCount
    whereIs,            \* where each thread is
    asleep,             \* threads that sleep on a condition
    notify,             \* what each thread has still to notify
    requests            \* how many each has made

mutexVars == <<exclusiveThread, exclusiveCount, sharedCount, whereIs, asleep, notify, requests>>

Places == {"idle", "waitsToClaim", "claimed", "exclusive", "waitsToShare", "shared"}
Notices == {"none", "allOf1", "oneOf1", "oneOf2"}

MutexInit ==
    /\ exclusiveThread = NoThread /\ exclusiveCount = 0 /\ sharedCount = 0
    /\ whereIs = [t \in Threads |-> "idle"]
    /\ asleep = {}
    /\ notify = [t \in Threads |-> "none"]
    /\ requests = [t \in Threads |-> 0]

Goes(t, p) == whereIs' = [whereIs EXCEPT ![t] = p]
Awake(t) == t \notin asleep /\ notify[t] = "none"
Request(t) ==
    /\ Awake(t) /\ whereIs[t] = "idle" /\ requests[t] < MaxRequests
    /\ requests' = [requests EXCEPT ![t] = @ + 1]

\* Who sleeps on m_Condition1, and on m_Condition2.
Sleeping1 == {t \in asleep : whereIs[t] \in {"waitsToClaim", "waitsToShare"}}
Sleeping2 == {t \in asleep : whereIs[t] = "claimed"}

-----------------------------------------------------------------------------
(* The exclusive lock.                                                     *)

\* Mutant: who claims looks at the other claims only.
ClaimAtOnce(t) ==
    /\ exclusiveThread' = t /\ exclusiveCount' = 1
    /\ Goes(t, "exclusive") /\ UNCHANGED asleep

\* The claim keeps others from the shared lock; those who hold it may keep it.
Claim(t) ==
    /\ exclusiveThread' = t /\ exclusiveCount' = 1
    /\ IF sharedCount # 0 THEN Goes(t, "claimed") /\ asleep' = asleep \cup {t}
       ELSE Goes(t, "exclusive") /\ UNCHANGED asleep

Lock(t) ==
    /\ Request(t)
    /\ IF exclusiveCount # 0
       THEN /\ Goes(t, "waitsToClaim") /\ asleep' = asleep \cup {t}
            /\ UNCHANGED <<exclusiveThread, exclusiveCount>>
       ELSE Claim(t)
    /\ UNCHANGED <<sharedCount, notify>>

ClaimAfterWait(t) ==
    /\ Awake(t) /\ whereIs[t] = "waitsToClaim" /\ exclusiveCount = 0
    /\ Claim(t)
    /\ UNCHANGED <<sharedCount, notify, requests>>

EnterAfterWait(t) ==
    /\ Awake(t) /\ whereIs[t] = "claimed" /\ sharedCount = 0
    /\ Goes(t, "exclusive")
    /\ UNCHANGED <<exclusiveThread, exclusiveCount, sharedCount, asleep, notify, requests>>

LockAgain(t) ==
    /\ Awake(t) /\ whereIs[t] = "exclusive" /\ exclusiveCount < MaxNumLocks
    /\ requests[t] < MaxRequests /\ requests' = [requests EXCEPT ![t] = @ + 1]
    /\ exclusiveCount' = exclusiveCount + 1
    /\ UNCHANGED <<exclusiveThread, sharedCount, whereIs, asleep, notify>>

TryLock(t) ==
    /\ Request(t) /\ exclusiveCount = 0 /\ sharedCount = 0
    /\ exclusiveThread' = t /\ exclusiveCount' = 1
    /\ Goes(t, "exclusive")
    /\ UNCHANGED <<sharedCount, asleep, notify>>

Unlock(t) ==
    /\ Awake(t) /\ whereIs[t] = "exclusive"
    /\ exclusiveCount' = exclusiveCount - 1
    /\ IF exclusiveCount = 1
       THEN /\ exclusiveThread' = NoThread /\ Goes(t, "idle")
            /\ notify' = [notify EXCEPT ![t] = "allOf1"]
       ELSE UNCHANGED <<exclusiveThread, whereIs, notify>>
    /\ UNCHANGED <<sharedCount, asleep, requests>>

-----------------------------------------------------------------------------
(* The shared lock.                                                        *)

MayShare == exclusiveCount = 0 /\ sharedCount < MaxNumLocks

LockShared(t) ==
    /\ Request(t)
    /\ IF MayShare THEN Goes(t, "shared") /\ sharedCount' = sharedCount + 1 /\ UNCHANGED asleep
       ELSE Goes(t, "waitsToShare") /\ asleep' = asleep \cup {t} /\ UNCHANGED sharedCount
    /\ UNCHANGED <<exclusiveThread, exclusiveCount, notify>>

ShareAfterWait(t) ==
    /\ Awake(t) /\ whereIs[t] = "waitsToShare" /\ MayShare
    /\ Goes(t, "shared") /\ sharedCount' = sharedCount + 1
    /\ UNCHANGED <<exclusiveThread, exclusiveCount, asleep, notify, requests>>

TryLockShared(t) ==
    /\ Request(t) /\ MayShare
    /\ Goes(t, "shared") /\ sharedCount' = sharedCount + 1
    /\ UNCHANGED <<exclusiveThread, exclusiveCount, asleep, notify>>

\* Mutant: only the last one of a full house is noticed.
NoticeOfFull == IF sharedCount = MaxNumLocks THEN "oneOf1" ELSE "none"

\* unlock_shared: "wake".
NoticeOfShared ==
    IF exclusiveCount > 0 THEN IF sharedCount = 1 THEN "oneOf2" ELSE "none"
    ELSE IF sharedCount = MaxNumLocks THEN "oneOf1" ELSE "none"

UnlockShared(t) ==
    /\ Awake(t) /\ whereIs[t] = "shared"
    /\ sharedCount' = sharedCount - 1 /\ Goes(t, "idle")
    /\ notify' = [notify EXCEPT ![t] = NoticeOfShared]
    /\ UNCHANGED <<exclusiveThread, exclusiveCount, asleep, requests>>

-----------------------------------------------------------------------------
(* Conditions.                                                             *)

Wakes(some) == asleep' = asleep \ some

Notify(t) ==
    /\ notify[t] # "none"
    /\ notify' = [notify EXCEPT ![t] = "none"]
    /\ \/ notify[t] = "allOf1" /\ Wakes(Sleeping1)
       \/ notify[t] = "oneOf1" /\ \E u \in Sleeping1 : Wakes({u})
       \/ notify[t] = "oneOf1" /\ Sleeping1 = {} /\ UNCHANGED asleep
       \/ notify[t] = "oneOf2" /\ Wakes(Sleeping2)
    /\ UNCHANGED <<exclusiveThread, exclusiveCount, sharedCount, whereIs, requests>>

\* ConditionVariable::Wait with a predicate that does not hold.
SleepAgain(t) ==
    /\ Awake(t)
    /\ \/ whereIs[t] = "waitsToClaim" /\ exclusiveCount # 0
       \/ whereIs[t] = "claimed" /\ sharedCount # 0
       \/ whereIs[t] = "waitsToShare" /\ ~MayShare
    /\ asleep' = asleep \cup {t}
    /\ UNCHANGED <<exclusiveThread, exclusiveCount, sharedCount, whereIs, notify, requests>>

Acquire(t) == Lock(t) \/ TryLock(t) \/ LockAgain(t) \/ LockShared(t) \/ TryLockShared(t)
Proceed(t) ==
    \/ ClaimAfterWait(t) \/ EnterAfterWait(t) \/ ShareAfterWait(t)
    \/ SleepAgain(t) \/ Notify(t)
Release(t) == Unlock(t) \/ UnlockShared(t)

MutexNext == \E t \in Threads : Acquire(t) \/ Proceed(t) \/ Release(t)

MutexSpec == MutexInit /\ [][MutexNext]_mutexVars

\* Threads go on, and whoever has the lock gives it back.
MutexFairness == \A t \in Threads : WF_mutexVars(Proceed(t)) /\ SF_mutexVars(Release(t))

MutexFairSpec == MutexSpec /\ MutexFairness

-----------------------------------------------------------------------------
(* Properties.                                                             *)

MutexTypeOK ==
    /\ exclusiveThread \in Threads \cup {NoThread}
    /\ exclusiveCount \in 0 .. MaxNumLocks
    /\ sharedCount \in 0 .. MaxNumLocks
    /\ whereIs \in [Threads -> Places]
    /\ asleep \in SUBSET Threads
    /\ notify \in [Threads -> Notices]

\* Who has the exclusive lock is alone, however claims, waits and recursion overlap.
Exclusion ==
    \A t, u \in Threads :
        whereIs[t] = "exclusive" /\ u # t => whereIs[u] \notin {"exclusive", "shared"}

\* Nobody waits for ever while the others come and go: no notification is lost.
GetsIn(t) ==
    whereIs[t] \in {"waitsToClaim", "claimed", "waitsToShare"}
        ~> whereIs[t] \in {"exclusive", "shared"}
EveryoneGetsIn == \A t \in Threads : GetsIn(t)
=============================================================================
