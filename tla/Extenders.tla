------------------------------ MODULE Extenders ------------------------------
(***************************************************************************)
(* One extender of the local instance: Core/Extender, and the part of      *)
(* Core/Peer that tells it of peers.  The manager thread, one at a time    *)
(* under m_Mutex, adds, starts, stops and removes the extender; a thread   *)
(* that works on a peer holds the peer's lock and hands the extender the   *)
(* peer's events and messages; the threads of the extender's own pools     *)
(* pass them to the extender's callbacks, which may take the peer's lock.  *)
(*                                                                         *)
(* What a thread does under one lock is one action.  The locks that are    *)
(* held from one action to another are modelled: a peer's (calling[p] is   *)
(* not NoItem), m_Extenders shared (the same), m_Data by the thread that     *)
(* stops the pools (step = "join").                                        *)
(***************************************************************************)
EXTENDS Naturals, FiniteSets, SequencesExt

CONSTANTS
    NoItem,           \* no event, no session
    Peers,          \* the peers, by LUID
    Messages,       \* the messages in the order in which they arrive
    MaxBurst,       \* WorkerThreadsMaxBurst
    Settings       \* settings, and bounds of what the environment does

Events == {"Connected", "Suspended", "Resumed", "Disconnected"}
Msgs == {Messages[a] : a \in DOMAIN Messages}
Items == Events \cup Msgs

\* Messages differ from each other and from events, there are as many as the peers may
\* send, and a thread passes on at least one item of a burst.
ExtendersAssumption ==
    /\ Messages \in Seq(Msgs)
    /\ \A a, b \in DOMAIN Messages : Messages[a] = Messages[b] => a = b
    /\ Msgs \cap Events = {}
    /\ NoItem \notin Items /\ NoItem \notin Nat
    /\ MaxBurst \in Nat /\ MaxBurst >= 1
    /\ \A s \in Settings : s.messages \in 0 .. Len(Messages)

ASSUME ExtendersConstants == ExtendersAssumption

VARIABLES
    present,    \* does the control hold an extender
    enabled,    \* Manager::m_Running
    status,     \* Control::m_Status
    listed,     \* is the extender on the list of active ones
    recent,     \* is SteadyTimeRemoved within the grace period
    step, bulk, left,   \* where the manager's operation is, is it one on all
                \* extenders, the peers its callback has still to tell
    ended,      \* the pools that the stopping thread has told to stop
    peer,       \* st, has: status and, does the peer run the extender; told,
                \* sent: does it know that we do, the last update sent to it
    calling,    \* the event being handed over by the thread that locks the peer
    sessions,   \* every Control::Peer made since the last start
    known,      \* Data::Peers
    queue,      \* ThreadPoolData::Queue of each pool
    thread,     \* the threads of the pools
    heard,      \* what the extender was told, per session
    alarms,     \* assertions that have failed
    dropped,    \* peers condemned for a message that nobody handled
    setting, spent

managerVars == <<present, enabled, status, listed, recent, step, bulk, left, ended>>
controlVars == <<sessions, known, queue>>
extVars == <<managerVars, peer, calling, controlVars, thread, heard, alarms, dropped,
             setting, spent>>

Statuses == {"Startup", "Running", "Shutdown", "Stopped"}
Pools == {w[1] : w \in setting.workers}
Threads == setting.workers
NoWork(place) == [at |-> place, id |-> NoItem, num |-> 0, item |-> NoItem]

Count(what) == spent' = [spent EXCEPT ![what] = @ + 1]
Within(what) == spent[what] < setting[what]

ExtendersInit ==
    /\ setting \in Settings
    /\ spent = [starts |-> 0, changes |-> 0, messages |-> 0]
    /\ present = FALSE /\ enabled = TRUE /\ status = "Stopped" /\ listed = FALSE
    /\ recent = FALSE
    /\ step = "idle" /\ bulk = FALSE /\ left = {} /\ ended = {}
    /\ peer = [p \in Peers |->
                [st |-> "SessionInit", has |-> TRUE, told |-> FALSE, sent |-> FALSE]]
    /\ calling = [p \in Peers |-> NoItem]
    /\ sessions = <<>> /\ known = [p \in Peers |-> NoItem]
    /\ queue = [k \in Pools |-> <<>>]
    /\ thread = [w \in Threads |-> NoWork("gone")]
    /\ heard = <<>> /\ alarms = {} /\ dropped = {}

-----------------------------------------------------------------------------
(* Control::AddPeerEvent.  A session is a Control::Peer: the peer's events *)
(* and messages, the pool that serves it, and whether it is in its queue.  *)

\* Sessions that the pool counts: known, queued, or held by a thread.
PeerCount(k) == Cardinality({i \in DOMAIN sessions :
    /\ sessions[i].pool = k
    /\ \/ known[sessions[i].peer] = i
       \/ \E j \in DOMAIN queue[k] : queue[k][j] = i
       \/ \E w \in Threads : thread[w].id = i})

LeastBusy == {k \in Pools : \A other \in Pools : PeerCount(k) <= PeerCount(other)}

\* Mutant: a session in the hands of a thread is put in the queue again.
EnqueueTwice(all, i, item) ==
    LET s == IF item \in Events THEN [all[i] EXCEPT !.events = Append(@, item)]
             ELSE [all[i] EXCEPT !.messages = Append(@, item)]
    IN  /\ sessions' = [all EXCEPT ![i] = [s EXCEPT !.inQueue = TRUE]]
        /\ queue' = [queue EXCEPT ![s.pool] = Append(@, i)]

\* Appends the item and, unless the session is in the queue, puts it there.
Enqueue(all, i, item) ==
    LET s == IF item \in Events THEN [all[i] EXCEPT !.events = Append(@, item)]
             ELSE [all[i] EXCEPT !.messages = Append(@, item)]
    IN  /\ sessions' = [all EXCEPT ![i] = [s EXCEPT !.inQueue = TRUE]]
        /\ queue' = IF s.inQueue THEN queue ELSE [queue EXCEPT ![s.pool] = Append(@, i)]

Fault(name) == /\ alarms' = alarms \cup {name}
               /\ UNCHANGED <<controlVars, heard>>

HasPools == status \in {"Running", "Shutdown"}

\* Mutant: a peer that has disconnected is not erased.
AddPeerEventKept(p, item) ==
    IF item = "Connected"
    THEN IF known[p] # NoItem THEN Fault("peer already exists")
    ELSE /\ Enqueue(Append(sessions, [peer |-> p, pool |-> CHOOSE k \in LeastBusy : TRUE,
                                      connected |-> TRUE, events |-> <<>>, messages |-> <<>>,
                                      inQueue |-> FALSE]),
                    Len(sessions) + 1, item)
         /\ known' = [known EXCEPT ![p] = Len(sessions) + 1]
         /\ heard' = Append(heard, <<>>)
         /\ UNCHANGED alarms
    ELSE IF known[p] = NoItem THEN Fault("unknown peer")
    ELSE /\ Enqueue(IF item = "Disconnected" THEN [sessions EXCEPT ![known[p]].connected = FALSE]
                    ELSE sessions, known[p], item)
         /\ UNCHANGED <<alarms, heard, known>>

AddPeerEvent(p, item) ==
    IF item = "Connected"
    THEN IF ~HasPools THEN Fault("no thread pool")
    ELSE IF known[p] # NoItem THEN Fault("peer already exists")
    ELSE /\ \E k \in LeastBusy :
               Enqueue(Append(sessions, [peer |-> p, pool |-> k, connected |-> TRUE,
                                         events |-> <<>>, messages |-> <<>>, inQueue |-> FALSE]),
                       Len(sessions) + 1, item)
         /\ known' = [known EXCEPT ![p] = Len(sessions) + 1]
         /\ heard' = Append(heard, <<>>)
         /\ UNCHANGED alarms
    ELSE IF known[p] = NoItem THEN Fault("unknown peer")
    ELSE /\ Enqueue(IF item = "Disconnected" THEN [sessions EXCEPT ![known[p]].connected = FALSE]
                    ELSE sessions, known[p], item)
         /\ known' = IF item = "Disconnected" THEN [known EXCEPT ![p] = NoItem] ELSE known
         /\ UNCHANGED <<alarms, heard>>

-----------------------------------------------------------------------------
(* A peer's thread: Peer::SetStatus, ProcessPeerExtenderUpdate and         *)
(* ProcessMessage, and Manager::OnPeerEvent and OnPeerMessage, which look  *)
(* at the status of the extender first and add the event afterwards.       *)

Unlocked(p) == calling[p] = NoItem

Notify(p, item) == calling' = [calling EXCEPT ![p] = IF status = "Running" THEN item ELSE NoItem]

BecomeReady(p) ==
    /\ Unlocked(p) /\ peer[p].st = "SessionInit"
    /\ peer' = [peer EXCEPT ![p].st = "Ready", ![p].told = listed, ![p].sent = listed]
    /\ IF peer[p].has THEN Notify(p, "Connected") ELSE UNCHANGED calling
    /\ UNCHANGED <<managerVars, controlVars, thread, heard, alarms, dropped, setting, spent>>

\* From Suspended, an update not broadcast to the peer is sent to it.
ChangeStatus(p, from, to, item) ==
    /\ Unlocked(p) /\ peer[p].st \in from /\ Within("changes")
    /\ peer' = [peer EXCEPT ![p].st = to, ![p].sent = IF item = "Resumed" THEN listed ELSE @]
    /\ IF peer[p].has THEN Notify(p, item) ELSE UNCHANGED calling
    /\ Count("changes")
    /\ UNCHANGED <<managerVars, controlVars, thread, heard, alarms, dropped, setting>>

Suspend(p) == setting.suspend /\ ChangeStatus(p, {"Ready"}, "Suspended", "Suspended")
Resume(p) == ChangeStatus(p, {"Suspended"}, "Ready", "Resumed")
Disconnect(p) == ChangeStatus(p, {"Ready", "Suspended"}, "Disconnected", "Disconnected")

\* An ExtenderUpdate of the peer adds the extender to its list or removes it.
PeerExtenderUpdate(p) ==
    /\ Unlocked(p) /\ peer[p].st = "Ready" /\ Within("changes")
    /\ peer' = [peer EXCEPT ![p].has = ~@]
    /\ Notify(p, IF peer[p].has THEN "Disconnected" ELSE "Connected")
    /\ Count("changes")
    /\ UNCHANGED <<managerVars, controlVars, thread, heard, alarms, dropped, setting>>

\* Mutant: messages to an extender that is stopped are not handled at all.
MessageAtOnce(p) ==
    /\ Unlocked(p) /\ peer[p].st = "Ready" /\ peer[p].has /\ peer[p].told /\ Within("messages")
    /\ Notify(p, Messages[spent.messages + 1])
    /\ dropped' = IF status = "Stopped" THEN dropped \cup {p} ELSE dropped
    /\ Count("messages")
    /\ UNCHANGED <<managerVars, peer, controlVars, thread, heard, alarms, setting>>

\* A peer that runs the extender sends it a message as long as it believes that
\* we run it too.  An extender that is stopped takes it within the grace period.
Message(p) ==
    /\ Unlocked(p) /\ peer[p].st = "Ready" /\ peer[p].has /\ peer[p].told /\ Within("messages")
    /\ Notify(p, Messages[spent.messages + 1])
    /\ dropped' = IF status = "Stopped" /\ ~recent THEN dropped \cup {p} ELSE dropped
    /\ Count("messages")
    /\ UNCHANGED <<managerVars, peer, controlVars, thread, heard, alarms, setting>>

\* The second half, under m_Data.
HandOver(p) ==
    /\ ~Unlocked(p) /\ step # "join"
    /\ AddPeerEvent(p, calling[p])
    /\ dropped' = IF calling[p] \notin Events /\ known[p] = NoItem THEN dropped \cup {p}
                  ELSE dropped
    /\ calling' = [calling EXCEPT ![p] = NoItem]
    /\ UNCHANGED <<managerVars, peer, thread, setting, spent>>

\* The peer receives the update sent to it last.
HearUpdate(p) ==
    /\ peer[p].told # peer[p].sent
    /\ peer' = [peer EXCEPT ![p].told = peer[p].sent]
    /\ UNCHANGED <<managerVars, calling, controlVars, thread, heard, alarms, dropped, setting, spent>>

-----------------------------------------------------------------------------
(* The manager: AddExtender, StartExtender, ShutdownExtender and           *)
(* RemoveExtender for one extender, Startup and Shutdown for all.          *)

Proceed(from, to) == step = from /\ step' = to

StartExtender(forAll) ==
    /\ status = "Stopped"
    /\ \/ /\ step' = "pools" /\ status' = "Startup"          \* OnBeginStartup
       \/ /\ step' = "idle" /\ UNCHANGED status              \* it refuses
    /\ bulk' = forAll
    /\ Count("starts")

\* A control whose extender was released is replaced by a new one.
AddExtender ==
    /\ step = "idle" /\ ~present /\ Within("starts")
    /\ present' = TRUE /\ recent' = FALSE
    /\ IF enabled THEN StartExtender(FALSE)
       ELSE Count("starts") /\ UNCHANGED <<step, bulk, status>>
    /\ UNCHANGED <<enabled, listed, left, ended, peer, calling, controlVars, thread, heard,
                   alarms, dropped, setting>>

StartExtenders ==
    /\ setting.bulk /\ step = "idle" /\ ~enabled /\ present /\ Within("starts")
    /\ enabled' = TRUE
    /\ StartExtender(TRUE)
    /\ UNCHANGED <<present, listed, recent, left, ended, peer, calling, controlVars, thread,
                   heard, alarms, dropped, setting>>

StartupThreadPools ==
    /\ step = "pools"
    /\ sessions' = <<>> /\ heard' = <<>> /\ known' = [p \in Peers |-> NoItem]
    /\ \/ /\ step' = "activate" /\ status' = "Running"
          /\ thread' = [w \in Threads |-> NoWork("wait")]
          /\ UNCHANGED recent
       \/ /\ setting.fail
          /\ step' = "idle" /\ status' = "Stopped" /\ recent' = TRUE
          /\ UNCHANGED thread
    /\ UNCHANGED <<present, enabled, listed, bulk, left, ended, peer, calling, queue, alarms,
                   dropped, setting, spent>>

\* Mutant: it does not wait.
Together == step # "idle"

\* UpdateActiveExtenderUUIDs takes m_Extenders for itself when one extender is
\* started or stopped, and so waits for those who are handing over an event.
Alone == bulk \/ \A p \in Peers : Unlocked(p)

Activate ==
    /\ Alone /\ Proceed("activate", "tell")
    /\ listed' = TRUE
    /\ left' = Peers
    /\ UNCHANGED <<present, enabled, status, recent, bulk, ended, peer, calling, controlVars, thread,
                   heard, alarms, dropped, setting, spent>>

\* OnLocalExtenderUpdate, first for each peer its Connected event ...
Tell(p) ==
    /\ step = "tell" /\ p \in left /\ Unlocked(p)
    /\ left' = left \ {p}
    /\ IF peer[p].st = "Ready" /\ peer[p].has THEN AddPeerEvent(p, "Connected")
       ELSE UNCHANGED <<controlVars, heard, alarms>>
    /\ UNCHANGED <<present, enabled, status, listed, recent, step, bulk, ended, peer, calling,
                   thread, dropped, setting, spent>>

\* ... then the update for it, ...
BeginBroadcast ==
    /\ left = {} /\ Proceed("tell", "broadcast")
    /\ left' = Peers
    /\ UNCHANGED <<present, enabled, status, listed, recent, bulk, ended, peer, calling,
                   controlVars, thread, heard, alarms, dropped, setting, spent>>

Broadcast(p) ==
    /\ step = "broadcast" /\ p \in left /\ Unlocked(p)
    /\ left' = left \ {p}
    /\ peer' = [peer EXCEPT ![p].sent = IF peer[p].st = "Ready" THEN listed ELSE @]
    /\ UNCHANGED <<present, enabled, status, listed, recent, step, bulk, ended, calling,
                   controlVars, thread, heard, alarms, dropped, setting, spent>>

\* ... and the operation is done.
EndBroadcast ==
    /\ left = {} /\ Proceed("broadcast", "idle")
    /\ UNCHANGED <<present, enabled, status, listed, recent, bulk, left, ended, peer, calling,
                   controlVars, thread, heard, alarms, dropped, setting, spent>>

ShutdownExtender(forAll) ==
    /\ step = "idle" /\ present /\ status # "Stopped"
    /\ status' = "Shutdown" /\ recent' = TRUE
    /\ bulk' = forAll
    /\ step' = IF forAll THEN "end" ELSE "deactivate"
    /\ UNCHANGED <<present, listed, left, ended, peer, calling, controlVars, thread, heard,
                   alarms, dropped, setting, spent>>

StopOne == setting.stop /\ ShutdownExtender(FALSE) /\ UNCHANGED enabled
StopAll == setting.bulk /\ ShutdownExtender(TRUE) /\ enabled /\ enabled' = FALSE

Deactivate ==
    /\ Alone /\ Proceed("deactivate", "end")
    /\ listed' = FALSE
    /\ UNCHANGED <<present, enabled, status, recent, bulk, left, ended, peer, calling,
                   controlVars, thread, heard, alarms, dropped, setting, spent>>

\* OnBeginShutdown; then m_Data is taken, ...
ShutdownThreadPools ==
    /\ Proceed("end", "join")
    /\ UNCHANGED <<present, enabled, status, listed, recent, bulk, left, ended, peer, calling,
                   controlVars, thread, heard, alarms, dropped, setting, spent>>

\* ... one pool after another is told to stop and its threads are joined, ...
ShutdownPool(k) ==
    /\ step = "join" /\ k \notin ended
    /\ \A w \in Threads : w[1] \in ended => thread[w].at = "gone"
    /\ ended' = ended \cup {k}
    /\ UNCHANGED <<present, enabled, status, listed, recent, step, bulk, left, peer, calling,
                   controlVars, thread, heard, alarms, dropped, setting, spent>>

\* ... and the queues and the peers are forgotten.
Stopped ==
    /\ \A w \in Threads : thread[w].at = "gone"
    /\ Proceed("join", "broadcast")
    /\ status' = "Stopped" /\ recent' = TRUE /\ listed' = FALSE
    /\ sessions' = <<>> /\ heard' = <<>> /\ known' = [p \in Peers |-> NoItem]
    /\ queue' = [k \in Pools |-> <<>>]
    /\ left' = Peers /\ ended' = {}
    /\ UNCHANGED <<present, enabled, bulk, peer, calling, thread, alarms, dropped,
                   setting, spent>>

\* RemoveExtender goes on to release an extender that it has shut down.
RemoveExtender ==
    /\ step = "idle" /\ present /\ status = "Stopped" /\ setting.stop
    /\ present' = FALSE
    /\ UNCHANGED <<enabled, status, listed, recent, step, bulk, left, ended, peer, calling,
                   controlVars, thread, heard, alarms, dropped, setting, spent>>

\* The grace period is longer than an update takes to reach every peer.
GraceEnds ==
    /\ recent /\ step = "idle" /\ status = "Stopped"
    /\ \A p \in Peers : ~peer[p].told /\ ~peer[p].sent
    /\ recent' = FALSE
    /\ UNCHANGED <<present, enabled, status, listed, step, bulk, left, ended, peer, calling,
                   controlVars, thread, heard, alarms, dropped, setting, spent>>

-----------------------------------------------------------------------------
(* A thread of a pool: Control::WorkerThreadProcessor, from taking a       *)
(* session from the queue to putting it back.                              *)

\* A thread is told with its pool.
ending(w) == step = "join" /\ w[1] \in ended
Session(w) == sessions[thread[w].id]
ToStep(w, r) == thread' = [thread EXCEPT ![w] = r]
KeepOthers == UNCHANGED <<managerVars, peer, calling, known, alarms, dropped, setting, spent>>

TakeSession(w) ==
    /\ thread[w].at = "wait" /\ ~ending(w) /\ queue[w[1]] # <<>>
    /\ ToStep(w, [at |-> "events", id |-> Head(queue[w[1]]), num |-> 0, item |-> NoItem])
    /\ queue' = [queue EXCEPT ![w[1]] = Tail(@)]
    /\ UNCHANGED <<sessions, heard>> /\ KeepOthers

ThreadExits(w) ==
    /\ thread[w].at = "wait" /\ ending(w)
    /\ ToStep(w, NoWork("gone"))
    /\ UNCHANGED <<sessions, queue, heard>> /\ KeepOthers

More(w) == thread[w].num < MaxBurst /\ ~ending(w)

\* Peer events have priority.
NextEvent(w) ==
    /\ thread[w].at = "events"
    /\ IF More(w) /\ Session(w).events # <<>>
       THEN /\ ToStep(w, [thread[w] EXCEPT !.at = "event", !.num = @ + 1,
                                           !.item = Head(Session(w).events)])
            /\ sessions' = [sessions EXCEPT ![thread[w].id].events = Tail(@)]
       ELSE ToStep(w, [thread[w] EXCEPT !.at = "messages"]) /\ UNCHANGED sessions
    /\ UNCHANGED <<queue, heard>> /\ KeepOthers

\* Messages only while the peer is connected.
NextMessage(w) ==
    /\ thread[w].at = "messages"
    /\ IF More(w) /\ Session(w).messages # <<>> /\ Session(w).connected
       THEN /\ ToStep(w, [thread[w] EXCEPT !.at = "message", !.num = @ + 1,
                                           !.item = Head(Session(w).messages)])
            /\ sessions' = [sessions EXCEPT ![thread[w].id].messages = Tail(@)]
       ELSE ToStep(w, [thread[w] EXCEPT !.at = "requeue"]) /\ UNCHANGED sessions
    /\ UNCHANGED <<queue, heard>> /\ KeepOthers

\* The callback of the extender; one that answers the peer takes its lock.
Handle(w, next) ==
    /\ heard' = [heard EXCEPT ![thread[w].id] = Append(@, thread[w].item)]
    /\ ToStep(w, [thread[w] EXCEPT !.at = next, !.item = NoItem])
    /\ UNCHANGED <<sessions, queue>> /\ KeepOthers

HandleEvent(w) == thread[w].at = "event" /\ Handle(w, "events")
HandleMessage(w) ==
    thread[w].at = "message" /\ \E next \in {"messages", "unhandled"} : Handle(w, next)

\* Peer::OnUnhandledExtenderMessage, under the lock of the peer.
ReportUnhandled(w) ==
    /\ thread[w].at = "unhandled" /\ Unlocked(Session(w).peer)
    /\ ToStep(w, [thread[w] EXCEPT !.at = "requeue"])
    /\ UNCHANGED <<sessions, queue, heard>> /\ KeepOthers

IsUnfinished(s) == s.events # <<>> \/ (s.messages # <<>> /\ s.connected)

\* Mutant: messages left over after a burst are forgotten.
RequeueEvents(w) ==
    /\ thread[w].at = "requeue"
    /\ ToStep(w, NoWork("wait"))
    /\ LET again == Session(w).events # <<>> IN
       /\ queue' = IF again THEN [queue EXCEPT ![w[1]] = Append(@, thread[w].id)] ELSE queue
       /\ sessions' = [sessions EXCEPT ![thread[w].id].inQueue = again]
    /\ UNCHANGED heard /\ KeepOthers

Requeue(w) ==
    /\ thread[w].at = "requeue"
    /\ ToStep(w, NoWork("wait"))
    /\ queue' = IF IsUnfinished(Session(w)) THEN [queue EXCEPT ![w[1]] = Append(@, thread[w].id)]
                ELSE queue
    /\ sessions' = [sessions EXCEPT ![thread[w].id].inQueue = IsUnfinished(Session(w))]
    /\ UNCHANGED heard /\ KeepOthers

-----------------------------------------------------------------------------
PeerStep(p) == \/ BecomeReady(p) \/ Suspend(p) \/ Resume(p) \/ Disconnect(p)
               \/ PeerExtenderUpdate(p) \/ Message(p) \/ HandOver(p) \/ HearUpdate(p)

ManagerNext == \/ StartupThreadPools \/ Activate \/ (\E p \in Peers : Tell(p) \/ Broadcast(p))
               \/ BeginBroadcast \/ EndBroadcast \/ Deactivate \/ ShutdownThreadPools \/ Stopped
               \/ \E k \in Pools : ShutdownPool(k)

ThreadStep(w) == \/ TakeSession(w) \/ ThreadExits(w) \/ NextEvent(w) \/ HandleEvent(w) 
                 \/ NextMessage(w) \/ HandleMessage(w) \/ ReportUnhandled(w) \/ Requeue(w)

\* An event for pools that are gone is given to one past the last of them.
ExtendersNext ==
    /\ "no thread pool" \notin alarms
    /\ \/ AddExtender \/ StartExtenders \/ StopOne \/ StopAll \/ RemoveExtender \/ GraceEnds
       \/ ManagerNext
       \/ \E p \in Peers : PeerStep(p)
       \/ \E w \in Threads : ThreadStep(w)

ExtendersSpec == ExtendersInit /\ [][ExtendersNext]_extVars

\* The threads run, and a lock is taken by whoever waits for it.
ExtendersFairness ==
    /\ WF_extVars(ManagerNext)
    /\ \A p \in Peers : WF_extVars(HandOver(p))
    /\ \A w \in UNION {s.workers : s \in Settings} : WF_extVars(w \in Threads /\ ThreadStep(w))

ExtendersFairSpec == ExtendersSpec /\ ExtendersFairness

-----------------------------------------------------------------------------
ExtendersTypeOK ==
    /\ present \in BOOLEAN /\ enabled \in BOOLEAN /\ status \in Statuses
    /\ listed \in BOOLEAN /\ recent \in BOOLEAN
    /\ step \in {"idle", "pools", "activate", "tell", "broadcast", "deactivate", "end", "join"}
    /\ left \subseteq Peers /\ dropped \subseteq Peers /\ ended \subseteq Pools
    /\ known \in [Peers -> DOMAIN sessions \cup {NoItem}]
    /\ \A k \in Pools : ToSet(queue[k]) \subseteq DOMAIN sessions
    /\ DOMAIN heard = DOMAIN sessions

(* Of a session the extender hears the Connected event first, once, and nothing *)
(* after the Disconnected event; messages in the order in which they arrived.   *)
(* The events of a session are passed on by several threads, which take it out  *)
(* of the queue and put it back, while the peer's thread adds to it.            *)
SessionIsOrderly ==
    \A i \in DOMAIN heard : LET h == heard[i] IN
        /\ \A j \in DOMAIN h : (h[j] = "Connected") <=> (j = 1)
        /\ \A j \in DOMAIN h : h[j] = "Disconnected" => j = Len(h)
        /\ \A j, k \in DOMAIN h, a, b \in DOMAIN Messages :
               j < k /\ h[j] = Messages[a] /\ h[k] = Messages[b] => a < b

(* While no event is on its way, a running extender knows exactly the peers     *)
(* that are ready, or suspended, and run it too, however its start has raced    *)
(* with their becoming ready, their updates and their disconnecting.  Peers     *)
(* that were suspended at its start are the exception (PeerIsKnown).            *)
KnowsItsPeers ==
    (step = "idle" /\ status = "Running" /\ ~setting.suspend) =>
        \A p \in Peers : Unlocked(p) =>
            ((known[p] # NoItem) <=> (peer[p].st \in {"Ready", "Suspended"} /\ peer[p].has))

(* A peer is not condemned for a message to an extender that has been stopped   *)
(* while the message was on its way (the grace period), nor for one that is     *)
(* being started.  Suspensions and replaced extenders are the exceptions, and   *)
(* that all extenders are stopped at once: this waits for nobody who is handing *)
(* over a message, and when that is done the peer is not known any more.        *)
HonestPeerIsKept ==
    (~setting.suspend /\ ~setting.bulk /\ setting.starts = 1) => dropped = {}

\* What an extender hears of a peer, whom it knows, and whom it blames, is as it should be.
ExtenderIsServed == SessionIsOrderly /\ KnowsItsPeers /\ HonestPeerIsKept

(* The comment of ExtenderControl.cpp:268: the extender has been told of every  *)
(* peer of which it is given an event ("Should never get here").                *)
PeerIsKnown == "unknown peer" \notin alarms

(* Stopping one extender ends: nobody who holds the lock of a peer waits for    *)
(* the lock that the stopping thread holds while it joins threads that may want *)
(* the lock of the peer.                                                        *)
StopEnds == (step = "join" /\ ~bulk) ~> (step # "join")

(* The same of stopping all of them.                                            *)
StopAllEnds == (step = "join") ~> (step # "join")

(* Whatever is queued for the extender is passed on, unless the peer            *)
(* disconnects first or the extender is stopped.                                *)
QueuedIsHeard ==
    \A p \in Peers :
        (known[p] # NoItem /\ IsUnfinished(sessions[known[p]]))
            ~> (known[p] = NoItem \/ ~IsUnfinished(sessions[known[p]]))
=============================================================================
