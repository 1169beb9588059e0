------------------------------- MODULE Relay -------------------------------
(***************************************************************************)
(* One relay link over a chain of hosts: the beginning, the hosts between, *)
(* and the end.  Each host keeps a Link with the two peers next to it; at  *)
(* the beginning and at the end one of them is the relayed peer itself,    *)
(* the user of the link.  A host's primary thread looks after its links,   *)
(* its event threads handle what neighbouring peers send.  Data flows from *)
(* the beginning to the end, its acknowledgements flow back.               *)
(***************************************************************************)
EXTENDS Integers, Sequences, FiniteSets

CONSTANTS Last,           \* the hosts are 1 .. Last
          Threads,        \* event threads of a host, each with a default queue
          Budgets,        \* bounds: records of the pieces of data written, of the
                          \* faults that happen with their kinds ("silence" of a
                          \* connection, "gone" (a peer), "refusal", "late" (not
                          \* connected in time), "shutdown"), and of whether
                          \* suspended links time out
          BufferSize      \* relay data a peer's send buffer holds

FaultKinds == {"silence", "gone", "refusal", "late", "shutdown"}

ASSUME RelayAssumption ==
  /\ Last \in Nat \ {0} /\ BufferSize \in Nat
  /\ Budgets \subseteq [data : Nat, faults : Nat, kinds : SUBSET FaultKinds,
                       timeouts : BOOLEAN]

NumMTUsPerWindow == 2

Hosts == 1 .. Last
Sides == {"in", "out"}
Other(s) == IF s = "in" THEN "out" ELSE "in"
Neighbour(n, s) == IF s = "in" THEN n - 1 ELSE n + 1
IsUser(n, s) == Neighbour(n, s) \notin Hosts
HasUser(n) == \E s \in Sides : IsUser(n, s)
UserSide(n) == IF n = 1 THEN "in" ELSE "out"
Pairs == {p \in Hosts \X Hosts : p[1] - p[2] \in {-1, 1}}

VARIABLES link,     \* host -> its Link
          peer,     \* host -> side -> status of the peer there
          chan,     \* <<from, to>> -> messages on their way
          portQ,    \* host -> the port's queue of events
          defaultQ, \* host -> thread -> that thread's default queue
          sock,     \* host -> the relayed peer's socket
          limit,    \* the beginning's DataRateLimit
          sendBuf,  \* data in the beginning's socket
          written,  \* pieces the beginning's user has written
          got,      \* data the end's user has received
          silent,   \* n when the connection of n and n+1 is silent
          budget,   \* what is left of one of the Budgets
          farewells,\* history: <<from, to>> -> closing statuses sent
          refused,  \* history: a status change was refused (an assertion)
          opened    \* history: hosts whose link was connected

vars == <<link, peer, chan, portQ, defaultQ, sock, limit, sendBuf, written,
          got, silent, budget, farewells, refused, opened>>

Statuses == {"None", "Connect", "Connecting", "Connected",
             "Suspended", "Disconnected", "Exception", "Closed", "Removed"}
Closing == {"Disconnected", "Failure"}     \* as messages: the exceptions are one
StatusUpdates == {"Connected", "Suspended", "Resumed"} \cup Closing

Links == [status : Statuses, failed : BOOLEAN, updates : [Sides -> BOOLEAN],
          suspended : [Sides -> BOOLEAN], needsResume : [Sides -> BOOLEAN]]
Socks == [writable : BOOLEAN, suspended : BOOLEAN, ended : {"no", "clean", "failed"}]
PeerStatuses == {"None", "Connecting", "Ready", "Suspended", "Gone"}
DataMessage == [type : {"Data"}, id : Nat, piece : Nat]
Message == [type : {"Create"}] \cup [type : {"Status"}, status : StatusUpdates]
           \cup DataMessage \cup [type : {"Ack"}, id : Nat]
Event == [side : Sides, m : Message]

NoLink == [status |-> "None", failed |-> FALSE,
           updates |-> [s \in Sides |-> TRUE],
           suspended |-> [s \in Sides |-> FALSE],
           needsResume |-> [s \in Sides |-> FALSE]]
NoSock == [writable |-> FALSE, suspended |-> FALSE, ended |-> "no"]

Create == [type |-> "Create"]
Status(s) == [type |-> "Status", status |-> s]
Data(id, piece) == [type |-> "Data", id |-> id, piece |-> piece]
Ack(id) == [type |-> "Ack", id |-> id]
-----------------------------------------------------------------------------
(* What Link::UpdateStatus accepts: the statuses each status follows. *)
Follows == [Connecting   |-> {"Connect"},
            Connected    |-> {"Connect", "Connecting", "Suspended"},
            Suspended    |-> {"Connected"},
            Disconnected |-> {"Connect", "Connecting", "Connected", "Suspended"},
            Exception    |-> {"Connect", "Connecting", "Connected", "Suspended",
                              "Disconnected", "Exception"}]
MayBecome(l, st) == l.status \in Follows[st]
WithStatus(l, st) == [l EXCEPT !.status = st]
Failed(l) == [l EXCEPT !.status = "Exception", !.failed = TRUE]

Fault(kind) == /\ kind \in budget.kinds /\ budget.faults > 0
               /\ budget' = [budget EXCEPT !.faults = @ - 1]

Present(n, s) == peer[n][s] # "Gone"
BothPresent(n) == \A s \in Sides : Present(n, s)
InStatus(n, s, st) == peer[n][s] = st

(* Mutant of SockAfter: the socket stays suspended when its link resumes. *)
StaysSuspended(n, st) ==
  LET now == link[n].status IN
  IF ~HasUser(n) THEN sock[n]
  ELSE IF st = "Connected" /\ now \in {"Connect", "Connecting"}
         THEN [sock[n] EXCEPT !.writable = TRUE]
  ELSE IF st = "Suspended" /\ now = "Connected"
         THEN [sock[n] EXCEPT !.suspended = TRUE]
  ELSE sock[n]

(* OnRelayStatusUpdate: the user's socket follows the link. *)
SockAfter(n, st) ==
  LET now == link[n].status IN
  IF ~HasUser(n) THEN sock[n]
  ELSE IF st = "Connected" /\ now \in {"Connect", "Connecting"}
         THEN [sock[n] EXCEPT !.writable = TRUE]
  ELSE IF st = "Suspended" /\ now = "Connected"
         THEN [sock[n] EXCEPT !.suspended = TRUE]
  ELSE IF st = "Connected" /\ now = "Suspended"
         THEN [sock[n] EXCEPT !.suspended = FALSE]
  ELSE sock[n]

(* SendRelayStatus to the peers of a set of sides: nothing goes to a peer that *)
(* sent or was sent a closing status, and none after one.                      *)
MayGet(l, n, sides) == {s \in sides : l.updates[s] /\ ~IsUser(n, s)}
Side(n, m) == IF m < n THEN "in" ELSE "out"
Sent(n, sides, m) ==
  [p \in Pairs |-> IF /\ p[1] = n /\ \E s \in sides : p[2] = Neighbour(n, s)
                      /\ peer[p[2]][Side(p[2], n)] # "Gone"
                     THEN Append(chan[p], m) ELSE chan[p]]
Counted(n, sides, st) ==
  [p \in Pairs |-> IF st \in Closing /\ p[1] = n
                        /\ \E s \in sides : p[2] = Neighbour(n, s)
                     THEN farewells[p] + 1 ELSE farewells[p]]
(* Mutants of Muted: nobody is muted, or a closing status mutes both peers. *)
NeverMuted(l, sides, st) == l
BothMuted(l, sides, st) ==
  IF st \in Closing THEN [l EXCEPT !.updates = [s \in Sides |-> FALSE]] ELSE l
Muted(l, sides, st) ==
  IF st \notin Closing THEN l
  ELSE [l EXCEPT !.updates = [s \in Sides |-> l.updates[s] /\ s \notin sides]]
-----------------------------------------------------------------------------
(* ProcessRelayDisconnect: the user's socket is told, each present peer gets   *)
(* a closing status, the link is closed.                                       *)
Disconnect(n, l) ==
  LET st == IF l.failed THEN "Failure" ELSE "Disconnected"
      to == MayGet(l, n, {s \in Sides : Present(n, s)})
  IN /\ link' = [link EXCEPT ![n] = WithStatus(Muted(l, to, st), "Closed")]
     /\ chan' = Sent(n, to, Status(st))
     /\ farewells' = Counted(n, to, st)
     /\ sock' = IF HasUser(n) /\ Present(n, UserSide(n))
                  THEN [sock EXCEPT ![n].ended =
                          IF l.failed THEN "failed" ELSE "clean"]
                  ELSE sock
     /\ UNCHANGED opened

(* A status change of the primary thread, with no message. *)
Change(n, l, st) ==
  /\ link' = [link EXCEPT ![n] = WithStatus(l, st)]
  /\ sock' = [sock EXCEPT ![n] = SockAfter(n, st)]
  /\ opened' = IF st = "Connected" THEN opened \cup {n} ELSE opened

(* The exception of a link that lost a peer: none if its user is gone. *)
LostPeer(n) ==
  LET l == link[n] IN
  IF ~Present(n, "in")
    THEN n # 1 /\ l.status \in {"Connected", "Suspended"}
    ELSE n # Last /\ l.status \in {"Connect", "Connecting", "Connected", "Suspended"}

PeerMissing(n) ==
  /\ ~BothPresent(n)
  /\ Disconnect(n, [link[n] EXCEPT !.status = "Exception", !.failed = LostPeer(n)])
  /\ UNCHANGED <<portQ, defaultQ, limit, sendBuf, budget>>

TimedOut(n) ==
  /\ BothPresent(n)
  /\ \/ budget.timeouts /\ link[n].status = "Suspended" /\ UNCHANGED budget
     \/ link[n].status \in {"Connect", "Connecting"} /\ Fault("late")
  /\ Disconnect(n, Failed(link[n]))
  /\ UNCHANGED <<portQ, defaultQ, limit, sendBuf>>

AlreadyEnded(n) ==
  /\ BothPresent(n) /\ link[n].status \in {"Disconnected", "Exception"}
  /\ Disconnect(n, link[n])
  /\ UNCHANGED <<portQ, defaultQ, limit, sendBuf, budget>>

(* ProcessRelayConnect *)
ProcessConnect(n) ==
  /\ BothPresent(n) /\ link[n].status = "Connect"
  /\ IF n = Last
       THEN /\ Change(n, link[n], "Connected")
            /\ chan' = Sent(n, {"in"}, Status("Connected"))
       ELSE /\ InStatus(n, "out", "Ready")
            /\ Change(n, link[n], "Connecting")
            /\ chan' = Sent(n, {"out"}, Create)
  /\ UNCHANGED <<portQ, defaultQ, limit, sendBuf, budget, farewells>>

(* ProcessRelayConnected, a peer suspended: the link is suspended.  At the     *)
(* beginning and at the end only the far peer counts; if it is the user alone  *)
(* that is suspended the link fails.                                           *)
ProcessConnectedSuspend(n) ==
  LET away == {s \in Sides : InStatus(n, s, "Suspended")}
      far == {s \in away : ~IsUser(n, s)}
      to == IF HasUser(n) THEN {} ELSE MayGet(link[n], n, Sides \ away)
      l == [link[n] EXCEPT !.suspended = [s \in Sides |-> s \in far],
                           !.needsResume = [s \in Sides |-> s \in to \/ @[s]]]
  IN /\ BothPresent(n) /\ link[n].status = "Connected" /\ away # {}
     /\ IF far = {} THEN Disconnect(n, Failed(link[n]))
        ELSE /\ Change(n, l, "Suspended")
             /\ chan' = Sent(n, to, Status("Suspended"))
             /\ UNCHANGED farewells
     /\ UNCHANGED <<portQ, defaultQ, limit, sendBuf, budget>>

(* The data rate limit: a window of messages not acknowledged yet. *)
(* Mutant of CanAddMTU: one message more than the window has. *)
OneMoreMTU(d) == d.inUse <= NumMTUsPerWindow
CanAddMTU(d) == d.inUse < NumMTUsPerWindow
AddMTU(d) ==
  [next |-> d.next + 1, inUse |-> d.inUse + 1,
   list |-> IF Len(d.list) = NumMTUsPerWindow THEN Append(Tail(d.list), d.next)
                                              ELSE Append(d.list, d.next)]
AckMTU(d, id) ==
  IF \E i \in DOMAIN d.list : d.list[i] = id THEN [d EXCEPT !.inUse = @ - 1] ELSE d

(* ProcessRelayConnected at the beginning, one turn of process_send. *)
ProcessConnectedSend ==
  /\ BothPresent(1) /\ link[1].status = "Connected"
  /\ \A s \in Sides : ~InStatus(1, s, "Suspended")
  /\ sendBuf # <<>> /\ CanAddMTU(limit)
  /\ portQ' = [portQ EXCEPT ![1] = Append(@, [side |-> "in", m |-> Data(limit.next, Head(sendBuf))])]
  /\ sendBuf' = Tail(sendBuf)
  /\ limit' = AddMTU(limit)
  /\ UNCHANGED <<link, chan, defaultQ, sock, budget, farewells, opened>>

(* ProcessRelaySuspended: resumes what this host itself suspended. *)
ProcessSuspended(n) ==
  LET l == link[n]
      to == {s \in MayGet(l, n, Sides) : l.needsResume[s]}
  IN /\ BothPresent(n) /\ l.status = "Suspended"
     /\ \E s \in Sides : l.suspended[s]
     /\ \A s \in Sides : IsUser(n, s) \/ InStatus(n, s, "Ready")
     /\ Change(n, [l EXCEPT !.suspended = NoLink.suspended,
                            !.needsResume = NoLink.needsResume], "Connected")
     /\ chan' = Sent(n, to, Status("Resumed"))
     /\ UNCHANGED <<portQ, defaultQ, limit, sendBuf, budget, farewells>>

(* A closed link is removed after the grace period, its queue with it. *)
RemoveClosed(n) ==
  /\ link[n].status = "Closed"
  /\ link' = [link EXCEPT ![n] = [NoLink EXCEPT !.status = "Removed"]]
  /\ portQ' = [portQ EXCEPT ![n] = <<>>]
  /\ UNCHANGED <<chan, defaultQ, sock, limit, sendBuf, budget, farewells, opened>>

PrimaryThread(n) ==
  /\ link[n].status \notin {"None", "Removed"}
  /\ \/ link[n].status # "Closed"
        /\ \/ PeerMissing(n) \/ AlreadyEnded(n)
           \/ ProcessConnect(n) \/ ProcessConnectedSuspend(n)
           \/ (n = 1 /\ ProcessConnectedSend) \/ ProcessSuspended(n)
     \/ RemoveClosed(n)
  /\ UNCHANGED <<peer, written, got, silent, refused>>
(* Shutdown: the threads stop, and the link is disconnected whatever it is at. *)
Shutdown(n) ==
  /\ link[n].status \notin {"None", "Closed", "Removed"} /\ Fault("shutdown")
  /\ Disconnect(n, link[n])
  /\ portQ' = [portQ EXCEPT ![n] = <<>>]
  /\ defaultQ' = [defaultQ EXCEPT ![n] = [t \in Threads |-> <<>>]]
  /\ UNCHANGED <<peer, limit, sendBuf, written, got, silent, refused>>

LinkTimeout(n) == TimedOut(n) /\ UNCHANGED <<peer, written, got, silent, refused>>
-----------------------------------------------------------------------------
(* The event threads: one event of the port's queue or of a default queue. *)
Front(n, q) == IF q = "port" THEN portQ[n] ELSE defaultQ[n][q]
Popped(n, q) ==
  IF q = "port" THEN /\ portQ' = [portQ EXCEPT ![n] = Tail(@)]
                     /\ UNCHANGED defaultQ
                ELSE /\ defaultQ' = [defaultQ EXCEPT ![n][q] = Tail(@)]
                     /\ UNCHANGED portQ

HasLink(n) == link[n].status \notin {"None", "Removed"}
Fail(n) == /\ link' = [link EXCEPT ![n] = Failed(@)]
           /\ UNCHANGED <<chan, sock, farewells, opened>>
Ignore == UNCHANGED <<link, chan, sock, farewells, opened, refused>>

(* Connect: refused without a word when there were too many attempts, refused *)
(* with a status, or accepted: the end makes the relayed peer, a host between *)
(* connects to the next.                                                      *)
ProcessCreate(n, e) ==
  /\ \/ Fault("refusal") /\ Ignore /\ UNCHANGED peer
     \/ /\ Fault("refusal")
        /\ chan' = IF Present(n, e.side) THEN Sent(n, {e.side}, Status("Failure")) ELSE chan
        /\ farewells' = IF Present(n, e.side) THEN Counted(n, {e.side}, "Failure") ELSE farewells
        /\ UNCHANGED <<link, peer, sock, opened, refused>>
     \/ /\ link[n].status = "None"
        /\ link' = [link EXCEPT ![n] = WithStatus(NoLink, "Connect")]
        /\ peer' = IF n = Last THEN [peer EXCEPT ![n].out = "Connecting"] ELSE peer
        /\ UNCHANGED <<chan, sock, farewells, opened, refused, budget>>
  /\ UNCHANGED <<limit, got>>

(* StatusUpdate: taken over by the link, and by a host between passed on. *)
Becomes == [Connected |-> "Connected", Resumed |-> "Connected", Suspended |-> "Suspended",
            Disconnected |-> "Disconnected", Failure |-> "Exception"]
NoChange(l, st) == \/ st = "Suspended" /\ l.status = "Suspended"
                   \/ st = "Resumed" /\ l.status = "Connected"

ProcessStatus(n, e) ==
  LET st == e.m.status
      l == Muted(link[n], {e.side}, st)
      to == IF HasUser(n) THEN {} ELSE MayGet(l, n, {Other(e.side)})
      l2 == [Muted(l, to, st) EXCEPT !.failed = @ \/ st = "Failure"]
      accepted == NoChange(l, st) \/ MayBecome(l, Becomes[st])
  IN /\ IF ~HasLink(n) \/ l.status = "Closed" THEN Ignore
        ELSE IF ~BothPresent(n) THEN Fail(n) /\ UNCHANGED refused
        ELSE IF ~accepted
               THEN /\ link' = [link EXCEPT ![n] = Failed(l)]
                    /\ refused' = TRUE
                    /\ UNCHANGED <<chan, sock, farewells, opened>>
        ELSE /\ Change(n, l2, Becomes[st])
             /\ chan' = Sent(n, to, e.m)
             /\ farewells' = Counted(n, to, st)
             /\ UNCHANGED refused
     /\ UNCHANGED <<peer, limit, got, budget>>

(* RelayData: to the user, acknowledged, or to the next host; it waits at the  *)
(* front of its queue while the peer's send buffer is full.                    *)
InBuffer(n, m) == Len(SelectSeq(chan[<<n, m>>], LAMBDA x : x.type = "Data"))
(* Mutants of RelayOn: data is dropped when the buffer is full; the host    *)
(* between acknowledges what it passes on.                                    *)
DroppedWhenFull(n, to, e) ==
  chan' = IF InBuffer(n, Neighbour(n, to)) < BufferSize THEN Sent(n, {to}, e.m) ELSE chan
AcknowledgedEarly(n, to, e) ==
  /\ InBuffer(n, Neighbour(n, to)) < BufferSize
  /\ chan' = [Sent(n, {to}, e.m) EXCEPT ![<<2, 1>>] =
                IF n = 1 THEN @ ELSE Append(@, Ack(e.m.id))]
RelayOn(n, to, e) == /\ InBuffer(n, Neighbour(n, to)) < BufferSize
                     /\ chan' = Sent(n, {to}, e.m)
ProcessData(n, e) ==
  LET to == Other(e.side) IN
  /\ IF ~HasLink(n) \/ link[n].status \notin {"Connected", "Suspended"}
       THEN Ignore /\ UNCHANGED got
     ELSE IF ~Present(n, to) THEN Fail(n) /\ UNCHANGED <<got, refused>>
     ELSE IF IsUser(n, to)
       THEN /\ got' = Append(got, e.m)
            /\ chan' = IF Present(n, e.side) THEN Sent(n, {e.side}, Ack(e.m.id)) ELSE chan
            /\ UNCHANGED <<link, sock, farewells, opened, refused>>
     ELSE /\ RelayOn(n, to, e)
          /\ UNCHANGED <<link, sock, got, farewells, opened, refused>>
  /\ UNCHANGED <<peer, limit, budget>>

ProcessAck(n, e) ==
  /\ IF ~HasLink(n) \/ link[n].status \notin {"Connected", "Suspended"}
       THEN Ignore /\ UNCHANGED limit
     ELSE IF HasUser(n) THEN limit' = AckMTU(limit, e.m.id) /\ Ignore
     ELSE IF ~Present(n, Other(e.side)) THEN Fail(n) /\ UNCHANGED <<limit, refused>>
     ELSE /\ chan' = Sent(n, {Other(e.side)}, e.m)
          /\ UNCHANGED <<link, sock, limit, farewells, opened, refused>>
  /\ UNCHANGED <<peer, got, budget>>

ProcessEvents(n, q) ==
  /\ Front(n, q) # <<>>
  /\ Popped(n, q)
  /\ LET e == Head(Front(n, q)) IN
       \/ e.m.type = "Create" /\ ProcessCreate(n, e)
       \/ e.m.type = "Status" /\ ProcessStatus(n, e)
       \/ e.m.type = "Data" /\ ProcessData(n, e)
       \/ e.m.type = "Ack" /\ ProcessAck(n, e)
  /\ UNCHANGED <<sendBuf, written, silent>>

(* AddRelayEvent for a message from a neighbour: connecting, suspending and    *)
(* resuming go to the default queue of the thread with the fewest links, which *)
(* other links decide; the rest follows the port once it is mapped.            *)
UsesDefaultQueue(n, m) ==
  \/ m.type = "Create"
  \/ m.type = "Status" /\ m.status \in {"Suspended", "Resumed"}
  \/ ~HasLink(n)
Receive(p) ==
  LET n == p[2]  s == Side(n, p[1])  e == [side |-> s, m |-> Head(chan[p])] IN
  /\ chan[p] # <<>>
  /\ peer[p[1]][Side(p[1], n)] # "Suspended"
  /\ peer[n][s] = "Ready"
  /\ IF UsesDefaultQueue(n, e.m)
       THEN /\ \E t \in Threads : defaultQ' = [defaultQ EXCEPT ![n][t] = Append(@, e)]
            /\ UNCHANGED portQ
       ELSE /\ portQ' = [portQ EXCEPT ![n] = Append(@, e)]
            /\ UNCHANGED defaultQ
  /\ chan' = [chan EXCEPT ![p] = Tail(@)]
  /\ UNCHANGED <<link, peer, sock, limit, sendBuf, written, got, silent,
                 budget, farewells, refused, opened>>
-----------------------------------------------------------------------------
(* The relayed peers and the connections of neighbours. *)
SetPeer(n, s, st) == peer' = [peer EXCEPT ![n][s] = st]
PeersOnly == UNCHANGED <<link, portQ, defaultQ, sock, limit, sendBuf, written, got,
                         farewells, refused, opened>>

(* Manager::Connect for the relayed peer at the beginning. *)
Open == /\ link[1].status = "None"
        /\ link' = [link EXCEPT ![1] = WithStatus(NoLink, "Connect")]
        /\ UNCHANGED <<peer, chan, portQ, defaultQ, sock, limit, sendBuf, written, got,
                       silent, budget, farewells, refused, opened>>

UserSend ==
  /\ Present(1, "in") /\ sock[1].writable /\ ~sock[1].suspended
  /\ written < budget.data
  /\ written' = written + 1
  /\ sendBuf' = Append(sendBuf, written')
  /\ UNCHANGED <<link, peer, chan, portQ, defaultQ, sock, limit, got, silent, budget,
                 farewells, refused, opened>>

(* CheckStatus of the relayed peer: its status follows its socket. *)
UserNotices(n) ==
  /\ HasUser(n)
  /\ LET s == UserSide(n) IN
       \/ sock[n].suspended /\ InStatus(n, s, "Ready") /\ SetPeer(n, s, "Suspended")
       \/ ~sock[n].suspended /\ InStatus(n, s, "Suspended") /\ SetPeer(n, s, "Ready")
  /\ PeersOnly /\ UNCHANGED <<chan, silent, budget>>

Facing(n, s) == peer[Neighbour(n, s)][Other(s)]
PeerReady(n, s) == /\ InStatus(n, s, "Connecting")
                   /\ IsUser(n, s) => opened = Hosts \* its handshake is relayed
                   /\ SetPeer(n, s, "Ready") /\ PeersOnly /\ UNCHANGED <<chan, silent, budget>>
(* A connection falls silent and comes back; each end notices in its time. *)
FallsSilent(n) ==
  /\ n # Last /\ n \notin silent /\ Fault("silence")
  /\ silent' = silent \cup {n}
  /\ PeersOnly /\ UNCHANGED <<peer, chan>>
ComesBack(n) ==
  /\ n \in silent /\ silent' = silent \ {n}
  /\ PeersOnly /\ UNCHANGED <<peer, chan, budget>>
IsSilent(n, s) == (IF s = "in" THEN n - 1 ELSE n) \in silent
PeerSuspends(n, s) ==
  /\ ~IsUser(n, s) /\ InStatus(n, s, "Ready") /\ IsSilent(n, s)
  /\ SetPeer(n, s, "Suspended") /\ PeersOnly /\ UNCHANGED <<chan, silent, budget>>
PeerResumes(n, s) ==
  /\ ~IsUser(n, s) /\ InStatus(n, s, "Suspended") /\ ~IsSilent(n, s)
  /\ SetPeer(n, s, "Ready") /\ PeersOnly /\ UNCHANGED <<chan, silent, budget>>

(* A peer is gone: of itself or because its other end is. *)
Leave(n, s) ==
  /\ SetPeer(n, s, "Gone")
  /\ chan' = [p \in Pairs |-> IF p = <<Neighbour(n, s), n>> THEN <<>> ELSE chan[p]]
  /\ PeersOnly
PeerGone(n, s) ==
  /\ peer[n][s] \in {"Connecting", "Ready", "Suspended"} /\ Fault("gone")
  /\ Leave(n, s) /\ UNCHANGED silent
PeerNoticesGone(n, s) ==
  /\ ~IsUser(n, s) /\ Present(n, s) /\ Facing(n, s) = "Gone"
  /\ Leave(n, s) /\ UNCHANGED <<silent, budget>>
(* The relayed peer is told that its connection has ended. *)
UserEnds(n) ==
  /\ HasUser(n) /\ sock[n].ended # "no" /\ Present(n, UserSide(n))
  /\ Leave(n, UserSide(n)) /\ UNCHANGED <<silent, budget>>
-----------------------------------------------------------------------------
Init ==
  /\ link = [n \in Hosts |-> NoLink]
  /\ peer = [n \in Hosts |-> [s \in Sides |->
               IF n = Last /\ s = "out" THEN "None"
               ELSE IF (n = 1) = (s = "in")
                 THEN "Connecting" ELSE "Ready"]]
  /\ chan = [p \in Pairs |-> <<>>]
  /\ portQ = [n \in Hosts |-> <<>>]
  /\ defaultQ = [n \in Hosts |-> [t \in Threads |-> <<>>]]
  /\ sock = [n \in Hosts |-> NoSock]
  /\ limit = [next |-> 0, inUse |-> 0, list |-> <<>>]
  /\ sendBuf = <<>> /\ written = 0 /\ got = <<>>
  /\ silent = {} /\ budget \in Budgets
  /\ farewells = [p \in Pairs |-> 0]
  /\ refused = FALSE /\ opened = {}

Next ==
  \/ Open \/ UserSend
  \/ \E n \in Hosts : PrimaryThread(n) \/ LinkTimeout(n) \/ Shutdown(n) \/ UserNotices(n) \/ UserEnds(n)
                      \/ FallsSilent(n) \/ ComesBack(n)
  \/ \E n \in Hosts, q \in Threads \cup {"port"} : ProcessEvents(n, q)
  \/ \E p \in Pairs : Receive(p)
  \/ \E n \in Hosts, s \in Sides :
       \/ PeerReady(n, s) \/ PeerSuspends(n, s) \/ PeerResumes(n, s)
       \/ PeerGone(n, s) \/ PeerNoticesGone(n, s)

Spec == Init /\ [][Next]_vars

Fairness ==
  /\ \A n \in Hosts : WF_vars(PrimaryThread(n)) /\ WF_vars(LinkTimeout(n))
  /\ \A n \in Hosts, q \in Threads \cup {"port"} : WF_vars(ProcessEvents(n, q))
  /\ \A p \in Pairs : WF_vars(Receive(p))
  /\ \A n \in Hosts, s \in Sides :
       WF_vars(PeerSuspends(n, s)) /\ WF_vars(PeerNoticesGone(n, s))
       /\ WF_vars(PeerResumes(n, s))
FairSpec == Spec /\ Fairness
-----------------------------------------------------------------------------
TypeOK ==
  /\ link \in [Hosts -> Links]
  /\ peer \in [Hosts -> [Sides -> PeerStatuses]]
  /\ chan \in [Pairs -> Seq(Message)]
  /\ portQ \in [Hosts -> Seq(Event)]
  /\ defaultQ \in [Hosts -> [Threads -> Seq(Event)]]
  /\ sock \in [Hosts -> Socks]
  /\ limit \in [next : Nat, inUse : Int, list : Seq(Nat)]
  /\ sendBuf \in Seq(Nat) /\ written \in Nat /\ got \in Seq(DataMessage)
  /\ silent \subseteq Hosts
  /\ budget \in [data : Nat, faults : Nat, kinds : SUBSET FaultKinds, timeouts : BOOLEAN]
  /\ farewells \in [Pairs -> Nat] /\ refused \in BOOLEAN /\ opened \subseteq Hosts

(* What the end's user receives is what the beginning's user wrote, in order  *)
(* and without a gap, through retries, full buffers and suspensions.          *)
RelayedInOrder == \A i \in DOMAIN got : got[i].piece = i

(* The place a message has in the window is given back only when the end's    *)
(* user has it, and once: what is not in use has been delivered.              *)
WindowCountsUndelivered ==
  /\ limit.inUse \in 0 .. NumMTUsPerWindow
  /\ limit.next - limit.inUse <= Len(got)

(* What is relayed comes out in order, and its window is given back only then: *)
(* a place given back early would let more data on its way than hosts hold.    *)
RelayIsReliable == RelayedInOrder /\ WindowCountsUndelivered

(* A neighbour is told at most once that a link is over, however many events, *)
(* missing peers and time-outs end it at the same time.                       *)
OneFarewell == \A p \in Pairs : farewells[p] <= 1

(* The user's socket is suspended exactly while its link is, as long as the   *)
(* link is open: a user never writes into a suspended link or waits at one    *)
(* that was resumed.                                                          *)
SocketFollowsLink ==
  \A n \in Hosts : HasUser(n) /\ link[n].status \in {"Connected", "Suspended"} =>
    sock[n].suspended = (link[n].status = "Suspended")

(* A link that was connected from end to end is torn down at every host when  *)
(* one of them has closed it.                                                 *)
IsOver(n) == link[n].status \in {"Closed", "Removed"}
EstablishedIsTornDown ==
  (opened = Hosts /\ \E n \in Hosts : IsOver(n)) ~> (\A n \in Hosts : IsOver(n))

(* A silence that ends before the link has been suspended too long does not   *)
(* end the link (where no update that overtook another was refused).          *)
SuspensionIsSurvived == \A n \in Hosts : link[n].failed => refused
=============================================================================
