---------------------------- MODULE UDPSuspension ----------------------------
(* How a UDP connection outlives silence and changes of address              *)
(* (Core/UDP/UDPConnection.cpp): keepalives, suspension, resumption by       *)
(* whatever the peer sends, and the end of a suspension that lasts too long. *)
(* Both ends are connected.  Time passes in units; the worker threads visit  *)
(* every connection within each, a datagram arrives within Delay of them, in *)
(* any order, or is lost.  What is transferred is in UDPTransfer; here it is *)
(* one piece of data of one end.                                             *)
EXTENDS Naturals

CONSTANTS
    SuspendTimeout, SuspendTimeoutMargin, MaxSuspendDuration, \* in units of time
    Delay,
    MaxLosses, MaxMoves \* bounds

\* The margin is what a keepalive may be late.
ASSUME SuspensionAssumption ==
    /\ SuspendTimeout \in Nat \ {0} /\ MaxSuspendDuration \in Nat
    /\ SuspendTimeoutMargin \in Nat /\ Delay \in Nat /\ Delay < SuspendTimeoutMargin
    /\ MaxLosses \in Nat /\ MaxMoves \in Nat

Ends == {"a", "b"}
Other(e) == IF e = "a" THEN "b" ELSE "a"

\* Mutant: no margin for keepalives on their way.
MaxKeepAliveWithoutMargin == SuspendTimeout

MaxKeepAliveTimeout == SuspendTimeout + SuspendTimeoutMargin

VARIABLES
    end,    \* Connection of each end
    wire,   \* datagrams on their way
    alone,  \* for how long one end is closed and the other is not
    faults  \* [losses, moves, closes] so far

suspensionVars == <<end, wire, alone, faults>>

SuspensionTypeOK ==
    /\ end \in [Ends -> [status : {"Connected", "Suspended", "Closed"},
                         silence : 0..(MaxKeepAliveTimeout + MaxSuspendDuration),
                         idle : 0..SuspendTimeout, keepalive : 1..SuspendTimeout,
                         address : 0..MaxMoves, peer : 0..MaxMoves,
                         data : {"none", "due", "sent", "acked"}, timedOut : BOOLEAN]]
    /\ wire \subseteq [to : Ends, at : 0..MaxMoves, from : 0..MaxMoves, age : 0..Delay,
                       type : {"Data", "EAck", "Null", "Reset"}]
    /\ alone \in Nat
    /\ faults \in [losses : 0..MaxLosses, moves : SUBSET Ends, closes : 0..1]

SuspensionInit ==
    /\ \E keepalive \in [Ends -> 1..SuspendTimeout] :
          end = [e \in Ends |->
                   [status |-> "Connected", silence |-> 0, idle |-> 0, keepalive |-> keepalive[e],
                    address |-> 0, peer |-> 0, data |-> "none", timedOut |-> FALSE]]
    /\ wire = {}
    /\ alone = 0
    /\ faults = [losses |-> 0, moves |-> {}, closes |-> 0]

Open(e) == end[e].status # "Closed"
Datagram(e, r, type) ==
    [to |-> Other(e), at |-> r.peer, from |-> r.address, age |-> 0, type |-> type]

-----------------------------------------------------------------------------
(* A pass of a worker thread over the connection of e.  Its parts map the     *)
(* state r of the connection to the one after them.                          *)

\* Mutant: a message does not resume the connection.
StaysSuspended(r, m) ==
    IF m.type = "Reset" THEN [r EXCEPT !.status = "Closed"]
    ELSE [r EXCEPT !.silence = 0, !.peer = m.from, !.data = IF m.type = "EAck" THEN "acked" ELSE @]

\* A message that arrives resumes a suspended connection; except for a reset it also
\* says where the peer is.
ProcessReceivedMessage(r, m) ==
    IF m.type = "Reset" THEN [r EXCEPT !.status = "Closed"]
    ELSE [r EXCEPT !.status = "Connected", !.silence = 0, !.peer = m.from,
                   !.data = IF m.type = "EAck" THEN "acked" ELSE @]

\* SendQueue.Process: only a connected end sends data, first or again.
DataIsDue(r) == r.status = "Connected" /\ r.data = "due"

KeepAliveIsDue(r) == r.status # "Closed" /\ r.idle >= r.keepalive

\* Suspended after too much silence, closed after a suspension that is too long.
CheckSilence(r) ==
    IF r.status = "Connected" /\ r.silence >= MaxKeepAliveTimeout
    THEN [r EXCEPT !.status = "Suspended"]
    ELSE r

SuspendedTooLong(r) ==
    r.status = "Suspended" /\ r.silence >= MaxKeepAliveTimeout + MaxSuspendDuration

\* Received is the datagram the pass finds, or none of them; keepalive: the random
\* timeout that is chosen after a keepalive.
ProcessEvents(e, received, keepalive) ==
    LET r0 == end[e]
        r1 == IF received = {} THEN r0
              ELSE ProcessReceivedMessage(r0, CHOOSE m \in received : TRUE)
        late == SuspendedTooLong(r1)
        data == DataIsDue(r1)
        null == ~late /\ ~data /\ KeepAliveIsDue(r1)
        ack == r1.status # "Closed" /\ \E m \in received : m.type = "Data"
        r2 == [r1 EXCEPT !.idle = IF data \/ null \/ ack THEN 0 ELSE @,
                         !.keepalive = IF null THEN keepalive ELSE @,
                         !.data = IF data THEN "sent" ELSE @]
        r3 == IF late THEN [r2 EXCEPT !.status = "Closed", !.timedOut = TRUE]
              ELSE CheckSilence(r2)
    IN  /\ ~null => keepalive = r1.keepalive
        /\ end' = [end EXCEPT ![e] = r3]
        /\ wire' = (wire \ received)
                \cup {Datagram(e, r1, type) : type \in
                        {t \in {"Data", "Null", "EAck"} :
                           (t = "Data" /\ data) \/ (t = "Null" /\ null) \/ (t = "EAck" /\ ack)}}

Arrived(e) == {m \in wire : m.to = e /\ m.at = end[e].address}

Overdue(e) ==
    Open(e) /\ \/ KeepAliveIsDue(end[e])
               \/ DataIsDue(end[e])
               \/ CheckSilence(end[e]) # end[e]
               \/ SuspendedTooLong(end[e])

Pass(e, received) ==
    /\ Open(e)
    /\ \E keepalive \in 1..SuspendTimeout : ProcessEvents(e, received, keepalive)
    /\ UNCHANGED <<alone, faults>>

Receive(e) == \E m \in Arrived(e) : Pass(e, {m})
Idle(e) == Overdue(e) /\ Pass(e, {})

-----------------------------------------------------------------------------
(* What the application, the network and time do.                            *)

\* SendPendingSocketData: data the application has written enters the send queue.
SendData ==
    /\ end["a"].status = "Connected" /\ end["a"].data = "none"
    /\ end' = [end EXCEPT !["a"].data = "due"]
    /\ UNCHANGED <<wire, alone, faults>>

\* The application closes its socket: the peer is told, once, unless the connection is
\* suspended.
Close(e) ==
    /\ Open(e) /\ faults.closes = 0
    /\ end' = [end EXCEPT ![e].status = "Closed"]
    /\ wire' = IF end[e].status = "Connected"
               THEN wire \cup {Datagram(e, end[e], "Reset")} ELSE wire
    /\ faults' = [faults EXCEPT !.closes = 1]
    /\ UNCHANGED alone

\* OnLocalIPInterfaceChanged: e has another address, and says so at once.
Move(e) ==
    /\ Open(e) /\ end[e].address < MaxMoves
    /\ LET r == [end[e] EXCEPT !.address = @ + 1, !.idle = 0]
       IN  /\ end' = [end EXCEPT ![e] = r]
           /\ wire' = wire \cup {Datagram(e, r, "Null")}
    /\ faults' = [faults EXCEPT !.moves = @ \cup {e}]
    /\ UNCHANGED alone

LoseDatagram(m) ==
    /\ faults.losses < MaxLosses
    /\ wire' = wire \ {m}
    /\ faults' = [faults EXCEPT !.losses = @ + 1]
    /\ UNCHANGED <<end, alone>>

\* A unit of time passes: nothing is overdue, and datagrams for nobody are gone.
\* Expired: is the retransmission timeout over.
Tick(expired) ==
    /\ \A e \in Ends : ~Overdue(e)
    /\ \A e \in Ends : Open(e) => \A m \in Arrived(e) : m.age < Delay
    /\ end' = [e \in Ends |-> IF Open(e) THEN [end[e] EXCEPT !.silence = @ + 1, !.idle = @ + 1,
                                      !.data = IF expired /\ @ = "sent" THEN "due" ELSE @]
                              ELSE end[e]]
    /\ wire' = {[m EXCEPT !.age = @ + 1] : m \in UNION {Arrived(e) : e \in {x \in Ends : Open(x)}}}
    /\ alone' = IF \E e \in Ends : Open(e) /\ ~Open(Other(e)) THEN alone + 1 ELSE alone
    /\ UNCHANGED faults

SuspensionNext ==
    \/ \E e \in Ends :
          \/ Receive(e)
          \/ Idle(e)
          \/ Close(e)
          \/ Move(e)
    \/ SendData
    \/ \E m \in wire : LoseDatagram(m)
    \/ \E expired \in BOOLEAN : Tick(expired)

\* Worker threads visit every connection, time passes, and timeouts are over in time.
SuspensionFairness ==
    /\ SF_suspensionVars(Tick(TRUE))
    /\ \A e \in Ends : WF_suspensionVars(Idle(e)) /\ WF_suspensionVars(Receive(e))

SuspensionSpec == SuspensionInit /\ [][SuspensionNext]_suspensionVars /\ SuspensionFairness

-----------------------------------------------------------------------------
(* Properties.                                                               *)

\* While the network loses nothing and nobody moves, keepalives keep the connection
\* from being suspended: that is what SuspendTimeoutMargin is for.
NoNeedlessSuspension ==
    faults.losses = 0 /\ faults.moves = {} => \A e \in Ends : end[e].status # "Suspended"

\* The end that moves may have heard nothing for a keepalive already; the next that the
\* other end hears of it may be a keepalive of its own, and so may what it then hears.
SuspensionsAreLong == MaxSuspendDuration + SuspendTimeoutMargin > 2 * SuspendTimeout + 4 * Delay

\* When one end moves, once, and nothing is lost, old datagrams that arrive late do not
\* make the ends lose each other, if suspensions are long enough.
OneMoveIsSurvived ==
    SuspensionsAreLong /\ faults.losses = 0 /\ faults.closes = 0
        /\ end["a"].address + end["b"].address <= 1 =>
            \A e \in Ends : ~end[e].timedOut

\* Whatever is lost, an end does not stay long when the other is gone.
FateIsShared == alone <= Delay + MaxKeepAliveTimeout + MaxSuspendDuration

SuspensionIsSound == NoNeedlessSuspension /\ OneMoveIsSurvived /\ FateIsShared

\* In the end both are closed, or both are connected, know where the other is, and
\* nothing is left unacknowledged, whatever was held back by a suspension.
ConnectionSettles ==
    <>[](\/ \A e \in Ends : ~Open(e)
         \/ \A e \in Ends : /\ end[e].status = "Connected" /\ end[e].data \notin {"due", "sent"}
                            /\ end[e].peer = end[Other(e)].address)
=============================================================================
