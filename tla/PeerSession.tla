---------------------------- MODULE PeerSession ----------------------------
(***************************************************************************)
(* The session between two peers, from the first message of the handshake *)
(* to the key updates of the ready state: QuantumGateLib/Core/Peer.  The   *)
(* accepting end is Inbound, the connecting end Outbound; `wire[p]' is the *)
(* ordered byte stream to p, one entry per message transport.              *)
(*                                                                         *)
(* A symmetric key pair is named by the exchange that made it (0 is the    *)
(* handshake, n the n-th key update) and by "primary" or "secondary".      *)
(* Time appears only as choice: delayed messages leave at any moment, a    *)
(* key update is due at any moment, and a connection may be suspended and  *)
(* resumed by the layer below.                                             *)
(***************************************************************************)
EXTENDS Naturals, FiniteSets, SequencesExt

CONSTANTS
    None,               \* no message, counter, key, queue or condition
    CounterModulus,     \* number of message counter values (256 in the code)
    CounterStarts,      \* values the random start of a counter may take
    ReceiveRoom,        \* extender messages the receive rate limit admits at once
    Priorities,         \* priorities the extenders send with
    LateMessages,       \* may grace periods end while an old key, or an extender that
                        \* has gone, is still in use
    Scenarios           \* settings, and bounds of what the environment does

Inbound == "inbound"
Outbound == "outbound"
Peers == {Inbound, Outbound}
Other(p) == IF p = Inbound THEN Outbound ELSE Inbound

VARIABLES
    peer,       \* the Peer object of each end
    wire,       \* transports on their way to each end
    reading,    \* ends that go on reading though they have deferred a message
    suspended,  \* is the connection suspended, as seen by the socket of each end
    extenders,  \* version of the local list of active extenders
    unannounced,\* the list has changed, the broadcast has not reached this peer
    scenario,   \* the member of Scenarios the behaviour belongs to
    used        \* what the environment has done so far

vars == <<peer, wire, reading, suspended, extenders, unannounced, scenario, used>>

Handshake == <<"Connected", "MetaExchange", "PrimaryKeyExchange", "SecondaryKeyExchange",
               "Authentication", "SessionInit", "Ready">>
Statuses == ToSet(Handshake) \cup {"Suspended", "Disconnected"}
Stage(s) == IF s \in {"Suspended", "Disconnected"} THEN 8
            ELSE CHOOSE i \in 1..7 : Handshake[i] = s

UpdateStatuses == {"Unknown", "UpdateWait", "PrimaryExchange", "SecondaryExchange",
                   "ReadyWait", "Suspended"}

Msg(type, n, counter) == [type |-> type, n |-> n, counter |-> counter]
Noise == Msg("Noise", 0, None)
Extender == Msg("ExtenderCommunication", 0, None)

(***************************************************************************)
(* Symmetric keys, newest first.                                           *)
(***************************************************************************)
Primary(n) == <<n, "primary">>
Secondary(n) == <<n, "secondary">>
SharedSecret == <<0, "shared secret">>
AutoGen == <<0, "autogen">>
MaxKeyPairs == 4

\* Mutant: the oldest pair is kept.
AddKeyPairUnbounded(keys, name, encrypt) ==
    <<[name |-> name, encrypt |-> encrypt, age |-> "current"]>> \o keys

AddKeyPair(keys, name, encrypt) ==
    LET longer == <<[name |-> name, encrypt |-> encrypt, age |-> "current"]>> \o keys
    IN  IF Len(longer) > MaxKeyPairs THEN Front(longer) ELSE longer

StartUsing(keys, name) ==
    [i \in DOMAIN keys |-> IF keys[i].name = name THEN [keys[i] EXCEPT !.encrypt = TRUE]
                           ELSE keys[i]]

ExpireAllExceptLatest(keys) ==
    [i \in DOMAIN keys |-> IF i > 1 /\ keys[i].age = "current"
                           THEN [keys[i] EXCEPT !.age = "grace"] ELSE keys[i]]

AutoGenAllowed(r) == Stage(r.status) <= Stage("SecondaryKeyExchange")

Usable(r) == {i \in DOMAIN r.keys : r.keys[i].encrypt /\ r.keys[i].age # "expired"}

EncryptionKey(r) ==
    IF Usable(r) # {} THEN r.keys[CHOOSE i \in Usable(r) : \A j \in Usable(r) : i <= j].name
    ELSE IF AutoGenAllowed(r) THEN AutoGen
    ELSE None

\* The keys are tried newest first, and the first unusable one ends the search.
CanDecrypt(r, key) ==
    \/ \E i \in DOMAIN r.keys :
          r.keys[i].name = key /\ \A j \in 1..i : r.keys[j].age # "expired"
    \/ /\ key = AutoGen
       /\ AutoGenAllowed(r)
       /\ \A j \in DOMAIN r.keys : r.keys[j].age # "expired"

(***************************************************************************)
(* Queues, counters and statuses of one peer record.                       *)
(***************************************************************************)
Queue(r, m, priority) ==
    CASE priority = "expedited" -> [r EXCEPT !.expedited = Append(@, m)]
      [] priority = "normal"    -> [r EXCEPT !.normal = Append(@, m)]
      [] priority = "delayed"   -> [r EXCEPT !.delayed = Append(@, m)]

\* Normal messages go before delayed ones, expedited ones before all others.
NextQueue(r) == IF r.expedited # <<>> THEN "expedited"
                ELSE IF r.normal # <<>> THEN "normal"
                ELSE IF r.delayed # <<>> THEN "delayed" ELSE None

NextCounter(c) == IF c = None THEN None ELSE (c + 1) % CounterModulus

\* The first condition stays.
Condemn(r, why) == IF r.condition = None THEN [r EXCEPT !.condition = why] ELSE r

Done(r)      == [handled |-> TRUE,  success |-> TRUE,  peer |-> r]
Failed(r)    == [handled |-> TRUE,  success |-> FALSE, peer |-> r]
Unhandled(r) == [handled |-> FALSE, success |-> FALSE, peer |-> r]

ReleaseKeyExchange(r) == [r EXCEPT !.exchange = None, !.keys = ExpireAllExceptLatest(@)]

(***************************************************************************)
(* Key update status (KeyUpdate::SetStatus).                               *)
(***************************************************************************)
UpdateStep == {<<"Unknown", "UpdateWait">>, <<"ReadyWait", "UpdateWait">>,
               <<"UpdateWait", "PrimaryExchange">>,
               <<"PrimaryExchange", "SecondaryExchange">>,
               <<"SecondaryExchange", "ReadyWait">>}

\* Out of the suspended status every status is accepted.
UpdateStatusAllowed(r, status) ==
    \/ r.update = "Suspended"
    \/ <<r.update, status>> \in UpdateStep
    \/ status = "Suspended" /\ r.update # "Unknown"

\* Mutant: the exchange and the replaced keys stay.
SetUpdateStatusOnly(r, status) ==
    IF status = "Suspended" THEN [r EXCEPT !.update = status, !.resume = r.update]
    ELSE [r EXCEPT !.update = status]

SetUpdateStatus(r, status) ==
    LET next == [r EXCEPT !.update = status]
    IN  IF r.update = "ReadyWait" /\ status = "UpdateWait" THEN ReleaseKeyExchange(next)
        ELSE IF status = "Suspended" THEN [next EXCEPT !.resume = r.update]
        ELSE next

(***************************************************************************)
(* What each message of a key exchange does to the keys of its receiver.   *)
(***************************************************************************)
ExchangeKeys(keys, type, n) ==
    CASE type = "BeginPrimary"   -> AddKeyPair(keys, Primary(n), FALSE)
      [] type = "EndPrimary"     -> AddKeyPair(keys, Primary(n), TRUE)
      [] type = "BeginSecondary" -> AddKeyPair(StartUsing(keys, Primary(n)), Secondary(n), FALSE)
      [] type = "EndSecondary"   -> AddKeyPair(keys, Secondary(n), TRUE)
      [] type \in {"BeginAuthentication", "KeyUpdateReady"} -> StartUsing(keys, Secondary(n))
      [] OTHER -> keys

(***************************************************************************)
(* The handshake: who receives what in which status, the answer, and the   *)
(* status that follows.                                                    *)
(***************************************************************************)
Step(side, at, type, reply, next) ==
    [side |-> side, at |-> at, type |-> type, reply |-> reply, next |-> next]

HandshakeSteps == {
    Step(Outbound, "MetaExchange", "BeginMeta", "EndMeta", "PrimaryKeyExchange"),
    Step(Inbound, "MetaExchange", "EndMeta", "BeginPrimary", "PrimaryKeyExchange"),
    Step(Outbound, "PrimaryKeyExchange", "BeginPrimary", "EndPrimary", "SecondaryKeyExchange"),
    Step(Inbound, "PrimaryKeyExchange", "EndPrimary", "BeginSecondary", "SecondaryKeyExchange"),
    Step(Outbound, "SecondaryKeyExchange", "BeginSecondary", "EndSecondary", "Authentication"),
    Step(Inbound, "SecondaryKeyExchange", "EndSecondary", "BeginAuthentication", "Authentication"),
    Step(Outbound, "Authentication", "BeginAuthentication", "EndAuthentication", "SessionInit"),
    Step(Inbound, "Authentication", "EndAuthentication", "BeginSessionInit", "SessionInit"),
    Step(Outbound, "SessionInit", "BeginSessionInit", "EndSessionInit", "Ready"),
    Step(Inbound, "SessionInit", "EndSessionInit", None, "Ready")}

\* Ready is entered: the exchange is released, the key update initialised.
EnterReady(r) == SetUpdateStatus(ReleaseKeyExchange([r EXCEPT !.status = "Ready"]), "UpdateWait")

Enter(r, status) == IF status = "Ready" THEN EnterReady(r) ELSE [r EXCEPT !.status = status]

\* Mutant: the session message names the counter before its own.
ReplyWithOldCounter(p, r, type, c) ==
    IF type = None THEN r
    ELSE IF type \in {"BeginSessionInit", "EndSessionInit"}
    THEN Queue([r EXCEPT !.localCounter = c], Msg(type, extenders[p], c), "normal")
    ELSE Queue(r, Msg(type, 0, None), "delayed")

\* The two session messages carry the first counter value and the extender
\* list, and are not delayed; c is the random start of the counter.
Reply(p, r, type, c) ==
    IF type = None THEN r
    ELSE IF type \in {"BeginSessionInit", "EndSessionInit"}
    THEN Queue([r EXCEPT !.localCounter = c],
               Msg(type, extenders[p], NextCounter(c)), "normal")
    ELSE Queue(r, Msg(type, 0, None), "delayed")

\* Mutant: a refused signature goes unnoticed.
HandshakeMessageOfAnyone(p, r, m, c) ==
    LET steps == {s \in HandshakeSteps : s.side = p /\ s.at = r.status /\ s.type = m.type}
        step  == CHOOSE s \in steps : TRUE
        seen  == IF m.type \in {"BeginSessionInit", "EndSessionInit"}
                 THEN [r EXCEPT !.peerCounter = m.counter, !.peerExtenders = m.n]
                 ELSE [r EXCEPT !.keys = ExchangeKeys(@, m.type, 0)]
    IN  IF steps = {} THEN Unhandled(r)
        ELSE Done(Enter(Reply(p, seen, step.reply, c), step.next))

HandshakeMessage(p, r, m, c) ==
    LET steps == {s \in HandshakeSteps : s.side = p /\ s.at = r.status /\ s.type = m.type}
        step  == CHOOSE s \in steps : TRUE
        seen  == IF m.type \in {"BeginSessionInit", "EndSessionInit"}
                 THEN [r EXCEPT !.peerCounter = m.counter, !.peerExtenders = m.n]
                 ELSE [r EXCEPT !.keys = ExchangeKeys(@, m.type, 0)]
    IN  IF steps = {} THEN Unhandled(r)
        ELSE IF m.type \in {"BeginAuthentication", "EndAuthentication"} /\ ~r.accepts
        THEN Done(Condemn(r, "PeerNotAllowed"))
        ELSE Done(Enter(Reply(p, seen, step.reply, c), step.next))

(***************************************************************************)
(* Key update messages (KeyUpdate::ProcessKeyUpdateMessage).  A request is *)
(* taken in any status SetStatus lets through; all others need the exact   *)
(* status.                                                                 *)
(***************************************************************************)
UpdateSteps == {
    Step(Inbound, "PrimaryExchange", "EndPrimaryUpdate", "BeginSecondaryUpdate", "SecondaryExchange"),
    Step(Outbound, "SecondaryExchange", "BeginSecondaryUpdate", "EndSecondaryUpdate", "ReadyWait"),
    Step(Inbound, "SecondaryExchange", "EndSecondaryUpdate", "KeyUpdateReady", "ReadyWait"),
    Step(Outbound, "ReadyWait", "KeyUpdateReady", None, "UpdateWait")}

Exchange(type) == CASE type = "BeginPrimaryUpdate"   -> "BeginPrimary"
                    [] type = "EndPrimaryUpdate"     -> "EndPrimary"
                    [] type = "BeginSecondaryUpdate" -> "BeginSecondary"
                    [] type = "EndSecondaryUpdate"   -> "EndSecondary"
                    [] OTHER -> type

BeginUpdateMessage(p, r, m) ==
    IF p # Outbound \/ ~UpdateStatusAllowed(r, "PrimaryExchange") THEN Unhandled(r)
    ELSE IF r.exchange # None THEN Unhandled(SetUpdateStatus(r, "PrimaryExchange"))
    ELSE LET begun == [SetUpdateStatus(r, "PrimaryExchange") EXCEPT
                          !.exchange = m.n, !.keys = ExchangeKeys(@, "BeginPrimary", m.n)]
         IN  Done(SetUpdateStatus(Queue(begun, Msg("EndPrimaryUpdate", m.n, None), "normal"),
                                  "SecondaryExchange"))

KeyUpdateMessage(p, r, m) ==
    LET steps == {s \in UpdateSteps : s.side = p /\ s.at = r.update /\ s.type = m.type}
        step  == CHOOSE s \in steps : TRUE
        keyed == [r EXCEPT !.keys = ExchangeKeys(@, Exchange(m.type), r.exchange)]
        sent  == IF step.reply = None THEN keyed
                 ELSE Queue(keyed, Msg(step.reply, r.exchange, None), "normal")
        next  == SetUpdateStatus(sent, step.next)
    IN  IF m.type = "BeginPrimaryUpdate" THEN BeginUpdateMessage(p, r, m)
        ELSE IF steps = {} THEN Unhandled(r)
        ELSE IF step.reply = "KeyUpdateReady" THEN Done(SetUpdateStatus(next, "UpdateWait"))
        ELSE Done(next)

\* Is the extender that sends and receives on a list of extenders (scenario.without names
\* the versions from which it has gone)?
Has(version) == version \notin scenario.without

\* Mutant: nothing is tolerated.
ExtenderMessageStrictly(p, r, late) ==
    IF r.status # "Ready" \/ ~Has(r.peerExtenders) \/ ~Has(extenders[p]) THEN Unhandled(r)
    ELSE Done([r EXCEPT !.held = @ + 1])

\* A message for an extender that has gone from here is tolerated until it is late; one
\* for an extender that, as far as is known, its sender does not have is not.
ExtenderMessage(p, r, late) ==
    IF r.status # "Ready" \/ ~Has(r.peerExtenders) THEN Unhandled(r)
    ELSE IF Has(extenders[p]) THEN Done([r EXCEPT !.held = @ + 1])
    ELSE IF late THEN Unhandled(r) ELSE Failed(r)

ReadyMessage(p, r, m, late) ==
    CASE m.type = "ExtenderCommunication" -> ExtenderMessage(p, r, late)
      [] m.type = "ExtenderUpdate" ->
            IF r.status = "Ready" THEN Done([r EXCEPT !.peerExtenders = m.n]) ELSE Failed(r)
      [] OTHER -> KeyUpdateMessage(p, r, m)

ProcessMessage(p, r, m, c, late) ==
    LET result == IF r.status \in {"Ready", "Suspended"} THEN ReadyMessage(p, r, m, late)
                  ELSE HandshakeMessage(p, r, m, c)
    IN  IF ~result.handled THEN Condemn(result.peer, "ReceiveError")
        ELSE IF ~result.success /\ Stage(result.peer.status) < Stage("Ready")
        THEN Condemn(result.peer, "ReceiveError")
        ELSE result.peer

(***************************************************************************)
(* Initial state: both ends connected, nothing sent.                       *)
(***************************************************************************)
NewPeer(p, secret, mute, accepts) ==
    [status |-> "Connected", normal |-> <<>>, delayed |-> <<>>, expedited |-> <<>>,
     deferred |-> <<>>, held |-> 0, exchange |-> None,
     keys |-> IF secret THEN <<[name |-> SharedSecret, encrypt |-> TRUE, age |-> "current"]>>
              ELSE <<>>,
     update |-> "Unknown", resume |-> "Unknown",
     localCounter |-> None, peerCounter |-> None, peerExtenders |-> 0,
     needsUpdate |-> FALSE, sendDisabled |-> mute, heard |-> FALSE,
     accepts |-> accepts, condition |-> None]

\* secret: both know a shared secret; mute: the accepting end waits to be
\* spoken to; accepts: whose signature each end accepts.
Init ==
    /\ scenario \in Scenarios
    /\ \E accepts \in [Peers -> BOOLEAN] :
          peer = [p \in Peers |->
                    NewPeer(p, scenario.secret, scenario.mute /\ p = Inbound, accepts[p])]
    /\ wire = [p \in Peers |-> <<>>] /\ reading = {}
    /\ suspended = [p \in Peers |-> FALSE]
    /\ extenders = [p \in Peers |-> 1]
    /\ unannounced = [p \in Peers |-> FALSE]
    /\ used = [updates |-> 0, messages |-> 0, changes |-> 0, noise |-> 0,
               suspensions |-> 0, timeouts |-> 0]

Active(p) == peer[p].condition = None /\ peer[p].status # "Disconnected"

(***************************************************************************)
(* One pass over a peer: CheckStatus, then the parts of ProcessEvents.     *)
(***************************************************************************)

\* Mutant: the connecting end sends no noise to begin with.
BeginHandshakeSilently(p) ==
    /\ Active(p)
    /\ peer[p].status = "Connected"
    /\ ~suspended[p]
    /\ LET r == [peer[p] EXCEPT !.status = "MetaExchange", !.exchange = 0]
       IN  peer' = [peer EXCEPT ![p] =
              IF p = Inbound THEN Queue(r, Msg("BeginMeta", 0, None), "delayed") ELSE r]
    /\ UNCHANGED <<wire, suspended, extenders, unannounced, scenario, used>>

\* The handshake begins once the socket can be written.
BeginHandshake(p) ==
    /\ Active(p)
    /\ peer[p].status = "Connected"
    /\ ~suspended[p]
    /\ LET r == [peer[p] EXCEPT !.status = "MetaExchange", !.exchange = 0]
       IN  peer' = [peer EXCEPT ![p] =
              Queue(r, IF p = Inbound THEN Msg("BeginMeta", 0, None) ELSE Noise, "delayed")]
    /\ UNCHANGED <<wire, suspended, extenders, unannounced, scenario, used>>

\* An accepting end that chose to wait may send once it has heard the other.
EnableSend(p) ==
    /\ Active(p)
    /\ peer[p].sendDisabled /\ peer[p].heard
    /\ peer' = [peer EXCEPT ![p].sendDisabled = FALSE]
    /\ UNCHANGED <<wire, suspended, extenders, unannounced, scenario, used>>

\* The handshake or the connection attempt took too long.
HandshakeTimesOut(p) ==
    /\ Active(p)
    /\ Stage(peer[p].status) < Stage("Ready")
    /\ used.timeouts < scenario.timeouts
    /\ used' = [used EXCEPT !.timeouts = @ + 1]
    /\ peer' = [peer EXCEPT ![p] = Condemn(@, "TimedOutError")]
    /\ UNCHANGED <<wire, suspended, extenders, unannounced, scenario>>

Suspend(p) ==
    /\ Active(p)
    /\ peer[p].status = "Ready" /\ suspended[p]
    /\ peer' = [peer EXCEPT ![p] =
          IF UpdateStatusAllowed(@, "Suspended")
          THEN SetUpdateStatus([@ EXCEPT !.status = "Suspended"], "Suspended")
          ELSE Condemn([@ EXCEPT !.status = "Suspended"], "GeneralFailure")]
    /\ UNCHANGED <<wire, suspended, extenders, unannounced, scenario, used>>

\* KeyUpdate::Resume goes back to the status it had when it was suspended.
Resume(p) ==
    /\ Active(p)
    /\ peer[p].status = "Suspended" /\ ~suspended[p]
    /\ peer' = [peer EXCEPT ![p] =
          IF UpdateStatusAllowed(@, peer[p].resume)
          THEN SetUpdateStatus([@ EXCEPT !.status = "Ready"], peer[p].resume)
          ELSE Condemn([@ EXCEPT !.status = "Ready"], "GeneralFailure")]
    /\ UNCHANGED <<wire, suspended, extenders, unannounced, scenario, used>>

\* A message waits behind others, or for room in the receive rate limit.
HasRoom(r, m) == m.type = "ExtenderCommunication" => r.held < ReceiveRoom
ShouldDefer(r, m) == r.deferred # <<>> \/ ~HasRoom(r, m)

QueueOrProcess(p, r, m, c, late) ==
    IF m.type = "Noise" THEN r
    ELSE IF ShouldDefer(r, m) THEN [r EXCEPT !.deferred = Append(@, m)]
    ELSE ProcessMessage(p, r, m, c, late)

\* The socket is used only once CheckStatus, which precedes ProcessEvents, has
\* seen the connection established or resumed.  A suspension follows seconds of
\* silence: what had arrived before it has been read, or waits behind the
\* deferred messages.
Open(p) == ~suspended[p] /\ peer[p].status \notin {"Connected", "Suspended"}

\* Nothing is read while messages are deferred, but the loop in which one is goes on.
Receive(p) ==
    /\ Active(p)
    /\ Open(p)
    /\ peer[p].deferred = <<>> \/ p \in reading
    /\ wire[p] # <<>>
    /\ wire' = [wire EXCEPT ![p] = Tail(@)]
    /\ LET t == Head(wire[p])
           counted == [peer[p] EXCEPT !.heard = TRUE, !.peerCounter = NextCounter(@)]
       IN  \E c \in CounterStarts, late \in {FALSE, LateMessages} :
             peer' = [peer EXCEPT ![p] =
                IF ~CanDecrypt(@, t.key) THEN Condemn(@, "ReceiveError")
                ELSE IF counted.peerCounter \notin {None, t.counter}
                THEN Condemn(counted, "ReceiveError")
                ELSE QueueOrProcess(p, counted, t.message, c, late)]
    /\ UNCHANGED <<suspended, extenders, unannounced, scenario, used>>

\* Deferred messages are worked off in every status, suspended included.
ProcessDeferred(p) ==
    /\ Active(p)
    /\ peer[p].deferred # <<>>
    /\ HasRoom(peer[p], Head(peer[p].deferred))
    /\ LET r == [peer[p] EXCEPT !.deferred = Tail(@)]
       IN  \E c \in CounterStarts, late \in {FALSE, LateMessages} :
             peer' = [peer EXCEPT ![p] = ProcessMessage(p, r, Head(peer[p].deferred), c, late)]
    /\ UNCHANGED <<wire, suspended, extenders, unannounced, scenario, used>>

QueueNoise(p) ==
    /\ Active(p)
    /\ used.noise < scenario.noise
    /\ peer[p].status # "Suspended"
    /\ used' = [used EXCEPT !.noise = @ + 1]
    /\ peer' = [peer EXCEPT ![p] = Queue(@, Noise, "delayed")]
    /\ UNCHANGED <<wire, suspended, extenders, unannounced, scenario>>

\* An update of the extender list that could not be broadcast is sent now.
SendExtenderUpdate(p) ==
    /\ Active(p)
    /\ peer[p].status = "Ready" /\ peer[p].needsUpdate
    /\ peer' = [peer EXCEPT ![p] =
          Queue([@ EXCEPT !.needsUpdate = FALSE],
                Msg("ExtenderUpdate", extenders[p], None), "normal")]
    /\ UNCHANGED <<wire, suspended, extenders, unannounced, scenario, used>>

\* Key and counter are chosen when the message leaves, not when it is queued.
Send(p) ==
    /\ Active(p)
    /\ Open(p) /\ ~peer[p].sendDisabled
    /\ NextQueue(peer[p]) # None
    /\ IF EncryptionKey(peer[p]) = None
       THEN /\ peer' = [peer EXCEPT ![p] = Condemn(@, "SendError")]
            /\ UNCHANGED wire
       ELSE LET q == NextQueue(peer[p])
                counter == NextCounter(peer[p].localCounter)
                r == [peer[p] EXCEPT ![q] = Tail(@), !.localCounter = counter]
            IN  /\ peer' = [peer EXCEPT ![p] = r]
                /\ wire' = [wire EXCEPT ![Other(p)] =
                      Append(@, [key |-> EncryptionKey(peer[p]), counter |-> counter,
                                 message |-> Head(peer[p][q])])]
    /\ UNCHANGED <<suspended, extenders, unannounced, scenario, used>>

\* The accepting end starts an update of the keys, by time or by volume.
BeginKeyUpdate(p) ==
    /\ Active(p)
    /\ p = Inbound /\ peer[p].status = "Ready" /\ peer[p].update = "UpdateWait"
    /\ used.updates < scenario.updates
    /\ used' = [used EXCEPT !.updates = @ + 1]
    /\ peer' = [peer EXCEPT ![p] =
          IF peer[p].exchange # None THEN Condemn(@, "GeneralFailure")
          ELSE SetUpdateStatus(
                  Queue([@ EXCEPT !.exchange = used.updates + 1],
                        Msg("BeginPrimaryUpdate", used.updates + 1, None), "normal"),
                  "PrimaryExchange")]
    /\ UNCHANGED <<wire, suspended, extenders, unannounced, scenario>>

KeyUpdateTimesOut(p) ==
    /\ Active(p)
    /\ peer[p].update \in {"PrimaryExchange", "SecondaryExchange"}
    /\ used.timeouts < scenario.timeouts
    /\ used' = [used EXCEPT !.timeouts = @ + 1]
    /\ peer' = [peer EXCEPT ![p] = Condemn(@, "GeneralFailure")]
    /\ UNCHANGED <<wire, suspended, extenders, unannounced, scenario>>

\* The grace period of the replaced keys is over.  It is long compared with
\* the time a message takes, unless LateMessages lets a suspension stretch it.
GraceEnds(p) ==
    LET old == {i \in DOMAIN peer[p].keys : peer[p].keys[i].age = "grace"}
        names == {peer[p].keys[i].name : i \in old}
    IN  /\ Active(p)
        /\ old # {}
        /\ \/ LateMessages
           \/ /\ EncryptionKey(peer[Other(p)]) \notin names
              /\ \A i \in DOMAIN wire[p] : wire[p][i].key \notin names
        /\ peer' = [peer EXCEPT ![p].keys =
              [i \in DOMAIN @ |-> IF i \in old THEN [@[i] EXCEPT !.age = "expired"] ELSE @[i]]]
        /\ UNCHANGED <<wire, suspended, extenders, unannounced, scenario, used>>

\* The peer manager closes a peer that has a disconnect condition.
Disconnect(p) ==
    /\ peer[p].condition # None /\ peer[p].status # "Disconnected"
    /\ peer' = [peer EXCEPT ![p].status = "Disconnected"]
    /\ UNCHANGED <<wire, suspended, extenders, unannounced, scenario, used>>

\* The other end sees the closed connection after everything that was sent.
ConnectionClosed(p) ==
    /\ Active(p)
    /\ peer[Other(p)].status = "Disconnected" /\ wire[p] = <<>> /\ ~suspended[p]
    /\ peer' = [peer EXCEPT ![p] = Condemn(@, "SocketError")]
    /\ UNCHANGED <<wire, suspended, extenders, unannounced, scenario, used>>

(***************************************************************************)
(* Other threads: extenders, and the connection below.                     *)
(***************************************************************************)

\* An extender that starts is ready once the peers have been told; one that stops runs until
\* shortly before they are told, though the list is without it.
IsRunning(p) == Has(IF unannounced[p] THEN extenders[p] - 1 ELSE extenders[p])

ExtenderSends(p) ==
    /\ Active(p)
    /\ peer[p].status = "Ready" /\ Has(peer[p].peerExtenders) /\ IsRunning(p)
    /\ used.messages < scenario.messages
    /\ used' = [used EXCEPT !.messages = @ + 1]
    /\ \E priority \in Priorities : peer' = [peer EXCEPT ![p] = Queue(@, Extender, priority)]
    /\ UNCHANGED <<wire, suspended, extenders, unannounced, scenario>>

\* An extender is done with a message; its size leaves the receive rate.
ExtenderFinishes(p) ==
    /\ peer[p].held > 0
    /\ peer' = [peer EXCEPT ![p].held = @ - 1]
    /\ UNCHANGED <<wire, suspended, extenders, unannounced, scenario, used>>

\* The list of active extenders changes first, the peers are told after.
ExtenderListChanges(p) ==
    /\ ~unannounced[p]
    /\ used.changes < scenario.changes
    /\ used' = [used EXCEPT !.changes = @ + 1]
    /\ extenders' = [extenders EXCEPT ![p] = @ + 1]
    /\ unannounced' = [unannounced EXCEPT ![p] = TRUE]
    /\ UNCHANGED <<peer, wire, suspended, scenario>>

\* Mutant: only ready peers are told.
BroadcastToReadyOnly(p) ==
    /\ unannounced[p]
    /\ unannounced' = [unannounced EXCEPT ![p] = FALSE]
    /\ peer' = [peer EXCEPT ![p] =
          IF @.status = "Ready" THEN Queue(@, Msg("ExtenderUpdate", extenders[p], None), "normal")
          ELSE @]
    /\ UNCHANGED <<wire, suspended, extenders, scenario, used>>

BroadcastExtenderUpdate(p) ==
    /\ unannounced[p]
    /\ unannounced' = [unannounced EXCEPT ![p] = FALSE]
    /\ peer' = [peer EXCEPT ![p] =
          IF @.status = "Ready" THEN Queue(@, Msg("ExtenderUpdate", extenders[p], None), "normal")
          ELSE IF @.status \in {"SessionInit", "Suspended"} THEN [@ EXCEPT !.needsUpdate = TRUE]
          ELSE @]
    /\ UNCHANGED <<wire, suspended, extenders, scenario, used>>

ConnectionSuspends(p) ==
    /\ Active(p)
    /\ ~suspended[p]
    /\ used.suspensions < scenario.suspensions
    /\ used' = [used EXCEPT !.suspensions = @ + 1]
    /\ suspended' = [suspended EXCEPT ![p] = TRUE]
    /\ UNCHANGED <<peer, wire, extenders, unannounced, scenario>>

ConnectionResumes(p) ==
    /\ suspended[p]
    /\ suspended' = [suspended EXCEPT ![p] = FALSE]
    /\ UNCHANGED <<peer, wire, extenders, unannounced, scenario, used>>

\* What is done with a peer is done after its loop, in which its lock is held; an extender
\* that finishes and the list of extenders do not wait.
AfterLoop(p) ==
    \/ BeginHandshake(p) \/ EnableSend(p) \/ Suspend(p) \/ Resume(p)
    \/ ProcessDeferred(p) \/ SendExtenderUpdate(p) \/ Send(p)
    \/ Disconnect(p) \/ ConnectionClosed(p) \/ BroadcastExtenderUpdate(p)

Handling(p) ==
    \/ /\ Receive(p)
       /\ reading' = IF peer'[p].deferred = <<>> THEN reading \ {p} ELSE reading \cup {p}
    \/ AfterLoop(p) /\ reading' = reading \ {p}
    \/ (ExtenderFinishes(p) \/ ConnectionResumes(p)) /\ UNCHANGED reading

Environment(p) ==
    \/ /\ \/ HandshakeTimesOut(p) \/ QueueNoise(p) \/ BeginKeyUpdate(p) \/ KeyUpdateTimesOut(p)
          \/ GraceEnds(p) \/ ExtenderSends(p) \/ ConnectionSuspends(p)
       /\ reading' = reading \ {p}
    \/ ExtenderListChanges(p) /\ UNCHANGED reading

Next == \E p \in Peers : Handling(p) \/ Environment(p)

Spec == Init /\ [][Next]_vars

\* The threads of a peer manager come back to every peer that has work, and a
\* suspended connection is resumed.
FairSpec == Spec /\ \A p \in Peers : WF_vars(Handling(p))

(***************************************************************************)
(* Properties.                                                             *)
(***************************************************************************)
Types == {"Noise", "ExtenderCommunication", "ExtenderUpdate", "KeyUpdateReady"}
         \cup {s.type : s \in HandshakeSteps \cup UpdateSteps}
         \cup {"BeginPrimaryUpdate"}

Counters == {None} \cup 0..(CounterModulus - 1)
Numbers == {None} \cup Nat
Conditions == {"PeerNotAllowed", "ReceiveError", "SendError", "SocketError", "TimedOutError",
               "GeneralFailure"}
Queues == {"expedited", "normal", "delayed"}

ASSUME PeerSessionAssumption ==
    /\ None \notin Nat /\ None \notin Conditions /\ None \notin Queues /\ None \notin Types
    /\ CounterModulus \in Nat \ {0} /\ CounterStarts \subseteq 0..(CounterModulus - 1)
    /\ ReceiveRoom \in Nat \ {0}
    /\ Priorities \subseteq Queues

ASSUME ScenarioAssumption ==
    Scenarios \subseteq [secret : BOOLEAN, mute : BOOLEAN, updates : Nat, messages : Nat,
                         changes : Nat, noise : Nat, suspensions : Nat, timeouts : Nat,
                         without : SUBSET Nat]

KeyNames == Numbers \X {"primary", "secondary", "shared secret", "autogen"}
KeyPairs == [name : KeyNames, encrypt : BOOLEAN, age : {"current", "grace", "expired"}]
Messages == [type : Types, n : Numbers, counter : Counters]
Transports == [key : KeyNames, counter : Counters, message : Messages]
PeerRecords ==
    [status : Statuses, update : UpdateStatuses, resume : UpdateStatuses,
     normal : Seq(Messages), delayed : Seq(Messages), expedited : Seq(Messages),
     deferred : Seq(Messages), held : 0..ReceiveRoom, exchange : Numbers,
     keys : {k \in Seq(KeyPairs) : Len(k) <= MaxKeyPairs},
     localCounter : Counters, peerCounter : Counters, peerExtenders : Numbers,
     needsUpdate : BOOLEAN, sendDisabled : BOOLEAN, heard : BOOLEAN, accepts : BOOLEAN,
     condition : Conditions \cup {None}]

\* Every field of a peer, and every transport, has its type.
TypeOK ==
    /\ peer \in [Peers -> PeerRecords]
    /\ wire \in [Peers -> Seq(Transports)]
    /\ reading \subseteq Peers
    /\ suspended \in [Peers -> BOOLEAN] /\ unannounced \in [Peers -> BOOLEAN]
    /\ extenders \in [Peers -> Nat]
    /\ scenario \in Scenarios
    /\ used \in [updates : Nat, messages : Nat, changes : Nat, noise : Nat, suspensions : Nat,
                 timeouts : Nat]

\* The extender of p has been on every list so far.
Stayed(p) == \A version \in 1..extenders[p] : Has(version)

\* Two honest peers are never dropped by each other or by themselves: what
\* arrives can be decrypted, has the expected counter and is expected in the
\* status of its receiver (Peer::ProcessMessageTransport and Peer::ProcessMessage
\* treat anything else as an attack), also when the extender it is for has stopped
\* there; and, without a timeout, every change of status is allowed and there is
\* a key to encrypt with (Peer::SetStatus, KeyUpdate::Resume,
\* Peer::SendFromQueues).  Not so for a peer whose extender has stopped.
NoHonestPeerIsDropped ==
    /\ \A p \in Peers : Stayed(Other(p)) => peer[p].condition # "ReceiveError"
    /\ used.timeouts = 0 => \A p \in Peers : peer[p].condition \notin {"GeneralFailure", "SendError"}

\* The same of a peer whose extender stops, and whose messages are still to be sent
\* ("keep unsuccessfully handling messages for a grace period so that the connection
\* doesn't get closed", ExtenderManager.cpp:667): not so, since only the end that
\* receives for a stopped extender has a grace period, and the end that is told that
\* its peer's extender has gone has none (Peer.cpp:1957).
NobodyIsDropped == \A p \in Peers : peer[p].condition # "ReceiveError"

\* Whoever is ready has been accepted by the other end and has accepted it: a
\* peer whose signature is refused never gets the session message that would
\* make it ready (PeerMessageProcessor, BeginAuthentication to SessionInit).
ReadyMeansBothAccept ==
    \A p \in Peers : peer[p].status \in {"Ready", "Suspended"} => \A q \in Peers : peer[q].accepts

\* The counter a peer expects next is the one the first transport on its way
\* carries, and the sender's counter is the one the last carries.
CountersAgree ==
    \A p \in Peers :
        LET q == Other(p)
            n == Len(wire[p])
        IN  peer[p].peerCounter # None /\ peer[p].condition = None =>
              /\ peer[q].localCounter = (peer[p].peerCounter + n) % CounterModulus
              /\ \A i \in 1..n : wire[p][i].counter = (peer[p].peerCounter + i) % CounterModulus

\* Readiness and counters agree at both ends.
EndsAgree == ReadyMeansBothAccept /\ CountersAgree

Quiet(p) == /\ wire[p] = <<>> /\ peer[p].deferred = <<>>
            /\ peer[p].normal = <<>> /\ peer[p].expedited = <<>> /\ peer[p].delayed = <<>>

Settled == \A p \in Peers : /\ peer[p].status = "Ready" /\ peer[p].condition = None
                            /\ Quiet(p) /\ peer[p].update = "UpdateWait"

\* After every update both ends encrypt with the newest key, the same at both,
\* and no exchange is left over (KeyUpdate, Peer::ReleaseKeyExchange).
KeysSettle ==
    Settled => /\ EncryptionKey(peer[Inbound]) = EncryptionKey(peer[Outbound])
               /\ EncryptionKey(peer[Inbound]) = Secondary(used.updates)
               /\ \A p \in Peers : peer[p].exchange = None

\* When nothing is left to send, each end knows the extenders the other has
\* (BroadcastExtenderUpdate, Flags::NeedsExtenderUpdate): no change of the
\* list is lost between the session messages and the ready state.
ExtendersAgree ==
    \A p \in Peers :
        Settled /\ ~peer[p].needsUpdate /\ ~unannounced[p]
            => peer[Other(p)].peerExtenders = extenders[p]

\* A handshake ends: both ends become ready or the connection is closed at
\* both, whatever the order in which delayed messages and noise leave.
HandshakeEnds ==
    \A p \in Peers : <>(peer[p].status \in {"Ready", "Suspended", "Disconnected"})

\* A key update that was begun ends at both ends, or the peers part.
KeyUpdateEnds ==
    \A p \in Peers : peer[p].update \in {"PrimaryExchange", "SecondaryExchange", "ReadyWait"}
        ~> peer[p].update = "UpdateWait" \/ peer[p].status = "Disconnected"

\* No exchange of keys waits forever for a message of the other end
\* (SendDisabled, the delayed queue and the deferred messages always drain).
ExchangesEnd == HandshakeEnds /\ KeyUpdateEnds
=============================================================================
