# A verification development of QuantumGate

QuantumGate is a peer-to-peer networking library in C++: peers connect to each
other over TCP, Bluetooth or a reliable protocol of its own over UDP, derive keys
in a handshake, exchange encrypted messages on behalf of *extenders* (plug-ins),
and relay connections for one another. The library is `src/QuantumGateLib`; this
directory holds TLA+ models of it, the TLC configurations that check them and
proofs for TLAPS. Line numbers are those of the sources in `src/`.

Contents: [1 the system](#1-the-system) · [2 the modules](#2-the-modules) ·
[3 what is checked](#3-what-is-checked) · [4 what is proved](#4-what-is-proved) ·
[5 disagreements](#5-disagreements-found) · [6 what is left out](#6-what-is-left-out) ·
[7 what could come next](#7-what-could-come-next) · [8 running it](#8-running-it)

## 1 The system

`Local` (Core/Local.cpp) owns one instance of every manager, starts and stops them
in a fixed order and forwards configuration. Each manager has a `ThreadPool` whose
threads run *wait, then process* loops; objects shared between threads are wrapped
in `ThreadSafe<T, Mutex>`. A connection comes up in this order: a listener accepts
it (asking the access manager), a socket is handed to the peer manager, two
`Peer`s run the peer handshake over the socket using keys from the key generation
manager, and once ready they pass messages to and from the extender manager or the
relay manager.

| Component | State it keeps | Operations | Talks to | What is hard | What makes it correct | Module |
|---|---|---|---|---|---|---|
| UDP connection: transfer (Core/UDP/UDPConnection, …SendQueue) | send queue, next number, last acknowledgement, receive queue, pending acknowledgements, windows | send, retransmit, receive, acknowledge, announce a window | the other end, the socket's buffers | loss, repetition, reordering; 16-bit numbers that wrap; windows that change | a reliable FIFO channel each way; nothing acknowledged falsely; everything acknowledged in the end | `UDPTransfer` |
| UDP connection: establishment (…Connection, …ConnectionManager, …ListenerManager) | status, close condition, delayed queue, keys, the maps of the threads, the count of handshakes | connect, accept, cookie, Syn, keepalive, reset, time-out, interface change | listener thread, manager threads, access manager | several Syns make several connections; keys and endpoints change at different times on the two ends | one connection per ID; the ends agree on keys and numbers; the handshake ends | `UDPHandshake` |
| UDP connection: upkeep (…Connection) | times of the last sends and receipts, status | keepalive, suspend, resume, close | the other end | an end that moves while datagrams are lost | no suspension without silence; both ends are connected in the end, or neither | `UDPSuspension` |
| UDP connection: path MTU (…ConnectionMTUD) | the size tried, the size proven, the probe | probe, retry, take an answer, notice a change | transfer | answers of earlier probes, a network that changes meanwhile | what is found fits | `MTUDiscovery` |
| UDP connection: cookies (…ConnectionCookies.h) | two keys and when they were made | make, verify, rotate | listener thread | keys are looked after only on use | timely cookies accepted, old ones refused | `UDPCookies` |
| Listeners (Core/TCP, UDP, BTH …ListenerManager) | threads by address and port, running | start, stop, update the interfaces, accept | peer manager, access manager | starts that fail in part; interfaces that come and go | each address and port has one listener; strangers go no further | `Listeners` |
| Key generation (Core/KeyGeneration) | a queue of key pairs per algorithm, its pending events, the event queue | take a key, schedule, generate, remove a queue, start, stop | thread pool; UDP and peer key exchange call it | three kinds of threads over plain pointers; wake-ups | no event outlives its queue; as many keys as configured | `KeyGeneration` |
| Peer (Core/Peer/Peer, PeerMessageProcessor, PeerKeyUpdate, the queues) | status, keys, supported extenders, queues, rate limits | meta exchange, key exchanges, authentication, session, ready, key update, suspend, resume, disconnect | gate (socket or relay), extenders, managers | two state machines in step; messages that overtake others; each end switches keys at its own time; noise | honest peers are never dropped; the ends agree; each message is read with the keys it was written with | `PeerSession` |
| Peer manager (PeerManager, PeerLookupMaps) | a map of peers per pool, the lookup maps, counts | accept, connect, add, remove, look after | peers, access manager, relay | maps changed in several steps under several locks | the maps and counts hold exactly the peers that are there | `PeerDirectory` |
| Access control (Core/Access) | reputations, attempts, filters, subnet counts, peer settings | update, improve, test, add, remove | listeners, peers | several limits changed together; time that passes between looks | bounded reputations; counts equal the connections | `AddressReputation`, `IPSubnetLimits` |
| Relay (Core/Relay) | links by relay port, their status, data rate limits | connect, accept, forward, acknowledge, suspend, disconnect | peers at both sides, relay sockets | events of two peers meet; faults at both ends at once | data in order; a link ends at every host, and its neighbours are told once | `Relay` |
| Extenders (Core/Extender) | per-peer queue of events and messages, the peers known, status | add, start, stop, remove, queue, process | peers, pools of threads | several workers, one at a time per peer; stops while peers come | order per peer; nothing before Connected or after Disconnected | `Extenders` |
| Local instance and environment (Core/Local, LocalEnvironment) | which parts run, callers that wait, the cached environment | start, stop, switch a part, connect, react to changes | everything | failures in the middle of a start; callbacks; calls under one mutex | all parts run or none; calls return | `LocalInstance` |
| Public endpoints (Core/PublicEndpoints) | reported addresses, verifications under way, the cache | report, verify, trust, make room | peers, ping, UDP | verification beside reports; room that is limited | what is believed was verified or vouched for | `PublicEndpoints` |
| Concurrency primitives | counts of holders, handles in use, threads | lock, unlock, wait, set, stop | everything | recursion, limits, lost wake-ups | exclusion; events are reported; threads stop | `RecursiveSharedMutex`, `EventGroup`, `KeyGeneration` (pool, ConditionEvent, Queue) |
| Messages, transport, crypto, compression, memory, addresses, sockets, utilities, API | byte buffers | encode, decode, forward | everything | bytes | codecs invert each other | none |

`PROJECT.json` lists all components with their sources, and every place in the code
that is hard to test ("hazards") with the property that watches it.

## 2 The modules

| Module | Models |
|---|---|
| `UDPSequence` | the number after a number, the two receive windows and the classification of a number, as the code computes them; and by distance, for reference |
| `ReliableChannel` | abstract: what is written comes out once and in order, in each direction |
| `UDPTransfer` | two connected ends and the network between them |
| `UDPHandshake` | a connecting end, the listener, the accepting side's threads and the inbound connections they hold |
| `UDPSuspension` | two connected ends in silence: keepalives, suspension, resumption, moves |
| `MTUDiscovery` | the search for the largest message, on a network that changes |
| `UDPCookies` | the cookie keys of a listener and a clock |
| `Listeners` | one of the three listener managers, its threads and its interfaces |
| `KeyGeneration` | the key generation manager on its thread pool |
| `PeerSession` | two peers from the first message of the handshake to key updates |
| `PeerDirectory` | the peer manager with its pools, and the access manager it asks |
| `IPSubnetLimits` | operators: limits on the connections of a subnet |
| `AddressReputation` | the reputation of one address and its connection attempts |
| `PublicEndpoints` | the addresses that peers report, and what is done to believe them |
| `Relay` | one link over a chain of hosts, with the relayed peers at its ends |
| `Extenders` | one extender with its pools, and the peers that talk to it |
| `LocalInstance` | start and stop of an instance, its callers and its worker |
| `RecursiveSharedMutex`, `EventGroup` | two primitives of Concurrency |
| `MCUDPTransfer`, `MCConnection`, `MCRelay`, `MCNode`, `MCPeerSession`, `MCAccess` | instances for TLC |
| `UDPTransferProofs`, `UDPHandshakeProofs`, `PeerSessionProofs`, `RelayProofs`, `ExtendersProofs` | theorems about that module and their proofs |
| `UpkeepProofs` | those of `MTUDiscovery` and `UDPSuspension` |
| `NodeProofs` | those of `KeyGeneration` and `LocalInstance` |
| `AccessProofs` | those of `UDPCookies`, `AddressReputation`, `Listeners`, `PublicEndpoints`, `RecursiveSharedMutex`, and of `PeerDirectory` with `IPSubnetLimits` |

Four of the MC modules join components that do not interact in the modelled part, so
that one run checks several: a variable `part` chosen in the first state
says which of them moves, the others stay in an initial state, each property speaks of
its part, and the fairness of a part is stated of the part's own steps. Each part's
state space is what it would be alone.

**UDPTransfer.** Each variable is a member of `UDP::Connection` or its
`SendQueue`, indexed by the end; `created`, `taken`, `sent` and `delivered` are
history that the code does not have. `ProcessEvents` (276-382) calls the handlers one
after the other with their guards; here every handler, and every iteration of its loop,
is an action, so the ends interleave at least as finely as in the program. A message
carries its true *position* besides its number modulo the number of numbers; only
properties, and the payloads handed to the user, look at it. The network is a set of
datagrams: a transmission is *carried*, *lost*, or *refused* by the socket (a send of 0
bytes); a datagram may arrive in any order and, with `DatagramsRepeat`, any number of
times. Times are not modelled (a retransmission may happen whenever an item is in the
queue); the congestion window and the user's buffers decide *whether* a message is sent
or handed over, so those actions may or may not be taken; an acknowledgement is one
message with a set of numbers, where the code sends ranges. A message is made only while
`NumbersInUseAreRecent`: section 3 says what this assumes.

**UDPHandshake.** The connecting end's variables are members of its `Connection`.
Inbound connections are *incarnations*: a Syn that the listener accepts makes one,
in the map of a worker thread. `accepting` is the window between `AddConnection`, which
makes the connection visible to its worker thread, and `Socket::Accept`. An endpoint and
the keys of a phase are one number: 0 is the listener and the default keys, `i` is the
socket of incarnation `i` and the keys derived with it. Sequence numbers are positions;
`zeroPosition` is the one whose number is 0, which the code never takes as acknowledged
(UDPConnectionSendQueue.cpp:146). Wrap-around is otherwise `UDPTransfer`'s. `endpoint` is
where the connecting end sends to: a keepalive from elsewhere moves it, also to another
incarnation. `trouble` is a history variable: a cookie was asked for, an interface changed,
or the endpoint was moved off the peer. `Failures` switches on the time-out of a handshake,
closing by the user and the expiry of the default keys, which last (two minutes) until a Syn
numbered 0 is no longer under way; `MaxKeepAlives` bounds what interface changes send.

**UDPSuspension.** Time passes in units in which every connection is visited; an end
that moves does not know the keepalives sent to its old address. A suspended end that
closes sends no Reset, as in the code.

**MTUDiscovery.** The sizes of `UDPMessageSizes::All` are `1 .. Last`; a network carries
one of them exactly or something between two. Answers carry the number of their probe
and may be late. The history variable `intact` says that no probe was lost and nothing
changed since discovery began.

**Listeners.** An operation of `Local` is one action, with every failure inside it; the
history variable `damaged` holds addresses for which the code documents no retry. The
question whether a connection may be accepted and its handing on to the peer manager are
two actions of a thread, which joins only after the second; `asked` holds what lies
between, and remembers whether the rules have changed meanwhile. `discoverable` holds what
the manager believes of the radios and what is the case: switching discovery off may fail.

**KeyGeneration.** What the code does under one lock is one action. A thread's place
is `waiting` (about to evaluate its condition), `drowsy` (found nothing, still in the
critical section), `asleep`, `awake`, or a place in its processor function; `drowsy`
is what separates a notification made inside the critical section (`Set`, `Push`)
from one made outside (`InterruptWait`).

**PeerSession.** One record per end holds the members of `Peer` that control reads; the
wire to an end is a sequence of transports. A pass of the peer's thread over its socket,
and each message it takes, is an action that does everything the handler does, to the
sends it queues and the wake-up of its callers. The loop that reads goes on after a
message had to be deferred, so that others are deferred behind it; `reading` holds the ends
in such a loop, and whatever else is done with the peer ends it. Message counters wrap at
`CounterModulus`, as the code's bytes do. Key pairs are named by the exchange that made
them; a message names the keys it was written with, and a reader that does not hold
them drops the peer, as a failed decryption does. One extender is modelled, by the versions
of an end's list: `scenario.without` names those without it. It sends only while it runs
and its peer's list has it; its messages are refused by an end to whose knowledge the
sender does not have it (Peer.cpp:1957), and tolerated for a grace period by an end that
has stopped it (ExtenderManager.cpp:633-690).

**Relay.** A link is seen by every host of the chain: `link[n]`, the peers at its two
sides, the port's event queue and the default queues of the event threads (connect,
suspend and resume events go to the latter and may overtake). `budget` bounds data and
faults and says which kinds of faults happen in a behaviour.

**Extenders, LocalInstance.** What a thread does under one lock is one action; the locks
held from one action to another are variables. `setting` (`scenario` in `LocalInstance`) holds
settings, and the bounds of what the environment does. The pools of an extender are told
to stop, and joined, one after another (`ended`).

**PeerDirectory.** Adding a peer takes several steps because other threads look in between:
it is counted, put into m_AllPeers, put into the map of a pool, and then watched
(`AddWorkEvent`) or, if that fails, taken out of both maps again; its lock is held
throughout. The threads of a pool hold the pool's map shared while they wait for a peer that
is being added: `mapHolders` are those that do, and nobody changes a map meanwhile.
`leaked` is a history variable: connections that were counted for peers that could not be
added.

**PublicEndpoints, AddressReputation.** A call under the lock is one action; the two
verification threads work in three steps (take, ask, record), since reports come between.

**RecursiveSharedMutex, EventGroup.** A step is what a thread does in the critical
section; a notification comes after it.

Definitions described as mutants are plausible mistakes in the definition that follows
them, each of which breaks the property listed for it in `PROJECT.json`. They are used
nowhere else.

## 3 What is checked

| Run | States | Questions |
|---|---|---|
| `transfer` | 261 000 | `NoFalseAck`, `ReceiveQueueIsAhead`, `SendQueueIsSuffix`, the refinement `ImplementsChannel`; `SentIsDelivered` and `QueuesDrain` under fairness: one way with reordering, repetition and windows that change in mid-flight, one way through all numbers and on, both ways with every fault, both ways fair |
| `connection` | 735 000 | establishment below the cookie threshold with every failure, above it with expiring cookies, key expiry and moves, and fair: `OneConnection`, `NumbersAgree`, `BothConnect` |
| `connection_upkeep` | 101 000 | `MTUIsRight`, `SuspensionIsSound`, `UpkeepSettles` |
| `relay` | 382 000 | three hosts: `RelayIsReliable`, `OneFarewell`, `SocketFollowsLink`, `LinkIsTornDown` |
| `node` | 268 000 | key generation: `NoEventForErasedQueue`, `PoolIsBounded`, `KeysAreGenerated`; extenders: `ExtenderIsServed`, `ExtendersKeepUp`; instance: `InstanceIsWhole`, `EveryCallReturns` |
| `peer_session` | 136 000 | session: `NoHonestPeerIsDropped`, `EndsAgree`, `KeysSettle`, `ExtendersAgree`, `SessionExchangesEnd`; mutex: `Exclusion`, `MutexIsGot`; event group: `GroupWorks` |
| `access` | 270 000 | cookies: `TimelyCookieIsAccepted`, `OldCookieIsRefused`; `ReputationIsFair`; directory: `DirectoryIsExact`, `DirectoryServes`; endpoints: `EndpointsAreSound`, `RelevantStay`, `EveryVerificationEnds`; `ListenersAreSound` |
| `keys_stop`, `transfer_last_number`, `mtu_change`, `peer_backlog`, `extenders_suspended` | | disagreements, see section 5 |

All runs set `CHECK_DEADLOCK FALSE`: what the environment does is bounded (payloads,
Syns, faults, calls, clock ticks), so every instance comes to rest, as the program does
once nothing is left to do. That nothing rests too early is what the liveness
properties say.

**Why the bounds are enough.** A hazard of the transfer needs a message, an older and
a newer neighbour, and a window smaller than what is sent: two or three sequenced
messages with windows of 1 and 2 do. Initial numbers are chosen next to the wrap, and the
scenario "around" sends more messages than there are numbers; in "one way" and "both ways"
an end changes its window, announced or not, with messages of the old window under way.
`WindowAssumption` is that of the code's types: a window is at most half of the numbers.
The other thing assumed is the *age of numbers*, what the width of 16 bits is for: no
message is made while its number, or one a window ahead, still names something in use
(a datagram under way, an item of a send queue, an acknowledgement that is due, or the last
message taken). It is a guard of `Add` (`NumbersInUseAreRecent`), about times and not about
how many messages a connection sends; nothing in the code enforces it, and without it
"around" violates `NoFalseAck`. For the handshake, two
incarnations and two Syns are the least for which a choice exists; the third Syn is the
case of `handshake_two_cookies`. For cookies, six ticks hold two rotations and a pause
longer than the interval. For the keys, two workers compete for one queue, and two
algorithms let one be removed while the other is in use. Three hosts give a relay a
beginning, a middle and an end; two faults make ends fail at the same time. A session
needs counters that wrap, one update with each thing that can happen during it, three
updates for the oldest keys to be dropped, and an extender that stops and starts again at
one end, or stops at both, while a message of it is under way; each is a scenario of its own. A directory
needs two threads that add, one of which may fail, and one rule that changes between; two limits that share
no masked address (section 6 says what happens when they do).

**Fairness.** `UDPTransfer`: both ends run `ProcessEvents` again and again (WF of what
only needs that), the user keeps reading, an item is retransmitted for ever and the
network does not lose it for ever (SF of a retransmission and of an acknowledgement
that is carried). Repeated arrival is off there. Sending a payload or an announcement is
not forced, except the first announcement, which comes when MTU discovery ends, found
or not (UDPConnection.cpp:496). `UDPHandshake`: WF of the loops of threads, SF of
receptions that losses disable. `UDPSuspension`: the clock runs, both ends are visited,
what has arrived is received. `MTUDiscovery`: the connection is processed, its answers
arrive if they were not lost. `KeyGeneration`: WF of each thread's steps and SF of
entering a critical section for which others compete; none for callers, for a stop or
for spurious wake-ups, which Windows permits and does not promise. `Relay`: WF of the
primary thread, the event threads, receipt, and of a peer noticing what its connection
does. `PeerSession`: each end handles what is there. `Extenders`, `LocalInstance`,
`PeerDirectory`, `PublicEndpoints`: WF of each thread that has begun something; no
fairness for calls. `RecursiveSharedMutex`: WF of each thread's progress and SF of
releasing; `EventGroup`: WF of each thread, SF of entering the barrier and of a wait
that ends with an event.

**Conditions of what holds.** `QueuesDrain` is for initial numbers other than the last
(section 5). That at most one inbound connection lives, that no end meets a message it cannot
read (parts of `OneConnection`) and that the next numbers agree (a part of `NumbersAgree`)
holds as long as no cookie was asked for and no interface has changed (`calm`); that only
the connection the other end completed is ever established holds unless a keepalive has
moved that end to another one (`handshake_moved` in section 5); that the handshakes are
counted exactly holds always. `SequencesAgree` says that nothing of the handshake is left
to be sent but a Syn numbered 0, whose acknowledgement the code ignores: it stays until a
later message is acknowledged. Above the threshold, `QueryAddConnection` (UDPConnectionManager.cpp:392) asks for a cookie
before it looks for the connection, so that a repeated Syn with a good cookie makes a
second inbound connection, which is never established; for a change of interface see
`handshake_interface` in section 5. `OldCookieIsRefused` says one and
a half interval: an expired secondary key stays until the primary key is rotated
(UDPConnectionCookies.h:97-131). The part of `SuspensionIsSound` that says that a
connection survives one move needs a `MaxSuspendDuration` with `SuspensionsAreLong`: plus
the margin of 15 s, more than twice the `SuspendTimeout` and four delays of a datagram.
The default durations (60 s and 60 s) are not: one move and one datagram that arrives
late can cost the connection. TLC finds a counterexample one unit below that bound.
`HonestPeerIsKept`, a part of `ExtenderIsServed`, is for extenders that are stopped one by
one: `Manager::ShutdownExtenders` keeps only the shared lock and waits for nobody, so that
a thread which is about to hand over a message may find that nothing is known of a stop.
`NoHonestPeerIsDropped` is for messages with the priorities `normal` and `delayed`: an
*expedited* extender message may overtake the `EndSessionInit` of its sender, and the
receiver, not yet ready, drops the peer for it. Nor does it speak of a peer whose extender
has stopped at some time: its last messages may be overtaken by the news that the extender
is gone (`peer_leaving` in section 5). An end that has stopped an extender tolerates messages
for it for 60 s, which is taken to be longer than a message is under way or deferred
(`LateMessages = FALSE`). It and `ExtendersAgree` are not for
behaviours in which messages are deferred and the connection is suspended as well
(`peer_backlog`, `peer_update` in section 5). `DirectoryServes` excepts, by the name
`Stuck`, a failed addition whose undo waits for a thread that waits for it
(`directory_undo` in section 5). `StrangersStayOut`, a part of `ListenersAreSound`, speaks
of peers whose acceptance met the rules that the listener had asked. `LinkIsTornDown` is for budgets in which
suspended links time out. `ReputationIsFair`: what is left of an interval when a
reputation is asked for is lost, so an address improves more slowly than the interval
says.

## 4 What is proved

With TLAPS, for every value of the constants that their assumptions allow. Every theorem
of a component follows the same pattern: the type invariant, an inductive invariant, a
lemma for each action, and one temporal step.

* **Transfer** (`UDPTransferProofs`). `TypeCorrect`. `Acknowledged`, `ReceivedInWindow`
  and `QueuedInOrder`: `Spec => []NoFalseAck`, `[]ReceiveQueueIsAhead`,
  `[]SendQueueIsSuffix`. None is inductive: what an acknowledgement releases depends on
  what its sender had when it wrote it. `IInv` says that numbers follow positions; that
  every datagram under way, every queued item and every kept message bears the number of
  its position; that it acknowledges only numbers of positions its sender had taken in
  order or had received; that the send queue ends at `created` without a gap, and what is
  before it, or acknowledged in it, has been received. All of this only grows (`Grows`),
  so a late datagram is as good as a fresh one. Numbers wrap any number of times: that
  whatever is in use is recent is part of the invariant, kept by the guard on the age of
  numbers (section 3), so that among the positions an end may meet equal numbers are
  equal positions, and the code's window test is a test of positions. `Reliable`:
  `Spec => ImplementsChannel`, with the positions of payloads added: sending a payload is
  a `Write`, taking a Data message in order a `Receive`, everything else a stutter.
  `WindowOfIsReference`: the code's comparisons, with four cases around the wrap, say the
  same as the distance between the numbers, for any number of sequence numbers and any
  window within them; `WindowsAreDisjoint`: two windows that fit share no number.
* **Establishment** (`UDPHandshakeProofs`). `TypeCorrect`, `Established`
  (`[]OneConnection`) and `Agreed` (`[]NumbersAgree`), for any number of incarnations,
  Syns, threads and failures, whichever Syn is numbered 0: what is written with the keys of
  an incarnation is written after the connecting end chose it, so no second incarnation gets
  an answer as long as the connecting end is not moved to it.
* **Upkeep** (`UpkeepProofs`). `DiscoveryIsRight` (`[]MTUIsRight`): what is found fits and,
  while no probe was lost and nothing changed, is the largest size that fits, for any list
  of at least two sizes and any number of retries and changes. The invariant says which
  numbers are fresh, what an answer under way proves, and where the search stands
  (`ProbeIsNext`, `IsLargest`). `SuspensionSound` (`[]SuspensionIsSound`), for any
  durations in which a datagram arrives before the margin has passed: without losses and
  moves nobody is suspended; an end is not alone for long; and one move is survived. Its
  invariant, `SuspensionInv`, has a part for each. `Hears`: an end has heard nothing for at
  most as long as the other has sent nothing, or a datagram is on its way that was sent
  within a keepalive of the last that was received. `FateInv`: an end that is alone hears
  nothing that was sent since. `Tracked`: as long as one end moves, once, the other hears
  it (`Followed`), and how long the one that moved may have heard nothing depends on whether
  datagrams of its old address are still on their way, the other end believes them, or
  knows better (`Found`); the longest is what `SuspensionsAreLong` allows.
* **Cookies and reputations** (`AccessProofs`). `TimelyCookie` and `OldCookie`: a cookie
  made at *t* has a key created at most half an interval before *t*, and a cookie younger
  than half an interval still has its key in one of the two places, because a key that is
  rotated out at an age within the interval moves to the second place and the next
  rotation is more than half an interval later. `ReputationFair` (`[]ReputationIsFair`):
  the score stays within its bounds; an address that is left alone recovers at least half
  as fast as configured and never faster than the time it has had; and in one interval at
  most two attempts beyond the configured number are let in.
* **Listeners and public endpoints** (`AccessProofs`). `ListenersSound`
  (`[]ListenersAreSound`), for any addresses, ports and faults: an address that was not
  `damaged` by a failure has its listener on each port, the Bluetooth services are those of
  the threads, the node is discoverable only while the manager runs unless a failure was
  seen, and no peer of an address that is not allowed is handed on, unless the rules were
  changed after the question; `AskedAreAllowed` carries the answer from one step to the
  other.
  `EndpointsSound` (`[]EndpointsAreSound`): a verification under way is of an endpoint that
  waits for it, what was verified is ours, votes are of the networks that gave them, and
  the maps keep within their room. It rests on `EndpointsInvariant`, whose `WorkInv` says
  where the verification of an address is, and whose `TimesAreApart` makes the oldest
  endpoint unique. `RelevantEndpointsStay` is the action property `RelevantStay`: to make
  room, no trusted endpoint goes while one is there that is not.
* **Peer manager and subnet limits** (`AccessProofs`). `DirectoryExact`
  (`[]DirectoryIsExact`), with `DirectoryTypeCorrect`: for any peers, pools, addresses and
  limits, the pools' maps, the lookup maps and m_AllPeers agree, the access manager counts
  as many connections from an address as there are peers there (and connections it was
  never told of, `leaked`), and each limit counts the connections of its subnets, as long
  as no two limits share a masked address. `DirectoryInvariant` needs, beside that, that
  whoever adds a peer is the only one who knows it or, once a pool has it, holds the lock on
  it (`AddersAlone`), that m_AllPeers holds
  the members of the pools and those about to be (`MapsAgree`), and that no pool stops
  while a peer is added or about to leave (`StopIsClean`). The code goes over limits,
  connections and, at a shutdown, peers in loops, which the model has as folds: the lemmas
  on `IsFold` say that such a fold is a function of the set gone over so far, and
  `SubsetInduction` that what each step keeps holds at the end. Sums of connections over
  the addresses of a subnet are cardinalities of `Connections`.
* **Key generation** (`NodeProofs`). `TypeCorrect`, `NoDanglingEvent`
  (`[]NoEventForErasedQueue`), `BoundedPool` (`[]PoolIsBounded`), for any algorithms,
  workers and keys. A queue's counter is the number of scheduled events plus the workers
  that hold one for it; a worker holds an event exactly while it is busy, so that none
  does once the threads are gone; and the primary thread only schedules for queues that
  exist while it checks.
* **Peer session** (`PeerSessionProofs`). `TypeCorrect`; `EndsAgreement` (`[]EndsAgree`):
  an end is ready only once each has accepted the other, and as long as an end reads on,
  its counter and the numbers on the wire to it run, modulo `CounterModulus` and without a
  gap, up to the counter of the other end. The invariant ties
  what is under way to the counters of both ends (`Numbered`), and messages to what their
  receiver must have accepted (`WireTold`). It needs no condition on `Priorities`: a
  message of the session has its number only as long as no extender message overtakes it.
  `KeysSettled` (`[]KeysSettle`): at rest both ends encrypt with the keys of the last
  update that was begun, and neither holds a key exchange. Its invariant, `KeyInv`, speaks
  of the two ends as long as neither has a reason to disconnect. `Flight` picks, from what
  is deferred at an end, under way to it and queued for it, the messages of key updates in
  their order; noise and extender messages may lie between them, and other queues overtake
  them. `Position` says which seven combinations the stages of the two ends and these
  messages can be in, and in each which keys are the newest and whether they are used
  already. It is also why an update can begin at one end while the last message of the
  previous one is still on its way to the other. `Effective` looks through a suspension at
  the stage an end goes back to. `KeyRecord` is what one end needs: keys made in
  the handshake, and for a suspended end the stage it kept, or, if a deferred request for
  an update was worked off during the suspension, an answer still queued (`Begun`): such
  an end cannot resume, and is condemned when it tries.
  `ExtendersAgreement` (`[](used.messages = 0 \/ used.suspensions = 0 => ExtendersAgree)`):
  at rest each end knows the list of extenders the other has. `Chain` follows what an end
  knows through the messages deferred at it, under way to it and queued for it, the last
  list among them being what it will know; `Tells` says that this is the list the other end
  has, unless that end has yet to send its session message or an update. The condition is
  that of section 3: with both messages of extenders and a suspension, a list may be lost.
* **Relay** (`RelayProofs`). `TypeCorrect`; `SocketFollows` (`[]SocketFollowsLink`);
  `OneFarewellEach` (`[]OneFarewell`): a connect message is pending only at a host that
  has no link, there is at most one, and whom a host may still tell it has not told;
  `RelayReliable` (`[]RelayIsReliable`), for a chain of any length, any number of event
  threads, any amount of data and any faults. Its invariant has three parts. `WayInv`:
  data flows away from the beginning and acknowledgements towards it, and nothing flows
  before every link has been opened, because a link opens only when all after it have;
  so data that meets no link meets one that was removed. `DataInv`: there are counts
  `f[0] >= f[1] >= ...` of what the beginning has written and each host has passed on;
  at every host whose link has not ended, the queue of its port and the channel to it hold
  the pieces `f[n] .. f[n-1]-1` in order and without a gap. Faults lose pieces only where
  a link has ended or a peer is gone, so the pieces at the end have no gap. `AckInv`:
  likewise counts `h[1] <= h[2] <= ...` of what was acknowledged, between which the
  acknowledgements under way lie in order; they may be lost, so these are bounds. Each
  step is one of nine kinds (`FlowStep`), which the lemmas on actions establish and
  the lemmas on invariants use.
* **Extenders** (`ExtendersProofs`). `TypeCorrect`; `SessionsOrderly`
  (`[]SessionIsOrderly`) and `KnowsPeers` (`[]KnowsItsPeers`), for any number of peers,
  pools, threads and messages, any burst of at least one item, and any settings. `OneToken`
  says where a session is: marked as queued exactly once in the queue of its own pool, or
  with exactly one thread of that pool. `Orderly` then speaks of a session as one
  flow: what was heard of it, what that thread has in hand, what is queued, and what its
  peer is about to hand over follow each other. Events and messages are in two queues, so
  the Connected event could be overtaken by a message when a thread goes past the events
  because its burst is over or it has to stop; `SkipsNothing` says that, with nothing heard
  yet, only a stop makes it do so, and a thread that stops takes no message either.
  `KnowsPeers` needs of each peer (`IsFit`) what the event that its thread is about to hand
  over says of it, and whether the manager has still to tell the extender (`Untold`).
  `HonestKept` (`[]HonestPeerIsKept`) and, with it, `ExtenderServed`
  (`[]ExtenderIsServed`, the conjunction that the run checks): a peer is disconnected for a
  message only if it could have known better. `HonestInv`: the extender is started once
  (`StartsOnce`); when it stops, nobody is about to hand over a message (`QuietAtStop`); and
  whoever may send one is known, or the grace period has not passed (`SenderIsKnown`).
* **Local instance** (`NodeProofs`). `InstanceWhole` (`[]InstanceIsWhole`): all parts run
  or none, whatever fails during a start, and at every step on top of those they need, for
  any callers of which one starts, stops and changes the instance. `InstanceInv` says that
  whoever is between the steps of a call holds `m_Mutex`; `OneCallerInv` says of each such
  step which parts run (`StartedSoFar`, `StoppedSoFar`).
* **Recursive shared mutex** (`AccessProofs`). `MutexTypeCorrect`, `Excludes`
  (`[]Exclusion`), for any threads and limits.

Assumptions on constants are the named `ASSUME`s of the component modules: types, bounds
that the code's settings have (`WindowAssumption`), and what a scenario may consist of.
What is assumed of the environment is in guards: the age of numbers in `UDPTransfer`
(without it a datagram may survive until its number is used again, and `NoFalseAck` is
false), that keys of a handshake last longer than its messages (`KeysExpire` in
`UDPHandshake`), and the delays named in `UDPSuspension`. The code enforces none of these;
its widths and durations are chosen for them.

Not proved:
* all temporal properties other than invariants and the refinement: liveness and
  `ENABLED` are out of the prover's reach;
* `NoHonestPeerIsDropped`: it holds in the run's scenarios and is false for other
  values of the constants that the code can have (section 3 says which, section 5 shows it);
* `ExtendersAgree` without the condition under which `ExtendersAgreement` states it
  (`peer_update.cfg` shows that it is needed).

## 5 Disagreements found

With a run each:
* `keys_stop`: a thread that has just looked at its stop flag sleeps after the only
  notification, and `join` waits for ever. All managers that use `ThreadPool` with
  `ConditionEvent` or `Queue` share this.
* `transfer_last_number`: an accepting end whose Syn has the number 65535 does not take
  note of its acknowledgement when the explicit one is lost (UDPConnectionSendQueue.cpp:146).
* `mtu_change`: messages that wait when the network changes are sent again at their old
  size while fragmentation is off; the send fails and the connection closes.
* `peer_backlog`: a message that waits for room in the receive rate limit is worked off
  while the connection is suspended, and its honest sender is disconnected.
* `extenders_suspended`: an extender that starts while a peer is suspended gets the
  messages of a peer it was never told of.

With a configuration that shows them, not in the list of runs; each has the module and
the property named here:
* `handshake_two_cookies.cfg` (`UDPHandshake`, `SynToConnectionIsDuplicate`): a repeated
  Syn brings two Cookies; for each the connecting end makes another Syn with a new
  number. The second reaches the connection made from the first and is ignored as a
  duplicate (UDPConnection.cpp:1405), which it is not.
* `handshake_interface.cfg` (`UDPHandshake`, `NoUnknownMessage`): a keepalive caused by an
  interface change during a handshake is written with keys the peer does not have yet; if
  it overtakes the Syn, the connecting end closes.
* `peer_update.cfg` (`MCPeerSession`, `ExtendersAgree`): an update of the extender list that
  was deferred is worked off while the connection is suspended; `ProcessPeerExtenderUpdate`
  "shouldn't get here" (Peer.cpp:203), the list is lost, and the peer keeps the old one.
* `peer_leaving.cfg` (`MCPeerSession`, `NobodyIsDropped`): an extender that stops tells its
  peers with a message of normal priority, which overtakes the delayed messages it has sent
  before. The end that receives them then finds that the sender does not have the extender
  (Peer.cpp:1957), does not handle them, and drops an honest peer; the grace period of
  ExtenderManager.cpp:667 ("so that the connection doesn't get closed") is only for an
  extender that has stopped at the receiving end.
* `handshake_moved.cfg` (`UDPHandshake`, `OnlyPeerIsEstablished`): a Syn numbered 0 is
  acknowledged without effect and sent again. If a repeated Syn with a good cookie has made
  a second connection, and that one sends a keepalive for a change of interface, the
  connecting end moves there, and the next Syn establishes a connection that does not have
  its keys.
* `directory_undo.cfg` (`MCAccess`, `AdditionIsUndone`): a peer whose events cannot be
  watched is taken out of its pool's map, exclusively, with the peer locked
  (PeerManager.cpp:634), while threads that found it there hold the map shared and wait for
  it (:298-314, :374-381): none goes on. m_AllPeers is taken in the same order (:598), and
  broadcasts hold it shared in the same way (:1161, :1379); that is not modelled.
* `keys_refill.cfg` (`KeyGeneration`, `QueueIsFilledAgain`): a key taken between its
  generation and the destruction of its event is not replaced.
* `relay_silence.cfg` (`MCRelay`, `SuspensionIsSurvived`): a link that is resumed before the
  relayed peer at its end notices meets that peer suspended on the next pass, and ends
  (RelayManager.cpp:1090-1117). Apart from this, a Suspended status that overtakes
  Connected meets `assert(false)` (RelayLink.h:153); so do closing statuses that meet
  (:167).
* `endpoints_cache.cfg` (`MCAccess`, `CacheIsCurrent`): the cache of trusted addresses is
  not that of the endpoints it is made from (LocalEnvironment.cpp:736).
* `directory_answer.cfg` (`MCAccess`, `AnswerIsExpected`; Local.cpp:1093),
  `directory_overflow.cfg` (`MCAccess` with `MCFairSpec`, `OverflowIsRemoved`;
  IPSubnetLimits.cpp:66), `limits_undo.cfg` (`MCAccess`, `UndoIsPossible`;
  IPSubnetLimits.cpp:307): a callback that answers nobody, a peer beyond a lowered limit
  that is never told to leave, and an undo that follows a null pointer when two limits
  share a masked address.
* `local_environment.cfg` (`MCNode`, `EnvironmentIsInitialized`; LocalEnvironment.cpp:56).

Met while modelling, without a configuration: two peers becoming ready while an extender
starts may announce one of them twice (ExtenderManager.cpp:292, :323, against the
assertion at ExtenderControl.cpp:248); stopping all extenders at once takes no barrier, so
that a callback that waits for the manager never returns; a worker of the instance waits
for the mutex of the Shutdown that joins it (Local.cpp:449); blocking ConnectTo and
DisconnectFrom do not return when the pools stop first (Local.cpp:1094, :1167); a change
notified during `LocalEnvironment::Update` is lost (:60-63); a UDP listener does not look
at whether the address is allowed before it sends a cookie (UDPListenerManager.cpp:340-343);
a TCP accept that failed is handed on (TCPListenerManager.cpp:343); the connection count
of an address is not given back when its pool cannot be told (`leaked`);
`AddMainEvent` returns a handle without marking it in use (EventGroup.h:617), which heals
itself because the worker looks again; "We should never get here"
(PublicEndpoints.cpp:368, :424) can be reached; fragments of a message between which an
expedited message comes are processed as if complete (Peer.cpp:1502).

## 6 What is left out

Of the modelled components: NAT traversal and decoy messages, the congestion window's
arithmetic, message bytes and encryption, fragments of peer messages, the expiry of
replaced keys, random data before transports, broadcasts and queries of the peer manager,
its choice of relays, what a second caller for a reused connection waits for, ports
of public endpoints, startups of the key manager that fail in part, more than one relay
link, more than one extender, the relayed connection's own count of attempts
(AddressAccessControl.cpp:243-255, the same as the other).

Behaviours that are excluded because the code has no answer to them: two subnet limits
that share a masked address share one count (`limits_undo`; `LimitsAreExact` leaves them
out); two `unlock_shared` at the
maximum of 2^32-1 locks may leave a waiter asleep; extender messages with expedited
priority; a peer added while its pools shut down.

Not modelled at all, with reasons in `PROJECT.json`: wrappers of operating system
sockets, formatting and byte-level code, cryptography and compression, configuration,
the API's forwarding classes, memory pools and utilities.

## 7 What could come next

1. `NoHonestPeerIsDropped`: `KeyInv` with what an end must not yet, or no longer, be sent.
2. The relays' choice of peers, fragments of peer messages and broadcasts, to be modelled.

## 8 Running it

In this directory, with the module of each run in `PROJECT.json`:
`tlc -workers 2 -config relay.cfg MCRelay.tla`, `tlapm RelayProofs.tla`.
