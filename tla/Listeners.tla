----------------------------- MODULE Listeners ------------------------------
(* A listener manager: of TCP (Core/TCP/TCPListenerManager.cpp), UDP         *)
(* (Core/UDP/UDPListenerManager.cpp) or Bluetooth                            *)
(* (Core/BTH/BTHListenerManager.cpp).  It has a thread for each address of   *)
(* the node and each port, in a pool (Concurrency/ThreadPool.h); Local calls *)
(* its operations one at a time, while its threads take in connections.      *)
(* What an accepted handshake does is in UDPHandshake, what the addition of  *)
(* a peer does in PeerDirectory.                                             *)
EXTENDS Naturals, FiniteSets

CONSTANTS
    Managers,   \* a subset of {"TCP", "UDP", "BTH"}
    Addresses,  \* addresses of interfaces or radios
    Ports,      \* the ports of the settings
    Remotes,    \* addresses that connect
    MaxFaults, MaxChanges, MaxArrivals, MaxStarts \* bounds

ASSUME ListenersAssumption ==
    /\ IsFiniteSet(Addresses) /\ IsFiniteSet(Ports)
    /\ MaxFaults \in Nat

VARIABLES
    manager,    \* which of the managers this is
    conditional,\* TCP: UseConditionalAcceptFunction
    running,
    threads,    \* [address, port, started, sound]: the pool, and is the socket sound
    services,   \* BTH: <<address, port>> registered with the system
    discoverable,\* BTH: who takes the node for discoverable, of "manager" and "system"
    interfaces, \* addresses that are operational
    seen,       \* those the last operation has read
    damaged,    \* addresses that had a failure, or went away, since an update missed them
    backlog,    \* <<address, port, remote>>: connections, or datagrams, that wait
    allowed,    \* remotes the access configuration allows
    asked,      \* [address, port, remote, current]: connections that a thread was told to
                \* accept and has not given away yet; are the rules still those it asked
    accepted,   \* [connected, permitted, current]: peers given to the peer manager
    replies,    \* UDP: <<address, port, remote>> in the send queues of the listeners
    used        \* [faults, changes, arrivals, starts] so far

listenersVars == <<manager, conditional, running, threads, services, discoverable, interfaces, seen,
          damaged, backlog, allowed, asked, accepted, replies, used>>

Key(t) == <<t.address, t.port>>
Keys == Addresses \X Ports

ListenersTypeOK ==
    /\ manager \in Managers
    /\ {conditional, running} \subseteq BOOLEAN
    /\ discoverable \subseteq {"manager", "system"}
    /\ threads \subseteq [address : Addresses, port : Ports, started : BOOLEAN, sound : BOOLEAN]
    /\ services \subseteq Keys
    /\ {interfaces, seen, damaged} \subseteq SUBSET Addresses
    /\ {backlog, replies} \subseteq SUBSET (Addresses \X Ports \X Remotes)
    /\ allowed \subseteq Remotes
    /\ asked \subseteq [address : Addresses, port : Ports, remote : Remotes, current : BOOLEAN]
    /\ accepted \subseteq [connected : BOOLEAN, permitted : BOOLEAN, current : BOOLEAN]
    /\ used \in [faults : Nat, changes : Nat, arrivals : Nat, starts : Nat]

ListenersInit ==
    /\ manager \in Managers
    /\ conditional \in IF manager = "TCP" THEN BOOLEAN ELSE {FALSE}
    /\ running = FALSE /\ discoverable = {}
    /\ threads = {} /\ services = {} /\ seen = {} /\ damaged = {}
    /\ interfaces \in SUBSET Addresses
    /\ backlog = {} /\ replies = {} /\ asked = {} /\ accepted = {}
    /\ allowed \in SUBSET Remotes
    /\ used = [faults |-> 0, changes |-> 0, arrivals |-> 0, starts |-> 0]

traffic == <<backlog, allowed, asked, accepted, replies>>
network == <<manager, conditional, interfaces>>

-----------------------------------------------------------------------------
(* Threads for addresses.  A failure f hits some keys:                       *)
(*   "refused"    the port cannot be listened on, or its service not         *)
(*                registered: no thread is added;                            *)
(*   "lost"       a Bluetooth listener has its service, and no thread;       *)
(*   "unstarted"  the thread is in the pool, and does not run.               *)

Faults(n) == used.faults + n <= MaxFaults
Failures(keys) ==
    {f \in [how : {"refused", "unstarted"} \cup IF manager = "BTH" THEN {"lost"} ELSE {},
            keys : SUBSET keys] : Faults(Cardinality(f.keys))}

Hit(f, how) == IF f.how = how THEN f.keys ELSE {}
Thread(key, started) ==
    [address |-> key[1], port |-> key[2], started |-> started, sound |-> TRUE]

\* TCP and UDP.
AddListenerThreads(keys, f) ==
    {Thread(k, k \notin Hit(f, "unstarted")) : k \in keys \ Hit(f, "refused")}

\* A Bluetooth listener also registers its service, before its thread is added.
AddBTHListenerThreads(keys, f) == AddListenerThreads(keys \ Hit(f, "lost"), f)
AddServices(keys, f) == keys \ Hit(f, "refused")

\* Threads for addresses that are gone are removed; deleting their services may fail.
\* Mutant: threads stay when their address goes.
RemoveNoListenerThreads == threads

RemoveListenerThreads == {t \in threads : t.address \in interfaces}
Remaining(removed) == {s \in SUBSET {Key(t) : t \in removed} : Faults(Cardinality(s))}
DeleteServices(removed, remaining) == services \ ({Key(t) : t \in removed} \ remaining)

-----------------------------------------------------------------------------
(* Startup, on the addresses that are operational: the pool of an earlier    *)
(* start that failed is cleared, and the threads are started when all are in *)
(* the pool.  One that runs is enough.                                       *)

Operational == interfaces \X Ports
ThreadPoolStarts(f) == Hit(f, "unstarted") = {} \/ \E t \in threads' : t.started

Startup(f) ==
    /\ ~running
    /\ used.starts < MaxStarts
    /\ seen' = interfaces
    /\ running' = ThreadPoolStarts(f)
    /\ damaged' = {k[1] : k \in f.keys}
    /\ used' = [used EXCEPT !.faults = @ + Cardinality(f.keys), !.starts = @ + 1]
    /\ UNCHANGED <<network, traffic>>

StartupTCP ==
    /\ manager = "TCP"
    /\ \E f \in Failures(Operational) :
          threads' = AddListenerThreads(Operational, f) /\ Startup(f)
    /\ UNCHANGED <<services, discoverable>>

\* The cookies are initialized before the threads start; when that fails, none starts.
StartupUDP ==
    /\ manager = "UDP"
    /\ \/ \E f \in Failures(Operational) :
             threads' = AddListenerThreads(Operational, f) /\ Startup(f)
       \/ /\ Faults(1) /\ ~running /\ used.starts < MaxStarts
          /\ threads' = {Thread(k, FALSE) : k \in Operational}
          /\ seen' = interfaces
          /\ used' = [used EXCEPT !.faults = @ + 1, !.starts = @ + 1]
          /\ UNCHANGED <<network, traffic, running, damaged>>
    /\ UNCHANGED <<services, discoverable>>

\* Discovery is switched on once the threads run; that may fail, and the system then stays
\* as it was.  The manager has forgotten what it was before (ResetState).
StartupBTH ==
    /\ manager = "BTH"
    /\ \E f \in Failures(Operational) :
          /\ threads' = AddBTHListenerThreads(Operational, f)
          /\ services' = services \cup AddServices(Operational, f)
          /\ Startup(f)
    /\ \/ discoverable' = discoverable \ {"manager"}
       \/ running' /\ discoverable' = {"manager", "system"}

-----------------------------------------------------------------------------
(* Update, after the interfaces or radios have changed: addresses without    *)
(* any thread get threads, threads without an address are removed.           *)

\* What waits at a listener that is removed goes with it.  A thread is joined: it has given
\* away what it was told to accept.
KeepTraffic ==
    /\ \A a \in asked : \E t \in threads' : Key(t) = Key(a)
    /\ backlog' = {c \in backlog : \E t \in threads' : Key(t) = <<c[1], c[2]>>}
    /\ replies' = {c \in replies : \E t \in threads' : Key(t) = <<c[1], c[2]>>}
    /\ UNCHANGED <<allowed, asked, accepted>>

Unheard == {a \in interfaces : \A t \in threads : t.address # a} \X Ports

Update(f, failures) ==
    /\ running
    /\ seen' = interfaces
    /\ damaged' = ((damaged \cap interfaces) \ {k[1] : k \in Unheard}) \cup {k[1] : k \in f.keys}
    /\ used' = [used EXCEPT !.faults = @ + failures]
    /\ KeepTraffic
    /\ UNCHANGED <<network, running, discoverable>>

UpdateTCP ==
    /\ manager = "TCP"
    /\ \E f \in Failures(Unheard) :
          /\ threads' = RemoveListenerThreads \cup AddListenerThreads(Unheard, f)
          /\ Update(f, Cardinality(f.keys))
    /\ UNCHANGED services

UpdateUDP ==
    /\ manager = "UDP"
    /\ \E f \in Failures(Unheard) :
          /\ threads' = RemoveListenerThreads \cup AddListenerThreads(Unheard, f)
          /\ Update(f, Cardinality(f.keys))
    /\ UNCHANGED services

\* The services of the threads that are removed are deleted.
UpdateBTH ==
    /\ manager = "BTH"
    /\ \E f \in Failures(Unheard), s \in Remaining(threads \ RemoveListenerThreads) :
          /\ Faults(Cardinality(f.keys) + Cardinality(s))
          /\ threads' = RemoveListenerThreads \cup AddBTHListenerThreads(Unheard, f)
          /\ services' = DeleteServices(threads \ RemoveListenerThreads, s)
                            \cup AddServices(Unheard, f)
          /\ Update(f, Cardinality(f.keys) + Cardinality(s))

-----------------------------------------------------------------------------
(* Shutdown: the threads are told, and joined.                               *)

Shutdown ==
    /\ running
    /\ running' = FALSE
    /\ threads' = {}
    /\ KeepTraffic
    /\ UNCHANGED <<network, seen, damaged>>

ShutdownTCP == manager = "TCP" /\ Shutdown /\ UNCHANGED <<services, discoverable, used>>
ShutdownUDP == manager = "UDP" /\ Shutdown /\ UNCHANGED <<services, discoverable, used>>

\* Discovery is switched off, if the manager has switched it on; n = 1: that failed, and the
\* manager forgets it all the same.
DisableDiscovery(n) ==
    /\ n = 1 => "manager" \in discoverable
    /\ discoverable' = IF "manager" \in discoverable /\ n = 0
                       THEN {} ELSE discoverable \ {"manager"}

\* The services of all threads are deleted.
ShutdownBTH ==
    /\ manager = "BTH"
    /\ Shutdown
    /\ \E s \in Remaining(threads), n \in {0, 1} :
          /\ Faults(Cardinality(s) + n)
          /\ DisableDiscovery(n)
          /\ services' = DeleteServices(threads, s)
          /\ used' = [used EXCEPT !.faults = @ + (Cardinality(s) + n)]

-----------------------------------------------------------------------------
(* What the threads do.                                                      *)

\* A thread that was told to accept a connection gives it away before all else.
Busy(t) == \E a \in asked : Key(a) = Key(t)
Listening(t) == running /\ t.started /\ t.sound
Works(t) == Listening(t) /\ ~Busy(t)
Waiting(t) == {c \in backlog : <<c[1], c[2]>> = Key(t)}

\* CanAcceptConnection; AddressReputation says what an attempt does to an address.
CanAcceptConnection(remote) == remote \in allowed

\* The connection is refused, or the thread goes on with it.
AskFirst(c) ==
    /\ asked' = IF CanAcceptConnection(c[3])
                THEN asked \cup {[address |-> c[1], port |-> c[2], remote |-> c[3],
                                  current |-> TRUE]}
                ELSE asked
    /\ UNCHANGED accepted

\* Accept failed, and the peer is given away all the same, without a connection.
GiveUnconnected(c) ==
    /\ accepted' = accepted \cup {[connected |-> FALSE, permitted |-> c[3] \in allowed,
                                   current |-> TRUE]}
    /\ UNCHANGED asked

\* With the conditional function the system asks before it accepts.
AcceptTCP(c) == AskFirst(c) \/ (~conditional /\ GiveUnconnected(c))
AcceptBTH(c) == AskFirst(c) \/ GiveUnconnected(c)

WorkTCP(t) ==
    /\ manager = "TCP" /\ Works(t)
    /\ \E c \in Waiting(t) : backlog' = backlog \ {c} /\ AcceptTCP(c)
    /\ UNCHANGED replies

WorkBTH(t) ==
    /\ manager = "BTH" /\ Works(t)
    /\ \E c \in Waiting(t) : backlog' = backlog \ {c} /\ AcceptBTH(c)
    /\ UNCHANGED replies

\* A datagram asks for a cookie, or comes with one; only then is its sender checked.
ReceiveUDP(t) ==
    /\ manager = "UDP" /\ Works(t)
    /\ \E c \in Waiting(t) :
          /\ backlog' = backlog \ {c}
          /\ \/ replies' = replies \cup {c} /\ UNCHANGED <<asked, accepted>>
             \/ AskFirst(c) /\ UNCHANGED replies

\* What is queued is sent, or dropped when sending fails.
SendUDP(t) ==
    /\ manager = "UDP" /\ Works(t)
    /\ \E c \in replies : <<c[1], c[2]>> = Key(t) /\ replies' = replies \ {c}
    /\ UNCHANGED <<backlog, asked, accepted>>

\* The peer is given to the peer manager, under rules that may have changed since; a UDP
\* connection answers through the send queue of the listener.
HandOn(t) ==
    /\ \E a \in asked :
          /\ Key(a) = Key(t)
          /\ asked' = asked \ {a}
          /\ accepted' = accepted \cup {[connected |-> TRUE, permitted |-> a.remote \in allowed,
                                         current |-> a.current]}
          /\ replies' = IF manager = "UDP"
                        THEN replies \cup {<<a.address, a.port, a.remote>>} ELSE replies
    /\ UNCHANGED backlog

WorkerThreadProcessor(t) ==
    /\ WorkTCP(t) \/ WorkBTH(t) \/ ReceiveUDP(t) \/ SendUDP(t) \/ HandOn(t)
    /\ UNCHANGED <<network, running, threads, services, discoverable, seen, damaged, allowed, used>>

-----------------------------------------------------------------------------
(* The environment: interfaces, remotes, rules.                              *)

Change == used.changes < MaxChanges /\ used' = [used EXCEPT !.changes = @ + 1]

InterfaceUp(a) ==
    /\ a \notin interfaces /\ Change
    /\ interfaces' = interfaces \cup {a}
    /\ UNCHANGED <<manager, conditional, running, threads, services, discoverable, seen, damaged,
                   traffic>>

\* The sockets of an address that goes away have an exception from then on.
InterfaceDown(a) ==
    /\ a \in interfaces /\ Change
    /\ interfaces' = interfaces \ {a}
    /\ threads' = {IF t.address = a THEN [t EXCEPT !.sound = FALSE] ELSE t : t \in threads}
    /\ damaged' = damaged \cup {a}
    /\ backlog' = {c \in backlog : c[1] # a}
    /\ UNCHANGED <<manager, conditional, running, services, discoverable, seen, allowed, asked,
                   accepted, replies>>

Arrive(t, remote) ==
    /\ Listening(t) /\ used.arrivals < MaxArrivals
    /\ backlog' = backlog \cup {<<t.address, t.port, remote>>}
    /\ used' = [used EXCEPT !.arrivals = @ + 1]
    /\ UNCHANGED <<network, running, threads, services, discoverable, seen, damaged, allowed,
                   asked, accepted, replies>>

AccessChanges(remote) ==
    /\ Change
    /\ allowed' = IF remote \in allowed THEN allowed \ {remote} ELSE allowed \cup {remote}
    /\ asked' = {[a EXCEPT !.current = FALSE] : a \in asked}
    /\ UNCHANGED <<network, running, threads, services, discoverable, seen, damaged, backlog,
                   accepted, replies>>

ListenersNext ==
    \/ StartupTCP \/ StartupUDP \/ StartupBTH
    \/ UpdateTCP \/ UpdateUDP \/ UpdateBTH
    \/ ShutdownTCP \/ ShutdownUDP \/ ShutdownBTH
    \/ \E t \in threads : WorkerThreadProcessor(t) \/ \E remote \in Remotes : Arrive(t, remote)
    \/ \E a \in Addresses : InterfaceUp(a) \/ InterfaceDown(a)
    \/ \E remote \in Remotes : AccessChanges(remote)

ListenersSpec == ListenersInit /\ [][ListenersNext]_listenersVars

-----------------------------------------------------------------------------
(* Properties.                                                               *)

\* While the manager runs, it listens on no address that its last update did not see, and
\* on every port of each address that it saw, unless a part of the address failed or the
\* address went away for a time that no update noticed.
ListenersFollow ==
    running => /\ \A t \in threads : t.address \in seen
               /\ \A k \in (seen \ damaged) \X Ports :
                     \E t \in threads : Key(t) = k /\ t.started /\ t.sound

\* The Bluetooth services are those of the threads, except for what failures left behind,
\* and the node is discoverable only while the manager runs, unless a failure left it so.
ServicesFollow ==
    manager = "BTH" => /\ {Key(t) : t \in threads} \subseteq services
                       /\ used.faults = 0 => services = {Key(t) : t \in threads}
                       /\ "manager" \in discoverable => running
                       /\ used.faults = 0 /\ "system" \in discoverable => running

\* A peer that is given to the peer manager with a connection comes from an address that
\* the access configuration allows, unless the configuration was changed between the
\* listener's question and the acceptance.
StrangersStayOut ==
    \A peer \in accepted : peer.connected /\ peer.current => peer.permitted

ListenersAreSound == ListenersFollow /\ ServicesFollow /\ StrangersStayOut
=============================================================================
